--------------------------- MODULE MemoryLimiter ---------------------------
(***************************************************************************)
(* processor/memorylimiter: a goroutine compares the memory in use with a  *)
(* limit at every tick and sets a flag; consumers refuse data while the    *)
(* flag is set.  Memory is measured in units in which the limits are whole *)
(* numbers; what runtime.ReadMemStats returns is any of AllocLevels.       *)
(* Subtraction of these unsigned numbers wraps around.                     *)
(***************************************************************************)
EXTENDS Naturals

CONSTANTS
    Limiters,   \* the processors, by the pipeline they are in
    AllocLimit, \* memAllocLimit, more than 0
    SpikeLimit, \* memSpikeLimit, less than AllocLimit
    Ballast,    \* ballastSize
    Word,       \* 2^64 bytes: unsigned numbers are 0 .. Word - 1
    AllocLevels \* amounts of memory that may be in use

VARIABLES
    forceDrop,  \* forceDrop[p]: the flag
    ticking,    \* ticking[p]: the ticker has not been stopped
    seen        \* history: seen[p]: the memory in use at the last check

limiterVars == <<forceDrop, ticking, seen>>

LimiterInit ==
    /\ forceDrop = [p \in Limiters |-> FALSE]
    /\ ticking = [p \in Limiters |-> TRUE]
    /\ seen = [p \in Limiters |-> 0]

\* Subtraction of unsigned numbers.
Minus(a, b) == IF b <= a THEN a - b ELSE a + Word - b

\* readMemStats: a ballast larger than the heap is a mistake in the configuration and is
\* not subtracted.
WithoutBallast(alloc) == IF alloc >= Ballast THEN Minus(alloc, Ballast) ELSE alloc

ShouldForceDrop(alloc) == AllocLimit <= alloc \/ Minus(AllocLimit, alloc) <= SpikeLimit

\* memCheck, on every tick; the forced garbage collection shows in the next check.
MemCheck(p) ==
    /\ ticking[p]
    /\ \E alloc \in AllocLevels :
          /\ forceDrop' = [forceDrop EXCEPT ![p] = ShouldForceDrop(WithoutBallast(alloc))]
          /\ seen' = [seen EXCEPT ![p] = alloc]
    /\ UNCHANGED ticking

\* shutdown stops the ticker; the goroutine stays and the flag keeps its value.
LimiterShutdown(p) ==
    /\ ticking[p]
    /\ ticking' = [ticking EXCEPT ![p] = FALSE]
    /\ UNCHANGED <<forceDrop, seen>>

LimiterTypeOK ==
    /\ forceDrop \in [Limiters -> BOOLEAN]
    /\ ticking \in [Limiters -> BOOLEAN]
    /\ seen \in [Limiters -> AllocLevels \cup {0}]

\* Data is let through only if, at the last check, what the program used besides the
\* ballast left more than the spike limit free, however the ballast is configured: no subtraction wraps around.
RoomForSpike ==
    \A p \in Limiters :
        ~forceDrop[p] => (seen[p] <= Ballast \/ seen[p] - Ballast + SpikeLimit < AllocLimit)
============================================================================
