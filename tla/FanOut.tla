------------------------------- MODULE FanOut -------------------------------
(***************************************************************************)
(* A receiver that feeds several pipelines of one data type: the fan-out   *)
(* connector that service/builder puts in between, and in each pipeline a  *)
(* memory limiter, processors that may modify the data, and queued_retry   *)
(* (modules MemoryLimiter and QueuedProcessor).  The connector clones the  *)
(* data if some pipeline declares that it modifies it; data is passed by   *)
(* reference otherwise, and stays on the queues after the receiver's call  *)
(* has returned.                                                           *)
(*                                                                         *)
(* An object is <<d, i>>: the one the receiver made for payload d (i = 0)  *)
(* or the clone given to the i-th pipeline.                                *)
(***************************************************************************)
EXTENDS MemoryLimiter, QueuedProcessor

CONSTANTS
    Order,     \* the pipelines in the order of the connector
    Declares,  \* pipelines with a processor that has MutatesConsumedData
    Modifies   \* pipelines with a processor that does modify its argument

VARIABLES
    call,      \* call[d]: pipelines of Order that have been called
    refused,   \* refused[d]: pipelines that returned an error
    accepted,  \* accepted[d]: pipelines that returned nil
    result,    \* result[d]: what the receiver is told
    touched    \* touched[o]: pipelines whose processors modified object o

fanOutVars == <<limiterVars, queueVars, call, refused, accepted, result, touched>>

N == Len(Order)

\* What a configuration that was loaded guarantees, and the modelling of its processors:
\* the connector has every pipeline once, and whoever modifies data declares that it does.
SettingsOK ==
    /\ Order \in Seq(Branches)
    /\ \A p \in Branches : \E i \in 1..N : Order[i] = p
    /\ \A i, j \in 1..N : Order[i] = Order[j] => i = j
    /\ Limiters \subseteq Branches
    /\ Modifies \subseteq Declares
    /\ {Word, QueueSize} \subseteq Nat
    /\ {AllocLimit, SpikeLimit, Ballast} \cup AllocLevels \subseteq 0 .. (Word - 1)

Objects == Payloads \X (0..N)

FanOutInit ==
    /\ LimiterInit
    /\ QueueInit
    /\ call = [d \in Payloads |-> 0]
    /\ refused = [d \in Payloads |-> {}]
    /\ accepted = [d \in Payloads |-> {}]
    /\ result = [d \in Payloads |-> "none"]
    /\ touched = [o \in Objects |-> {}]

\* Mutant: the capabilities of the last pipeline decide.
CloneIfLastDeclares == N > 1 /\ Order[N] \in Declares

\* buildFanout*Consumer: a cloning connector if any pipeline declares that it modifies.
Cloning == N > 1 /\ \E i \in 1..N : Order[i] \in Declares

\* The last consumer of a cloning connector gets the original.
ObjectGiven(d, i) == IF Cloning /\ i < N THEN <<d, i>> ELSE <<d, 0>>

\* touched after the i-th pipeline was given its object, and its synchronous processors
\* have run on it; a clone starts as a copy of the original.
Processed(d, i) ==
    LET o == ObjectGiven(d, i)
        copied == [touched EXCEPT ![o] = touched[<<d, 0>>]]
    IN  IF Order[i] \in Modifies THEN [copied EXCEPT ![o] = @ \cup {Order[i]}] ELSE copied

\* Pipeline i refuses: the memory limiter is first in the pipeline, and errors go back
\* to the connector, which goes on to the next pipeline.
LimiterRefuses(d) ==
    LET i == call[d] + 1
        p == Order[i]
    IN  /\ call[d] < N
        /\ p \in Limiters /\ forceDrop[p]
        /\ call' = [call EXCEPT ![d] = i]
        /\ refused' = [refused EXCEPT ![d] = @ \cup {p}]
        /\ UNCHANGED <<limiterVars, queueVars, accepted, result, touched>>

QueueRefuses(d) ==
    LET i == call[d] + 1
        p == Order[i]
    IN  /\ call[d] < N
        /\ ~(p \in Limiters /\ forceDrop[p])
        /\ ~CanProduce(p)
        /\ touched' = Processed(d, i)
        /\ call' = [call EXCEPT ![d] = i]
        /\ refused' = [refused EXCEPT ![d] = @ \cup {p}]
        /\ UNCHANGED <<limiterVars, queueVars, accepted, result>>

PipelineAccepts(d) ==
    LET i == call[d] + 1
        p == Order[i]
    IN  /\ call[d] < N
        /\ ~(p \in Limiters /\ forceDrop[p])
        /\ Enqueue(p, QueueItem(d, ObjectGiven(d, i), Items))
        /\ touched' = Processed(d, i)
        /\ call' = [call EXCEPT ![d] = i]
        /\ accepted' = [accepted EXCEPT ![d] = @ \cup {p}]
        /\ UNCHANGED <<limiterVars, refused, result>>

\* CombineErrors.
ReturnErrors(d) ==
    /\ call[d] = N /\ result[d] = "none"
    /\ result' = [result EXCEPT ![d] = IF refused[d] = {} THEN "ok" ELSE "error"]
    /\ UNCHANGED <<limiterVars, queueVars, call, refused, accepted, touched>>

Call(d) == LimiterRefuses(d) \/ QueueRefuses(d) \/ PipelineAccepts(d) \/ ReturnErrors(d)

here == <<call, refused, accepted, result, touched>>

\* ShutdownProcessors: one pipeline after the other, and in a pipeline the processors
\* from the first to the last.
ShutdownPipeline(p) ==
    /\ \A o \in Branches \ {p} : stopPhase[o] \in {"running", "stopped"}
    /\ \A o \in Limiters \ {p} : ~ticking[o] => stopPhase[o] = "stopped"
    /\ \/ p \in Limiters /\ LimiterShutdown(p) /\ UNCHANGED queueVars
       \/ (p \in Limiters => ~ticking[p]) /\ ShutdownStep(p) /\ UNCHANGED limiterVars
    /\ UNCHANGED here

FanOutNext ==
    \/ \E d \in Payloads : Call(d)
    \/ \E p \in Limiters : MemCheck(p) /\ UNCHANGED <<queueVars, here>>
    \/ \E p \in Branches, w \in Workers : WorkerStep(p, w) /\ UNCHANGED <<limiterVars, here>>
    \/ \E p \in Branches : ShutdownPipeline(p)

\* Workers run and a shutdown that has begun goes on; data need not arrive, and a shutdown
\* need not begin.
Fairness ==
    /\ \A p \in Branches, w \in Workers :
           WF_fanOutVars(WorkerStep(p, w) /\ UNCHANGED <<limiterVars, here>>)
    /\ \A p \in Branches :
           WF_fanOutVars((StopQueue(p) \/ StopReturns(p)) /\ UNCHANGED <<limiterVars, here>>)

FanOutSpec == FanOutInit /\ [][FanOutNext]_fanOutVars
FanOutFairSpec == FanOutSpec /\ Fairness

-----------------------------------------------------------------------------

FanOutTypeOK ==
    /\ LimiterTypeOK
    /\ QueueTypeOK
    /\ call \in [Payloads -> 0..N]
    /\ refused \in [Payloads -> SUBSET Branches]
    /\ accepted \in [Payloads -> SUBSET Branches]
    /\ result \in [Payloads -> {"none", "ok", "error"}]
    /\ touched \in [Objects -> SUBSET Branches]

\* A processor that modifies its argument, as it declares, never modifies what another
\* pipeline has been given, although that pipeline may send it much later.
NotModifiedByOthers ==
    \A p \in Branches : \A q \in Waiting(p) \cup Carried(p) : touched[q.object] \subseteq {p}

\* An error of one pipeline does not keep the data from another; the receiver is told if
\* and only if some pipeline refused, and what a pipeline refused never leaves it.
ReceiverTold ==
    \A d \in Payloads : result[d] # "none" =>
        /\ \A p \in Branches : (p \in accepted[d]) # (p \in refused[d])
        /\ (result[d] = "error") = (refused[d] # {})
        /\ \A p \in refused[d] : Held(p, d) = {} /\ exported[p][d] = {}

\* Pipelines behind one connector do not get into each other's way: what one modifies no
\* other has, each is offered the data whatever the others return, the receiver learns of
\* a refusal, and a memory limiter lets data through only with room for a spike.
Isolated == NotModifiedByOthers /\ ReceiverTold /\ RoomForSpike

\* The places in pipeline p where payload d is.
Places(p, d) == {i \in DOMAIN entries[p] : entries[p][i].payload = d}
                  \cup {w \in Workers : worker[p][w].at = "export" /\ worker[p][w].item.payload = d}

\* What a pipeline accepted is on its queue or with one worker, exported, or recorded as
\* dropped: retries and partial errors neither lose nor copy it.  Traces are not sent
\* again after the next consumer accepted them, nor reported as dropped then.
ItemsAccounted ==
    \A p \in Branches, d \in Payloads : p \in accepted[d] =>
        /\ Held(p, d) \cup exported[p][d] \cup dropped[p][d] = Items
        /\ Held(p, d) # {} => dropped[p][d] = {}
        /\ \A x, y \in Places(p, d) : x = y
        /\ DataType = "traces" => exported[p][d] \cap (Held(p, d) \cup dropped[p][d]) = {}

FateOf(p, d) ==
    IF p \in refused[d] THEN "refused"
    ELSE IF p \notin accepted[d] THEN "new"
    ELSE IF Held(p, d) # {} THEN "accepted"
    ELSE IF dropped[p][d] = {} THEN "ok" ELSE "lost"

First == Order[1]
Fate == INSTANCE RequestFate
            WITH Requests <- Payloads, acked <- exported[First],
                 fate <- [d \in Payloads |-> FateOf(First, d)],
                 closed <- stopPhase[First] = "stopped"

\* A pipeline with queued_retry promises the receiver what an exporter with a queue does:
\* data is accepted or refused, decided once, and not sent after Shutdown has returned.
ImplementsFate == Fate!Spec

\* The workers of a queue that was told to stop leave, whatever the next consumer
\* returns and however many items wait: Shutdown returns.
ShutdownsReturn == \A p \in Branches : stopPhase[p] = "closing" ~> stopPhase[p] = "stopped"
=============================================================================
