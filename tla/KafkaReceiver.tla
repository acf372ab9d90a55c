---------------------------- MODULE KafkaReceiver ----------------------------
(***************************************************************************)
(* receiver/kafkareceiver: consumeLoop calls Consume of the consumer group *)
(* (sarama, external) again and again; each call is a session, in which    *)
(* Setup is called once, ConsumeClaim in a goroutine per partition, and    *)
(* Cleanup.  A session ends when one of the claims returns, on a rebalance *)
(* and when the context is cancelled; the marked offsets are committed at  *)
(* its end and now and then.  The process may crash and be started again.  *)
(***************************************************************************)
EXTENDS Naturals, FiniteSets

CONSTANTS
    Partitions,
    MaxOffset,  \* bound: messages of a partition are 0 .. MaxOffset - 1
    MaxStarts   \* bound: starts of the process

VARIABLES
    loop,       \* "down", "join", "session", "ending", "returned", "panicked"
    ready,      \* the channel Start waits for is closed
    cancelled,  \* Shutdown
    claim,      \* claim[p]: where ConsumeClaim is, and the offset of its message
    marked,     \* marked[p]: offset to be committed
    committed,  \* committed[p]: what the broker knows
    delivered,  \* history: delivered[p][o]: times nextConsumer accepted the message
    failed,     \* history: failed[p]: messages whose handling returned an error
    inHand,     \* history: inHand[p]: messages in hand when the process died
    starts,     \* history: starts of the process
    dirty       \* history: times the process died in a session

vars == <<loop, ready, cancelled, claim, marked, committed, delivered, failed, inHand,
          starts, dirty>>

Offsets == 0..(MaxOffset - 1)
NoClaim == [at |-> "ended", offset |-> 0]

Init ==
    /\ loop = "down" /\ ready = FALSE /\ cancelled = FALSE
    /\ claim = [p \in Partitions |-> NoClaim]
    /\ marked = [p \in Partitions |-> 0]
    /\ committed = [p \in Partitions |-> 0]
    /\ delivered = [p \in Partitions |-> [o \in Offsets |-> 0]]
    /\ failed = [p \in Partitions |-> {}]
    /\ inHand = [p \in Partitions |-> {}]
    /\ starts = 0 /\ dirty = 0

history == <<delivered, failed, inHand, starts, dirty>>

\* A process is started, the first or after one that died or was shut down.
Start ==
    /\ loop \in {"down", "returned"} /\ starts < MaxStarts
    /\ loop' = "join"
    /\ ready' = FALSE /\ cancelled' = FALSE
    /\ starts' = starts + 1
    /\ UNCHANGED <<claim, marked, committed, delivered, failed, inHand, dirty>>

\* Consume joins the group and calls Setup, which closes ready: the second time this is
\* a panic.  The claims begin at the committed offsets.
Setup ==
    /\ loop = "join"
    /\ \/ /\ ~ready
          /\ ready' = TRUE
          /\ loop' = "session"
          /\ marked' = committed
          /\ claim' = [p \in Partitions |-> [at |-> "range", offset |-> committed[p]]]
       \/ /\ ready
          /\ loop' = "panicked"
          /\ UNCHANGED <<ready, marked, claim>>
    /\ UNCHANGED <<cancelled, committed, history>>

\* ConsumeClaim takes the next message and marks it before it does anything else.  When the
\* session ends there may still be messages in the channel.
MarkMessage(p) ==
    /\ loop \in {"session", "ending"} /\ claim[p].at = "range" /\ claim[p].offset < MaxOffset
    /\ marked' = [marked EXCEPT ![p] = claim[p].offset + 1]
    /\ claim' = [claim EXCEPT ![p].at = "handle"]
    /\ UNCHANGED <<loop, ready, cancelled, committed, history>>

\* Unmarshal and ConsumeTraces succeed,
Consume(p) ==
    /\ claim[p].at = "handle"
    /\ delivered' = [delivered EXCEPT ![p][claim[p].offset] = @ + 1]
    /\ claim' = [claim EXCEPT ![p] = [at |-> "range", offset |-> @.offset + 1]]
    /\ UNCHANGED <<loop, ready, cancelled, marked, committed, failed, inHand, starts, dirty>>

\* or one of them fails: the claim returns, and the session ends.
ConsumeFails(p) ==
    /\ claim[p].at = "handle"
    /\ failed' = [failed EXCEPT ![p] = @ \cup {claim[p].offset}]
    /\ claim' = [claim EXCEPT ![p].at = "ended"]
    /\ loop' = "ending"
    /\ UNCHANGED <<ready, cancelled, marked, committed, delivered, inHand, starts, dirty>>

\* The channel of messages is closed, and empty, when the session ends.
RangeEnds(p) ==
    /\ loop = "ending" /\ claim[p].at = "range"
    /\ claim' = [claim EXCEPT ![p].at = "ended"]
    /\ UNCHANGED <<loop, ready, cancelled, marked, committed, history>>

Rebalance ==
    /\ loop = "session"
    /\ loop' = "ending"
    /\ UNCHANGED <<ready, cancelled, claim, marked, committed, history>>

AutoCommit(p) ==
    /\ loop \in {"session", "ending"}
    /\ committed' = [committed EXCEPT ![p] = marked[p]]
    /\ UNCHANGED <<loop, ready, cancelled, claim, marked, history>>

\* Mutant: no commit at the end of a session.
SessionEndsUncommitted ==
    /\ loop = "ending" /\ \A p \in Partitions : claim[p].at = "ended"
    /\ committed' = committed
    /\ loop' = IF cancelled THEN "returned" ELSE "join"
    /\ UNCHANGED <<ready, cancelled, claim, marked, history>>

\* Cleanup, the last commit, and consumeLoop looks at the context.
SessionEnds ==
    /\ loop = "ending" /\ \A p \in Partitions : claim[p].at = "ended"
    /\ committed' = marked
    /\ loop' = IF cancelled THEN "returned" ELSE "join"
    /\ UNCHANGED <<ready, cancelled, claim, marked, history>>

\* Shutdown comes after Start, which waits for ready; it ends the session if there is one.
Shutdown ==
    /\ loop \in {"join", "session", "ending"} /\ ready /\ ~cancelled
    /\ cancelled' = TRUE
    /\ loop' = IF loop = "session" THEN "ending" ELSE loop
    /\ UNCHANGED <<ready, claim, marked, committed, history>>

\* Consume returns the context's error instead of joining the group.
JoinFails ==
    /\ loop = "join" /\ cancelled
    /\ loop' = "returned"
    /\ UNCHANGED <<ready, cancelled, claim, marked, committed, history>>

Crash ==
    /\ loop \in {"join", "session", "ending", "panicked"}
    /\ loop' = "down"
    /\ inHand' = [p \in Partitions |->
                     inHand[p] \cup (IF claim[p].at = "handle" THEN {claim[p].offset} ELSE {})]
    /\ claim' = [p \in Partitions |-> NoClaim]
    /\ dirty' = IF loop \in {"session", "ending"} THEN dirty + 1 ELSE dirty
    /\ UNCHANGED <<ready, cancelled, marked, committed, delivered, failed, starts>>

Next ==
    \/ Start \/ Setup \/ Rebalance \/ SessionEnds \/ Shutdown \/ JoinFails \/ Crash
    \/ \E p \in Partitions :
          MarkMessage(p) \/ Consume(p) \/ ConsumeFails(p) \/ RangeEnds(p) \/ AutoCommit(p)

Spec == Init /\ [][Next]_vars

-----------------------------------------------------------------------------

\* A message below the committed offset was passed on, or is the one in hand, or was in
\* hand when its handling failed or the process died: because messages are marked first,
\* each failure and each crash costs at most one message of a partition, and no more.
SkippedOnlyInHand ==
    \A p \in Partitions, o \in Offsets : o < committed[p] =>
        \/ delivered[p][o] > 0
        \/ o \in failed[p] \cup inHand[p]
        \/ claim[p].at = "handle" /\ claim[p].offset = o

\* Sessions end and begin again without a message being passed on twice: only a process
\* that died in a session, before its offsets were committed, repeats messages.
RepeatedOnlyAfterCrash ==
    \A p \in Partitions, o \in Offsets : delivered[p][o] <= 1 + dirty

\* Both: the offsets that are marked and committed cost what was in hand, and no more.
OffsetsRight == SkippedOnlyInHand /\ RepeatedOnlyAfterCrash

\* The comment in consumeLoop: "when a server-side rebalance happens, the consumer
\* session will need to be recreated to get the new claims".
SessionRecreated == loop # "panicked"
=============================================================================
