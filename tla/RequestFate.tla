----------------------------- MODULE RequestFate -----------------------------
(***************************************************************************)
(* What an exporter built on exporterhelper promises to the pipeline that  *)
(* calls it, with no queue, worker, retry or back-off in sight: a request  *)
(* is either refused at the door or accepted; the back end acknowledges    *)
(* items of an accepted request; the request is decided at most once, and  *)
(* only as "ok" when every one of its items has been acknowledged; after   *)
(* the exporter is closed nothing more is accepted or acknowledged.        *)
(*                                                                         *)
(* An accepted request need not be decided: a request that is still queued *)
(* when the exporter closes stays accepted for ever.                       *)
(***************************************************************************)

CONSTANTS
    Requests,   \* the requests the pipeline submits
    Items       \* the items (spans, points, records) each of them carries

VARIABLES
    fate,       \* fate[r]: what is known about request r
    acked,      \* acked[r]: items of r the back end has acknowledged
    closed      \* the wrapped exporter has been shut down

vars == <<fate, acked, closed>>

Fates == {"new", "accepted", "refused", "ok", "lost"}

Init ==
    /\ fate = [r \in Requests |-> "new"]
    /\ acked = [r \in Requests |-> {}]
    /\ closed = FALSE

Refuse(r) ==
    /\ fate[r] = "new"
    /\ fate' = [fate EXCEPT ![r] = "refused"]
    /\ UNCHANGED <<acked, closed>>

Accept(r) ==
    /\ ~closed
    /\ fate[r] = "new"
    /\ fate' = [fate EXCEPT ![r] = "accepted"]
    /\ UNCHANGED <<acked, closed>>

\* The back end acknowledges some items and the request stays open.
Acknowledge(r) ==
    /\ ~closed
    /\ fate[r] = "accepted"
    /\ \E got \in SUBSET Items : acked' = [acked EXCEPT ![r] = @ \cup got]
    /\ UNCHANGED <<fate, closed>>

\* The back end acknowledges what was left.
Complete(r) ==
    /\ ~closed
    /\ fate[r] = "accepted"
    /\ acked' = [acked EXCEPT ![r] = Items]
    /\ fate' = [fate EXCEPT ![r] = "ok"]
    /\ UNCHANGED closed

\* The request is given up, possibly after a last partial acknowledgement.
GiveUp(r) ==
    /\ ~closed
    /\ fate[r] = "accepted"
    /\ \E got \in SUBSET Items : acked' = [acked EXCEPT ![r] = @ \cup got]
    /\ fate' = [fate EXCEPT ![r] = "lost"]
    /\ UNCHANGED closed

\* Shutdown interrupts any number of requests in one step.
GiveUpAll(S) ==
    /\ ~closed
    /\ S # {}
    /\ \A r \in S : fate[r] = "accepted"
    /\ fate' = [r \in Requests |-> IF r \in S THEN "lost" ELSE fate[r]]
    /\ UNCHANGED <<acked, closed>>

Close ==
    /\ ~closed
    /\ closed' = TRUE
    /\ UNCHANGED <<fate, acked>>

Next ==
    \/ \E r \in Requests :
          Refuse(r) \/ Accept(r) \/ Acknowledge(r) \/ Complete(r) \/ GiveUp(r)
    \/ \E S \in SUBSET Requests : GiveUpAll(S)
    \/ Close

Spec == Init /\ [][Next]_vars
=============================================================================
