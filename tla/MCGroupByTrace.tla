--------------------------- MODULE MCGroupByTrace ---------------------------
(* Traces, batches and calls for checking GroupByTrace with TLC. *)
EXTENDS GroupByTrace, TLC

CONSTANTS t1, t2, t3, b1, b2, b3, b4, c1, c2, c3

ThreeTraces == {t1, t2, t3}
TwoTraces == {t1, t2}
FourBatches == {b1, b2, b3, b4}
ThreeBatches == {b1, b2, b3}
ThreeCalls == {c1, c2, c3}

\* Every trace arrives in one call, t1 with two batches.
OnceTraceOf == b1 :> t1 @@ b2 :> t1 @@ b3 :> t2 @@ b4 :> t3
OncePayload == c1 :> <<b1, b2>> @@ c2 :> <<b3>> @@ c3 :> <<b4>>

\* Trace t1 arrives again, in a later call, after another trace.
AgainTraceOf == b1 :> t1 @@ b2 :> t2 @@ b3 :> t1
AgainPayload == c1 :> <<b1>> @@ c2 :> <<b2>> @@ c3 :> <<b3>>

\* Trace t1 comes with two batches and grows in a later call, which may find it
\* in the ring, leaving, gone or evicted by t2.
GrowingTraceOf == b1 :> t1 @@ b2 :> t1 @@ b3 :> t1 @@ b4 :> t2
GrowingPayload == c1 :> <<b1, b2>> @@ c2 :> <<b3>> @@ c3 :> <<b4>>

-----------------------------------------------------------------------------

\* Every trace is delivered, refused or evicted, the storage is emptied, and Shutdown
\* returns; the state keeps its types and bounds on the way.
TracesMove == []TypeOK /\ TraceLeaves /\ StorageDrains /\ ShutdownReturns
=============================================================================
