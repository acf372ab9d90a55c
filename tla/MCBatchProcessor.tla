-------------------------- MODULE MCBatchProcessor --------------------------
(* Calls and payload sizes for checking BatchProcessor with TLC. *)
EXTENDS BatchProcessor, TLC

CONSTANTS c1, c2, c3, c4

FourCalls == {c1, c2, c3, c4}
TwoCalls == {c1, c2}

\* One payload that is split twice, one that leaves the batch below its size, one
\* that fills it, one that is empty.
MixedSizes == c1 :> 5 @@ c2 :> 1 @@ c3 :> 2 @@ c4 :> 0
TwoSizes == c1 :> 3 @@ c2 :> 1
=============================================================================
