-------------------------- MODULE MCExporterHelper --------------------------
(* Model values and symmetry for checking ExporterHelper with TLC. *)
EXTENDS ExporterHelper, TLC

CONSTANTS r1, r2, r3, w1, w2

TwoRequests == {r1, r2}
ThreeRequests == {r1, r2, r3}
OneWorker == {w1}
TwoWorkers == {w1, w2}
TwoItems == {1, 2}
OneItem == {1}

Symmetry2 == Permutations(TwoRequests) \cup Permutations(TwoWorkers)
Symmetry3 == Permutations(ThreeRequests) \cup Permutations(TwoWorkers)
=============================================================================
