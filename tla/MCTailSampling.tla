---------------------------- MODULE MCTailSampling --------------------------
(* With room for one trace, t1 is dropped for t2 and comes back in call c2. *)
EXTENDS TailSampling, TLC

CONSTANTS c1, c2, t1, t2

MCCalls == {c1, c2}
MCTraces == {t1, t2}
MCPayload == c1 :> {t1} @@ c2 :> {t1, t2}
MCPolicy == <<"attribute", "rate", "always">>
MCMatching == {<<c2, t1>>}

-----------------------------------------------------------------------------

\* Calls return, and every trace stored is decided or dropped.
TracesMove == CallsReturn /\ DecidedOrDropped
=============================================================================
