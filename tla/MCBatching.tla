----------------------------- MODULE MCBatching -----------------------------
(***************************************************************************)
(* The batch processor, the function that splits its payloads and the      *)
(* slices these are made of, checked side by side: a behaviour chooses one *)
(* of them (part) and the others stay in their initial states.             *)
(***************************************************************************)
EXTENDS MCBatchProcessor, PdataSlice

VARIABLES part, input, size, toSplit, result, copied, i, j, pc

splitVars == <<input, size, toSplit, result, copied, i, j, pc>>

\* Every payload of up to two resources with up to two libraries with up to three spans.
Split == INSTANCE SplitTraces
    WITH MaxResources <- 2, MaxLibraries <- 2, MaxSpans <- 3, MaxSize <- 6

AllInit ==
    /\ part \in {"batch", "split", "slice"}
    /\ Init /\ Split!Init /\ SliceInit
    /\ part # "split" => input = <<>> /\ size = 0

SplitStep == part = "split" /\ Split!Next /\ UNCHANGED <<part, vars, sliceVars>>

AllNext ==
    \/ part = "batch" /\ Next /\ UNCHANGED <<part, splitVars, sliceVars>>
    \/ SplitStep
    \/ part = "slice" /\ SliceNext /\ UNCHANGED <<part, vars, splitVars>>

\* In the initial state of the processor nothing that is fair is enabled, so it keeps
\* nobody waiting when it is not chosen.
AllSpec ==
    /\ AllInit
    /\ [][AllNext]_<<part, vars, splitVars, sliceVars>>
    /\ Fairness /\ WF_splitVars(SplitStep)

-----------------------------------------------------------------------------
(* The safety properties of BatchProcessor and PdataSlice have their own names; these     *)
(* are the others.                                                                       *)

\* BatchProcessor: the spans of a payload are sent in the end, and Shutdown returns; the
\* state keeps its types and bounds on the way.
BatchesMove == []TypeOK /\ SpansAreSent /\ ShutdownReturns

\* SplitTraces: splitTrace returns; its result has the last spans, with their resource and
\* library, and the argument keeps the others.
SplitRight ==
    /\ [](Split!TakesTheEnd /\ Split!ContextKept)
    /\ part = "split" ~> pc = "returned"
=============================================================================
