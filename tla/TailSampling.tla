---------------------------- MODULE TailSampling ----------------------------
(***************************************************************************)
(* processor/samplingprocessor/tailsamplingprocessor: spans are kept until *)
(* a decision about their trace is taken, decision_wait after the first of *)
(* them, by a list of policies; later spans follow the decision.  Callers  *)
(* of ConsumeTraces share with the goroutine of the policy ticker the map  *)
(* idToTrace, the TraceData it points to, and the id batcher, which delays *)
(* an id by a fixed number of ticks.  A channel of num_traces entries says *)
(* which trace a new one replaces.                                         *)
(*                                                                         *)
(* A call is one processTraces: the spans of one trace in it are a batch   *)
(* <<c, t>>.  The TraceData that call c stored for t is named <<c, t>> as  *)
(* well; a batch counts as one span.  Decisions are written without the    *)
(* lock of the TraceData that callers hold to read them; they are words,   *)
(* so a read returns the old or the new value.                             *)
(***************************************************************************)
EXTENDS Naturals, Sequences, FiniteSets

CONSTANTS
    Calls,         \* calls of processTraces
    Traces,        \* trace ids
    Payload,       \* Payload[c]: the traces of call c
    NumTraces,     \* num_traces, at least 1: with 0 the first call waits for ever
    NumBatches,    \* decision_wait in seconds, at least 1
    ChannelSize,   \* capacity of pendingIds
    Policy,        \* Policy[p]: "always", "attribute" or "rate", p in 1..n
    Matching,      \* batches with an attribute the "attribute" policies look for
    SpansPerSecond \* limit of the "rate" policies

Policies == DOMAIN Policy
Batches == {b \in Calls \X Traces : b[2] \in Payload[b[1]]}
None == <<>>
Decision == {"Pending", "Sampled", "NotSampled"}

\* idbatcher.New refuses a pipeline of no batches.  Configurations without a policy, in
\* which nothing is ever decided, are left out.
ASSUME TailSamplingAssumption ==
    /\ IsFiniteSet(Calls)
    /\ IsFiniteSet(Traces) /\ None \notin Traces
    /\ Payload \in [Calls -> SUBSET Traces]
    /\ NumTraces \in Nat
    /\ NumBatches \in Nat \ {0}
    /\ ChannelSize \in Nat
    /\ Policy \in Seq({"always", "attribute", "rate"}) /\ Policy # <<>>
    /\ SpansPerSecond \in Nat

VARIABLES
    started,        \* the first ConsumeTraces has started the ticker
    idToTrace,      \* the TraceData of a trace, or None
    decisions,      \* Decisions of a TraceData
    received,       \* ReceivedBatches of a TraceData
    spanCount,      \* SpanCount of a TraceData
    numTracesOnMap,
    deleteChan,
    pendingIds,     \* the channel, with the id its reader has taken last
    currentBatch,
    batches,        \* the pipeline of batches of ids
    inSecond,       \* spansInCurrentSecond of a rate policy
    caller,         \* caller[c]: where call c is, with its locals
    ticker,         \* where the ticker's goroutine is, with its locals
    forwarded,      \* forwarded[b][p]: times nextConsumer got b for policy p
    object,         \* history: object[b]: the TraceData b was handled with
    age,            \* history: ticks a TraceData has seen, up to NumBatches + 1
    evicted         \* history: TraceData deleted from the map

shared == <<idToTrace, decisions, received, spanCount>>
batcher == <<pendingIds, currentBatch, batches>>
vars == <<started, shared, numTracesOnMap, deleteChan, batcher, inSecond, caller,
          ticker, forwarded, object, age, evicted>>

\* Locals: todo, the traces of the payload that remain (a Go map: any order); t, the
\* current one; p, the policy; victim, the id taken from deleteChan.
IdleCaller == [at |-> "idle", todo |-> {}, t |-> None, p |-> 1, victim |-> None]

\* ids, what remains of the batch of ids (when empty the ticker waits); o, the TraceData;
\* p, the policy; result, what Evaluate returned.
IdleTicker == [at |-> "load", ids |-> <<>>, o |-> None, p |-> 1, result |-> "Pending"]

Init ==
    /\ started = FALSE
    /\ idToTrace = [t \in Traces |-> None]
    /\ decisions = [o \in Batches |-> [p \in Policies |-> "Pending"]]
    /\ received = [o \in Batches |-> <<>>]
    /\ spanCount = [o \in Batches |-> 0]
    /\ numTracesOnMap = 0
    /\ deleteChan = <<>>
    /\ pendingIds = <<>>
    /\ currentBatch = <<>>
    /\ batches = [i \in 1..NumBatches |-> <<>>]
    /\ inSecond = [p \in Policies |-> 0]
    /\ caller = [c \in Calls |-> IdleCaller]
    /\ ticker = IdleTicker
    /\ forwarded = [b \in Batches |-> [p \in Policies |-> 0]]
    /\ object = [b \in Batches |-> None]
    /\ age = [o \in Batches |-> 0]
    /\ evicted = {}

-----------------------------------------------------------------------------
(* Callers. *)

Goto(c, rec) == caller' = [caller EXCEPT ![c] = rec]
At(c, step) == caller[c].at = step

ConsumeTraces(c) ==
    /\ At(c, "idle")
    /\ started' = TRUE
    /\ Goto(c, [caller[c] EXCEPT !.at = "loop", !.todo = Payload[c]])
    /\ UNCHANGED <<shared, numTracesOnMap, deleteChan, batcher, inSecond, ticker,
                   forwarded, object, age, evicted>>

\* One iteration begins: LoadOrStore, and SpanCount of what it returned.
LoadOrStore(c, t) ==
    LET loaded == idToTrace[t] # None
        o == IF loaded THEN idToTrace[t] ELSE <<c, t>>
    IN  /\ At(c, "loop") /\ t \in caller[c].todo
        /\ idToTrace' = [idToTrace EXCEPT ![t] = o]
        /\ spanCount' = [spanCount EXCEPT ![o] = @ + 1]
        /\ object' = [object EXCEPT ![<<c, t>>] = o]
        /\ Goto(c, [caller[c] EXCEPT !.at = IF loaded THEN "policy" ELSE "add",
                                     !.t = t, !.todo = @ \ {t}])
        /\ UNCHANGED <<started, decisions, received, numTracesOnMap, deleteChan,
                       batcher, inSecond, ticker, forwarded, age, evicted>>

\* AddToCurrentBatch waits for room (the reader of pendingIds may hold one more id); then
\* the trace is counted.
AddToCurrentBatch(c) ==
    /\ At(c, "add")
    /\ Len(pendingIds) <= ChannelSize
    /\ pendingIds' = Append(pendingIds, caller[c].t)
    /\ numTracesOnMap' = numTracesOnMap + 1
    /\ Goto(c, [caller[c] EXCEPT !.at = "post"])
    /\ UNCHANGED <<started, shared, deleteChan, currentBatch, batches, inSecond, ticker,
                   forwarded, object, age, evicted>>

\* Mutant: the caller waits for room instead of making it.
PostWithoutDropping(c) ==
    /\ At(c, "post")
    /\ Len(deleteChan) < NumTraces
    /\ deleteChan' = Append(deleteChan, caller[c].t)
    /\ Goto(c, [caller[c] EXCEPT !.at = "policy"])
    /\ UNCHANGED <<started, shared, numTracesOnMap, batcher, inSecond, ticker,
                   forwarded, object, age, evicted>>

\* The select: the id is posted, or the default case waits for the oldest one.
PostDeletion(c) ==
    /\ At(c, "post")
    /\ \/ /\ Len(deleteChan) < NumTraces
          /\ deleteChan' = Append(deleteChan, caller[c].t)
          /\ Goto(c, [caller[c] EXCEPT !.at = "policy"])
       \/ /\ Len(deleteChan) >= NumTraces
          /\ deleteChan' = deleteChan
          /\ Goto(c, [caller[c] EXCEPT !.at = "take"])
    /\ UNCHANGED <<started, shared, numTracesOnMap, batcher, inSecond, ticker,
                   forwarded, object, age, evicted>>

TakeOldest(c) ==
    /\ At(c, "take")
    /\ deleteChan # <<>>
    /\ deleteChan' = Tail(deleteChan)
    /\ Goto(c, [caller[c] EXCEPT !.at = "drop", !.victim = Head(deleteChan)])
    /\ UNCHANGED <<started, shared, numTracesOnMap, batcher, inSecond, ticker,
                   forwarded, object, age, evicted>>

\* Mutant: the counter is not decremented.
DropTraceUncounted(c) ==
    LET t == caller[c].victim
    IN  /\ At(c, "drop")
        /\ idToTrace' = [idToTrace EXCEPT ![t] = None]
        /\ evicted' = evicted \cup {idToTrace[t]}
        /\ Goto(c, [caller[c] EXCEPT !.at = "post", !.victim = None])
        /\ UNCHANGED <<started, decisions, received, spanCount, numTracesOnMap, deleteChan,
                       batcher, inSecond, ticker, forwarded, object, age>>

\* dropTrace.  Nobody else deletes the victim, so its Load and Delete are one step;
\* OnDroppedSpans of the policies has no effect.
DropTrace(c) ==
    LET t == caller[c].victim
    IN  /\ At(c, "drop")
        /\ IF idToTrace[t] # None
           THEN /\ idToTrace' = [idToTrace EXCEPT ![t] = None]
                /\ numTracesOnMap' = numTracesOnMap - 1
                /\ evicted' = evicted \cup {idToTrace[t]}
           ELSE UNCHANGED <<idToTrace, numTracesOnMap, evicted>>
        /\ Goto(c, [caller[c] EXCEPT !.at = "post", !.victim = None])
        /\ UNCHANGED <<started, decisions, received, spanCount, deleteChan, batcher,
                       inSecond, ticker, forwarded, object, age>>

\* The next policy, or the next trace of the payload; the call returns after the last.
NextPolicy(c) ==
    IF caller[c].p < Len(Policy) THEN [caller[c] EXCEPT !.p = @ + 1]
    ELSE [caller[c] EXCEPT !.at = "loop", !.t = None, !.p = 1]

\* Mutant: a batch passed on for one policy is not offered to the next.
ForPolicyStops(c) ==
    LET b == <<c, caller[c].t>>
        o == object[b]
        d == decisions[o][caller[c].p]
    IN  /\ At(c, "policy")
        /\ Goto(c, IF d = "NotSampled" THEN NextPolicy(c)
                   ELSE [caller[c] EXCEPT !.at = "loop", !.t = None, !.p = 1])
        /\ received' = IF d = "Pending" THEN [received EXCEPT ![o] = Append(@, b)]
                       ELSE received
        /\ forwarded' = IF d = "Sampled"
                        THEN [forwarded EXCEPT ![b][caller[c].p] = @ + 1] ELSE forwarded
        /\ UNCHANGED <<started, idToTrace, decisions, spanCount, numTracesOnMap,
                       deleteChan, batcher, inSecond, ticker, object, age, evicted>>

\* The policy loop: the first pending policy gets the batch, for all that follow; a
\* policy that sampled the trace gets it at once, to nextConsumer.
ForPolicy(c) ==
    LET b == <<c, caller[c].t>>
        o == object[b]
        d == decisions[o][caller[c].p]
    IN  /\ At(c, "policy")
        /\ \/ /\ d = "Pending"
              /\ received' = [received EXCEPT ![o] = Append(@, b)]
              /\ Goto(c, [caller[c] EXCEPT !.at = "loop", !.t = None, !.p = 1])
              /\ forwarded' = forwarded
           \/ /\ d = "Sampled"
              /\ forwarded' = [forwarded EXCEPT ![b][caller[c].p] = @ + 1]
              /\ Goto(c, NextPolicy(c))
              /\ received' = received
           \/ /\ d = "NotSampled"
              /\ Goto(c, NextPolicy(c))
              /\ UNCHANGED <<received, forwarded>>
        /\ UNCHANGED <<started, idToTrace, decisions, spanCount, numTracesOnMap,
                       deleteChan, batcher, inSecond, ticker, object, age, evicted>>

-----------------------------------------------------------------------------
(* The goroutine of the id batcher, and the ticker. *)

FillCurrentBatch ==
    /\ pendingIds # <<>>
    /\ pendingIds' = Tail(pendingIds)
    /\ currentBatch' = Append(currentBatch, Head(pendingIds))
    /\ UNCHANGED <<started, shared, numTracesOnMap, deleteChan, batches, inSecond,
                   caller, ticker, forwarded, object, age, evicted>>

\* Mutant: the current batch is handed out instead of the first.
TickTakesCurrent ==
    /\ started /\ ticker.at = "load" /\ ticker.ids = <<>>
    /\ currentBatch' = <<>>
    /\ ticker' = [ticker EXCEPT !.ids = currentBatch]
    /\ age' = [o \in Batches |-> IF object[o] = o /\ age[o] <= NumBatches
                                 THEN age[o] + 1 ELSE age[o]]
    /\ UNCHANGED <<started, shared, numTracesOnMap, deleteChan, pendingIds, batches,
                   inSecond, caller, forwarded, object, evicted>>

\* CloseCurrentAndTakeFirstBatch: only the ticker uses the pipeline.
Tick ==
    /\ started /\ ticker.at = "load" /\ ticker.ids = <<>>
    /\ batches' = Append(Tail(batches), currentBatch)
    /\ currentBatch' = <<>>
    /\ ticker' = [ticker EXCEPT !.ids = Head(batches)]
    /\ age' = [o \in Batches |-> IF object[o] = o /\ age[o] <= NumBatches
                                 THEN age[o] + 1 ELSE age[o]]
    /\ UNCHANGED <<started, shared, numTracesOnMap, deleteChan, pendingIds, inSecond,
                   caller, forwarded, object, evicted>>

\* The next id of the batch; one that is no longer on the map is skipped.
LoadTrace ==
    /\ ticker.at = "load" /\ ticker.ids # <<>>
    /\ LET o == idToTrace[Head(ticker.ids)]
       IN  ticker' = IF o = None THEN [ticker EXCEPT !.ids = Tail(@)]
                     ELSE [ticker EXCEPT !.at = "evaluate", !.ids = Tail(@), !.o = o]
    /\ UNCHANGED <<started, shared, numTracesOnMap, deleteChan, batcher, inSecond,
                   caller, forwarded, object, age, evicted>>

\* alwaysSample; string and numeric attribute filters; rateLimiting, for which the
\* second may have changed since it was asked last.
EvaluateAlways == /\ ticker' = [ticker EXCEPT !.at = "assign", !.result = "Sampled"]
                  /\ inSecond' = inSecond

EvaluateAttribute ==
    LET found == \E i \in DOMAIN received[ticker.o] : received[ticker.o][i] \in Matching
    IN  /\ ticker' = [ticker EXCEPT !.at = "assign",
                                   !.result = IF found THEN "Sampled" ELSE "NotSampled"]
        /\ inSecond' = inSecond

EvaluateRate ==
    \E before \in {0, inSecond[ticker.p]} :
        LET ifSampled == before + spanCount[ticker.o]
            sampled == ifSampled < SpansPerSecond
        IN  /\ inSecond' = [inSecond EXCEPT ![ticker.p] = IF sampled THEN ifSampled ELSE before]
            /\ ticker' = [ticker EXCEPT !.at = "assign",
                                       !.result = IF sampled THEN "Sampled" ELSE "NotSampled"]

Evaluate ==
    /\ ticker.at = "evaluate"
    /\ \/ Policy[ticker.p] = "always" /\ EvaluateAlways
       \/ Policy[ticker.p] = "attribute" /\ EvaluateAttribute
       \/ Policy[ticker.p] = "rate" /\ EvaluateRate
    /\ UNCHANGED <<started, shared, numTracesOnMap, deleteChan, batcher, caller,
                   forwarded, object, age, evicted>>

\* The ticker goes on to the next policy, or to the removal of the batches.
AfterPolicy == IF ticker.p < Len(Policy)
               THEN [ticker EXCEPT !.at = "evaluate", !.p = @ + 1, !.result = "Pending"]
               ELSE [ticker EXCEPT !.at = "clear", !.result = "Pending"]

\* The decision is written without the lock.
WriteDecision ==
    /\ ticker.at = "assign"
    /\ decisions' = [decisions EXCEPT ![ticker.o][ticker.p] = ticker.result]
    /\ ticker' = IF ticker.result = "Sampled" THEN [ticker EXCEPT !.at = "copy"]
                 ELSE AfterPolicy
    /\ UNCHANGED <<started, idToTrace, received, spanCount, numTracesOnMap, deleteChan,
                   batcher, inSecond, caller, forwarded, object, age, evicted>>

\* Under the lock the slice is copied; then its batches go to nextConsumer, whose
\* errors are ignored.
ForwardReceived ==
    /\ ticker.at = "copy"
    /\ forwarded' = [b \in Batches |-> [forwarded[b] EXCEPT ![ticker.p] =
                        @ + Cardinality({i \in DOMAIN received[ticker.o] :
                                            received[ticker.o][i] = b})]]
    /\ ticker' = AfterPolicy
    /\ UNCHANGED <<started, shared, numTracesOnMap, deleteChan, batcher, inSecond,
                   caller, object, age, evicted>>

RemoveBatches ==
    /\ ticker.at = "clear"
    /\ received' = [received EXCEPT ![ticker.o] = <<>>]
    /\ ticker' = [ticker EXCEPT !.at = "load", !.o = None, !.p = 1]
    /\ UNCHANGED <<started, idToTrace, decisions, spanCount, numTracesOnMap, deleteChan,
                   batcher, inSecond, caller, forwarded, object, age, evicted>>

-----------------------------------------------------------------------------

CallerStep(c) ==
    \/ \E t \in Traces : LoadOrStore(c, t)
    \/ AddToCurrentBatch(c) \/ PostDeletion(c) \/ TakeOldest(c)
    \/ DropTrace(c) \/ ForPolicy(c)

TickerStep ==
    \/ Tick \/ LoadTrace \/ Evaluate \/ WriteDecision \/ ForwardReceived \/ RemoveBatches

Next ==
    \/ \E c \in Calls : ConsumeTraces(c) \/ CallerStep(c)
    \/ FillCurrentBatch
    \/ TickerStep

\* The scheduler runs every goroutine that can go on, and the ticker never stops.
Fairness ==
    /\ \A c \in Calls : WF_vars(CallerStep(c))
    /\ WF_vars(FillCurrentBatch)
    /\ WF_vars(TickerStep)

Spec == Init /\ [][Next]_vars
FairSpec == Spec /\ Fairness

-----------------------------------------------------------------------------

TypeOK ==
    /\ started \in BOOLEAN
    /\ idToTrace \in [Traces -> Batches \cup {None}]
    /\ decisions \in [Batches -> [Policies -> Decision]]
    /\ received \in [Batches -> Seq(Batches)]
    /\ spanCount \in [Batches -> Nat]
    /\ numTracesOnMap \in Nat
    /\ deleteChan \in Seq(Traces) /\ Len(deleteChan) <= NumTraces
    /\ pendingIds \in Seq(Traces) /\ Len(pendingIds) <= ChannelSize + 1
    /\ currentBatch \in Seq(Traces)
    /\ batches \in Seq(Seq(Traces)) /\ Len(batches) = NumBatches
    /\ inSecond \in [Policies -> Nat]
    /\ caller \in [Calls -> [at : {"idle", "loop", "add", "post", "take", "drop", "policy"},
                             todo : SUBSET Traces, t : Traces \cup {None}, p : Policies,
                             victim : Traces \cup {None}]]
    /\ ticker \in [at : {"load", "evaluate", "assign", "copy", "clear"},
                   ids : Seq(Traces), o : Batches \cup {None}, p : Policies,
                   result : Decision]
    /\ forwarded \in [Batches -> [Policies -> Nat]]
    /\ object \in [Batches -> Batches \cup {None}]
    /\ age \in [Batches -> 0..(NumBatches + 1)]
    /\ evicted \subseteq Batches

OnMap == {t \in Traces : idToTrace[t] # None}
Creating(c) == caller[c].at \in {"add", "post", "take", "drop"}

\* Those who can still have t deleted: its entries in deleteChan, the callers that took
\* it from there, the callers that stored it and have not posted it.
Deleters(t) ==
    Cardinality({i \in DOMAIN deleteChan : deleteChan[i] = t})
      + Cardinality({c \in Calls : caller[c].victim = t})
      + Cardinality({c \in Calls : Creating(c) /\ caller[c].t = t})

\* Every trace on the map will be deleted by exactly one caller and no other trace will
\* be (dropTrace's "Attempt to delete traceID not on table" never happens), the counter
\* numTracesOnMap lags the map by the callers between LoadOrStore and the addition only,
\* and the map exceeds num_traces by no more than two traces per caller in progress.
MapAccounted ==
    /\ \A t \in Traces : Deleters(t) = (IF t \in OnMap THEN 1 ELSE 0)
    /\ numTracesOnMap + Cardinality({c \in Calls : At(c, "add")})
         = Cardinality(OnMap)
    /\ Cardinality(OnMap) <= NumTraces + 2 * Cardinality({c \in Calls : Creating(c)})

\* The state has its types and bounds, and the map of traces is accounted for: one caller
\* will delete each trace of it, and the counter lags by the callers in progress only.
MapSound == TypeOK /\ MapAccounted

\* TraceData whose trace had another TraceData before: the id left behind in the batcher
\* has the new one evaluated early, and a second time.
Returned(o) == \E d \in evicted : d # o /\ d[2] = o[2]

Handled(b) == object[b] # None /\ caller[b[1]].t # b[2]

\* When the ticker is not at work on a trace, a policy that sampled it has passed on all
\* batches it arrived in, whether they came before, during or after the decision, and one
\* that did not has passed on none; while it is pending all of them are kept.
SampledWhole ==
    \A b \in Batches :
        (Handled(b) /\ ticker.o # object[b] /\ ~Returned(object[b])) =>
            \A p \in Policies :
                LET d == decisions[object[b]][p]
                IN  /\ d = "Sampled" => forwarded[b][p] >= 1
                    /\ d # "Sampled" => forwarded[b][p] = 0
                    /\ d = "Pending" => \E i \in DOMAIN received[object[b]] :
                                            received[object[b]][i] = b

\* For the last policy no batch is passed on twice: a caller that finds it decided does
\* not append the batch the ticker may still copy.  (For the others it can be: between
\* the decision of one policy and its copy a caller sends the batch and appends it.)
LastPolicyOnce ==
    \A b \in Batches : (object[b] # None /\ ~Returned(object[b]))
                           => forwarded[b][Len(Policy)] <= 1

\* A trace is decided no earlier than decision_wait: the pipeline holds its id for
\* NumBatches whole ticks.
WaitRespected ==
    \A o \in Batches : (decisions[o][1] # "Pending" /\ ~Returned(o))
                           => age[o] = NumBatches + 1

\* A decision is taken once, unless the trace was dropped and came back.
DecisionFinal ==
    [][\A o \in Batches, p \in Policies :
          (decisions[o][p] # "Pending" /\ ~Returned(o)) => decisions'[o][p] = decisions[o][p]]_vars

\* A trace is decided once, and no earlier than decision_wait; with the last policy no batch
\* is passed on twice.
DecidedOnTime == [](WaitRespected /\ LastPolicyOnce) /\ DecisionFinal

\* Every call returns: the callers that make room for each other in deleteChan do not
\* wait for one another for ever.
CallsReturn == \A c \in Calls : ~At(c, "idle") ~> At(c, "loop") /\ caller[c].todo = {}

\* Every trace stored is decided by all policies, or dropped.
DecidedOrDropped ==
    \A o \in Batches :
        object[o] = o ~> (o \in evicted \/ \A p \in Policies : decisions[o][p] # "Pending")
=============================================================================
