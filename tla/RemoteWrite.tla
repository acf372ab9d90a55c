----------------------------- MODULE RemoteWrite -----------------------------
(***************************************************************************)
(* exporter/prometheusremotewriteexporter, and if signing the round        *)
(* tripper of the cortex exporter around its client.  A call of            *)
(* PushMetrics converts metrics into time series, kept in a map of its     *)
(* own by a signature, and posts them; Shutdown closes a channel and waits *)
(* for the calls in a wait group.                                          *)
(*                                                                         *)
(* A metric is [type, cumulative, name, points], where integer and double  *)
(* types are one and type "none" stands for no descriptor.  A point is     *)
(* [labels, sum, count, buckets, bounds]: a scalar has its value as sum, a *)
(* summary has percentiles as bounds.  Texts are sequences of words, of    *)
(* digits and of the signs ".", "-" and "_".  Timestamps are left out, and *)
(* the namespace is empty.                                                 *)
(***************************************************************************)
EXTENDS Naturals, SequencesExt

CONSTANTS
    Pushes,    \* calls of PushMetrics
    Payloads,  \* what they are called with: sequences of metrics
    NameOrder, \* the label names that occur, in the order of strings
    Clients    \* whether the client signs: that of the cortex exporter, or the plain one

IsSeq(s) == s \in Seq(Range(s))

ASSUME RemoteWriteAssumption ==
    /\ IsFiniteSet(Pushes)
    /\ IsSeq(NameOrder)
    /\ \A md \in Payloads :
          /\ IsSeq(md)
          /\ \A m \in Range(md) :
                /\ IsSeq(m.points)
                /\ \A pt \in Range(m.points) : IsSeq(pt.labels) /\ IsSeq(pt.buckets)

VARIABLES
    push,      \* push[p]: where the call is, metrics, samples to add, map, what it returned
    wg,        \* the counter of the wait group
    shut,      \* Shutdown: "no", "closing", "waiting", "woken", "returned", "panicked"
    signing,   \* which client it is
    exited,    \* log.Fatal
    received   \* history: received[p]: time series that the endpoint accepted

vars == <<push, wg, shut, signing, exited, received>>

NoMap == << >>
NotTold == [dropped |-> 0, err |-> FALSE]

Init ==
    /\ push = [p \in Pushes |-> [at |-> "idle", md |-> <<>>, todo |-> <<>>, tsMap |-> NoMap,
                              told |-> NotTold]]
    /\ wg = 0 /\ shut = "no" /\ signing \in Clients /\ exited = FALSE
    /\ received = [p \in Pushes |-> {}]

-----------------------------------------------------------------------------
(* From metrics to time series. *)

validateMetrics(m) ==
    \/ m.type \in {"monotonic", "histogram", "summary"} /\ m.cumulative
    \/ m.type = "gauge"

\* The handlers refuse a metric without points.
Handled(m) == validateMetrics(m) /\ m.points # <<>>

Digits == {"0", "1", "2", "3", "4", "5", "6", "7", "8", "9"}

sanitize(s) ==
    LET t == [j \in DOMAIN s |-> IF s[j] \in {".", "-"} THEN "_" ELSE s[j]]
    IN  CASE t = <<>> -> t
          [] t # <<>> /\ t[1] \in Digits -> <<"key", "_">> \o t
          [] t # <<>> /\ t[1] = "_" -> <<"key">> \o t
          [] OTHER -> t

getPromMetricName(m) ==
    sanitize(IF m.type = "monotonic" /\ m.name # <<>> THEN m.name \o <<"_", "total">> ELSE m.name)

NameStr == <<"_", "_", "name", "_", "_">>
Le == <<"le">>
Quantile == <<"quantile">>

\* The labels by their keys; extras are pairs that overwrite, __name__ as it is.
createLabelSet(labels, extras) ==
    LET all == labels \o extras
        LastOf(k) == CHOOSE j \in DOMAIN all :
                         all[j][1] = k /\ \A i \in DOMAIN all : i > j => all[i][1] # k
    IN  [k \in {all[j][1] : j \in DOMAIN all} |->
            [name |-> IF k = NameStr THEN k ELSE sanitize(k), value |-> all[LastOf(k)][2]]]

PointSamples(m, pt) ==
    LET name == getPromMetricName(m)
        Sample(extras, v) ==
            [type |-> m.type, labels |-> createLabelSet(pt.labels, extras), value |-> v]
        Named(suffix) == <<NameStr, name \o suffix>>
        sumAndCount == <<Sample(<<Named(<<"_", "sum">>)>>, pt.sum),
                         Sample(<<Named(<<"_", "count">>)>>, pt.count)>>
        bucket == Named(<<"_", "bucket">>)
    IN  CASE m.type \in {"gauge", "monotonic"} -> <<Sample(<<Named(<<>>)>>, pt.sum)>>
          [] m.type = "histogram" ->
                sumAndCount
                \o [j \in DOMAIN pt.buckets |-> Sample(<<bucket, <<Le, pt.bounds[j]>>>>, pt.buckets[j])]
                \o <<Sample(<<bucket, <<Le, <<"+Inf">>>>>>, FoldLeft(+, 0, pt.buckets))>>
          [] m.type = "summary" ->
                sumAndCount
                \o [j \in DOMAIN pt.buckets |->
                       Sample(<<Named(<<>>), <<Quantile, pt.bounds[j]>>>>, pt.buckets[j])]

MetricSamples(m) == FlattenSeq([j \in DOMAIN m.points |-> PointSamples(m, m.points[j])])
Samples(md) ==
    FlattenSeq([j \in DOMAIN md |-> IF Handled(md[j]) THEN MetricSamples(md[j]) ELSE <<>>])

\* ExplicitBounds[le] beyond the last bound.
Panics(md) ==
    \E j \in DOMAIN md : /\ Handled(md[j]) /\ md[j].type = "histogram"
                         /\ \E pt \in Range(md[j].points) : Len(pt.buckets) > Len(pt.bounds)

Rank(name) == CHOOSE j \in DOMAIN NameOrder : NameOrder[j] = name

\* The orders of keys that sorting by name can leave: labels come from a map, in any order.
Sorted(l) ==
    {q \in SetToSeqs(DOMAIN l) :
        \A j \in DOMAIN q : j > 1 => Rank(l[q[j - 1]].name) <= Rank(l[q[j]].name)}

\* Mutant: the signature leaves out the values.
SignatureOfNames(type, labels) ==
    <<type>> \o FlattenSeq([j \in DOMAIN labels |-> <<"-">> \o labels[j].name])

timeSeriesSignature(type, labels) ==
    LET b[j \in 0 .. Len(labels)] ==
            IF j = 0 THEN <<type>>
            ELSE b[j - 1] \o <<"-">> \o labels[j].name \o <<"-">> \o labels[j].value
    IN  b[Len(labels)]

addSample(tsMap, s, labels) ==
    LET sig == timeSeriesSignature(s.type, labels)
        ts == IF sig \in DOMAIN tsMap
              THEN [tsMap[sig] EXCEPT !.samples = Append(@, s.value)]
              ELSE [labels |-> labels, samples |-> <<s.value>>]
    IN  [x \in DOMAIN tsMap \cup {sig} |-> IF x = sig THEN ts ELSE tsMap[x]]

-----------------------------------------------------------------------------

closed == shut # "no"

\* wg.Add(1), before anything is looked at.
Enter(p) ==
    /\ ~exited /\ push[p].at = "idle"
    /\ \E md \in Payloads : push' = [push EXCEPT ![p].at = "entered", ![p].md = md]
    /\ wg' = wg + 1
    /\ UNCHANGED <<shut, signing, exited, received>>

\* The deferred wg.Done(): the last one wakes who waits.
Done ==
    /\ wg' = wg - 1
    /\ shut' = IF shut = "waiting" /\ wg = 1 THEN "woken" ELSE shut

Refuse(p) ==
    /\ ~exited /\ push[p].at = "entered" /\ closed
    /\ push' = [push EXCEPT ![p].at = "returned",
                            ![p].told = [dropped |-> Len(push[p].md), err |-> TRUE]]
    /\ Done
    /\ UNCHANGED <<signing, exited, received>>

\* A panic unwinds through Done; servers may recover from it.
Convert(p) ==
    /\ ~exited /\ push[p].at = "entered" /\ ~closed
    /\ \/ /\ ~Panics(push[p].md)
          /\ push' = [push EXCEPT ![p].at = "convert", ![p].todo = Samples(push[p].md)]
          /\ UNCHANGED <<wg, shut>>
       \/ /\ Panics(push[p].md)
          /\ push' = [push EXCEPT ![p].at = "panicked"]
          /\ Done
    /\ UNCHANGED <<signing, exited, received>>

\* The next sample goes into the map, with its labels in one of the orders.
AddSample(p) ==
    /\ ~exited /\ push[p].at = "convert" /\ push[p].todo # <<>>
    /\ LET s == Head(push[p].todo)
       IN  \E q \in Sorted(s.labels) :
              push' = [push EXCEPT ![p].todo = Tail(@),
                                   ![p].tsMap = addSample(@, s, [j \in DOMAIN q |-> s.labels[q[j]]])]
    /\ UNCHANGED <<wg, shut, signing, exited, received>>

NotHandled(md) == Cardinality({j \in DOMAIN md : ~Handled(md[j])})

\* Mutant: an error of export leaves the count of the conversion.
ReturnConverted(p, failed) ==
    push' = [push EXCEPT ![p].at = "returned", ![p].tsMap = NoMap,
                         ![p].told = [dropped |-> NotHandled(push[p].md), err |-> failed]]

\* What PushMetrics returns: with an error of export, every metric is counted.
Return(p, failed) ==
    LET dropped == IF failed THEN Len(push[p].md) ELSE NotHandled(push[p].md)
    IN  push' = [push EXCEPT ![p].at = "returned", ![p].tsMap = NoMap,
                             ![p].told = [dropped |-> dropped, err |-> dropped # 0]]

Exporting(p) == push[p].at = "convert" /\ push[p].todo = <<>>

\* wrapTimeSeries refuses an empty map.
ExportNothing(p) ==
    /\ ~exited /\ Exporting(p) /\ push[p].tsMap = NoMap
    /\ Return(p, TRUE) /\ Done
    /\ UNCHANGED <<signing, exited, received>>

Accept(p) == received' = [received EXCEPT ![p] = Range(push[p].tsMap)]

\* An answer of the endpoint: with a status of 2xx it has accepted the request, with
\* another one it may have.
Answer(p) ==
    /\ ~exited /\ Exporting(p) /\ push[p].tsMap # NoMap
    /\ \/ Return(p, FALSE) /\ Accept(p)
       \/ Return(p, TRUE) /\ (Accept(p) \/ UNCHANGED received)
    /\ Done
    /\ UNCHANGED <<signing, exited>>

\* No answer, for want of a connection or of time: an error, or the end of the process.
NoAnswer(p) ==
    /\ ~exited /\ Exporting(p) /\ push[p].tsMap # NoMap
    /\ \/ ~signing /\ Return(p, TRUE) /\ Done /\ UNCHANGED exited
       \/ signing /\ exited' = TRUE /\ UNCHANGED <<push, wg, shut>>
    /\ Accept(p) \/ UNCHANGED received
    /\ UNCHANGED signing

\* The request could not be signed; it is not sent.
SignFails(p) ==
    /\ ~exited /\ signing /\ Exporting(p) /\ push[p].tsMap # NoMap
    /\ Return(p, TRUE) /\ Done
    /\ UNCHANGED <<signing, exited, received>>

CloseChan ==
    /\ ~exited /\ shut = "no"
    /\ shut' = "closing"
    /\ UNCHANGED <<push, wg, signing, exited, received>>

\* Mutant: Shutdown does not wait.
NoWait ==
    /\ ~exited /\ shut = "closing"
    /\ shut' = "returned"
    /\ UNCHANGED <<push, wg, signing, exited, received>>

\* wg.Wait() returns at once, or when it is woken: it panics if the group is in use again.
Wait ==
    /\ ~exited
    /\ \/ shut = "closing" /\ shut' = IF wg = 0 THEN "returned" ELSE "waiting"
       \/ shut = "woken" /\ shut' = IF wg = 0 THEN "returned" ELSE "panicked"
    /\ UNCHANGED <<push, wg, signing, exited, received>>

Next ==
    \/ CloseChan \/ Wait
    \/ \E p \in Pushes : \/ Enter(p) \/ Refuse(p) \/ Convert(p) \/ AddSample(p)
                         \/ ExportNothing(p) \/ Answer(p) \/ NoAnswer(p) \/ SignFails(p)

Spec == Init /\ [][Next]_vars

-----------------------------------------------------------------------------

\* The values of those of the first n samples whose places are in I.
ValuesUpTo(all, I) ==
    LET f[n \in 0 .. Len(all)] ==
            IF n = 0 THEN <<>>
            ELSE IF n \in I THEN Append(f[n - 1], all[n].value) ELSE f[n - 1]
    IN  f

Alike(s, t) == s.type = t.type /\ Range(s.labels) = Range(t.labels)
Like(all, s) == {i \in DOMAIN all : Alike(all[i], s)}

\* The reference: samples of one type and one set of labels are one time series, in the
\* order of the points.
Grouped(md) ==
    LET all == Samples(md)
    IN  {[labels |-> Range(s.labels), samples |-> ValuesUpTo(all, Like(all, s))[Len(all)]]
            : s \in Range(all)}

\* The signatures that a sample can have, one for each order that sorting can leave.
Signatures(s) ==
    {timeSeriesSignature(s.type, [j \in DOMAIN q |-> s.labels[q[j]]]) : q \in Sorted(s.labels)}

\* The signatures that the first n samples can have.
SignedUpTo(all) ==
    LET f[n \in 0 .. Len(all)] ==
            IF n = 0 THEN {<<>>}
            ELSE {Append(g, x) : g \in f[n - 1], x \in Signatures(all[n])}
    IN  f

First(signed, i) == \A k \in 1 .. (i - 1) : signed[k] # signed[i]
SignedLike(signed, i) == {k \in DOMAIN signed : signed[k] = signed[i]}

\* The time series that signatures make: the labels are those of the first sample, the
\* values those of all the samples with its signature.
BySignature(all, signed) ==
    {[labels |-> Range(all[i].labels), samples |-> ValuesUpTo(all, SignedLike(signed, i))[Len(all)]]
        : i \in {j \in DOMAIN all : First(signed, j)}}

\* Labels that signatures can tell apart: no name and no value has a "-" in it, and no two
\* keys of a sample are one name once they are sanitized.  The names are those of NameOrder.
ToldApart(md) ==
    \A s \in Range(Samples(md)) :
        /\ \A l \in Range(s.labels) :
              l \in [name : Seq(STRING \ {"-"}) \cap Range(NameOrder), value : Seq(STRING \ {"-"})]
        /\ \A j, k \in DOMAIN s.labels : s.labels[j].name = s.labels[k].name => j = k

SeenAs(accepted) == {[labels |-> Range(ts.labels), samples |-> ts.samples] : ts \in accepted}

\* Whatever the metrics are, what the endpoint accepts of a call are all its samples, each
\* in one time series, in order, with those of its signature and under the labels of the
\* first of them.  Where signatures can tell labels apart these are the samples with its
\* type and labels: they bring together what belongs together and nothing else, although
\* the labels come out of a map in any order.
UnderItsSignature ==
    \A p \in Pushes : received[p] # {} =>
        LET all == Samples(push[p].md)
        IN  /\ \E signed \in SignedUpTo(all)[Len(all)] : SeenAs(received[p]) = BySignature(all, signed)
            /\ ToldApart(push[p].md) => SeenAs(received[p]) = Grouped(push[p].md)

\* The comment on addSample, "finds a TimeSeries in tsMap that corresponds to the label set
\* labels": every sample is in the time series of its own labels.
UnderItsLabels ==
    \A p \in Pushes : received[p] # {} => SeenAs(received[p]) = Grouped(push[p].md)

\* A metric with samples that did not reach the endpoint is counted in what PushMetrics
\* returns, and with a count comes an error.
LossIsCounted ==
    \A p \in Pushes : push[p].at = "returned" =>
        /\ push[p].told.dropped > 0 => push[p].told.err
        /\ received[p] = {} => push[p].told.dropped = Len(push[p].md)
        /\ push[p].told.dropped >= NotHandled(push[p].md)

InProgress(p) == push[p].at \in {"entered", "convert"}

\* Once Shutdown has returned no call posts or will post, although calls may still come
\* in: they are in the wait group before they look at the channel.
QuietAfterShutdown ==
    shut = "returned" => \A p \in Pushes : push[p].at # "convert"

\* Shutdown does not wait for nobody: while it waits there is a call whose end wakes it,
\* whatever way that call takes.
WaitIsAnswered == shut = "waiting" => \E p \in Pushes : InProgress(p)

\* Nothing is posted once Shutdown has returned, and while it waits there is a call that
\* will end its wait.
ShutdownIsQuiet == QuietAfterShutdown /\ WaitIsAnswered

\* The comment in createMetricsExporter of the cortex exporter, "has timeout, queueing and
\* retry feature enabled": a post that fails is an error that a retry can answer.
FailureIsReturned == ~exited

\* The comment on the buckets of a point, "The number of elements in buckets array must be
\* by one greater than the number of elements in bucket_bounds array": such points are
\* converted.
HistogramsHandled == \A p \in Pushes : push[p].at # "panicked"
=============================================================================
