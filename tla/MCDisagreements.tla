--------------------------- MODULE MCDisagreements ---------------------------
(***************************************************************************)
(* Instances on which components do not do what their comments say, side   *)
(* by side: a behaviour chooses one of them (part) and the others stay in  *)
(* their initial states.  None of the properties below holds.              *)
(***************************************************************************)
EXTENDS Naturals, Sequences

VARIABLE part

(* The filter processor in the first of two pipelines, on OpenCensus data, which it is *)
(* given without a copy. *)

VARIABLES input, object, at, mds, nthData, nthMetric, keep, found, cache, out, rounds

filter == <<input, object, at, mds, nthData, nthMetric, keep, found, cache, out, rounds>>

NoMatcher == [on |-> FALSE, names |-> {}]

Filter == INSTANCE FilterProcessor
    WITH Inputs <- {<< <<"a", "c">> >>}, OpenCensus <- TRUE, Pipelines <- 2,
         Include <- <<[on |-> TRUE, names |-> {"a"}], NoMatcher>>,
         Exclude <- <<NoMatcher, NoMatcher>>, CacheSize <- 2, MaxRounds <- 1

(* A prometheus target with two series of a metric, each of which lacks one of the two *)
(* labels, with the same value of the other. *)

VARIABLES exposed, total, growths, scraped, jobsMap, tsm, loop, gcDue, sweeps, collectors,
          unused, cancelled, sent, late

prometheus == <<exposed, total, growths, scraped, jobsMap, tsm, loop, gcDue, sweeps,
                collectors, unused, cancelled, sent, late>>

Prometheus == INSTANCE PrometheusReceiver
    WITH Targets <- {1}, Series <- {<<"x", "">>, <<"", "x">>}, Increments <- {[value |-> 1]},
         MaxScrapes <- 2, MaxGrowth <- 2, MaxSweeps <- 0

(* A call of the remote write exporter, with either client. *)

VARIABLES push, wg, shut, signing, exited, received

remote == <<push, wg, shut, signing, exited, received>>

Data == INSTANCE RemoteWriteData

Remote == INSTANCE RemoteWrite
    WITH Pushes <- {1}, Payloads <- Data!PlainPayloads \cup Data!MixedPayloads,
         NameOrder <- Data!Names, Clients <- BOOLEAN

(* The host metrics receiver with one scraper. *)

VARIABLES starter, ready, reported, scraping, tick, asked, stop, closed

host == <<starter, ready, reported, scraping, tick, asked, stop, closed>>

Host == INSTANCE HostMetrics WITH NumScrapers <- 1, loop <- scraping

(* Actions on attributes: a hash, or an update, of an attribute that is a map or null. *)

VARIABLES actions, heap, spans, arrived, skip, nilValues, nthSpan, nthAction, panicked

attributes == <<actions, heap, spans, arrived, skip, nilValues, nthSpan, nthAction, panicked>>

Attributes == INSTANCE AttributeActions
    WITH Keys <- {"a"}, Bytes <- {"", "c", "#"}, NoBytes <- "", Sha1 <- [s \in {"", "c", "#"} |-> "#"],
         Configured <- <<[type |-> "string", val |-> "c"]>>,
         Lists <- {<<[action |-> a, key |-> "a", const |-> 1, from |-> "a", names |-> <<>>,
                      submatches |-> [s \in {"", "c", "#"} |-> <<>>]]>> : a \in {"hash", "update"}},
         Contents <- {<<[key |-> "a", value |-> [type |-> t, val |-> ""]]>> : t \in {"map", "null"}}

-----------------------------------------------------------------------------

Init ==
    /\ part \in {"filter", "prometheus", "remote", "host", "attributes"}
    /\ Filter!FilterInit /\ Prometheus!Init /\ Remote!Init /\ Host!Init
    /\ Attributes!AttributeInit
    /\ part # "attributes" =>
          /\ skip = {} /\ nilValues = <<{}, {}>> /\ actions[1].action = "hash"
          /\ arrived[1] = arrived[2] /\ heap[2].type = "map"

Next ==
    \/ part = "filter" /\ Filter!FilterNext /\ UNCHANGED <<part, prometheus, remote, host, attributes>>
    \/ part = "prometheus" /\ Prometheus!Next /\ UNCHANGED <<part, filter, remote, host, attributes>>
    \/ part = "remote" /\ Remote!Next /\ UNCHANGED <<part, filter, prometheus, host, attributes>>
    \/ part = "host" /\ Host!Next /\ UNCHANGED <<part, filter, prometheus, remote, attributes>>
    \/ /\ part = "attributes" /\ Attributes!AttributeNext
       /\ UNCHANGED <<part, filter, prometheus, remote, host>>

Spec == Init /\ [][Next]_<<part, filter, prometheus, remote, host, attributes>>

-----------------------------------------------------------------------------

\* filterprocessor/factory.go:31, MutatesConsumedData: false.
SharedUnmodified == Filter!SharedUnmodified

\* metrics_adjuster.go:115, "Create a unique timeseries signature".
NeverOverCounts == Prometheus!NeverOverCounts

\* helper.go:71, "addSample finds a TimeSeries in tsMap that corresponds to the label set".
UnderItsLabels == Remote!UnderItsLabels

\* metrics.pb.go of v1old, line 708: buckets are one more than bounds.
HistogramsHandled == Remote!HistogramsHandled

\* cortexexporter/factory.go: the exporter "has timeout, queueing and retry feature enabled".
FailureIsReturned == Remote!FailureIsReturned

\* hostmetrics_receiver.go:128, "Shutdown terminates all tickers and stops the underlying
\* scrapers".
StoppedAtShutdown == Host!StoppedAtShutdown

\* attraction.go:74, HASH "overwrites the value with it's SHA-1 hash result", for "all types"
\* (hasher.go:39).
HashedIsHash == Attributes!HashedIsHash

\* attraction.go:64, "UPDATE -  Updates an existing key with a value".
UpdatesApplied == Attributes!UpdatesApplied
=============================================================================
