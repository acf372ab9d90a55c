---------------------------- MODULE MCComponents ----------------------------
(***************************************************************************)
(* Components that do not interact, checked side by side: a behaviour      *)
(* chooses one of them (part) and the others stay in their initial states. *)
(***************************************************************************)
EXTENDS KafkaReceiver, FilterProcessor, AttributeActions, OpenCensusReceiver, FluentForward,
        FluentBit, TLC

VARIABLE part

(* Six components are extended, and their constants are in the configuration.  The  *)
(* kafka receiver: one partition of two messages, two starts of the process. *)

kafka == vars

(* The filter processor in two of three pipelines, on data that it has to convert. *)

Matcher(names) == [on |-> TRUE, names |-> names]
NoMatcher == [on |-> FALSE, names |-> {}]
Metrics == {<<>>, <<"a">>, <<"b">>, <<"c">>, <<"a", "b">>, <<"c", "a">>, <<"b", "b">>}

MCInputs == {<<m>> : m \in Metrics} \cup {<< <<"a", "b">>, m >> : m \in Metrics}
MCInclude == <<Matcher({"a", "b"}), NoMatcher, NoMatcher>>
MCExclude == <<Matcher({"b"}), NoMatcher, Matcher({"a"})>>

(* Actions on attributes: every list of two, on spans with none, one or two attributes, *)
(* strings with and without bytes, a number, a map and a null.  The pattern for "a"      *)
(* matches "x" only, the one for "b" every string with bytes, the second group of it     *)
(* nothing.  Hashes of hashes are not told apart.                                        *)

MCBytes == {"", "x", "c", "n", "m", "g", "#x", "#c", "#n", "#g", "##"}
MCSha1 ==
    [s \in MCBytes |-> CASE s = "x" -> "#x" [] s = "c" -> "#c" [] s = "n" -> "#n" [] s = "g" -> "#g"
                         [] OTHER -> "##"]
MCSubmatches(key) ==
    [s \in MCBytes |-> CASE key = "a" /\ s = "x" -> <<"g", "x">>
                         [] key = "b" /\ s # "" -> <<"g", "">>
                         [] OTHER -> <<>>]
Action(a, key, c, f) ==
    [action |-> a, key |-> key, const |-> c, from |-> f, names |-> <<"a", "b">>,
     submatches |-> IF a = "extract" THEN MCSubmatches(key) ELSE [s \in MCBytes |-> <<>>]]
SomeActions ==
    {Action(a, key, 0, key) : a \in {"delete", "hash", "extract"}, key \in Keys}
    \cup {Action(a, key, 1, key) : a \in {"insert", "update", "upsert"}, key \in Keys}
    \cup {Action(a, "b", 0, "a") : a \in {"insert", "update", "upsert"}}
Attribute(key, type, val) == [key |-> key, value |-> [type |-> type, val |-> val]]

MCConfigured == <<String("c")>>
MCLists == {<<x, y>> : x \in SomeActions, y \in SomeActions}
MCContents ==
    {<<>>, <<Attribute("a", "string", "x")>>,
     <<Attribute("b", "map", "m"), Attribute("a", "string", "")>>,
     <<Attribute("b", "null", ""), Attribute("a", "number", "n")>>}

(* The OpenCensus exporter and receiver: two streams for three pushes, with messages *)
(* that lack a node, a resource or spans. *)

Message(n, r, k) == [node |-> n, resource |-> r, spans |-> k]

MCPayload ==
    "a" :> <<Message("n1", "r1", 1), Message("nil", "nil", 1)>>
    @@ "b" :> <<Message("n2", "nil", 1)>>
    @@ "c" :> <<Message("nil", "r3", 0)>>

(* The fluentforward receiver: two connections, two events each, a channel of one. *)

(* The fluentbit extension, with up to three subprocesses. *)

(* The prometheus receiver: one target with two series, whose signatures differ. *)

VARIABLES exposed, total, growths, scraped, jobsMap, tsm, pageLoop, gcDue, sweeps, collectors,
          unused, noMorePages, sent, late

prometheus == <<exposed, total, growths, scraped, jobsMap, tsm, pageLoop, gcDue, sweeps,
                collectors, unused, noMorePages, sent, late>>

Prometheus == INSTANCE PrometheusReceiver
    WITH Targets <- {1}, Series <- {<<"x", "">>, <<"x", "y">>}, Increments <- {[value |-> 1]},
         MaxScrapes <- 3, MaxGrowth <- 1, MaxSweeps <- 2, loop <- pageLoop,
         cancelled <- noMorePages

(* The host metrics receiver with two scrapers. *)

VARIABLES starter, initialized, reported, scraping, tick, asked, halt, scrapersClosed

host == <<starter, initialized, reported, scraping, tick, asked, halt, scrapersClosed>>

Host == INSTANCE HostMetrics
    WITH NumScrapers <- 2, ready <- initialized, loop <- scraping, stop <- halt,
         closed <- scrapersClosed

-----------------------------------------------------------------------------

AllInit ==
    /\ part \in {"stream", "fluentbit", "forward", "prometheus", "kafka", "filter", "attributes",
                "host"}
    /\ ReceiverInit /\ ProcessInit /\ ForwardInit /\ Prometheus!Init
    /\ Init /\ FilterInit
    /\ Host!Init
    /\ AttributeInit
    /\ part # "attributes" => /\ arrived = <<<<>>, <<>>>> /\ skip = {}
                              /\ nilValues = <<{}, {}>>
                              /\ actions = <<Action("delete", "a", 0, "a"), Action("delete", "a", 0, "a")>>

AllNext ==
    \/ /\ part = "stream" /\ ReceiverNext
       /\ UNCHANGED <<part, processVars, forwardVars, prometheus, kafka, filterVars, attributeVars, host>>
    \/ /\ part = "fluentbit" /\ ProcessNext
       /\ UNCHANGED <<part, streamVars, forwardVars, prometheus, kafka, filterVars, attributeVars, host>>
    \/ /\ part = "forward" /\ ForwardNext
       /\ UNCHANGED <<part, streamVars, processVars, prometheus, kafka, filterVars, attributeVars, host>>
    \/ /\ part = "prometheus" /\ Prometheus!Next
       /\ UNCHANGED <<part, streamVars, processVars, forwardVars, kafka, filterVars, attributeVars, host>>
    \/ /\ part = "kafka" /\ Next
       /\ UNCHANGED <<part, streamVars, processVars, forwardVars, prometheus, filterVars, attributeVars, host>>
    \/ /\ part = "filter" /\ FilterNext
       /\ UNCHANGED <<part, streamVars, processVars, forwardVars, prometheus, kafka, attributeVars, host>>
    \/ /\ part = "attributes" /\ AttributeNext
       /\ UNCHANGED <<part, streamVars, processVars, forwardVars, prometheus, kafka, filterVars, host>>
    \/ /\ part = "host" /\ Host!Next
       /\ UNCHANGED <<part, streamVars, processVars, forwardVars, prometheus, kafka, filterVars, attributeVars>>

AllSpec ==
    /\ AllInit
    /\ [][AllNext]_<<part, streamVars, processVars, forwardVars, prometheus, kafka, filterVars, attributeVars,
                host>>
    /\ ClientFairness /\ ProcessFairness /\ ForwardFairness /\ Host!Fairness

-----------------------------------------------------------------------------
(* The properties of the components, in addition to OffsetsRight, FilteredRight,        *)
(* ActionsApplied, StreamsShared, AckedIsKept and OneProcess of those that are           *)
(* extended.                                                                             *)

\* PrometheusReceiver: no more is passed on than was counted since the start time, points
\* with the same start time do not decrease, maps in use stay and others go, and a target
\* has at most one page passed on after Shutdown.
AdjustedRight ==
    /\ [](Prometheus!NeverOverCounts /\ Prometheus!AtMostOneLate)
    /\ Prometheus!NeverDecreases
    /\ Prometheus!SweptWhenUnused

\* HostMetrics: scrapers are asked when they are initialized, or the error was reported;
\* the loop ends after Shutdown.  OpenCensusExporter: pushes and Shutdown get their clients
\* and return.  FluentForward: what was acknowledged is passed on, unless Shutdown
\* intervenes.  FluentBit: a subprocess that ended is started again, and Shutdown ends it.
ComponentsMove ==
    /\ []Host!InitializedOrReported
    /\ Host!ScrapingStops
    /\ PoolReturns
    /\ AckedIsPassedOn
    /\ KeptRunning
=============================================================================
