------------------------ MODULE PrometheusReceiver -------------------------
(***************************************************************************)
(* receiver/prometheusreceiver: every target has a scrape loop (of the     *)
(* prometheus library, external) that hands over the page it scraped in a  *)
(* transaction; Commit makes the cumulative values relative to the first   *)
(* scrape of the series or to the first after a reset, and passes them on. *)
(* What it needs for that is in a map of the target, found in the JobsMap; *)
(* goroutines started by the scrapes sweep both kinds of maps.             *)
(*                                                                         *)
(* A series of a metric is the tuple of its label values, "" for a label   *)
(* it does not have; a point has parts (the value of a counter, the count  *)
(* and the sum of a histogram or summary).  The start time of a series is  *)
(* the number of the scrape in which it began.  Any page may have gauges   *)
(* too, which are passed on as they are and do not mark the map; a page    *)
(* with no series here is one of gauges only.                              *)
(***************************************************************************)
EXTENDS Integers, Sequences, FiniteSets

CONSTANTS
    Targets,     \* job:instance
    Series,      \* tuples of label values
    Increments,  \* by which a point may grow: a set of functions on the parts
    MaxScrapes,  \* bound: scrapes of a target
    MaxGrowth,   \* bound: growths of a target's points
    MaxSweeps    \* bound: times gcInterval goes by

Parts == UNION {DOMAIN i : i \in Increments}
Point == [Parts -> Int]
Zero == [p \in Parts |-> 0]
Plus(a, b) == [p \in Parts |-> a[p] + b[p]]
Minus(a, b) == [p \in Parts |-> a[p] - b[p]]
None == <<>>

VARIABLES
    exposed,    \* exposed[t][s]: the point the target exposes now
    total,      \* history: total[t][s]: the same without restarts
    growths,    \* history: growths so far
    scraped,    \* history: scraped[t]: totals at each scrape of t
    jobsMap,    \* jobsMap[t]: the timeseriesMap of t, by the scrape that made it, or 0
    tsm,        \* tsm[t][m]: timeseriesMap m of t
    loop,       \* loop[t]: the transaction of t
    gcDue,      \* gcInterval has gone by since lastGC
    sweeps,     \* history: times it went by
    collectors, \* goroutines that are to run gc
    unused,     \* history: unused[t]: sweeps since the map of t was used or made
    cancelled,  \* Shutdown has cancelled the context
    sent,       \* history: sent[t][s]: the last point passed on
    late        \* history: late[t]: pages passed on after Shutdown

environment == <<exposed, total, growths>>
gcVars == <<gcDue, sweeps, collectors>>
vars == <<environment, scraped, jobsMap, tsm, loop, gcVars, unused, cancelled, sent, late>>

MapIds == 1..MaxScrapes

\* getTimeseriesSignature: the label values that are not empty.
Signature(s) == SelectSeq(s, LAMBDA v : v # "")
Signatures == {Signature(s) : s \in Series}

NewMap == [mark |-> TRUE, tsi |-> [g \in Signatures |-> None]]
IdleLoop == [at |-> "idle", page |-> <<>>, map |-> 0]

Init ==
    /\ exposed = [t \in Targets |-> [s \in Series |-> Zero]]
    /\ total = exposed
    /\ growths = [t \in Targets |-> 0]
    /\ scraped = [t \in Targets |-> <<>>]
    /\ jobsMap = [t \in Targets |-> 0]
    /\ tsm = [t \in Targets |-> [m \in MapIds |-> NewMap]]
    /\ loop = [t \in Targets |-> IdleLoop]
    /\ gcDue = FALSE /\ sweeps = 0 /\ collectors = 0
    /\ unused = [t \in Targets |-> 0]
    /\ cancelled = FALSE
    /\ sent = [t \in Targets |-> [s \in Series |-> None]]
    /\ late = [t \in Targets |-> 0]

-----------------------------------------------------------------------------
(* The scraped process counts, and starts again from zero, as long as a page may show it. *)

Scrapable(t) == ~cancelled /\ Len(scraped[t]) < MaxScrapes

Grow(t, s, i) ==
    /\ Scrapable(t) /\ growths[t] < MaxGrowth
    /\ growths' = [growths EXCEPT ![t] = @ + 1]
    /\ exposed' = [exposed EXCEPT ![t][s] = Plus(@, i)]
    /\ total' = [total EXCEPT ![t][s] = Plus(@, i)]
    /\ UNCHANGED <<scraped, jobsMap, tsm, loop, gcVars, unused, cancelled, sent, late>>

Restart(t) ==
    /\ Scrapable(t)
    /\ exposed' = [exposed EXCEPT ![t] = [s \in Series |-> Zero]]
    /\ UNCHANGED <<total, growths, scraped, jobsMap, tsm, loop, gcVars, unused,
                   cancelled, sent, late>>

-----------------------------------------------------------------------------
(* A transaction. *)

\* Appender, and Add for every series of the page; after Shutdown it fails and the loop
\* rolls back.
Add(t, page) ==
    /\ loop[t].at = "idle" /\ Scrapable(t)
    /\ scraped' = [scraped EXCEPT ![t] = Append(@, total[t])]
    /\ loop' = [loop EXCEPT ![t] = [at |-> "commit", map |-> 0,
                                    page |-> [s \in page |-> exposed[t][s]]]]
    /\ UNCHANGED <<environment, jobsMap, tsm, gcVars, unused, cancelled, sent, late>>

Now(t) == Len(scraped[t])

\* JobsMap.get, and maybeGC as it returns.
GetMap(t) ==
    LET found == jobsMap[t] # 0
        m == IF found THEN jobsMap[t] ELSE Now(t)
    IN  /\ loop[t].at = "commit"
        /\ jobsMap' = [jobsMap EXCEPT ![t] = m]
        /\ unused' = IF found THEN unused ELSE [unused EXCEPT ![t] = 0]
        /\ loop' = [loop EXCEPT ![t].at = "adjust", ![t].map = m]
        /\ collectors' = IF gcDue THEN collectors + 1 ELSE collectors
        /\ UNCHANGED <<environment, scraped, tsm, gcDue, sweeps, cancelled, sent, late>>

\* Mutant: the previous point is taken as it is, although it has been adjusted.
PreviousAdjusted(tsi) == tsi.previous

\* The actual previous value: a previous point that is not the initial one was adjusted
\* in place.
Previous(tsi) == IF tsi.isInitial THEN tsi.initial ELSE Plus(tsi.initial, tsi.previous)

\* adjustPoint: a part that went down tells of a reset.
Reset(tsi, point) == \E p \in Parts : point[p] < Previous(tsi)[p]

Initially(t, point) ==
    [mark |-> TRUE, initial |-> point, previous |-> point, isInitial |-> TRUE, start |-> Now(t)]

\* adjustMetricTimeseries for one series: what is kept for it.
Kept(t, tsi, point) ==
    IF tsi = None \/ Reset(tsi, point) THEN Initially(t, point)
    ELSE [tsi EXCEPT !.mark = TRUE, !.previous = Minus(point, tsi.initial), !.isInitial = FALSE]

\* AdjustMetrics, with the lock of the map: the series one after the other (two with the
\* same signature share what is kept), then ConsumeMetrics for those that are not new.
\* order is the order of the series in the page.
AdjustMetrics(t, order) ==
    LET tsis[i \in 0..Len(order)] ==
            IF i = 0 THEN tsm[t][loop[t].map].tsi
            ELSE [tsis[i - 1] EXCEPT ![Signature(order[i])] = Kept(t, @, loop[t].page[order[i]])]
        After(s) == tsis[CHOOSE i \in DOMAIN order : order[i] = s][Signature(s)]
        out == {s \in DOMAIN loop[t].page : ~After(s).isInitial}
        gauges == IF order = <<>> THEN {TRUE} ELSE BOOLEAN
    IN  /\ loop[t].at = "adjust"
        /\ tsm' = [tsm EXCEPT ![t][loop[t].map] = [mark |-> @.mark \/ order # <<>>,
                                                  tsi |-> tsis[Len(order)]]]
        /\ unused' = IF jobsMap[t] = loop[t].map /\ order # <<>> THEN [unused EXCEPT ![t] = 0] ELSE unused
        /\ sent' = [sent EXCEPT ![t] = [s \in Series |->
                       IF s \in out THEN [at |-> Now(t), start |-> After(s).start,
                                          value |-> After(s).previous]
                       ELSE @[s]]]
        /\ \E g \in gauges :
              late' = IF cancelled /\ (out # {} \/ g) THEN [late EXCEPT ![t] = @ + 1] ELSE late
        /\ loop' = [loop EXCEPT ![t] = IdleLoop]
        /\ UNCHANGED <<environment, scraped, jobsMap, gcVars, cancelled>>

Commit(t) ==
    \E order \in [1..Cardinality(DOMAIN loop[t].page) -> DOMAIN loop[t].page] :
        /\ \A i, j \in DOMAIN order : order[i] = order[j] => i = j
        /\ AdjustMetrics(t, order)

-----------------------------------------------------------------------------
(* Garbage collection. *)

\* It is only looked at in transactions.
IntervalGoesBy ==
    /\ ~gcDue /\ sweeps < MaxSweeps
    /\ \E t \in Targets : Scrapable(t) \/ loop[t].at # "idle"
    /\ gcDue' = TRUE
    /\ sweeps' = sweeps + 1
    /\ UNCHANGED <<environment, scraped, jobsMap, tsm, loop, collectors, unused, cancelled,
                   sent, late>>

\* timeseriesMap.gc.
Swept(map) ==
    [mark |-> FALSE,
     tsi |-> [g \in Signatures |->
                 IF map.tsi[g] = None \/ ~map.tsi[g].mark THEN None
                 ELSE [map.tsi[g] EXCEPT !.mark = FALSE]]]

Marked(t) == jobsMap[t] # 0 /\ tsm[t][jobsMap[t]].mark

\* JobsMap.gc, with its lock: the second of two goroutines finds nothing to do.
Gc ==
    /\ collectors > 0
    /\ collectors' = collectors - 1
    /\ gcDue' = FALSE
    /\ IF gcDue
       THEN /\ jobsMap' = [t \in Targets |-> IF Marked(t) THEN jobsMap[t] ELSE 0]
            /\ tsm' = [t \in Targets |-> [m \in MapIds |->
                          IF Marked(t) /\ m = jobsMap[t] THEN Swept(tsm[t][m]) ELSE tsm[t][m]]]
            /\ unused' = [t \in Targets |-> unused[t] + 1]
       ELSE UNCHANGED <<jobsMap, tsm, unused>>
    /\ UNCHANGED <<environment, scraped, loop, sweeps, cancelled, sent, late>>

Shutdown ==
    /\ ~cancelled
    /\ cancelled' = TRUE
    /\ UNCHANGED <<environment, scraped, jobsMap, tsm, loop, gcVars, unused, sent, late>>

Next ==
    \/ \E t \in Targets :
          \/ \E s \in Series, i \in Increments : Grow(t, s, i)
          \/ Restart(t)
          \/ \E page \in SUBSET Series : Add(t, page)
          \/ GetMap(t)
          \/ Commit(t)
    \/ IntervalGoesBy
    \/ Gc
    \/ Shutdown

Spec == Init /\ [][Next]_vars

-----------------------------------------------------------------------------

\* What is passed on never exceeds what the target counted since the start time that
\* goes with it, and is never negative, although restarts can go unnoticed, series
\* disappear, and maps are removed under a transaction that has got them.
NeverOverCounts ==
    \A t \in Targets, s \in Series : sent[t][s] # None =>
        LET x == sent[t][s]
        IN  \A p \in Parts : 0 <= x.value[p]
                               /\ x.value[p] <= scraped[t][x.at][s][p] - scraped[t][x.start][s][p]

\* Points of a series with the same start time never decrease: every reset that shows
\* in the scraped values begins a new start time.
NeverDecreases ==
    [][\A t \in Targets, s \in Series :
          (sent[t][s] # None /\ sent'[t][s].start = sent[t][s].start)
              => \A p \in Parts : sent[t][s].value[p] <= sent'[t][s].value[p]]_vars

\* The map of a target that was used since the last sweep, for other metrics than gauges, is
\* not removed by the next; one that was not used between two sweeps is, so that the JobsMap
\* does not leak.
SweptWhenUnused ==
    [][\A t \in Targets : /\ jobsMap'[t] # 0 => unused'[t] <= 1
                          /\ (jobsMap[t] # 0 /\ unused[t] = 0) => jobsMap'[t] = jobsMap[t]]_vars

\* After Shutdown, which does not wait for the scrape loops, a target's loop passes on
\* no page but the one it had begun.
AtMostOneLate == \A t \in Targets : late[t] <= 1
============================================================================
