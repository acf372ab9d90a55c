--------------------------- MODULE FilterProcessor ---------------------------
(***************************************************************************)
(* processor/filterprocessor in some of the pipelines behind a fan-out     *)
(* connector.  The processor says that it does not modify its input, so    *)
(* every pipeline is given the same object.                                *)
(*                                                                         *)
(* An object is a sequence of MetricsData, each a sequence of metrics; of  *)
(* a metric only its name is kept.  A matcher is [on, names]: whether it   *)
(* is configured, and the names that it matches.                           *)
(***************************************************************************)
EXTENDS Naturals, Sequences

CONSTANTS
    Inputs,      \* what a receiver may pass on
    OpenCensus,  \* it is []consumerdata.MetricsData (or else dataold.MetricData)
    Pipelines,   \* pipelines behind the connector are 1..Pipelines, in its order
    Include,     \* Include[p], Exclude[p]: matchers, of regular expressions
    Exclude,
    CacheSize,   \* CacheMaxNumEntries of their caches; 0 stands for no limit
    MaxRounds    \* bound: calls of the receiver

Matchers == [on : BOOLEAN, names : SUBSET STRING]

ASSUME FilterAssumption ==
    /\ Inputs \subseteq Seq(Seq(STRING))
    /\ Pipelines \in Nat \ {0}
    /\ Include \in [1..Pipelines -> Matchers] /\ Exclude \in [1..Pipelines -> Matchers]
    /\ CacheSize \in Nat /\ MaxRounds \in Nat

VARIABLES
    input,   \* what the receiver passed on, as it was
    object,  \* the object that all pipelines are given
    at,      \* the pipeline whose call runs, 0 when the receiver has none under way
    mds,     \* in ProcessMetrics: the MetricsData, unless object itself is used
    nthData, nthMetric,  \* the loop counters
    keep,    \* metrics of mds[nthData] that are kept
    found,   \* foundMetricToKeep
    cache,   \* cache[p]: those of the include and the exclude matcher, latest first
    out,     \* out[p]: whether the call of p has returned ("no", "skip", "yes"), and with what
    rounds

filterVars ==
    <<input, object, at, mds, nthData, nthMetric, keep, found, cache, out, rounds>>

NoCall == [done |-> "no", data |-> <<>>]

FilterInit ==
    /\ input = <<>> /\ object = <<>>
    /\ at = 0
    /\ mds = <<>> /\ nthData = 0 /\ nthMetric = 1 /\ keep = <<>> /\ found = FALSE
    /\ cache = [p \in 1..Pipelines |-> [include |-> <<>>, exclude |-> <<>>]]
    /\ out = [p \in 1..Pipelines |-> NoCall]
    /\ rounds = 0

Filters(p) == Include[p].on \/ Exclude[p].on

-----------------------------------------------------------------------------
(* FilterSet.Matches with its cache. *)

Cached(c, name) == \E n \in DOMAIN c : c[n].name = name
Entry(c, name) == CHOOSE n \in DOMAIN c : c[n].name = name

\* Mutant: the entry that is found is the latest.
MatchesLatest(m, c, name) == IF c # <<>> THEN c[1].match ELSE name \in m.names

Matches(m, c, name) == IF Cached(c, name) THEN c[Entry(c, name)].match ELSE name \in m.names

Without(c, name) ==
    IF Cached(c, name)
    THEN SubSeq(c, 1, Entry(c, name) - 1) \o SubSeq(c, Entry(c, name) + 1, Len(c))
    ELSE c

\* lru.Cache: a hit becomes the latest entry; a new entry may displace the oldest.
AfterMatch(m, c, name) ==
    LET new == <<[name |-> name, match |-> Matches(m, c, name)]>> \o Without(c, name)
    IN  IF CacheSize > 0 /\ Len(new) > CacheSize THEN SubSeq(new, 1, CacheSize) ELSE new

ShouldKeepMetric(p, name) ==
    /\ Include[p].on => Matches(Include[p], cache[p].include, name)
    /\ Exclude[p].on => ~Matches(Exclude[p], cache[p].exclude, name)

\* The exclude matcher is asked only about what is included.
CachesAfter(p, name) ==
    LET included == Include[p].on => Matches(Include[p], cache[p].include, name)
    IN  [include |-> IF Include[p].on THEN AfterMatch(Include[p], cache[p].include, name)
                     ELSE cache[p].include,
         exclude |-> IF Exclude[p].on /\ included THEN AfterMatch(Exclude[p], cache[p].exclude, name)
                     ELSE cache[p].exclude]

-----------------------------------------------------------------------------

\* The receiver passes an object to the connector, which calls the first pipeline.
Receive(x) ==
    /\ at = 0 /\ rounds < MaxRounds
    /\ input' = x /\ object' = x
    /\ at' = 1
    /\ out' = [p \in 1..Pipelines |-> NoCall]
    /\ rounds' = rounds + 1
    /\ nthData' = 0
    /\ UNCHANGED <<mds, nthMetric, keep, found, cache>>

CallNext(p) == at' = IF p = Pipelines THEN 0 ELSE p + 1

\* A pipeline without filter passes the object on; nobody waits for its reader.
PassOn ==
    /\ at > 0 /\ ~Filters(at) /\ nthData = 0
    /\ out' = [out EXCEPT ![at] = [done |-> "yes", data |-> object]]
    /\ CallNext(at)
    /\ UNCHANGED <<input, object, mds, nthData, nthMetric, keep, found, cache, rounds>>

\* ProcessMetrics begins: MetricsToMetricsData converts, or returns the object itself.
BeginProcess ==
    /\ at > 0 /\ Filters(at) /\ nthData = 0
    /\ mds' = object
    /\ nthData' = 1 /\ nthMetric' = 1 /\ keep' = <<>> /\ found' = FALSE
    /\ UNCHANGED <<input, object, at, cache, out, rounds>>

LookAtMetric ==
    /\ at > 0 /\ nthData \in DOMAIN mds /\ nthMetric \in DOMAIN mds[nthData]
    /\ LET name == mds[nthData][nthMetric]
           yes == ShouldKeepMetric(at, name)
       IN  /\ keep' = IF yes THEN Append(keep, name) ELSE keep
           /\ found' = (found \/ yes)
           /\ cache' = [cache EXCEPT ![at] = CachesAfter(at, name)]
    /\ nthMetric' = nthMetric + 1
    /\ UNCHANGED <<input, object, at, mds, nthData, out, rounds>>

\* mds[nthData].Metrics = keep: in the object, if mds is the object.
NextMetricsData ==
    /\ at > 0 /\ nthData \in DOMAIN mds /\ nthMetric > Len(mds[nthData])
    /\ mds' = [mds EXCEPT ![nthData] = keep]
    /\ object' = IF OpenCensus THEN [object EXCEPT ![nthData] = keep] ELSE object
    /\ nthData' = nthData + 1 /\ nthMetric' = 1 /\ keep' = <<>>
    /\ UNCHANGED <<input, at, found, cache, out, rounds>>

\* With nothing to keep ErrSkipProcessingData, for which the pipeline stops here.
EndProcess ==
    /\ at > 0 /\ Filters(at) /\ nthData = Len(mds) + 1
    /\ out' = [out EXCEPT ![at] = IF found THEN [done |-> "yes", data |-> mds]
                                   ELSE [done |-> "skip", data |-> <<>>]]
    /\ CallNext(at)
    /\ nthData' = 0
    /\ UNCHANGED <<input, object, mds, nthMetric, keep, found, cache, rounds>>

FilterNext ==
    \/ \E x \in Inputs : Receive(x)
    \/ PassOn \/ BeginProcess \/ LookAtMetric \/ NextMetricsData \/ EndProcess

FilterSpec == FilterInit /\ [][FilterNext]_filterVars

-----------------------------------------------------------------------------

Wanted(p, name) ==
    /\ Include[p].on => name \in Include[p].names
    /\ Exclude[p].on => name \notin Exclude[p].names

\* KeptUpTo(p, metrics)[n]: those of the first n metrics that pipeline p wants, in order.
KeptUpTo(p, metrics) ==
    LET kept[n \in 0..Len(metrics)] ==
            IF n = 0 THEN <<>>
            ELSE IF Wanted(p, metrics[n]) THEN Append(kept[n - 1], metrics[n]) ELSE kept[n - 1]
    IN  kept

Kept(p, metrics) == KeptUpTo(p, metrics)[Len(metrics)]

\* What is passed on is what the filters of the pipeline want, in its MetricsData and
\* order, or nothing at all if there is none.
RightResult(p) ==
    IF ~Filters(p) THEN out[p] = [done |-> "yes", data |-> input]
    ELSE IF \A n \in DOMAIN input : Kept(p, input[n]) = <<>> THEN out[p].done = "skip"
    ELSE out[p] = [done |-> "yes", data |-> [n \in DOMAIN input |-> Kept(p, input[n])]]

\* A pipeline passes on the metrics that its filters name, in their MetricsData and order,
\* or nothing at all if there are none; hits in the caches change nothing, and no cache
\* exceeds its size.  This is of data that is converted for each pipeline (not OpenCensus);
\* MetricsData of OpenCensus is shared, and there the list that one pipeline shortens in
\* place is what the next one sees: SharedUnmodified says what does not hold then.
FilteredRight ==
    /\ \A p \in 1..Pipelines : out[p].done # "no" => RightResult(p)
    /\ \A p \in 1..Pipelines : CacheSize > 0 =>
          Len(cache[p].include) <= CacheSize /\ Len(cache[p].exclude) <= CacheSize

\* The processor leaves the data it shares with other pipelines as it is.
SharedUnmodified == object = input
=============================================================================
