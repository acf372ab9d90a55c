# Verification of the OpenTelemetry Collector (o11y distribution)

TLA+ models of the collector under `src/internal/opentelemetry-collector` (the
fork this distribution is built from), TLC configurations that check them on
small instances, and TLAPS proofs about some of them. Source paths below are
relative to `src/internal/opentelemetry-collector` unless they start with `src/`.

## 1. The system and its parts

The collector is one process. `service.Application` reads a configuration and
builds *extensions* and *pipelines*; a pipeline is a set of *receivers*, a chain
of *processors* and a set of *exporters*. Components call each other directly
(`ConsumeTraces`, `ConsumeMetrics`, `ConsumeLogs`); a component that wants to
decouple its caller has a channel or queue and goroutines of its own. That is
where the hard behaviour is: what the caller was told and what happens later are
two different things.

| part | state it keeps | operations | interacts with | what makes it hard | what makes it correct |
|---|---|---|---|---|---|
| `exporter/exporterhelper` | bounded queue, worker goroutines, retry loop and remaining data of each request, stop channel | send, take, attempt, back off, partial error, cancel, shut down | called by pipelines; calls the back end | workers, callers, timers, cancellation and shutdown interleave; partial success; two stop signals in a fixed order | nothing lost without a report, nothing acknowledged sent again, one late attempt, quiet after Shutdown, Shutdown ends |
| `processor/groupbytraceprocessor` | event channel, ring buffer (slice and map), storage with a lock, timers | receive, expire, release, remove, stop | called by pipelines; calls the next consumer from goroutines | one event loop that also writes to its own channel; goroutines read the storage later; stop event | what was stored in one stay in the ring leaves whole and once, or not at all if it was evicted; storage empties, ring consistent |
| `processor/batchprocessor` | channel, current batch and its count, timer, goroutines with remainders | add, split, send by size, send by time, flush | same | timer racing size, remainders racing callers and shutdown, size arithmetic, slices cut while they are walked | spans neither lost nor doubled, maximum size, everything sent in the end, flush |
| `service`, `service/builder` | life-cycle phase, built components, error, signal and state channels | build, start in order, notify, wait for an event, shut down in reverse order | owns everything else | maps walked in random order, shared receivers and exporters, failing starts, blocking error reports | consumers run whenever a producer can send, all stopped in the end, errors end the process |
| `processor/fanoutconnector`, `cloningfanoutconnector` | none | hand one payload to several consumers | pipelines | sharing of mutable data, partial failure | each consumer sees the data once, unmodified by others; the receiver learns of a refusal |
| `processor/queuedprocessor` | bounded queue, back-off, stop channel | enqueue, process, re-enqueue, shut down | pipelines | re-enqueue into a full or stopped queue | as exporterhelper |
| `processor/memorylimiter` | flag, limits, ticker | periodic check, refuse | pipelines | stale flag, unsigned ballast arithmetic | lets data through only with room for a spike |
| `processor/samplingprocessor/tailsamplingprocessor` | traces waiting for a decision, id batches, channel of traces to drop | add, tick, late spans, drop oldest | pipelines | arrivals during the decision without a common lock | a sampled trace leaves whole, a decision is final, callers return |
| `processor/filterprocessor`, `attributesprocessor`, `resourceprocessor` | cache of match results; none | filter metrics, change attributes | pipelines | cache eviction, shared values, order of actions | what passes is what the configuration says |
| `receiver/kafkareceiver` | session, marked and committed offsets | set up, claim, mark, consume, clean up | a consumer group client | rebalances, crashes between mark and consumption | nothing skipped but what was in hand, nothing repeated without a crash |
| `receiver/prometheusreceiver` | first and last point of each time series, marks, last collection | scrape transaction, adjust, collect | scrape loops of a library | counter resets, collection during a scrape | adjusted counters never exceed what was counted nor decrease between resets; unused series go |
| `receiver/fluentforwardreceiver` | connections, event channel | read, hand on, acknowledge, collect, shut down | clients that resend what is not acknowledged | acknowledgement before consumption | what was acknowledged is stored and passed on |
| `receiver/hostmetricsreceiver` | scrapers, ticker, done channel | initialise, tick, scrape, shut down | the operating system | initialisation on a goroutine, shutdown at any time | scrapes what was initialised, the loop ends |
| `receiver/opencensusreceiver` | node and resource of each stream | receive a message | streams | messages inherit from earlier ones | spans get the resource of their own stream |
| `exporter/opencensusexporter` | pool of open streams | take, open, send, put back, shut down | under exporterhelper | errors on every path | the pool keeps its size, payloads are not mixed |
| `exporter/prometheusremotewriteexporter`, `src/exporter/cortexexporter` | wait group, close channel; time series map per push | validate, convert, sign, post, shut down | under exporterhelper | Shutdown against pushes, signatures of label sets | samples under their labels, losses counted, quiet after Shutdown |
| `extension/fluentbitextension` | child process | start, restart, stop | operating system | process dies at any time | one process, kept running |
| `extension/*` (others) | HTTP servers | start, stop, be notified | service | errors during Start | running around pipelines |
| other receivers and exporters (otlp, jaeger, zipkin, kafka, file, logging, prometheus) | client or server of a library | one call each | - | - | - |
| `consumer/pdata` slices | array of pointers behind a pointer | append, resize, copy, move | all | aliasing | a slice has the elements it was given, whatever happens to others |
| `config`, `translator`, `obsreport`, `component` | none | loading, conversion, data structures, metrics, interfaces | all | - | - |

`PROJECT.json` lists each of them with its sources and status, and every hazard
found, with the line at which it bites and the properties aimed at it.

## 2. Plan

Done, in this order:

1. **ExporterHelper** with the abstract specification **RequestFate** and
   **ExporterHelperProofs**: every exporter depends on it.
2. **GroupByTrace** with **RingBuffer** and **GroupByTraceProofs**.
3. **BatchProcessor** with **BatchProcessorProofs**, and **SplitTraces**.
4. **Service**: life cycle; what it shows is what the components' own modules assume
   about who calls when.
5. **TailSampling**; **FanOut**, **MemoryLimiter** and **QueuedProcessor**, composed as
   a receiver in front of two pipelines.
6. The components that keep state of their own: **OpenCensusExporter**,
   **OpenCensusReceiver**, **FluentBit**, **FluentForward**, **PrometheusReceiver**,
   **KafkaReceiver**, **HostMetrics**, **RemoteWrite** (with Cortex's signing client),
   **FilterProcessor**, **AttributeActions**; and **PdataSlice**, the data structure
   all of them share.
7. Proofs for every value of the constants: the refinement of RequestFate by
   ExporterHelper (**ExporterHelperProofs**) and by a pipeline with `queued_retry`
   (**FanOutProofs**), delivery in GroupByTrace, **ServiceProofs**,
   **TailSamplingProofs**, **RemoteWriteProofs** (shutdown, losses, and in which
   time series samples end up), slices as values (in **BatchProcessorProofs**), and
   **ComponentProofs**: Kafka offsets, the filter processor, attribute actions, the streams
   of OpenCensus, what fluent forward acknowledged and the subprocess of fluent bit.

Every state invariant that a passing run checks is stated by a theorem. What could be added is
listed at the end of section 6.

## 3. Modules

### RequestFate, ExporterHelper

Code: `exporter/exporterhelper/{common,queued_retry,tracehelper,metricshelper,logshelper}.go`.
A request is a set of items. Variables: `lifecycle` is how far `Start` and
`Shutdown` have come; `queue` and `worker` are Jaeger's `BoundedQueue` and its
consumers, a library that is modelled from how it is used; `pc[r]` says where the
goroutine that handles `r` is (in `send`, in the push function, parked in the
select of the back-off); `data[r]` is the request as it is retried, `acked[r]` and
`dropped[r]` record what the back end confirmed and what an error reported. Each
outcome of an attempt (success, permanent, retryable, partial error) is an action.
`StopRetries`, `StopQueue`, `AwaitConsumers`, `ShutdownExporter` are the steps of
`Shutdown` between which others run. When a context is cancelled or the stop
channel closed, a parked goroutine returns in the same step: the channels it waits
for are ready and nothing else can happen to it.

Data abstracted: payload contents, error texts, durations. `MaxElapsedTime` is
`GivesUp` (zero or not): when it is set the loop may give up after any attempt and
must after `MaxAttempts`. A push function that returns nil returns a count of 0 with it, as
every exporter of the repository does (`queued_retry.go:169` would pass another count on).

`RequestFate` is what a pipeline may rely on: a request is new, accepted, and then
exported, lost or refused, once; nothing is accepted or exported once the exporter
is closed. `ImplementsFate` maps `pc` and `result` to it.

### RingBuffer, GroupByTrace

Code: `processor/groupbytraceprocessor/*.go`. `RingBuffer` has `newRingBuffer`,
`put`, `contains`, `delete` as operators on a record of slice, map and index.
`GroupByTrace` has the event machine (one action per event handler, blocked while
the channel is full or the storage is locked), the callers of `fire` with the lock
they hold while they write one or two events, timers, the goroutines of
`markAsReleased`, and `shutdown`. Batches have an identity, so that losing one can
be told from losing another; a trace may come in any number of calls. The result of
`splitByTrace` is the constant `Payload`. History variables record what the properties
are about: `stay[b]`, the stay of a trace in the ring during which `b` was stored; `late`, the
batches that were stored while their trace was leaving, that is, being sent on or removed;
`discarded`, what was stored when its trace was evicted; `rejected`; and `lost`, what was
deleted without having been sent on.

### BatchProcessor, SplitTraces

Code: `processor/batchprocessor/{batch_processor,splittraces}.go`. A payload is an
object that the channel refers to, as in Go: what `splitTrace` leaves in it is what
the goroutine puts back. `tick` tells a tick that fired before the last `Reset`
from one after it. The metrics pipeline is `SendBatchMaxSize = 0`. Sending on a
closed channel panics and is the state `crashed`. `SplitTraces` is the loop of
`splitTrace` over resources, libraries and spans, step by step, against the
definition of its result (the last `size` spans, in their context).

### Service

Code: `service/service.go`, `service/telemetry.go`, `service/builder/*.go`, and the
validation in `config/config.go` as an assumption on the constants. Instances are
what the builders make: one exporter per data type that some pipeline needs
(although `builtExporter.Start` starts two of the three), one processor per place in
a pipeline, one receiver per data type with consumers. `phase` is the position in
`execute`; `todo` is the part of a Go map that has not been visited (any order),
`queue` the calls left for the element being visited. Start and Shutdown of a
component are two steps each, so that others run in between.

### TailSampling

Code: `processor/samplingprocessor/tailsamplingprocessor/processor.go`, its
`idbatcher` and the policies of `sampling`. Callers of `processTraces` and the
goroutine of the ticker share the map of traces, the data it points to and the id
batcher; one action is what a goroutine does between two accesses that others can see.
`Decisions` are written without the lock under which callers read them; they are words,
so a read gives the old or the new one. What a policy says of a trace is a constant,
except for the rate limit, whose second is modelled.

### FanOut, MemoryLimiter, QueuedProcessor

Code: `processor/{fanoutconnector,cloningfanoutconnector}.go`, the choice between them
in `service/builder/receivers_builder.go`, `processor/memorylimiter`,
`processor/queuedprocessor`. `FanOut` composes the others: a receiver's payload goes to
each pipeline in turn, as the same object or a clone; a pipeline's limiter may refuse
it, its processors may modify the object, its queue keeps a reference to it. Objects have
an identity, so that a modification can be seen by whoever else refers to it. The limiter
subtracts as unsigned numbers do, modulo the constant `Word`.
`QueuedProcessor` puts what failed back at the end of the queue before it backs off. Its
`ImplementsFate` maps payloads to the requests of `RequestFate`.

### OpenCensusExporter, OpenCensusReceiver

The pool of streams of `exporter/opencensusexporter`, and at the other end of the
streams the handlers of `receiver/opencensusreceiver/{octrace,ocmetrics}`, which give a
message without node or resource those of earlier messages. Composed, they answer whether
the exporter's filling in of empty nodes and resources suffices when unrelated pushes share
a stream.

### KafkaReceiver, PrometheusReceiver, FluentForward, HostMetrics

`KafkaReceiver`: sessions, claims, marking and commit of offsets, crash and restart. While a
session ends, messages that the client has buffered are still handled.
`PrometheusReceiver`: scrape transactions, the adjuster's maps of first and previous
points (kept as references, since points are adjusted in place), marks, and garbage
collection on goroutines of its own. A page may have gauges only, which are passed on as they
are and leave no mark. `FluentForward`: connections that put events on a
channel and acknowledge them, the collector that empties it, shutdown of both.
`HostMetrics`: initialisation on a goroutine, ticker, rounds of scraping, shutdown.

### RemoteWrite

Code: `exporter/prometheusremotewriteexporter/{exporter,helper}.go` and
`src/exporter/cortexexporter/auth.go`. A push validates metrics, turns points into samples,
collects them in a map by signature and posts the map. Texts are sequences of words and
signs, so that sanitizing and the signature are what they are in the code. `signing`
selects Cortex's client, whose transport error ends the process. `RemoteWriteData` has the
payloads of the runs.

### FluentBit, FilterProcessor, AttributeActions, PdataSlice

`FluentBit` is the state machine of `extension/fluentbitextension/process.go` with the
process and the goroutine that waits for it. `FilterProcessor` is `ProcessMetrics` step by
step, with the cache of `internal/processor/filterset`, behind a fan-out.
`AttributeActions` is `AttrProc.Process` on attributes kept as references to values, against
a definition of each action on a function from keys to values. Values are strings, empty ones
included, numbers (and booleans), maps (and arrays) and null, which may be a nil pointer; each
extraction has a pattern of its own, a function from strings to submatches. What has no bytes
is not hashed but becomes the empty string, and copying to a nil value panics: the properties
say so, and section 5 has the documents that say otherwise. `PdataSlice` is the slice
template of `consumer/pdata`, with Go's slices as arrays that have capacity, against the
sequences that a program expects.

## 4. Runs

All are in `PROJECT.json`, with a mutant for each property: a change of a modelled
definition such as a bug in that code would be, under which TLC finds the property
violated.

| run | instance | what it shows |
|---|---|---|
| `exporter_queued_traces` | 3 requests of 2 items, 2 workers, queue of 2, symmetry; 1.9M states | the safety properties and the refinement of RequestFate. Three requests are the fewest with which a request waits while both workers are busy, two the fewest items for a partial error with a rest |
| `exporter_modes` (extends RemoteWrite) | queue disabled, 2 callers, metrics, no limit on retries; or queue, 2 requests, 1 worker; or 2 remote write pushes, with either client | metrics are resent whole and still reported right; retry loops end after the stop channel is closed; a queued request is decided and Shutdown ends. Remote write, with labels that signatures tell apart and labels that they do not: every sample in the time series of its signature, losses counted, quiet after Shutdown, Shutdown waits only for somebody who will end its wait |
| `groupbytrace` | 2 traces in 4 batches and 3 calls: one comes with 2 batches and again with a third; ring of 1, channel of 3 | whole and once, eviction, explained loss, ring; every trace leaves, the storage empties, Shutdown returns. The ring has to evict, the channel can be full, and a trace comes back before, while and after it is sent on or removed |
| `batching` | payloads of 5, 1, 2 and 0 spans, size 2, maximum 3, channel of 1; or every payload of up to 2 resources x 2 libraries x 3 spans; or 4 operations on 2 slices | conservation, bounded batches, flush, progress: the large payload is split twice and the channel is full when a remainder comes back. `splitTrace` takes the last spans, in context, and returns. Slices behave as values |
| `collector` (extends Service and FanOut) | a traces and a metrics pipeline that share a receiver and an exporter, 2 extensions; or 3 pipelines of traces behind a fan-out, one of which modifies data, without retries; or one queue of metrics of 1 entry with 2 workers and retries | start and stop order, watchers, completion; isolation of pipelines, refusals told, room for a spike (words of 8 values; levels with room, at the edge of the spike limit and above the limit); conservation, the refinement of RequestFate and Shutdown of the queue |
| `tail_sampling` | 2 calls with 2 traces, room for 1 trace, an attribute and a rate policy, wait of 1 tick | sampled traces leave whole, decisions are final, the wait is respected, callers return although room has to be made |
| `components` (extends KafkaReceiver, FilterProcessor, AttributeActions, OpenCensusReceiver, FluentForward, FluentBit) | see the comments of MCComponents | the other components: pool of streams, resources on streams, child process, acknowledged events, adjusted counters, offsets, scraping, filter, attribute actions |
| `exporter_drain` (violation) | 2 requests, 1 worker | the queue is not drained at shutdown |
| `groupbytrace_lock` (violation) | a trace that comes back, ring of 2 | the read lock of the storage is left held |
| `batch_close` (violation) | payloads of 3 and 1, size and maximum 2 | a remainder is lost, or panics, at shutdown |
| `service_logs` (violation) | one logs pipeline | its exporter is never started |
| `kafka_rebalance` (violation) | one partition, 2 messages | the second session panics |

Components that do not interact are checked side by side in one run: the initial state
chooses a `part` (or `mode`), and the variables of the others stay as they are. A part that is
not chosen has no fair action enabled in its initial state, so fairness for it holds
trivially and does not make the liveness properties of the chosen part vacuous; each
liveness property has a mutant that shows this.

Deadlock is not checked: every model may stop when its callers have stopped and
Shutdown has completed (and after a violation of the kinds above); that nobody
waits for ever is stated by the liveness properties instead.

### Bounds

`MaxAttempts` (attempts after which a limited retry has given up), `LateBound` (late
attempts beyond two are not counted), one call per request or payload, one report
per component; `MaxProcesses` of FluentBit and `MaxStarts` of KafkaReceiver
(two are enough for a restart after a crash, three for a restart of a restart),
`MaxOffset`, `MaxEvents` (two: one in hand and one behind it), `MaxScrapes`, `MaxGrowth` and
`MaxSweeps` (first point, growth, and a reset or a sweep between scrapes), `MaxRounds` (the
second call finds the cache filled by the first), `MaxOps` and `MaxLen` of PdataSlice (one
operation to fill each slice, one to alias and one to modify). Sequences and counters are
otherwise bounded by the constants.

### Fairness

* ExporterHelper: a goroutine that can run does; timers fire; the push function
  returns, because `timeoutSender` gives it a deadline (with `timeout: 0` the code
  gives none, see the hazards); a Shutdown that was begun goes on. Callers,
  cancellation and the decision to shut down are not fair.
* GroupByTrace: event machine, timers, releasers and writers blocked on the channel
  make progress when they can.
* BatchProcessor: weak fairness for the cycle and the timer, strong fairness for the
  tick and for putting remainders back. Go's `select` chooses at random among ready
  cases, and waiting senders are served in order, so neither is neglected for ever.
* Service: `execute` goes on and the components' Start and Shutdown return. Nobody
  has to read the state channel and no event has to happen.
* TailSampling: callers, the batcher's reader and the ticker go on.
* QueuedProcessor: workers go on, back-off timers fire, the next consumer returns, a
  Shutdown that was begun goes on.
* OpenCensusExporter: a push and a Shutdown go on; `Send` returns.
* FluentBit, FluentForward: their goroutines go on; a process that was told to end does;
  the next consumer returns.
* HostMetrics: the loop goes on and ticks come. Strong fairness for the case of the
  select that sees the closed channel: a tick may be ready every time, but `select`
  chooses at random.

## 5. Where code and documents disagree

Runs with expected violations, with the finding in `PROJECT.json`:

* `exporter_drain`: the comment at `queued_retry.go:125` says stopping the queue
  drains it; a consumer may leave while requests wait.
* `groupbytrace_lock`: `memoryStorage.get` returns without unlocking when the trace
  is not stored.
* `batch_close`: the goroutine with a remainder sends on a closed channel, or comes
  too late; the test for closing expects every span.
* `service_logs`: `builtExporter.Start` and `Shutdown` skip the logs exporter.
* `kafka_rebalance`: `Setup` closes the `ready` channel in every session, so the session
  after a rebalance panics; the comment at `kafka_receiver.go:100` says it will be
  recreated.

Further configurations are kept for reference and give a counterexample when run by
hand (`tlc -config X.cfg M`); where the table says so, with another property or other
values of the constants in the file:

| configuration | module | property | what happens |
|---|---|---|---|
| `groupbytrace_wait` | MCGroupByTrace | ReleasedByOwnTimer | the timer of an evicted trace releases it after it has come back |
| `groupbytrace`, this property | MCGroupByTrace | NoOrphanAfterShutdown | the stop event comes between traceReleased and traceRemoved |
| `groupbytrace_full` | MCGroupByTrace | PayloadIsHandled | with the channel full an eviction makes the event machine wait for itself |
| `batch_stale_tick`, this property, size 3, maximum 2 | MCBatchProcessor | MaxSizeRespected | a maximum below the size is accepted and exceeded |
| `batch_stale_tick` | MCBatchProcessor | NotSentEarly | a tick from before `Reset` sends the next batch |
| `batch_stale_tick`, this property under FairSpec, size 0, maximum 2 | MCBatchProcessor | SpansAreSent | with size 0 a payload above the maximum is put back for ever |
| `service_healthcheck` | MCService | FatalErrorStops | ReportFatalError from inside Start blocks `execute` |

`tlc -continue -config disagreements.cfg MCDisagreements` checks eight more on small instances of
their own; each of them is violated:

| property | module | what happens |
|---|---|---|
| SharedUnmodified | FilterProcessor | the filter processor declares `MutatesConsumedData: false` (`filterprocessor/factory.go:31`) and shortens the list it shares with other pipelines |
| NeverOverCounts | PrometheusReceiver | two series of a metric that differ in which label is empty have one signature, which `metrics_adjuster.go:115` calls unique |
| UnderItsLabels | RemoteWrite | two label sets whose texts contain the separator have one signature, and share a time series |
| HistogramsHandled | RemoteWrite | a histogram with one more bucket than bounds, as the protocol says, is indexed past the end of its bounds |
| FailureIsReturned | RemoteWrite | with Cortex's client a transport error ends the process by `log.Fatal`, retry and queue notwithstanding |
| StoppedAtShutdown | HostMetrics | scraping goes on after Shutdown has returned |
| HashedIsHash | AttributeActions | an empty string, a map, an array and null become the empty string (`processorhelper/hasher.go:61`); `attraction.go:74` and `attributesprocessor/README.md:18` say the value is overwritten with its hash, `hasher.go:37` that all types are supported |
| UpdatesApplied | AttributeActions | an update or upsert of an attribute whose value came as nil panics in `copyTo` (`consumer/pdata/common.go:338`) instead of setting it |

`LossIsExplained` holds with its exception `late`: spans that come while their trace is being
sent on or removed are deleted with it, and may make `get` leave the lock held.

Hazards that no property here is about, besides those of the table, because the code leaves
them open and no document promises anything, or because they are outside the abstraction:

* `exporterhelper/common.go:225`: with timeout 0 an attempt has no deadline, and Shutdown
  waits for a back end that does not answer; `queued_retry.go:196`: a queued request keeps
  the context of the call that brought it.
* `groupbytraceprocessor/ring_buffer.go:38` and `tailsamplingprocessor/processor.go:118`:
  `num_traces` 0 divides by zero, or makes the first caller wait for ever.
* `tailsamplingprocessor/processor.go:336`: Shutdown does not stop the ticker.
* `service/service.go:414`: a component that fails to start leaves those before it running.
* `internal/processor/filterset/regexp/regexpfilterset.go:87`: expressions are not anchored,
  although the comments at lines 55 and 79 say so.
* `prometheusreceiver/internal/metrics_adjuster.go:368`: a histogram that comes back with more
  buckets is compared past the end of the first one.
* `opencensusexporter/opencensus.go:188`: `Send` has no deadline; `:193`: after an error on the
  second resource the retry sends the first one again.
* `prometheusremotewriteexporter/exporter.go:73`: a push that adds to the wait group while
  `Wait` wakes up may make it panic.

## 6. Proofs

**ExporterHelperProofs**, for every set of requests, items and workers, any queue
size and retry bound, with the queue or without. Assumptions: the named ones in
`ExporterHelper` (the constants have their types; a request is not one of the
strings that stand for a worker's state). The properties are not inductive. `IInv`
adds to `TypeOK` what ties the pieces together: a request in the queue is there
once and its `pc` says so; a worker that holds a request is the only one, and
the request is active; with the queue enabled an active request has a worker; before
Start and after the workers have left there is none; for traces the items still to
be sent are exactly those that were not acknowledged; a request that is
parked in a back-off has not been told to stop, which is why its next attempt is the
only late one. The proof goes action by action.
Theorems: `TypeCorrect`, `LossReported`, `AckedNotResent`, `OneLateAttempt`,
`OneHolder`, `QuietAfterShutdown`, all by way of `Invariance` (`Spec => []IInv`).

`FateRefined` (`Spec => ImplementsFate`) is the refinement: under `IInv` each step of the
helper maps to one step of RequestFate or to none. A request that has one holder is decided
once, and one that is still held when Shutdown is over has no worker that could export it.

**GroupByTraceProofs**: `RingStaysConsistent` and `TypeCorrect`, for every ring size of at
least one, any assignment of batches to traces and calls and any interleaving: slice and map
of the ring are inverse to each other. They rest on lemmas about `Put` and `Delete`
(each keeps the ring consistent when its argument is absent, or present or not),
and on the guard by which `processBatch` puts only traces that the ring does not
contain; the inductive invariant adds the types of the events and of the pending work
from which the handlers take their arguments.
`DeliveredWholeAndOnce`, `EvictedStayUnreleased` and `LossStaysExplained` hold for any arrivals,
of a trace in one call or in many, before, while and after it is sent on
(`BatchAssumption` only gives each batch an identity of its own). Batches that came while
their trace was leaving (`late`) are the exception the properties name, and the proof shows that they
are the only one. The invariant is `GenInv`. `ControlInv` is about the channel and those who write to
it: an event that adds, expires or releases is there once, with the call, timer or releaser it comes from; and what a removed event
will find in the storage is settled (delivered, refused, evicted or late) or in the hands of a
releaser whose released event comes before it (`RemovedOK`, `SecondOK`). `DataInv` is about the
spans: what was stored in time during the present stay in the ring is in the storage and nowhere
else (`InTime`), what was stored in time during one stay is together wherever it is
(`Together`), spans that were copied and are still stored belong to a trace that is leaving
(`TwiceOK`), evicted spans wait for their removal (`EvictedOK`), and a releaser whose trace has
no late batches has it for itself (`ReaderOK`), so that `get` finds it. It was checked by TLC on
the instance of `groupbytrace` before it was proved.

**BatchProcessorProofs**, for any calls, payloads, batch sizes and channel, from the
assumption that the sizes are natural numbers. `IInv` rests on one observation: `splitTrace`
takes from the end, so a payload object is always the front of what it was (`Fronts`), and a
span has left it if and only if it is in the batch, sent or failed, which are disjoint
(`OutWhenTaken`, `Disjoint`). `NotFull` (a full batch is sent at once) makes the
subtraction in `Room` safe; `OnItsWay` (what was accepted and is not empty is in the channel
or with a goroutine) and `Ended` give the guarantee of Shutdown. Theorems: `TypeCorrect`,
`SpansStayInOnePlace`, `ShutdownLeavesRemainders`, all by way of `Invariance`, and
`BatchesAreSmall`: with a maximum, no batch is larger than the maximum or, where the
configuration has it larger (which nothing checks), than `send_batch_size`, up to which a split
fills the batch.

`SlicesCorrect` is about `PdataSlice`, for any number of slices, any length and any sequence of
operations (`SliceAssumption`: finitely many slices, a natural number as maximal length). That
a slice holds its value is not inductive, since an operation on one slice writes to arrays
and elements. `SliceInv` is about ownership: a slice is the front of an array that no
other slice has (`OwnArray`), and the elements of that array, those in the room behind
the slice included, are nobody else's and there once (`OwnElements`). The room is where the
generated code could go wrong: `Resize` hides elements there and `Append` overwrites them, and
`MoveAndAppendTo` hands them on.

**ComponentProofs** has the components that stand alone.

*Kafka*, for any partitions, messages, starts, rebalances and crashes (a
hypothesis of the theorems: `MaxOffset`, the number of messages, is a natural number).
`SkipsOnlyInHand` needs that the marked offset is that of the next message, or one behind the
message in hand (`ClaimsFollowMarks`), and that whatever is marked is accounted for
(`MarkedAccounted`); `RepeatsOnlyAfterCrash` that a message the process may still take was passed
on only by processes that died (`NextIsNew`). `OffsetsStayRight` puts the two together.

*Filter processor*: `FiltersCorrect`, for any data, matchers, number of pipelines and cache
size (`FilterAssumption`: they have their types). Hypothesis: the data is converted, not
OpenCensus data that the processor shares with other pipelines; for that the theorem is
false, as `SharedUnmodified` in section 5 shows. The caches of all pipelines hold
only right answers (`RightCaches`), so that what `Matches` says does not depend on
what was evicted; `Halfway` says of a call in progress what the metrics seen so far left.

*Attribute actions*: `ActionsCorrect`, for any list of actions, any patterns, any hash function
and any attributes, null and empty ones included (`AttributeAssumption`: the constants have their
types, keys of the incoming attributes are distinct, and a pattern that matches gives a string
for each of its groups). An attribute map holds references, and an entry that
is deleted is replaced by the last one. `Holds` says that a map of references stands for
a function from keys to values; each of `Insert`, `Upsert`, `Delete` and the extraction
turns one that stands for `f` into one that stands for what the action means for `f`. The
values a reference can reach never change (`Longer`), which is why sharing them between
spans and with the configuration does no harm.

*OpenCensus*: `StreamsStayShared`, for any calls, payloads and number of workers
(`OpenCensusAssumption`: at least one worker, payloads are sequences of messages).
`StreamInv`: a stream is in one place, the channel or one call (`StreamInOnePlace`); the
clients in the channel, with calls and with shutdown are counted, and an open
stream is one of them (`PoolInv`), so that there are no more than `num_workers` and nobody
holds one when the channel is closed; the messages of a call that is sending are the last of
its stream (`SendsInv`), because nobody else has it; every message has its own node and
resource, never nil, and is on its stream once (`SentInv`); what was passed on was read
before (`HandlerInv`). So the handler never falls back to the node or resource of the
message before.

*Fluent forward*: `AckedStayKept`, for any connections, number of events and length of the
channel. What was forwarded, is buffered or waits in the channel is, in this order, one
sequence (`Arrivals`); the collector's steps leave it as it is and `Put` appends to it.
`ForwardInv` says that the events of a connection in it are its first ones, as many as the
connection has sent (`Stored`), and that it acknowledges only those.

*Fluent bit*: `OneAtATime`, however often subprocesses end. Unless a configuration could not be
written (a hazard of the code that `OneProcess` excepts), what runs or is to be reported is the
current subprocess, and there is none in the states from which the loop starts one or in which
it has ended (`ProcessInv`).

**FanOutProofs**, for any pipelines behind the connector, any payloads, items, workers, queue
sizes and limits. Hypothesis `SettingsOK`: the connector has every pipeline once, in any
order; whoever modifies data declares that it does; limits and levels are numbers below
`Word`, so that the limiter's subtractions, which the code guards, do not wrap around. `IInv` keeps the books of each pipeline (`Books`: a payload is in one place of the queue
and its workers, its remaining items and the exported ones are all of its items, and once it
is in none of these places it was exported or dropped), what the receiver will be told
(`Answered`) and who can have modified which copy (`TouchedBy`: the original belongs to the
last pipeline, a clone to the pipeline it was made for). Theorems: `PipelinesIsolated`,
`NothingLostOrCopied`, and `FirstPipelineFate`, the refinement of RequestFate, which also
needs that there are items and pipelines. The run `collector` checks the same definitions,
and next to them an instance of the module with a full queue.

**ServiceProofs**, for any configuration that passes the validation, any number of shared
receivers and exporters, starts that fail, signals and fatal errors at any time. Hypothesis
`NoLogs`: no logs pipeline, because its exporter is never started (`service_logs`). Instances
have a level (extensions, exporters, processors, receivers) and the phases of `execute` a
position, numbered such that the loop that starts level `n` is phase `n` and the loop that
stops it is phase `12 - n`. `IInv` says of the levels other than that of the loop that they
are not started, running, or stopped according to the position, and of the level of the loop
that what was visited differs from what was not; inside the level of processors a
chain is started from its end and stopped from its front. Theorems: `UsedStaysRunning`,
`StatesStayTrue`.

**TailSamplingProofs**, for any number of calls and traces, any `num_traces`, `decision_wait`
and non-empty list of policies (`TailSamplingAssumption`; `NumBatches` is at least one, as
`idbatcher.New` demands). `MapStaysSound`: every trace on the map is in exactly one of
three places, the channel `deleteChan`, the hands of a caller that took it out of there, or
the hands of the caller that stored it and has not posted it yet. So there is one who will
delete it, `dropTrace` finds it, and the counter lags behind the map by the callers about to
add. `SampledStayWhole` and `DecidedOnceOnTime` rest on `SampleParts`: which `TraceData` a
batch went into (`Objects`); that a call handles each trace once, with the policies in order
(`InOrder`); that the id of a trace is in one place of the batcher until the ticker loads it,
and old enough for that place (`Delayed`); that policies are decided in order in one
visit of the ticker (`Stage`); and an account of each batch (`Kept`): while a decision is
pending the batch is among the received ones, and once it is "Sampled" the batch was passed
on. The statements are about traces that were not dropped before they came back: one that was
has its id in the batcher twice. `SampleParts` was checked by TLC on the instance of
`tail_sampling` before it was proved.

**RemoteWriteProofs**, for any number of calls, any metrics and either client
(`RemoteWriteAssumption`: finitely many calls, payloads are sequences). The wait group counts
the calls between `Add` and the deferred `Done`, whichever way they end (`Counted`), and
whoever waits has somebody to wait for (`Awaited`): `ShutdownStaysQuiet`. A map of time series
that is not the empty one has an entry (`Mapped`), so that a call that reports no failure has
posted something: `LossStaysCounted`.
`SamplesUnderTheirLabels` (`Spec => []UnderItsSignature`) is for any labels. The map of time
series after the first `n` samples has one entry for each signature among them, with the labels
of the first sample that has it and the values of all that do, in order (`MapSigned`); labels
come out of a Go map and names may be equal once they are sanitized, so a sample may have any
of several signatures. Where no label text of a payload contains the separator and keys stay
apart (`ToldApart`) there is one sorted order of a set of labels, a signature can be read
back, and signatures of two samples are equal exactly when their types and labels are, so the map
is the samples grouped by type and labels. Elsewhere they may share a time series
(`UnderItsLabels` in section 5). `LabelsInv` has both parts.

Only model-checked: liveness (fairness and ENABLED are beyond the prover), and with it the
conjunctions `RequestsMove`, `TracesMove`, `BatchesMove`, `StopsComplete` and
`ComponentsMove`; what `splitTrace` computes (`SplitRight`), an induction over nested data; the
adjusted counters of Prometheus (`AdjustedRight`) and the scrapes of HostMetrics, which the run
`components` checks on instances of those modules. Where a proof needs what a recursive function computes (the metrics kept so far, the
meaning of a list of actions, the extraction of groups), its defining equation is itself
proved, by induction in the form of a statement about sets of numbers (`SetInduction`,
`RecursionExists`).

## 7. What is not modelled

* Flags, logging, metrics, zPages, memory ballast, the Windows service.
* Contents of spans, metrics and logs; conversions between formats (`translator`), which
  are stateless and character by character.
* Generated code: the protobuf structures and their encoding under
  `internal/data/opentelemetry-proto-gen`, and the accessors of `consumer/pdata` and
  `internal/dataold`. They are more than a third of the lines of the repository and hold
  one template each, of which PdataSlice is the one with behaviour.
* Client and server libraries (gRPC, HTTP, Sarama, Prometheus) and the operating
  system (with it the scrapers of host metrics): their calls return success or an error
  at any time.
* Receivers and exporters that only convert and call a library (otlp, jaeger, zipkin,
  kafka exporter, file, logging, prometheus exporter), beyond their life cycle in Service;
  the probabilistic sampler and the span processor, which are stateless.
* The heartbeat and the decoder of fluent forward; the building of metrics from scraped
  lines and the start time metric of prometheus; credentials of Cortex.
* Duplicates at the back end: an attempt whose answer was lost is repeated; the code
  promises nothing else.
