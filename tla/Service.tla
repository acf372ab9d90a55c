------------------------------ MODULE Service ------------------------------
(***************************************************************************)
(* service.Application and service/builder: building, starting, running    *)
(* and stopping the components of the collector.                           *)
(*                                                                         *)
(* execute is one goroutine.  It walks over Go maps, hence in any order, a *)
(* unit at a time: an extension, an exporter (with an instance per data    *)
(* type), a pipeline (with its processors), a receiver.  `todo' holds the  *)
(* units that the loop has yet to visit and `queue' the instances of the   *)
(* present unit whose Start or Shutdown is still to be called.  Components *)
(* run goroutines of their own, which report fatal errors through an       *)
(* unbuffered channel that is read at one place only, in running.          *)
(***************************************************************************)
EXTENDS Naturals, Sequences

CONSTANTS
    Extensions,      \* the enabled extensions
    Watchers,        \* those that implement PipelineWatcher
    Exporters,       \* the configured exporters
    Receivers,       \* the configured receivers
    Pipelines,       \* the configured pipelines
    InputType,       \* InputType[p]: data type of pipeline p
    ReceiversOf,     \* ReceiversOf[p]: the receivers of pipeline p
    Processors,      \* Processors[p]: number of processors of pipeline p
    ExportersOf,     \* ExportersOf[p]: the exporters of pipeline p
    Telemetry,       \* the server of the collector's own metrics
    Reporters,       \* who may report a fatal error: instances, Telemetry
    ReportInStart    \* instances that may do so from inside Start

DataTypes == {"traces", "metrics", "logs"}

\* ValidateConfig: pipelines exist and name existing components, at least one
\* receiver and one exporter each.
ValidPipelines ==
    /\ Pipelines # {}
    /\ InputType \in [Pipelines -> DataTypes]
    /\ ReceiversOf \in [Pipelines -> SUBSET Receivers \ {{}}]
    /\ Processors \in [Pipelines -> Nat]
    /\ ExportersOf \in [Pipelines -> SUBSET Exporters \ {{}}]

ASSUME ServiceAssumption ==
    ValidPipelines /\ Watchers \subseteq Extensions /\ ReportInStart \subseteq Reporters

-----------------------------------------------------------------------------
(* What the builders make of the configuration.  An instance is a tuple    *)
(* with its kind first.                                                    *)

Extension(x) == <<"extension", x>>
Exporter(e, dt) == <<"exporter", e, dt>>
Processor(p, i) == <<"processor", p, i>>
Receiver(r) == <<"receiver", r>>

\* calcExportersRequiredDataTypes; an exporter that no pipeline uses gets none.
RequiredDataTypes(e) == {InputType[p] : p \in {q \in Pipelines : e \in ExportersOf[q]}}

\* findPipelinesToAttach
PipelinesToAttach(r) == {p \in Pipelines : r \in ReceiversOf[p]}

\* buildReceiver leaves out a receiver that no pipeline uses.
UsedReceivers == {r \in Receivers : PipelinesToAttach(r) # {}}

ExtensionInstances == {Extension(x) : x \in Extensions}
ExporterInstances ==
    UNION {{Exporter(e, dt) : dt \in RequiredDataTypes(e)} : e \in Exporters}
ProcessorInstances == UNION {{Processor(p, i) : i \in 1 .. Processors[p]} : p \in Pipelines}
ReceiverInstances == {Receiver(r) : r \in UsedReceivers}
PipelineInstances == ExporterInstances \cup ProcessorInstances \cup ReceiverInstances
Instances == ExtensionInstances \cup PipelineInstances

\* buildPipeline: whom processor i of pipeline p sends to; 0 stands for the
\* receivers of the pipeline.
SendsTo(p, i) ==
    IF i < Processors[p]
    THEN {Processor(p, i + 1)}
    ELSE {Exporter(e, InputType[p]) : e \in ExportersOf[p]}

Consumers(c) ==
    CASE c[1] = "processor" -> SendsTo(c[2], c[3])
      [] c[1] = "receiver"  -> UNION {SendsTo(p, 0) : p \in PipelinesToAttach(c[2])}
      [] OTHER              -> {}

-----------------------------------------------------------------------------
VARIABLES
    phase,         \* where execute is
    todo,          \* units the current loop has not visited
    queue,         \* instances of the current unit still to be called
    failing,       \* a Start of the current unit has returned an error
    status,        \* status[c] of an instance
    ready,         \* watchers told Ready and not yet NotReady
    reporting,     \* goroutines blocked in ReportFatalError
    reported,      \* who has reported (each does so at most once)
    signalled,     \* a signal is in signalsChannel
    stopTest,      \* stopTestChan is closed
    stateChannel   \* states nobody has read yet

vars == <<phase, todo, queue, failing, status, ready, reporting, reported,
          signalled, stopTest, stateChannel>>

StartPhases == {"extensions", "exporters", "processors", "receivers"}
StopPhases == {"stopReceivers", "stopProcessors", "stopExporters", "stopExtensions"}
Returned == {"closed", "aborted", "killed"}

\* What execute does next, and the units its loop visits.
After ==
    [extensions     |-> "exporters",
     exporters      |-> "processors",
     processors     |-> "receivers",
     receivers      |-> "ready",
     notReady       |-> "stopReceivers",
     stopReceivers  |-> "stopProcessors",
     stopProcessors |-> "stopExporters",
     stopExporters  |-> "stopExtensions",
     stopExtensions |-> "telemetry"]

Units(ph) ==
    CASE ph \in {"extensions", "stopExtensions"} -> Extensions
      [] ph \in {"exporters", "stopExporters"}   -> Exporters
      [] ph \in {"processors", "stopProcessors"} -> Pipelines
      [] ph \in {"receivers", "stopReceivers"}   -> UsedReceivers
      [] ph \in {"ready", "notReady"}            -> Watchers
      [] OTHER                                   -> {}

\* The state channel has room for Closed + 1 states.
Room == 4
Announce(s) ==
    /\ Len(stateChannel) < Room
    /\ stateChannel' = Append(stateChannel, s)

Init ==
    /\ phase = "new"
    /\ todo = {}
    /\ queue = <<>>
    /\ failing = FALSE
    /\ status = [c \in Instances |-> "none"]
    /\ ready = {}
    /\ reporting = {}
    /\ reported = {}
    /\ signalled = FALSE
    /\ stopTest = FALSE
    /\ stateChannel = <<>>

-----------------------------------------------------------------------------
(* Setup *)

\* execute up to the first loop: telemetry, configuration, extensions built.
Begin ==
    /\ phase = "new"
    /\ Announce("Starting")
    /\ phase' = "extensions"
    /\ todo' = Extensions
    /\ UNCHANGED <<queue, failing, status, ready, reporting, reported, signalled, stopTest>>

\* ... one of which has failed.
BeginFails ==
    /\ phase = "new"
    /\ Announce("Starting")
    /\ phase' = "aborted"
    /\ UNCHANGED <<todo, queue, failing, status, ready, reporting, reported, signalled, stopTest>>

LoopDone == todo = {} /\ queue = <<>> /\ ~failing

\* The loop is over; the next kind of component is built.
Advance ==
    /\ phase \in StartPhases \cup StopPhases \cup {"notReady"}
    /\ LoopDone
    /\ phase' = After[phase]
    /\ todo' = Units(phase')
    /\ UNCHANGED <<queue, failing, status, ready, reporting, reported, signalled,
                   stopTest, stateChannel>>

\* A factory of the next kind of component fails.
BuildFails ==
    /\ phase \in StartPhases \ {"receivers"}
    /\ LoopDone
    /\ phase' = "aborted"
    /\ UNCHANGED <<todo, queue, failing, status, ready, reporting, reported, signalled,
                   stopTest, stateChannel>>

\* builtExporter.Start and Shutdown: the trace and then the metrics exporter.
ExporterUnit(e) ==
    LET instance(dt) == IF dt \in RequiredDataTypes(e) THEN <<Exporter(e, dt)>> ELSE <<>>
    IN  instance("traces") \o instance("metrics")

\* Mutant: the processors are started from the front of the pipeline.
StartForwards(p) == [i \in 1 .. Processors[p] |-> Processor(p, i)]

\* StartProcessors: from the back of the pipeline.
StartProcessors(p) == [i \in 1 .. Processors[p] |-> Processor(p, Processors[p] + 1 - i)]

\* ShutdownProcessors: from the front.
ShutdownProcessors(p) == [i \in 1 .. Processors[p] |-> Processor(p, i)]

\* The instances of unit u, in the order in which phase ph calls them.
Unit(ph, u) ==
    CASE ph \in {"extensions", "stopExtensions"} -> <<Extension(u)>>
      [] ph \in {"exporters", "stopExporters"}   -> ExporterUnit(u)
      [] ph = "processors"                       -> StartProcessors(u)
      [] ph = "stopProcessors"                   -> ShutdownProcessors(u)
      [] ph \in {"receivers", "stopReceivers"}   -> <<Receiver(u)>>

NextUnit ==
    /\ phase \in StartPhases \cup StopPhases
    /\ queue = <<>> /\ ~failing
    /\ \E u \in todo :
          /\ todo' = todo \ {u}
          /\ queue' = Unit(phase, u)
    /\ UNCHANGED <<phase, failing, status, ready, reporting, reported, signalled,
                   stopTest, stateChannel>>

CallStart ==
    /\ phase \in StartPhases
    /\ queue # <<>>
    /\ status[Head(queue)] = "none"
    /\ status' = [status EXCEPT ![Head(queue)] = "starting"]
    /\ UNCHANGED <<phase, todo, queue, failing, ready, reporting, reported, signalled,
                   stopTest, stateChannel>>

\* Start is being executed, and not blocked in ReportFatalError.
StartCanReturn ==
    /\ phase \in StartPhases
    /\ queue # <<>>
    /\ status[Head(queue)] = "starting"
    /\ Head(queue) \notin reporting

\* Some components call ReportFatalError in Start, on the goroutine of execute.
StartReports ==
    /\ StartCanReturn
    /\ Head(queue) \in ReportInStart \ reported
    /\ reporting' = reporting \cup {Head(queue)}
    /\ reported' = reported \cup {Head(queue)}
    /\ UNCHANGED <<phase, todo, queue, failing, status, ready, signalled, stopTest, stateChannel>>

StartReturns ==
    /\ StartCanReturn
    /\ status' = [status EXCEPT ![Head(queue)] = "running"]
    /\ queue' = Tail(queue)
    /\ UNCHANGED <<phase, todo, failing, ready, reporting, reported, signalled, stopTest,
                   stateChannel>>

\* An exporter goes on with its other instance; all others give up at once.
StartReturnsError ==
    /\ StartCanReturn
    /\ status' = [status EXCEPT ![Head(queue)] = "failed"]
    /\ queue' = IF phase = "exporters" THEN Tail(queue) ELSE <<>>
    /\ failing' = TRUE
    /\ UNCHANGED <<phase, todo, ready, reporting, reported, signalled, stopTest, stateChannel>>

\* execute returns the error; what was started keeps running.
Abort ==
    /\ failing
    /\ queue = <<>>
    /\ phase' = "aborted"
    /\ UNCHANGED <<todo, queue, failing, status, ready, reporting, reported, signalled,
                   stopTest, stateChannel>>

NotifyPipelineReady(w) ==
    /\ phase = "ready"
    /\ w \in todo
    /\ todo' = todo \ {w}
    /\ ready' = ready \cup {w}
    /\ UNCHANGED <<phase, queue, failing, status, reporting, reported, signalled, stopTest,
                   stateChannel>>

NotifyPipelineReadyFails(w) ==
    /\ phase = "ready"
    /\ w \in todo
    /\ phase' = "aborted"
    /\ UNCHANGED <<todo, queue, failing, status, ready, reporting, reported, signalled,
                   stopTest, stateChannel>>

-----------------------------------------------------------------------------
(* runAndWaitForShutdownEvent *)

Run ==
    /\ phase = "ready"
    /\ todo = {}
    /\ Announce("Running")
    /\ phase' = "running"
    /\ UNCHANGED <<todo, queue, failing, status, ready, reporting, reported, signalled, stopTest>>

\* Mutant: the channel is not one of the cases of the select.
SelectWithoutErrors(c) == FALSE /\ UNCHANGED vars

\* Mutant: receivers are stopped before the watchers hear of it.
ClosingUntold ==
    /\ phase = "running"
    /\ Announce("Closing")
    /\ phase' = "stopReceivers"
    /\ todo' = UsedReceivers
    /\ UNCHANGED <<queue, failing, status, ready, reported, signalled, stopTest>>

\* One of the cases of the select has been chosen.
Closing ==
    /\ phase = "running"
    /\ Announce("Closing")
    /\ phase' = "notReady"
    /\ todo' = Watchers
    /\ UNCHANGED <<queue, failing, status, ready, reported, signalled, stopTest>>

SelectError(c) ==
    /\ c \in reporting
    /\ reporting' = reporting \ {c}
    /\ Closing

SelectStop ==
    /\ signalled \/ stopTest
    /\ Closing
    /\ UNCHANGED reporting

-----------------------------------------------------------------------------
(* Shutdown *)

\* Whether or not it returns an error.
NotifyPipelineNotReady(w) ==
    /\ phase = "notReady"
    /\ w \in todo
    /\ todo' = todo \ {w}
    /\ ready' = ready \ {w}
    /\ UNCHANGED <<phase, queue, failing, status, reporting, reported, signalled, stopTest,
                   stateChannel>>

CallShutdown ==
    /\ phase \in StopPhases
    /\ queue # <<>>
    /\ status[Head(queue)] = "running"
    /\ status' = [status EXCEPT ![Head(queue)] = "stopping"]
    /\ UNCHANGED <<phase, todo, queue, failing, ready, reporting, reported, signalled,
                   stopTest, stateChannel>>

\* An error is only remembered: the loops go on.
ShutdownReturns ==
    /\ phase \in StopPhases
    /\ queue # <<>>
    /\ status[Head(queue)] = "stopping"
    /\ status' = [status EXCEPT ![Head(queue)] = "stopped"]
    /\ queue' = Tail(queue)
    /\ UNCHANGED <<phase, todo, failing, ready, reporting, reported, signalled, stopTest,
                   stateChannel>>

Close ==
    /\ phase = "telemetry"
    /\ Announce("Closed")
    /\ phase' = "closed"
    /\ UNCHANGED <<todo, queue, failing, status, ready, reporting, reported, signalled, stopTest>>

-----------------------------------------------------------------------------
(* Components and environment *)

\* Goroutines of a component outlive its Shutdown, and a server that is closed
\* may report just that.  The telemetry server reports to the same channel.
CanReport(c) ==
    \/ c = Telemetry /\ phase # "new"
    \/ c \in Instances /\ status[c] \in {"running", "stopping", "stopped"}

ReportFatalError(c) ==
    /\ phase \notin {"aborted", "killed"}
    /\ c \notin reported
    /\ CanReport(c)
    /\ reporting' = reporting \cup {c}
    /\ reported' = reported \cup {c}
    /\ UNCHANGED <<phase, todo, queue, failing, status, ready, signalled, stopTest, stateChannel>>

\* signal.Notify has not been called yet: the process ends at once.
Killed ==
    /\ phase \in StartPhases \cup {"new", "ready"}
    /\ phase' = "killed"
    /\ UNCHANGED <<todo, queue, failing, status, ready, reporting, reported, signalled,
                   stopTest, stateChannel>>

Signal ==
    /\ phase \notin StartPhases \cup {"new", "ready"} \cup Returned
    /\ ~signalled
    /\ signalled' = TRUE
    /\ UNCHANGED <<phase, todo, queue, failing, status, ready, reporting, reported, stopTest,
                   stateChannel>>

\* Before runAndWaitForShutdownEvent, closing the nil channel panics, the panic
\* is recovered and the request is lost.
SignalTestComplete ==
    /\ phase \notin StartPhases \cup {"new", "ready"} \cup Returned
    /\ ~stopTest
    /\ stopTest' = TRUE
    /\ UNCHANGED <<phase, todo, queue, failing, status, ready, reporting, reported, signalled,
                   stateChannel>>

ReadState ==
    /\ stateChannel # <<>>
    /\ stateChannel' = Tail(stateChannel)
    /\ UNCHANGED <<phase, todo, queue, failing, status, ready, reporting, reported, signalled,
                   stopTest>>

-----------------------------------------------------------------------------
\* The goroutine of execute.
Execute ==
    \/ Begin \/ BeginFails
    \/ Advance \/ BuildFails \/ NextUnit
    \/ CallStart \/ StartReports \/ StartReturns \/ StartReturnsError \/ Abort
    \/ \E w \in Watchers :
          NotifyPipelineReady(w) \/ NotifyPipelineReadyFails(w) \/ NotifyPipelineNotReady(w)
    \/ Run
    \/ \E c \in Reporters : SelectError(c)
    \/ SelectStop
    \/ CallShutdown \/ ShutdownReturns
    \/ Close

Next ==
    \/ Execute
    \/ \E c \in Reporters : ReportFatalError(c)
    \/ Killed \/ Signal \/ SignalTestComplete
    \/ ReadState

Spec == Init /\ [][Next]_vars

\* execute goes on: the calls of Start and Shutdown return (the components'
\* own modules are about that).  Nobody has to read the states.
FairSpec == Spec /\ WF_vars(Execute)

-----------------------------------------------------------------------------
(* Properties *)

Phases == StartPhases \cup StopPhases \cup Returned \cup
          {"new", "ready", "running", "notReady", "telemetry"}

\* Every variable keeps its type.
TypeOK ==
    /\ phase \in Phases
    /\ todo \subseteq Extensions \cup Exporters \cup Pipelines \cup Receivers
    /\ queue \in Seq(Instances)
    /\ failing \in BOOLEAN
    /\ status \in [Instances -> {"none", "starting", "running", "failed", "stopping", "stopped"}]
    /\ ready \subseteq Watchers
    /\ reporting \subseteq reported
    /\ reported \subseteq Reporters
    /\ signalled \in BOOLEAN
    /\ stopTest \in BOOLEAN
    /\ stateChannel \in Seq({"Starting", "Running", "Closing", "Closed"})
    /\ Len(stateChannel) <= Room

Active(c) == status[c] \in {"starting", "running", "stopping"}

\* pipelines_builder.go:52: components are started so that they "do not start
\* sending data to later pipelines which are not yet started", and service.go:359
\* "shutdown order is the reverse of building": a component that can send finds
\* every consumer it was connected to running, while starting and while stopping,
\* for pipelines that share exporters and receivers.
ConsumersRunning ==
    \A c \in Instances : Active(c) => \A d \in Consumers(c) : status[d] = "running"

\* Extensions surround the pipelines: while any pipeline component is active all
\* of them are running.
ExtensionsRunning ==
    \A c \in PipelineInstances : Active(c) => \A x \in ExtensionInstances : status[x] = "running"

\* extension.go: a watcher is told Ready when "the receivers were started" and
\* NotReady "before receivers are stopped": whoever believes that data is being
\* received is right.
ReadyMeansReceiving == ready # {} => \A c \in ReceiverInstances : status[c] = "running"

\* A shutdown that completes has stopped every component, also when other
\* components returned errors from Shutdown.
ClosedMeansStopped == phase = "closed" => \A c \in Instances : status[c] = "stopped"

\* Whoever can send or notify finds what it uses running, consumers and extensions; the
\* state has its types.
UsedIsRunning == TypeOK /\ ConsumersRunning /\ ExtensionsRunning

\* What is said of a state is true: watchers are told that the pipelines are ready only
\* while receivers run, and the service is closed when everything has stopped.
StatesAreTrue == ReadyMeansReceiving /\ ClosedMeansStopped

\* asyncErrorChannel "is used to signal a fatal error from any component": an
\* error reported before the service closes ends the process, even if it is
\* reported while other components are still being started.
FatalErrorStops == (reporting # {}) ~> (phase \in Returned)

\* The same for errors reported as component.go:54 asks, "after its start function
\* had already returned": the process ends, unless a Start that reports an error
\* itself has blocked execute.
LateErrorStops ==
    (reporting # {}) ~> \/ phase \in Returned
                        \/ \E c \in Instances \cap reporting : status[c] = "starting"

\* A signal or SignalTestComplete leads to a completed shutdown although fatal
\* errors arrive at the same time and nobody reads the state channel.
StopCompletes == (signalled \/ stopTest) ~> (phase = "closed")
=============================================================================
