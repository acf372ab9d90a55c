---------------------------- MODULE ServiceProofs ----------------------------
(***************************************************************************)
(* Proofs about starting and stopping the components of a collector, for   *)
(* every configuration without a logs pipeline: what the run of            *)
(* MCCollector checks for two pipelines.  (builtExporter.Start and         *)
(* Shutdown leave out the logs exporter, so that with one the statements   *)
(* do not hold; see the run service_logs.)                                 *)
(***************************************************************************)
EXTENDS Service, SequenceTheorems, TLAPS

NoLogs == \A p \in Pipelines : InputType[p] # "logs"

(***************************************************************************)
(* Levels.  Extensions have level 1, exporters 2, processors 3 and         *)
(* receivers 4.  The phases of execute are numbered such that the loop     *)
(* that starts the instances of level n is phase n, and the one that stops *)
(* them is phase 12 - n.                                                   *)
(***************************************************************************)

Level(c) ==
    IF c[1] = "extension" THEN 1
    ELSE IF c[1] = "exporter" THEN 2
    ELSE IF c[1] = "processor" THEN 3
    ELSE 4

Pos(ph) ==
    IF ph = "new" THEN 0
    ELSE IF ph = "extensions" THEN 1
    ELSE IF ph = "exporters" THEN 2
    ELSE IF ph = "processors" THEN 3
    ELSE IF ph = "receivers" THEN 4
    ELSE IF ph = "ready" THEN 5
    ELSE IF ph = "running" THEN 6
    ELSE IF ph = "notReady" THEN 7
    ELSE IF ph = "stopReceivers" THEN 8
    ELSE IF ph = "stopProcessors" THEN 9
    ELSE IF ph = "stopExporters" THEN 10
    ELSE IF ph = "stopExtensions" THEN 11
    ELSE IF ph = "telemetry" THEN 12
    ELSE 13

Loops == StartPhases \cup StopPhases

\* The level of the instances that the loop of phase ph calls.
LoopLevel(ph) == IF Pos(ph) <= 4 THEN Pos(ph) ELSE 12 - Pos(ph)

\* What is true of the instances of a unit u, in the order in which phase ph calls them.
UnitOK(ph, u, q) ==
    /\ q \in Seq(Instances)
    /\ \A j \in 1 .. Len(q) : Level(q[j]) = LoopLevel(ph) /\ q[j][2] = u
    /\ \A i, j \in 1 .. Len(q) : q[i] = q[j] => i = j
    /\ \A c \in Instances :
          Level(c) = LoopLevel(ph) /\ c[2] = u => \E j \in 1 .. Len(q) : q[j] = c
    /\ ph = "processors" => \A j \in 1 .. Len(q) : q[j][3] = Len(q) + 1 - j
    /\ ph = "stopProcessors" => \A j \in 1 .. Len(q) : q[j][3] = Processors[u] - Len(q) + j

LEMMA AfterPos ==
    ASSUME NEW ph \in StartPhases \cup StopPhases \cup {"notReady"}
    PROVE  Pos(After[ph]) = Pos(ph) + 1 /\ After[ph] \in Phases \ {"aborted", "killed"}
  BY DEF After, Pos, StartPhases, StopPhases, Phases

\* What an instance is made of, by its level.
LEMMA InstanceIs ==
    ASSUME NEW c \in Instances
    PROVE  /\ Level(c) \in 1 .. 4
           /\ Level(c) = 1 => c \in ExtensionInstances /\ c[2] \in Extensions
                              /\ c = Extension(c[2])
           /\ Level(c) = 2 => c \in ExporterInstances /\ c[2] \in Exporters
                              /\ c = Exporter(c[2], c[3]) /\ c[3] \in RequiredDataTypes(c[2])
           /\ Level(c) = 3 => c \in ProcessorInstances /\ c[2] \in Pipelines
                              /\ c = Processor(c[2], c[3]) /\ c[3] \in 1 .. Processors[c[2]]
           /\ Level(c) = 4 => c \in ReceiverInstances /\ c[2] \in UsedReceivers
                              /\ c = Receiver(c[2])
  <1>1. CASE c \in ExtensionInstances
    BY <1>1 DEF ExtensionInstances, Extension, Level
  <1>2. CASE c \in ExporterInstances
    BY <1>2 DEF ExporterInstances, Exporter, Level
  <1>3. CASE c \in ProcessorInstances
    BY <1>3 DEF ProcessorInstances, Processor, Level
  <1>4. CASE c \in ReceiverInstances
    BY <1>4 DEF ReceiverInstances, Receiver, Level
  <1> QED
    BY <1>1, <1>2, <1>3, <1>4 DEF Instances, PipelineInstances

\* The levels of the kinds of instances.
LEMMA LevelIs ==
    /\ \A c \in ExtensionInstances : c \in Instances /\ Level(c) = 1
    /\ \A c \in PipelineInstances : c \in Instances /\ Level(c) \in {2, 3, 4}
    /\ \A c \in ReceiverInstances : c \in Instances /\ Level(c) = 4
  <1>1. \A c \in ExtensionInstances : Level(c) = 1
    BY DEF ExtensionInstances, Extension, Level
  <1>2. \A c \in ExporterInstances : Level(c) = 2
    BY DEF ExporterInstances, Exporter, Level
  <1>3. \A c \in ProcessorInstances : Level(c) = 3
    BY DEF ProcessorInstances, Processor, Level
  <1>4. \A c \in ReceiverInstances : Level(c) = 4
    BY DEF ReceiverInstances, Receiver, Level
  <1> QED
    BY <1>1, <1>2, <1>3, <1>4 DEF Instances, PipelineInstances

\* Data goes down the levels, and inside a pipeline to the next processor.
LEMMA ConsumerIs ==
    ASSUME NEW c \in Instances, NEW d \in Consumers(c)
    PROVE  /\ d \in Instances
           /\ Level(d) \in {2, 3}
           /\ \/ Level(d) < Level(c)
              \/ Level(c) = 3 /\ Level(d) = 3 /\ d[2] = c[2] /\ d[3] = c[3] + 1
  <1> USE ServiceAssumption DEF ValidPipelines
  <1>1. ASSUME NEW p \in Pipelines, NEW i \in 0 .. Processors[p], d \in SendsTo(p, i)
        PROVE  /\ d \in Instances
               /\ Level(d) \in {2, 3}
               /\ Level(d) = 3 => d[2] = p /\ d[3] = i + 1
    <2>1. CASE i < Processors[p]
      <3>1. d = Processor(p, i + 1) /\ i + 1 \in 1 .. Processors[p]
        BY <1>1, <2>1 DEF SendsTo
      <3>2. d \in ProcessorInstances
        BY <3>1 DEF ProcessorInstances
      <3> QED
        BY <3>1, <3>2 DEF Instances, PipelineInstances, Level, Processor
    <2>2. CASE ~(i < Processors[p])
      <3>1. PICK e \in ExportersOf[p] : d = Exporter(e, InputType[p])
        BY <1>1, <2>2 DEF SendsTo
      <3>2. e \in Exporters /\ InputType[p] \in RequiredDataTypes(e)
        BY <3>1 DEF RequiredDataTypes
      <3>3. d \in ExporterInstances
        BY <3>1, <3>2 DEF ExporterInstances
      <3> QED
        BY <3>1, <3>3 DEF Instances, PipelineInstances, Level, Exporter
    <2> QED
      BY <2>1, <2>2
  <1>2. CASE Level(c) = 3
    <2>1. c[1] = "processor" /\ c[2] \in Pipelines /\ c[3] \in 0 .. Processors[c[2]]
      BY <1>2, InstanceIs DEF Processor
    <2>2. d \in SendsTo(c[2], c[3])
      BY <2>1 DEF Consumers
    <2> QED
      BY <1>1, <1>2, <2>1, <2>2
  <1>3. CASE Level(c) = 4
    <2>1. c[1] = "receiver"
      BY <1>3, InstanceIs DEF Receiver
    <2>2. PICK p \in PipelinesToAttach(c[2]) : d \in SendsTo(p, 0)
      BY <2>1 DEF Consumers
    <2>3. p \in Pipelines /\ 0 \in 0 .. Processors[p]
      BY <2>2 DEF PipelinesToAttach
    <2>4. d \in Instances /\ Level(d) \in {2, 3}
      BY <1>1, <2>2, <2>3
    <2> QED
      BY <1>3, <2>4
  <1>4. CASE Level(c) \in {1, 2}
    <2>1. c[1] \in {"extension", "exporter"}
      BY <1>4 DEF Level
    <2> QED
      BY <2>1 DEF Consumers
  <1> QED
    BY <1>2, <1>3, <1>4, InstanceIs

\* The trace and the metrics exporter are all the instances of an exporter.
LEMMA ExporterUnitIs ==
    ASSUME NoLogs, NEW e \in Exporters, NEW ph \in {"exporters", "stopExporters"}
    PROVE  UnitOK(ph, e, ExporterUnit(e))
  <1>1. PICK a, b : a = Exporter(e, "traces") /\ b = Exporter(e, "metrics")
    OBVIOUS
  <1>2. a # b /\ Level(a) = 2 /\ Level(b) = 2 /\ a[2] = e /\ b[2] = e
    BY <1>1 DEF Exporter, Level
  <1>3. /\ "traces" \in RequiredDataTypes(e) => a \in Instances
        /\ "metrics" \in RequiredDataTypes(e) => b \in Instances
    BY <1>1 DEF Instances, PipelineInstances, ExporterInstances
  <1>4. RequiredDataTypes(e) \subseteq {"traces", "metrics"}
    BY ServiceAssumption DEF ValidPipelines, RequiredDataTypes, NoLogs, DataTypes
  <1>5. \A c \in Instances : Level(c) = 2 /\ c[2] = e =>
           \/ c = a /\ "traces" \in RequiredDataTypes(e)
           \/ c = b /\ "metrics" \in RequiredDataTypes(e)
    BY <1>1, <1>4, InstanceIs
  <1>6. LoopLevel(ph) = 2
    BY DEF LoopLevel, Pos
  <1>7. CASE "traces" \in RequiredDataTypes(e) /\ "metrics" \in RequiredDataTypes(e)
    <2>1. PICK q : q = <<a>> \o <<b>>
      OBVIOUS
    <2>2. ExporterUnit(e) = q
      BY <1>1, <1>7, <2>1 DEF ExporterUnit
    <2>3. Len(q) = 2 /\ q[1] = a /\ q[2] = b /\ q \in Seq(Instances)
      <3>1. <<a>> \in Seq(Instances) /\ <<b>> \in Seq(Instances)
        BY <1>3, <1>7
      <3> QED
        BY <2>1, <3>1, ConcatProperties
    <2> QED
      BY <1>2, <1>3, <1>5, <1>6, <1>7, <2>2, <2>3 DEF UnitOK
  <1>8. CASE "traces" \in RequiredDataTypes(e) /\ "metrics" \notin RequiredDataTypes(e)
    <2>1. ExporterUnit(e) = <<a>> /\ <<a>> \in Seq(Instances)
      <3>1. ExporterUnit(e) = <<a>> \o <<>> /\ <<a>> \in Seq(Instances)
        BY <1>1, <1>3, <1>8 DEF ExporterUnit
      <3> QED
        BY <3>1, ConcatEmptySeq
    <2> QED
      BY <1>2, <1>3, <1>5, <1>6, <1>8, <2>1 DEF UnitOK
  <1>9. CASE "traces" \notin RequiredDataTypes(e) /\ "metrics" \in RequiredDataTypes(e)
    <2>1. ExporterUnit(e) = <<b>> /\ <<b>> \in Seq(Instances)
      <3>1. ExporterUnit(e) = <<>> \o <<b>> /\ <<b>> \in Seq(Instances)
        BY <1>1, <1>3, <1>9 DEF ExporterUnit
      <3> QED
        BY <3>1, ConcatEmptySeq
    <2> QED
      BY <1>2, <1>3, <1>5, <1>6, <1>9, <2>1 DEF UnitOK
  <1>10. CASE "traces" \notin RequiredDataTypes(e) /\ "metrics" \notin RequiredDataTypes(e)
    <2>1. ExporterUnit(e) = <<>> /\ <<>> \in Seq(Instances)
      <3>1. ExporterUnit(e) = <<>> \o <<>> /\ <<>> \in Seq(Instances)
        BY <1>1, <1>10 DEF ExporterUnit
      <3> QED
        BY <3>1, ConcatEmptySeq
    <2> QED
      BY <1>5, <1>6, <1>10, <2>1 DEF UnitOK
  <1> QED
    BY <1>7, <1>8, <1>9, <1>10

\* Every loop calls all the instances of its units.
LEMMA UnitIs ==
    ASSUME NoLogs, NEW ph \in Loops, NEW u \in Units(ph)
    PROVE  UnitOK(ph, u, Unit(ph, u))
  <1> USE ServiceAssumption DEF ValidPipelines
  <1>1. CASE ph \in {"extensions", "stopExtensions"}
    <2>1. u \in Extensions /\ Unit(ph, u) = <<Extension(u)>> /\ LoopLevel(ph) = 1
      BY <1>1 DEF Units, Unit, LoopLevel, Pos
    <2>2. Extension(u) \in Instances /\ Level(Extension(u)) = 1 /\ Extension(u)[2] = u
      BY <2>1 DEF Instances, ExtensionInstances, Level, Extension
    <2>3. \A c \in Instances : Level(c) = 1 /\ c[2] = u => c = Extension(u)
      BY InstanceIs
    <2> QED
      BY <1>1, <2>1, <2>2, <2>3 DEF UnitOK
  <1>2. CASE ph \in {"exporters", "stopExporters"}
    <2>1. u \in Exporters /\ Unit(ph, u) = ExporterUnit(u)
      BY <1>2 DEF Units, Unit
    <2> QED
      BY <1>2, <2>1, ExporterUnitIs
  <1>3. CASE ph \in {"processors", "stopProcessors"}
    <2>1. u \in Pipelines /\ Processors[u] \in Nat /\ LoopLevel(ph) = 3
      BY <1>3 DEF Units, LoopLevel, Pos
    <2>2. \A i \in 1 .. Processors[u] :
             /\ Processor(u, i) \in Instances
             /\ Level(Processor(u, i)) = 3
             /\ Processor(u, i)[2] = u /\ Processor(u, i)[3] = i
      BY <2>1 DEF Instances, PipelineInstances, ProcessorInstances, Processor, Level
    <2>3. \A c \in Instances : Level(c) = 3 /\ c[2] = u =>
             c[3] \in 1 .. Processors[u] /\ c = Processor(u, c[3])
      BY InstanceIs
    <2>4. CASE ph = "processors"
      <3>1. PICK q : q = [i \in 1 .. Processors[u] |-> Processor(u, Processors[u] + 1 - i)]
        OBVIOUS
      <3>2. Unit(ph, u) = q
        BY <2>4, <3>1 DEF Unit, StartProcessors
      <3>3. \A i \in 1 .. Processors[u] : Processors[u] + 1 - i \in 1 .. Processors[u]
        BY <2>1
      <3>4. q \in Seq(Instances) /\ Len(q) = Processors[u]
        BY <2>1, <2>2, <3>1, <3>3
      <3>5. \A i \in 1 .. Len(q) :
               q[i][3] = Len(q) + 1 - i /\ q[i][2] = u /\ Level(q[i]) = 3
        BY <2>2, <3>1, <3>3, <3>4
      <3>6. \A i, j \in 1 .. Len(q) : q[i] = q[j] => i = j
        BY <2>1, <3>4, <3>5
      <3>7. ASSUME NEW c \in Instances, Level(c) = 3, c[2] = u
            PROVE  \E j \in 1 .. Len(q) : q[j] = c
        <4>1. PICK j : j = Processors[u] + 1 - c[3]
          OBVIOUS
        <4>2. j \in 1 .. Processors[u] /\ Processors[u] + 1 - j = c[3]
          BY <2>1, <2>3, <3>7, <4>1
        <4>3. q[j] = Processor(u, c[3])
          BY <3>1, <4>2
        <4>4. c = Processor(u, c[3])
          BY <2>3, <3>7
        <4> QED
          BY <3>4, <4>2, <4>3, <4>4
      <3> QED
        BY <2>1, <2>4, <3>2, <3>4, <3>5, <3>6, <3>7 DEF UnitOK
    <2>5. CASE ph = "stopProcessors"
      <3>1. PICK q : q = [i \in 1 .. Processors[u] |-> Processor(u, i)]
        OBVIOUS
      <3>2. Unit(ph, u) = q
        BY <2>5, <3>1 DEF Unit, ShutdownProcessors
      <3>3. q \in Seq(Instances) /\ Len(q) = Processors[u]
        BY <2>1, <2>2, <3>1
      <3>4. \A i \in 1 .. Len(q) : q[i][3] = i /\ q[i][2] = u /\ Level(q[i]) = 3
        BY <2>2, <3>1, <3>3
      <3>5. \A i \in 1 .. Len(q) : q[i][3] = Processors[u] - Len(q) + i
        BY <2>1, <3>3, <3>4
      <3>6. \A c \in Instances : Level(c) = 3 /\ c[2] = u => \E j \in 1 .. Len(q) : q[j] = c
        BY <2>3, <3>1, <3>3
      <3> QED
        BY <2>1, <2>5, <3>2, <3>3, <3>4, <3>5, <3>6 DEF UnitOK
    <2> QED
      BY <1>3, <2>4, <2>5
  <1>4. CASE ph \in {"receivers", "stopReceivers"}
    <2>1. u \in UsedReceivers /\ Unit(ph, u) = <<Receiver(u)>> /\ LoopLevel(ph) = 4
      BY <1>4 DEF Units, Unit, LoopLevel, Pos
    <2>2. Receiver(u) \in Instances /\ Level(Receiver(u)) = 4 /\ Receiver(u)[2] = u
      BY <2>1 DEF Instances, PipelineInstances, ReceiverInstances, Level, Receiver
    <2>3. \A c \in Instances : Level(c) = 4 /\ c[2] = u => c = Receiver(u)
      BY InstanceIs
    <2> QED
      BY <1>4, <2>1, <2>2, <2>3 DEF UnitOK
  <1> QED
    BY <1>1, <1>2, <1>3, <1>4 DEF Loops, StartPhases, StopPhases

-----------------------------------------------------------------------------
(***************************************************************************)
(* The inductive invariant: the levels below the present loop are running  *)
(* or not yet stopped, those above it not yet started or stopped, and      *)
(* inside the loop the units that were visited differ from the others.  It *)
(* says nothing of an execute that has returned early, for which the       *)
(* safety properties are invariant by themselves: no status changes.       *)
(***************************************************************************)

InQueue(c) == \E j \in 1 .. Len(queue) : queue[j] = c

QueueOK ==
    /\ phase \notin Loops => queue = <<>>
    /\ failing => phase \in StartPhases /\ (phase # "exporters" => queue = <<>>)
    /\ \A j \in 1 .. Len(queue) :
          /\ Level(queue[j]) = LoopLevel(phase)
          /\ queue[j][2] \notin todo
          /\ queue[j][2] = queue[1][2]
    /\ \A i, j \in 1 .. Len(queue) : queue[i] = queue[j] => i = j
    /\ phase = "processors" => \A j \in 1 .. Len(queue) : queue[j][3] = Len(queue) + 1 - j
    /\ phase = "stopProcessors" =>
          \A j \in 1 .. Len(queue) : queue[j][3] = Processors[queue[j][2]] - Len(queue) + j

\* The levels that the present loop is not about.
OtherLevels ==
    \A c \in Instances :
        /\ Level(c) > Pos(phase) => status[c] = "none"
        /\ Level(c) < Pos(phase) /\ Pos(phase) < 12 - Level(c) => status[c] = "running"
        /\ Pos(phase) > 12 - Level(c) => status[c] = "stopped"

\* The level that it is about.
StartLoop ==
    /\ \A c \in Instances : Level(c) = LoopLevel(phase) =>
          /\ c[2] \in todo => status[c] = "none"
          /\ c[2] \notin todo /\ ~InQueue(c) /\ ~failing => status[c] = "running"
    /\ \A j \in 1 .. Len(queue) :
          status[queue[j]] = "none" \/ (j = 1 /\ status[queue[j]] = "starting")

StopLoop ==
    /\ \A c \in Instances : Level(c) = LoopLevel(phase) =>
          /\ c[2] \in todo => status[c] = "running"
          /\ c[2] \notin todo /\ ~InQueue(c) => status[c] = "stopped"
    /\ \A j \in 1 .. Len(queue) :
          status[queue[j]] = "running" \/ (j = 1 /\ status[queue[j]] = "stopping")

ReadyOK ==
    /\ Pos(phase) < 5 \/ Pos(phase) > 7 => ready = {}
    /\ phase = "notReady" => ready \subseteq todo

Progress ==
    /\ todo \subseteq Units(phase)
    /\ QueueOK
    /\ OtherLevels
    /\ phase \in StartPhases => StartLoop
    /\ phase \in StopPhases => StopLoop
    /\ ReadyOK

IInv ==
    /\ TypeOK
    /\ ConsumersRunning
    /\ ExtensionsRunning
    /\ ReadyMeansReceiving
    /\ phase \notin {"aborted", "killed"} => Progress

\* The units of the loops, for the type of todo.
LEMMA UnitsType ==
    ASSUME NEW ph
    PROVE  Units(ph) \subseteq Extensions \cup Exporters \cup Pipelines \cup Receivers
  BY ServiceAssumption DEF Units, UsedReceivers

LEMMA InitIInv == Init => IInv
  <1> SUFFICES ASSUME Init
               PROVE  IInv
    OBVIOUS
  <1>1. TypeOK
    <2>1. queue \in Seq(Instances) /\ stateChannel \in Seq({"Starting", "Running", "Closing", "Closed"})
          /\ Len(stateChannel) = 0
      BY DEF Init
    <2>2. failing \in BOOLEAN /\ signalled \in BOOLEAN /\ stopTest \in BOOLEAN
      BY Zenon DEF Init
    <2>3. status \in [Instances -> {"none", "starting", "running", "failed", "stopping",
                                    "stopped"}]
      BY DEF Init
    <2>4. /\ todo = {} /\ ready = {} /\ reporting = {} /\ reported = {}
          /\ phase \in Phases /\ 0 <= Room
      BY DEF Init, Phases, Room
    <2> QED
      BY <2>1, <2>2, <2>3, <2>4 DEF TypeOK
  <1>2. \A c \in Instances : ~Active(c)
    BY DEF Init, Active
  <1>3. ConsumersRunning /\ ExtensionsRunning /\ ReadyMeansReceiving
    BY <1>2, LevelIs DEF ConsumersRunning, ExtensionsRunning, ReadyMeansReceiving, Init
  <1>4. /\ todo \subseteq Units(phase) /\ QueueOK /\ ReadyOK
        /\ phase \notin StartPhases /\ phase \notin StopPhases
    BY DEF Init, QueueOK, ReadyOK, StartPhases, StopPhases, Loops
  <1>5. OtherLevels
    BY InstanceIs DEF Init, OtherLevels, Pos
  <1> QED
    BY <1>1, <1>3, <1>4, <1>5 DEF IInv, Progress

-----------------------------------------------------------------------------
(* What holds of the instance whose Start or Shutdown is called. *)

\* Everybody it uses is running when Start is called.
LEMMA HeadStarts ==
    ASSUME IInv, phase \in StartPhases, queue # <<>>, NEW c, c = Head(queue)
    PROVE  /\ c \in Instances
           /\ Level(c) = LoopLevel(phase)
           /\ status[c] \in {"none", "starting"}
           /\ \A d \in Consumers(c) : status[d] = "running"
           /\ c \in PipelineInstances => \A x \in ExtensionInstances : status[x] = "running"
           /\ ready = {}
  <1>1. Progress /\ queue \in Seq(Instances)
    BY DEF IInv, StartPhases, TypeOK
  <1>2. Len(queue) \in Nat \ {0} /\ c = queue[1] /\ c \in Instances
    BY <1>1
  <1>3. /\ Pos(phase) \in 1 .. 4 /\ LoopLevel(phase) = Pos(phase)
        /\ Pos(phase) = 3 <=> phase = "processors"
        /\ Pos(phase) = 2 <=> phase = "exporters"
    BY DEF StartPhases, Pos, LoopLevel
  <1>4. Level(c) = LoopLevel(phase) /\ status[c] \in {"none", "starting"}
    BY <1>1, <1>2 DEF Progress, QueueOK, StartLoop
  <1>5. ASSUME NEW d \in Instances, Level(d) < Level(c)
        PROVE  status[d] = "running"
    BY <1>1, <1>3, <1>4, <1>5, InstanceIs DEF Progress, OtherLevels
  <1>6. ASSUME NEW d \in Consumers(c)
        PROVE  status[d] = "running"
    <2>1. CASE Level(d) < Level(c)
      BY <1>2, <1>5, <2>1, ConsumerIs
    <2>2. CASE Level(c) = 3 /\ Level(d) = 3 /\ d[2] = c[2] /\ d[3] = c[3] + 1
      <3>1. /\ phase = "processors" /\ ~failing /\ d \in Instances
            /\ d[2] \notin todo /\ c[3] = Len(queue)
        BY <1>1, <1>2, <1>3, <1>4, <2>2, ConsumerIs DEF Progress, QueueOK
      <3>2. ~InQueue(d)
        BY <1>1, <1>2, <2>2, <3>1 DEF Progress, QueueOK, InQueue
      <3> QED
        BY <1>1, <1>3, <1>4, <2>2, <3>1, <3>2 DEF Progress, StartLoop
    <2> QED
      BY <1>2, <2>1, <2>2, ConsumerIs
  <1>7. ASSUME c \in PipelineInstances, NEW x \in ExtensionInstances
        PROVE  status[x] = "running"
    BY <1>5, <1>7, LevelIs
  <1>8. ready = {}
    BY <1>1, <1>3 DEF Progress, ReadyOK
  <1> QED
    BY <1>2, <1>4, <1>6, <1>7, <1>8

\* Nobody who is active uses it any more when Shutdown is called.
LEMMA HeadStops ==
    ASSUME IInv, phase \in StopPhases, queue # <<>>, NEW c, c = Head(queue)
    PROVE  /\ c \in Instances
           /\ Level(c) = LoopLevel(phase)
           /\ status[c] \in {"running", "stopping"}
           /\ \A b \in Instances : c \in Consumers(b) => ~Active(b)
           /\ c \in ExtensionInstances => \A b \in PipelineInstances : ~Active(b)
           /\ ready = {}
  <1>1. Progress /\ queue \in Seq(Instances)
    BY DEF IInv, StopPhases, TypeOK
  <1>2. Len(queue) \in Nat \ {0} /\ c = queue[1] /\ c \in Instances
    BY <1>1
  <1>3. /\ Pos(phase) \in 8 .. 11 /\ LoopLevel(phase) = 12 - Pos(phase)
        /\ Pos(phase) = 9 <=> phase = "stopProcessors"
    <2>1. /\ Pos("stopReceivers") = 8 /\ Pos("stopProcessors") = 9
          /\ Pos("stopExporters") = 10 /\ Pos("stopExtensions") = 11
      BY DEF Pos
    <2>2. phase \in {"stopReceivers", "stopProcessors", "stopExporters", "stopExtensions"}
      BY DEF StopPhases
    <2> QED
      BY <2>1, <2>2 DEF LoopLevel
  <1>4. Level(c) = LoopLevel(phase) /\ status[c] \in {"running", "stopping"}
    BY <1>1, <1>2 DEF Progress, QueueOK, StopLoop
  <1>5. ASSUME NEW b \in Instances, Level(b) > Level(c)
        PROVE  ~Active(b)
    BY <1>1, <1>3, <1>4, <1>5, InstanceIs DEF Progress, OtherLevels, Active
  <1>6. ASSUME NEW b \in Instances, c \in Consumers(b)
        PROVE  ~Active(b)
    <2>1. CASE Level(c) < Level(b)
      BY <1>5, <2>1, InstanceIs
    <2>2. CASE Level(b) = 3 /\ Level(c) = 3 /\ c[2] = b[2] /\ c[3] = b[3] + 1
      <3>1. /\ phase = "stopProcessors" /\ b[2] \notin todo
            /\ c[3] = Processors[b[2]] - Len(queue) + 1
        BY <1>1, <1>2, <1>3, <1>4, <2>2 DEF Progress, QueueOK
      <3>2. b[3] \in Nat /\ Processors[b[2]] \in Nat
        BY <2>2, InstanceIs, ServiceAssumption DEF ValidPipelines
      <3>3. ~InQueue(b)
        <4>1. SUFFICES ASSUME NEW j \in 1 .. Len(queue), queue[j] = b
                       PROVE  FALSE
          BY DEF InQueue
        <4>2. b[3] = Processors[b[2]] - Len(queue) + j
          BY <1>1, <3>1, <4>1 DEF Progress, QueueOK
        <4> QED
          BY <1>2, <2>2, <3>1, <3>2, <4>1, <4>2
      <3>4. status[b] = "stopped"
        BY <1>1, <1>3, <1>4, <2>2, <3>1, <3>3 DEF Progress, StopLoop
      <3> QED
        BY <3>4 DEF Active
    <2> QED
      BY <1>6, <2>1, <2>2, ConsumerIs
  <1>7. ASSUME c \in ExtensionInstances, NEW b \in PipelineInstances
        PROVE  ~Active(b)
    BY <1>5, <1>7, LevelIs
  <1>8. ready = {}
    BY <1>1, <1>3 DEF Progress, ReadyOK
  <1> QED
    BY <1>2, <1>4, <1>6, <1>7, <1>8

-----------------------------------------------------------------------------
(* Every step keeps the types. *)

\* The state channel never holds more than it has room for.
LEMMA AnnounceType ==
    ASSUME TypeOK, NEW s \in {"Starting", "Running", "Closing", "Closed"}, Announce(s)
    PROVE  /\ stateChannel' \in Seq({"Starting", "Running", "Closing", "Closed"})
           /\ Len(stateChannel') <= Room
  BY DEF TypeOK, Announce, Room

LEMMA NextType ==
    ASSUME NoLogs, IInv, [Next]_vars
    PROVE  TypeOK'
  <1> DEFINE States == {"Starting", "Running", "Closing", "Closed"}
  <1> USE DEF SelectError, SelectStop
  <1>1. TypeOK
    BY DEF IInv
  <1>2. /\ failing' = failing \/ failing' = TRUE
        /\ signalled' = signalled \/ signalled' = TRUE
        /\ stopTest' = stopTest \/ stopTest' = TRUE
    BY DEF Next, vars, Execute, Begin, BeginFails, Advance, BuildFails, NextUnit, CallStart,
           StartReports, StartReturns, StartReturnsError, Abort, NotifyPipelineReady,
           NotifyPipelineReadyFails, NotifyPipelineNotReady, Run, Closing,
           CallShutdown, ShutdownReturns, Close, ReportFatalError, Killed, Signal,
           SignalTestComplete, ReadState
  <1>3. stateChannel' \in Seq(States) /\ Len(stateChannel') <= Room
    <2>1. \/ stateChannel' = stateChannel
          \/ \E a \in States : Announce(a)
          \/ stateChannel # <<>> /\ stateChannel' = Tail(stateChannel)
      BY DEF Next, vars, Execute, Begin, BeginFails, Advance, BuildFails, NextUnit, CallStart,
             StartReports, StartReturns, StartReturnsError, Abort, NotifyPipelineReady,
             NotifyPipelineReadyFails, NotifyPipelineNotReady, Run, Closing,
             CallShutdown, ShutdownReturns, Close, ReportFatalError, Killed, Signal,
             SignalTestComplete, ReadState
    <2>2. CASE stateChannel' = stateChannel
      BY <1>1, <2>2 DEF TypeOK
    <2>3. ASSUME NEW a \in States, Announce(a)
          PROVE  stateChannel' \in Seq(States) /\ Len(stateChannel') <= Room
      BY <1>1, <2>3, AnnounceType
    <2>4. CASE stateChannel # <<>> /\ stateChannel' = Tail(stateChannel)
      <3>1. PICK s \in Seq(States) : s = stateChannel /\ Len(s) <= 4
        BY <1>1 DEF TypeOK, Room
      <3>2. Tail(s) \in Seq(States) /\ Len(Tail(s)) <= 4
        BY <2>4, <3>1
      <3> QED
        BY <2>4, <3>1, <3>2 DEF Room
    <2> QED
      BY <2>1, <2>2, <2>3, <2>4
  <1>4. queue' \in Seq(Instances)
    <2>1. \/ queue' = queue
          \/ queue # <<>> /\ queue' = Tail(queue)
          \/ queue' = <<>>
          \/ phase \in Loops /\ \E u \in todo : queue' = Unit(phase, u)
      BY DEF Loops, Next, vars, Execute, Begin, BeginFails, Advance, BuildFails, NextUnit,
             CallStart, StartReports, StartReturns, StartReturnsError, StartCanReturn, Abort,
             NotifyPipelineReady,
             NotifyPipelineReadyFails, NotifyPipelineNotReady, Run, Closing,
             CallShutdown, ShutdownReturns, Close, ReportFatalError, Killed, Signal,
             SignalTestComplete, ReadState
    <2>2. ASSUME phase \in Loops, NEW u \in todo, queue' = Unit(phase, u)
          PROVE  queue' \in Seq(Instances)
      <3>1. u \in Units(phase)
        BY <2>2 DEF IInv, Progress, Loops, StartPhases, StopPhases
      <3> QED
        BY <2>2, <3>1, UnitIs DEF UnitOK
    <2>3. CASE queue' = queue \/ queue' = <<>> \/ (queue # <<>> /\ queue' = Tail(queue))
      <3>1. PICK q \in Seq(Instances) : q = queue
        BY <1>1 DEF TypeOK
      <3>2. q # <<>> => Tail(q) \in Seq(Instances)
        OBVIOUS
      <3>3. <<>> \in Seq(Instances)
        OBVIOUS
      <3> QED
        BY <2>3, <3>1, <3>2, <3>3
    <2> QED
      BY <2>1, <2>2, <2>3
  <1>5. status' \in [Instances -> {"none", "starting", "running", "failed", "stopping",
                                   "stopped"}]
    <2>1. \/ status' = status
          \/ \E x \in {"starting", "running", "failed", "stopping", "stopped"} :
                status' = [status EXCEPT ![Head(queue)] = x]
      BY DEF Next, vars, Execute, Begin, BeginFails, Advance, BuildFails, NextUnit,
             CallStart, StartReports, StartReturns, StartReturnsError, Abort,
             NotifyPipelineReady,
             NotifyPipelineReadyFails, NotifyPipelineNotReady, Run, Closing,
             CallShutdown, ShutdownReturns, Close, ReportFatalError, Killed, Signal,
             SignalTestComplete, ReadState
    <2> QED
      BY <1>1, <2>1 DEF TypeOK
  <1>6. phase' \in Phases
    <2>1. \/ phase' \in {"extensions", "running", "notReady", "closed", "aborted", "killed"}
          \/ phase' = phase
          \/ phase \in Loops \cup {"notReady"} /\ phase' = After[phase]
      BY DEF Loops, Next, vars, Execute, Begin, BeginFails, Advance, BuildFails, NextUnit,
             CallStart, StartReports, StartReturns, StartReturnsError, Abort,
             NotifyPipelineReady,
             NotifyPipelineReadyFails, NotifyPipelineNotReady, Run, Closing,
             CallShutdown, ShutdownReturns, Close, ReportFatalError, Killed, Signal,
             SignalTestComplete, ReadState
    <2>2. {"extensions", "running", "notReady", "closed", "aborted", "killed"} \subseteq Phases
      BY DEF Phases, StartPhases, Returned
    <2> QED
      BY <1>1, <2>1, <2>2, AfterPos DEF TypeOK, Loops
  <1>7. todo' \subseteq Extensions \cup Exporters \cup Pipelines \cup Receivers
    <2>1. \/ todo' \subseteq todo
          \/ todo' \subseteq Extensions
          \/ todo' = Units(phase')
      BY ServiceAssumption
         DEF Next, vars, Execute, Begin, BeginFails, Advance, BuildFails, NextUnit,
             CallStart, StartReports, StartReturns, StartReturnsError, Abort,
             NotifyPipelineReady,
             NotifyPipelineReadyFails, NotifyPipelineNotReady, Run, Closing,
             CallShutdown, ShutdownReturns, Close, ReportFatalError, Killed, Signal,
             SignalTestComplete, ReadState
    <2> QED
      BY <1>1, <2>1, UnitsType DEF TypeOK
  <1>8. ready' \subseteq Watchers
    BY <1>1
       DEF Next, vars, Execute, Begin, BeginFails, Advance, BuildFails, NextUnit,
           CallStart, StartReports, StartReturns, StartReturnsError, Abort,
           NotifyPipelineReady,
           NotifyPipelineReadyFails, NotifyPipelineNotReady, Run, Closing,
           CallShutdown, ShutdownReturns, Close, ReportFatalError, Killed, Signal,
           SignalTestComplete, ReadState, TypeOK
  <1>9. reporting' \subseteq reported' /\ reported' \subseteq Reporters
    BY <1>1, ServiceAssumption
       DEF Next, vars, Execute, Begin, BeginFails, Advance, BuildFails, NextUnit,
           CallStart, StartReports, StartReturns, StartReturnsError, Abort,
           NotifyPipelineReady,
           NotifyPipelineReadyFails, NotifyPipelineNotReady, Run, Closing,
           CallShutdown, ShutdownReturns, Close, ReportFatalError, Killed, Signal,
           SignalTestComplete, ReadState, TypeOK
  <1>10. failing' \in BOOLEAN /\ signalled' \in BOOLEAN /\ stopTest' \in BOOLEAN
    BY <1>1, <1>2, Zenon DEF TypeOK
  <1> QED
    BY <1>3, <1>4, <1>5, <1>6, <1>7, <1>8, <1>9, <1>10 DEF TypeOK

-----------------------------------------------------------------------------
(* Every step keeps the invariant. *)

\* A step that changes no status, nor what the watchers were told.
LEMMA StatusKept ==
    ASSUME IInv, UNCHANGED <<status, ready>>
    PROVE  ConsumersRunning' /\ ExtensionsRunning' /\ ReadyMeansReceiving'
  BY DEF IInv, ConsumersRunning, ExtensionsRunning, ReadyMeansReceiving, Active

\* A step of somebody else.
LEMMA Aside ==
    ASSUME IInv, TypeOK', UNCHANGED <<phase, todo, queue, failing, status, ready>>
    PROVE  IInv'
  <1>1. ConsumersRunning' /\ ExtensionsRunning' /\ ReadyMeansReceiving'
    BY StatusKept
  <1>2. Progress => Progress'
    BY DEF Progress, QueueOK, OtherLevels, StartLoop, StopLoop, InQueue, ReadyOK
  <1> QED
    BY <1>1, <1>2 DEF IInv

\* execute returns early, or the process ends.
LEMMA EndsEarly ==
    ASSUME IInv, TypeOK', UNCHANGED <<status, ready>>, phase' \in {"aborted", "killed"}
    PROVE  IInv'
  BY StatusKept DEF IInv

\* A loop begins: all of its units are still to be visited.
LEMMA LoopBegins ==
    ASSUME IInv, TypeOK', UNCHANGED <<queue, failing, status, ready>>,
           phase \notin {"aborted", "killed"}, queue = <<>>, ~failing,
           Pos(phase') = Pos(phase) + 1, phase' \in Phases \ {"aborted", "killed"},
           todo' = Units(phase'),
           phase' = "notReady" => ready \subseteq todo',
           Pos(phase) = 7 => ready = {},
           \A c \in Instances :
              /\ Level(c) = Pos(phase) => status[c] = "running"
              /\ 12 - Level(c) = Pos(phase) => status[c] = "stopped"
    PROVE  IInv'
  <1>1. ConsumersRunning' /\ ExtensionsRunning' /\ ReadyMeansReceiving'
    BY StatusKept
  <1>2. Progress /\ Pos(phase) \in 0 .. 13 /\ Pos(phase') \in 0 .. 13
    BY DEF IInv, Pos
  <1>3. QueueOK'
    BY DEF QueueOK
  <1>4. OtherLevels'
    <2>1. SUFFICES ASSUME NEW c \in Instances
                   PROVE  /\ Level(c) > Pos(phase') => status[c] = "none"
                          /\ Level(c) < Pos(phase') /\ Pos(phase') < 12 - Level(c)
                                => status[c] = "running"
                          /\ Pos(phase') > 12 - Level(c) => status[c] = "stopped"
      BY DEF OtherLevels
    <2>2. Level(c) \in 1 .. 4
      BY InstanceIs
    <2> QED
      BY <1>2, <2>1, <2>2 DEF Progress, OtherLevels
  <1>5. ReadyOK'
    BY <1>2 DEF Progress, ReadyOK
  <1>6. ASSUME NEW c \in Instances, Level(c) = LoopLevel(phase'), phase' \in Loops
        PROVE  c[2] \in todo'
    <2>1. /\ LoopLevel("extensions") = 1 /\ LoopLevel("stopExtensions") = 1
          /\ LoopLevel("exporters") = 2 /\ LoopLevel("stopExporters") = 2
          /\ LoopLevel("processors") = 3 /\ LoopLevel("stopProcessors") = 3
          /\ LoopLevel("receivers") = 4 /\ LoopLevel("stopReceivers") = 4
      BY DEF LoopLevel, Pos
    <2> QED
      BY <1>6, <2>1, InstanceIs DEF Loops, StartPhases, StopPhases, Units
  <1>7. phase' \in StartPhases => StartLoop'
    <2>1. SUFFICES ASSUME phase' \in StartPhases
                   PROVE  StartLoop'
      OBVIOUS
    <2>2. LoopLevel(phase') = Pos(phase')
      BY <2>1 DEF LoopLevel, Pos, StartPhases
    <2>3. ASSUME NEW c \in Instances, Level(c) = LoopLevel(phase')
          PROVE  c[2] \in todo' /\ status[c] = "none"
      BY <1>2, <1>6, <2>1, <2>2, <2>3 DEF Progress, OtherLevels, Loops
    <2> QED
      BY <2>3 DEF StartLoop
  <1>8. phase' \in StopPhases => StopLoop'
    <2>1. SUFFICES ASSUME phase' \in StopPhases
                   PROVE  StopLoop'
      OBVIOUS
    <2>2. LoopLevel(phase') = 12 - Pos(phase') /\ Pos(phase') \in 8 .. 11
      <3>1. /\ Pos("stopReceivers") = 8 /\ Pos("stopProcessors") = 9
            /\ Pos("stopExporters") = 10 /\ Pos("stopExtensions") = 11
        BY DEF Pos
      <3> QED
        BY <2>1, <3>1 DEF LoopLevel, StopPhases
    <2>3. ASSUME NEW c \in Instances, Level(c) = LoopLevel(phase')
          PROVE  c[2] \in todo' /\ status[c] = "running"
      <3>1. Level(c) \in 1 .. 4
        BY InstanceIs
      <3>2. Level(c) < Pos(phase) /\ Pos(phase) < 12 - Level(c)
        BY <1>2, <2>2, <2>3, <3>1
      <3> QED
        BY <1>2, <1>6, <2>1, <2>3, <3>2 DEF Progress, OtherLevels, Loops
    <2> QED
      BY <2>3 DEF StopLoop
  <1> QED
    BY <1>1, <1>3, <1>4, <1>5, <1>7, <1>8 DEF IInv, Progress

\* The loop goes on to another unit.
LEMMA UnitBegins ==
    ASSUME NoLogs, IInv, TypeOK', NextUnit
    PROVE  IInv'
  <1>1. ConsumersRunning' /\ ExtensionsRunning' /\ ReadyMeansReceiving'
    BY StatusKept DEF NextUnit
  <1>2. /\ phase \in Loops /\ queue = <<>> /\ ~failing /\ Progress
        /\ UNCHANGED <<phase, failing, status, ready>>
    BY DEF NextUnit, Loops, IInv, StartPhases, StopPhases
  <1>3. PICK u \in todo, q \in {queue'} : todo' = todo \ {u} /\ queue' = q /\ q = Unit(phase, u)
    BY DEF NextUnit
  <1>4. UnitOK(phase, u, q)
    BY <1>2, <1>3, UnitIs DEF Progress
  <1>5. Len(q) \in Nat
    BY <1>4 DEF UnitOK
  <1>6. QueueOK'
    <2>1. phase' = phase /\ phase \in Loops /\ ~failing' /\ queue' = q /\ todo' = todo \ {u}
      BY <1>2, <1>3
    <2>2. \A j \in 1 .. Len(q) : Level(q[j]) = LoopLevel(phase) /\ q[j][2] = u
      BY <1>4 DEF UnitOK
    <2>3. \A i, j \in 1 .. Len(q) : q[i] = q[j] => i = j
      BY <1>4 DEF UnitOK
    <2>4. \A j \in 1 .. Len(q) :
             /\ Level(q[j]) = LoopLevel(phase) /\ q[j][2] \notin todo'
             /\ q[j][2] = q[1][2] /\ Processors[q[j][2]] = Processors[u]
      <3> SUFFICES ASSUME NEW j \in 1 .. Len(q)
                   PROVE  /\ Level(q[j]) = LoopLevel(phase) /\ q[j][2] \notin todo'
                          /\ q[j][2] = q[1][2] /\ Processors[q[j][2]] = Processors[u]
        OBVIOUS
      <3>1. 1 \in 1 .. Len(q)
        BY <1>5
      <3> QED
        BY <2>1, <2>2, <3>1
    <2>5. /\ phase = "processors" => \A j \in 1 .. Len(q) : q[j][3] = Len(q) + 1 - j
          /\ phase = "stopProcessors" => \A j \in 1 .. Len(q) :
                q[j][3] = Processors[q[j][2]] - Len(q) + j
      BY <1>4, <2>4 DEF UnitOK
    <2> QED
      BY <2>1, <2>3, <2>4, <2>5 DEF QueueOK
  <1>7. OtherLevels' /\ ReadyOK'
    BY <1>2, <1>3 DEF Progress, OtherLevels, ReadyOK, Loops, StartPhases, StopPhases
  <1>8. ~InQueue(u) /\ \A c : ~InQueue(c)
    BY <1>2 DEF InQueue
  <1>9. phase \in StartPhases => StartLoop'
    <2>1. SUFFICES ASSUME phase \in StartPhases
                   PROVE  StartLoop'
      OBVIOUS
    <2>2. StartLoop
      BY <1>2, <2>1 DEF Progress
    <2>3. ASSUME NEW c \in Instances, Level(c) = LoopLevel(phase)
          PROVE  /\ c[2] \in todo' => status[c] = "none"
                 /\ c[2] \notin todo' /\ ~InQueue(c)' => status[c] = "running"
      BY <1>2, <1>3, <1>4, <1>8, <2>2, <2>3 DEF StartLoop, UnitOK, InQueue
    <2>4. ASSUME NEW j \in 1 .. Len(q)
          PROVE  status[q[j]] = "none"
      <3>1. q[j] \in Instances /\ Level(q[j]) = LoopLevel(phase) /\ q[j][2] \in todo
        BY <1>3, <1>4 DEF UnitOK
      <3> QED
        BY <2>2, <3>1 DEF StartLoop
    <2> QED
      BY <1>2, <1>3, <2>3, <2>4 DEF StartLoop
  <1>10. phase \in StopPhases => StopLoop'
    <2>1. SUFFICES ASSUME phase \in StopPhases
                   PROVE  StopLoop'
      OBVIOUS
    <2>2. StopLoop
      BY <1>2, <2>1 DEF Progress
    <2>3. ASSUME NEW c \in Instances, Level(c) = LoopLevel(phase)
          PROVE  /\ c[2] \in todo' => status[c] = "running"
                 /\ c[2] \notin todo' /\ ~InQueue(c)' => status[c] = "stopped"
      BY <1>2, <1>3, <1>4, <1>8, <2>2, <2>3 DEF StopLoop, UnitOK, InQueue
    <2>4. ASSUME NEW j \in 1 .. Len(q)
          PROVE  status[q[j]] = "running"
      <3>1. q[j] \in Instances /\ Level(q[j]) = LoopLevel(phase) /\ q[j][2] \in todo
        BY <1>3, <1>4 DEF UnitOK
      <3> QED
        BY <2>2, <3>1 DEF StopLoop
    <2> QED
      BY <1>2, <1>3, <2>3, <2>4 DEF StopLoop
  <1>11. todo' \subseteq Units(phase')
    BY <1>2, <1>3 DEF Progress
  <1> QED
    BY <1>1, <1>2, <1>6, <1>7, <1>9, <1>10, <1>11 DEF IInv, Progress

\* The call at the head of the queue changes the status of its instance; whoever uses
\* something finds it running before and after.
LEMMA HeadSafe ==
    ASSUME IInv, queue # <<>>, NEW c, c = Head(queue), UNCHANGED ready,
           \/ /\ phase \in StartPhases
              /\ \E x \in {"starting", "running", "failed"} : status' = [status EXCEPT ![c] = x]
           \/ /\ phase \in StopPhases
              /\ \E x \in {"stopping", "stopped"} : status' = [status EXCEPT ![c] = x]
    PROVE  /\ ConsumersRunning' /\ ExtensionsRunning' /\ ReadyMeansReceiving'
           /\ c \in Instances
           /\ \A b \in Instances \ {c} : status'[b] = status[b]
  <1>1. DOMAIN status = Instances
    BY DEF IInv, TypeOK
  <1>2. CASE phase \in StartPhases
    <2>1. PICK x \in {"starting", "running", "failed"} : status' = [status EXCEPT ![c] = x]
      BY <1>2 DEF StartPhases, StopPhases
    <2>2. /\ c \in Instances /\ status[c] # "running" /\ status[c] # "stopping"
          /\ \A d \in Consumers(c) : status[d] = "running"
          /\ c \in PipelineInstances => \A y \in ExtensionInstances : status[y] = "running"
          /\ ready = {}
      BY <1>2, HeadStarts
    <2>3. \A b \in Instances : status[b] = "running" => status'[b] = "running"
      BY <1>1, <2>1, <2>2
    <2>4. \A b \in Instances \ {c} : status'[b] = status[b]
      BY <1>1, <2>1
    <2>5. ConsumersRunning'
      BY <2>2, <2>3, <2>4, ConsumerIs DEF IInv, ConsumersRunning, Active
    <2>6. ExtensionsRunning'
      BY <2>2, <2>3, <2>4, LevelIs DEF IInv, ExtensionsRunning, Active
    <2> QED
      BY <2>2, <2>4, <2>5, <2>6 DEF ReadyMeansReceiving
  <1>3. CASE phase \in StopPhases
    <2>1. PICK x \in {"stopping", "stopped"} : status' = [status EXCEPT ![c] = x]
      BY <1>3 DEF StartPhases, StopPhases
    <2>2. /\ c \in Instances /\ Active(c)
          /\ \A b \in Instances : c \in Consumers(b) => ~Active(b)
          /\ c \in ExtensionInstances => \A b \in PipelineInstances : ~Active(b)
          /\ ready = {}
      BY <1>3, HeadStops DEF Active
    <2>3. \A b \in Instances \ {c} : status'[b] = status[b]
      BY <1>1, <2>1
    <2>4. \A b \in Instances : Active(b)' => Active(b)
      BY <2>2, <2>3 DEF Active
    <2>5. ConsumersRunning'
      BY <2>2, <2>3, <2>4, ConsumerIs DEF IInv, ConsumersRunning
    <2>6. ExtensionsRunning'
      BY <2>2, <2>3, <2>4, LevelIs DEF IInv, ExtensionsRunning
    <2> QED
      BY <2>2, <2>3, <2>5, <2>6 DEF ReadyMeansReceiving
  <1> QED
    BY <1>2, <1>3

\* Everybody else is where the invariant says: the head is of the loop's own level.
LEMMA HeadOtherLevels ==
    ASSUME IInv, phase \in Loops, queue # <<>>, NEW c, c = Head(queue),
           UNCHANGED <<phase, ready>>,
           \A b \in Instances \ {c} : status'[b] = status[b]
    PROVE  OtherLevels' /\ ReadyOK'
  <1>1. Progress /\ queue \in Seq(Instances)
    BY DEF IInv, TypeOK, Loops, StartPhases, StopPhases
  <1>2. Level(c) = LoopLevel(phase)
    BY <1>1 DEF Progress, QueueOK
  <1>3. Pos(phase) = Level(c) \/ Pos(phase) = 12 - Level(c)
    BY <1>2 DEF LoopLevel, Pos
  <1>4. OtherLevels'
    <2>1. SUFFICES ASSUME NEW b \in Instances
                   PROVE  /\ Level(b) > Pos(phase) => status'[b] = "none"
                          /\ Level(b) < Pos(phase) /\ Pos(phase) < 12 - Level(b)
                                => status'[b] = "running"
                          /\ Pos(phase) > 12 - Level(b) => status'[b] = "stopped"
      BY DEF OtherLevels
    <2>2. CASE b = c
      <3>1. Level(b) \in 1 .. 4
        BY InstanceIs
      <3>2. LoopLevel(phase) = Level(b) /\ Pos(phase) \in 0 .. 13
        BY <1>2, <2>2 DEF Pos
      <3> QED
        BY <1>3, <2>2, <3>1, <3>2 DEF LoopLevel
    <2>3. CASE b # c
      BY <1>1, <2>3 DEF Progress, OtherLevels
    <2> QED
      BY <2>2, <2>3
  <1>5. ReadyOK'
    BY <1>1 DEF Progress, ReadyOK, Loops, StartPhases, StopPhases
  <1> QED
    BY <1>4, <1>5

\* The rest of the queue.
LEMMA QueueTail ==
    ASSUME QueueOK, queue \in Seq(Instances), queue # <<>>, queue' = Tail(queue),
           UNCHANGED <<phase, todo>>, failing' => failing \/ phase = "exporters"
    PROVE  /\ QueueOK'
           /\ Len(queue) \in Nat \ {0} /\ Head(queue) = queue[1]
           /\ \A j \in 1 .. Len(queue') : j + 1 \in 2 .. Len(queue) /\ queue'[j] = queue[j + 1]
           /\ \A b : InQueue(b)' <=> InQueue(b) /\ b # queue[1]
  <1>1. PICK q \in Seq(Instances) : q = queue
    OBVIOUS
  <1>2. /\ Len(q) \in Nat \ {0} /\ Head(q) = q[1] /\ Len(Tail(q)) = Len(q) - 1
        /\ \A j \in 1 .. (Len(q) - 1) : Tail(q)[j] = q[j + 1]
    BY <1>1
  <1>3. PICK t, n : /\ t = Tail(q) /\ n = Len(q) /\ n \in Nat \ {0} /\ Len(t) = n - 1
                    /\ \A j \in 1 .. (n - 1) : t[j] = q[j + 1]
    BY <1>2
  <1>4. \A j \in 1 .. (n - 1) : j + 1 \in 2 .. n /\ j + 1 \in 1 .. n
    BY <1>3
  <1>5. \A b : InQueue(b)' <=> InQueue(b) /\ b # q[1]
    <2>1. SUFFICES ASSUME NEW b
                   PROVE  (\E j \in 1 .. (n - 1) : t[j] = b)
                             <=> (\E j \in 1 .. n : q[j] = b) /\ b # q[1]
      BY <1>1, <1>3 DEF InQueue
    <2>2. ASSUME NEW j \in 1 .. (n - 1), t[j] = b
          PROVE  (\E i \in 1 .. n : q[i] = b) /\ b # q[1]
      <3>1. q[j + 1] = b /\ j + 1 \in 1 .. n /\ 1 \in 1 .. n
        BY <1>3, <1>4, <2>2
      <3> QED
        BY <1>1, <1>3, <3>1 DEF QueueOK
    <2>3. ASSUME NEW j \in 1 .. n, q[j] = b, b # q[1]
          PROVE  \E i \in 1 .. (n - 1) : t[i] = b
      <3>1. j - 1 \in 1 .. (n - 1) /\ (j - 1) + 1 = j
        BY <1>3, <2>3
      <3> QED
        BY <1>3, <2>3, <3>1
    <2> QED
      BY <2>2, <2>3
  <1>6. QueueOK'
    <2>1. phase \in Loops
      BY DEF QueueOK
    <2>2. failing' => phase' \in StartPhases /\ (phase' # "exporters" => queue' = <<>>)
      BY DEF QueueOK, StartPhases
    <2>3. ASSUME NEW j \in 1 .. (n - 1)
          PROVE  /\ Level(t[j]) = LoopLevel(phase)
                 /\ t[j][2] \notin todo
                 /\ t[j][2] = t[1][2]
                 /\ phase = "processors" => t[j][3] = (n - 1) + 1 - j
                 /\ phase = "stopProcessors" => t[j][3] = Processors[t[j][2]] - (n - 1) + j
      <3>1. 1 \in 1 .. (n - 1) /\ 1 \in 1 .. n /\ 1 + 1 \in 1 .. n
        BY <1>3
      <3>2. t[j] = q[j + 1] /\ t[1] = q[1 + 1] /\ j + 1 \in 1 .. n
        BY <1>3, <1>4, <3>1
      <3>3. phase = "processors" => q[j + 1][3] = n + 1 - (j + 1)
        BY <1>1, <1>3, <3>2 DEF QueueOK
      <3>4. /\ phase = "stopProcessors" =>
                  q[j + 1][3] = Processors[q[j + 1][2]] - n + (j + 1)
            /\ Level(q[j + 1]) = 3 => Processors[q[j + 1][2]] \in Nat
        BY <1>1, <1>3, <3>2, InstanceIs, ServiceAssumption DEF QueueOK, ValidPipelines
      <3>5. phase = "stopProcessors" => Level(q[j + 1]) = 3
        BY <1>1, <1>3, <3>2 DEF QueueOK, LoopLevel, Pos
      <3>6. phase = "stopProcessors" => q[j + 1][3] = Processors[q[j + 1][2]] - (n - 1) + j
        BY <1>3, <3>4, <3>5
      <3>7. /\ Level(q[j + 1]) = LoopLevel(phase) /\ q[j + 1][2] \notin todo
            /\ q[j + 1][2] = q[1][2] /\ q[1 + 1][2] = q[1][2]
        BY <1>1, <1>3, <3>1, <3>2 DEF QueueOK
      <3>8. n + 1 - (j + 1) = (n - 1) + 1 - j
        BY <1>3
      <3> QED
        BY <3>2, <3>3, <3>6, <3>7, <3>8
    <2>4. ASSUME NEW i \in 1 .. (n - 1), NEW j \in 1 .. (n - 1), t[i] = t[j]
          PROVE  i = j
      <3>1. q[i + 1] = q[j + 1] /\ i + 1 \in 1 .. n /\ j + 1 \in 1 .. n
        BY <1>3, <1>4, <2>4
      <3>2. i + 1 = j + 1
        BY <1>1, <1>3, <3>1 DEF QueueOK
      <3> QED
        BY <3>2
    <2>5. queue' = t /\ Len(t) = n - 1
      BY <1>1, <1>3
    <2>6. \A j \in 1 .. Len(queue') :
             /\ Level(queue'[j]) = LoopLevel(phase')
             /\ queue'[j][2] \notin todo'
             /\ queue'[j][2] = queue'[1][2]
      <3>1. ASSUME NEW j \in 1 .. (n - 1)
            PROVE  /\ Level(t[j]) = LoopLevel(phase')
                   /\ t[j][2] \notin todo'
                   /\ t[j][2] = t[1][2]
        <4>1. phase' = phase /\ todo' = todo
          OBVIOUS
        <4>2. Level(t[j]) = LoopLevel(phase) /\ t[j][2] \notin todo /\ t[j][2] = t[1][2]
          BY <2>3, Zenon
        <4> QED
          BY <4>1, <4>2, Zenon
      <3>2. PICK new : new = queue' /\ Len(new) = n - 1 /\ new = t
        BY <2>5
      <3>3. \A j \in 1 .. Len(new) :
               Level(new[j]) = LoopLevel(phase') /\ new[j][2] \notin todo' /\ new[j][2] = new[1][2]
        <4>1. 1 .. Len(new) = 1 .. (n - 1) /\ new = t
          BY <3>2
        <4>2. \A j \in 1 .. (n - 1) : /\ Level(t[j]) = LoopLevel(phase')
                                      /\ t[j][2] \notin todo' /\ t[j][2] = t[1][2]
          BY <3>1, Zenon
        <4> QED
          BY <4>1, <4>2, Zenon
      <3> QED
        BY <3>2, <3>3, Zenon
    <2>7. \A i, j \in 1 .. Len(queue') : queue'[i] = queue'[j] => i = j
      BY <2>4, <2>5
    <2>8. phase' = "processors" =>
             \A j \in 1 .. Len(queue') : queue'[j][3] = Len(queue') + 1 - j
      BY <2>3, <2>5
    <2>9. phase' = "stopProcessors" => \A j \in 1 .. Len(queue') :
             queue'[j][3] = Processors[queue'[j][2]] - Len(queue') + j
      BY <2>3, <2>5
    <2> QED
      BY <2>1, <2>2, <2>6, <2>7, <2>8, <2>9 DEF QueueOK
  <1> QED
    BY <1>1, <1>2, <1>3, <1>4, <1>5, <1>6

\* Start is called, or returns.
LEMMA StartStep ==
    ASSUME IInv, TypeOK', CallStart \/ StartReturns \/ StartReturnsError
    PROVE  IInv'
  <1>1. PICK c : c = Head(queue)
    OBVIOUS
  <1>2. /\ phase \in StartPhases /\ phase \in Loops /\ queue # <<>>
        /\ UNCHANGED <<phase, todo, ready>>
    BY DEF CallStart, StartReturns, StartReturnsError, StartCanReturn, Loops
  <1>3. /\ Progress /\ StartLoop /\ QueueOK /\ queue \in Seq(Instances)
        /\ phase \notin StopPhases
    BY <1>2 DEF IInv, Progress, TypeOK, StartPhases, StopPhases
  <1>4. Len(queue) \in Nat \ {0} /\ c = queue[1]
    BY <1>1, <1>2, <1>3
  <1>5. \E x \in {"starting", "running", "failed"} : status' = [status EXCEPT ![c] = x]
    BY <1>1 DEF CallStart, StartReturns, StartReturnsError
  <1>6. /\ ConsumersRunning' /\ ExtensionsRunning' /\ ReadyMeansReceiving'
        /\ c \in Instances
        /\ \A b \in Instances \ {c} : status'[b] = status[b]
    BY <1>1, <1>2, <1>5, HeadSafe
  <1>7. OtherLevels' /\ ReadyOK'
    BY <1>1, <1>2, <1>6, HeadOtherLevels
  <1>8. status'[c] = "starting" \/ status'[c] = "running" \/ status'[c] = "failed"
    BY <1>5, <1>6 DEF IInv, TypeOK
  <1>9. Level(c) = LoopLevel(phase) /\ c[2] \notin todo
    BY <1>3, <1>4 DEF QueueOK
  <1>10. CASE CallStart
    <2>1. UNCHANGED <<queue, failing>> /\ status'[c] = "starting"
      BY <1>1, <1>6, <1>10 DEF CallStart, IInv, TypeOK
    <2>2. QueueOK'
      BY <1>2, <1>3, <2>1 DEF QueueOK
    <2>3. ASSUME NEW b \in Instances, Level(b) = LoopLevel(phase)
          PROVE  /\ b[2] \in todo => status'[b] = "none"
                 /\ b[2] \notin todo /\ ~InQueue(b) /\ ~failing => status'[b] = "running"
      BY <1>3, <1>4, <1>6, <1>9, <2>3 DEF StartLoop, InQueue
    <2>4. ASSUME NEW j \in 1 .. Len(queue)
          PROVE  status'[queue[j]] = "none" \/ (j = 1 /\ status'[queue[j]] = "starting")
      <3>1. CASE j = 1
        BY <1>4, <2>1, <3>1
      <3>2. CASE j # 1
        <4>1. queue[j] \in Instances \ {c} /\ status[queue[j]] = "none"
          BY <1>3, <1>4, <3>2 DEF QueueOK, StartLoop
        <4> QED
          BY <1>6, <4>1
      <3> QED
        BY <3>1, <3>2
    <2>5. StartLoop'
      BY <1>2, <2>1, <2>3, <2>4 DEF StartLoop, InQueue
    <2> QED
      BY <1>2, <1>3, <1>6, <1>7, <2>2, <2>5 DEF IInv, Progress
  \* The other instances of the queue, and what is left of it.
  <1>11. ASSUME queue' = Tail(queue), failing' => failing \/ phase = "exporters",
                failing => failing', ~failing' => status'[c] = "running"
         PROVE  IInv'
    <2>1. /\ QueueOK'
          /\ \A j \in 1 .. Len(queue') : j + 1 \in 2 .. Len(queue) /\ queue'[j] = queue[j + 1]
          /\ \A b : InQueue(b)' <=> InQueue(b) /\ b # queue[1]
      BY <1>2, <1>3, <1>11, QueueTail
    <2>2. ASSUME NEW b \in Instances, Level(b) = LoopLevel(phase)
          PROVE  /\ b[2] \in todo => status'[b] = "none"
                 /\ b[2] \notin todo /\ ~InQueue(b)' /\ ~failing' => status'[b] = "running"
      BY <1>3, <1>4, <1>6, <1>9, <1>11, <2>1, <2>2 DEF StartLoop
    <2>3. ASSUME NEW j \in 1 .. Len(queue')
          PROVE  status'[queue'[j]] = "none"
      <3>1. j + 1 \in 1 .. Len(queue) /\ j + 1 # 1 /\ queue'[j] = queue[j + 1]
        BY <1>4, <2>1
      <3>2. queue[j + 1] \in Instances \ {c} /\ status[queue[j + 1]] = "none"
        BY <1>3, <1>4, <3>1 DEF QueueOK, StartLoop
      <3> QED
        BY <1>6, <3>1, <3>2
    <2>4. StartLoop'
      BY <1>2, <2>2, <2>3 DEF StartLoop
    <2> QED
      BY <1>2, <1>3, <1>6, <1>7, <2>1, <2>4 DEF IInv, Progress
  <1>12. CASE StartReturns
    <2>1. queue' = Tail(queue) /\ failing' = failing /\ status'[c] = "running"
      BY <1>1, <1>6, <1>12 DEF StartReturns, IInv, TypeOK
    <2> QED
      BY <1>11, <2>1
  <1>13. CASE StartReturnsError /\ phase = "exporters"
    <2>1. queue' = Tail(queue) /\ failing'
      BY <1>13 DEF StartReturnsError
    <2> QED
      BY <1>11, <1>13, <2>1
  <1>14. CASE StartReturnsError /\ phase # "exporters"
    <2>1. queue' = <<>> /\ failing'
      BY <1>14 DEF StartReturnsError
    <2>2. QueueOK'
      BY <1>2, <2>1 DEF QueueOK
    <2>3. StartLoop'
      <3>1. \A b \in Instances : Level(b) = LoopLevel(phase) /\ b[2] \in todo
               => status'[b] = "none"
        BY <1>3, <1>6, <1>9 DEF StartLoop
      <3> QED
        BY <1>2, <2>1, <3>1 DEF StartLoop
    <2> QED
      BY <1>2, <1>3, <1>6, <1>7, <2>2, <2>3 DEF IInv, Progress
  <1> QED
    BY <1>10, <1>12, <1>13, <1>14

\* Shutdown is called, or returns.
LEMMA StopStep ==
    ASSUME IInv, TypeOK', CallShutdown \/ ShutdownReturns
    PROVE  IInv'
  <1>1. PICK c : c = Head(queue)
    OBVIOUS
  <1>2. /\ phase \in StopPhases /\ phase \in Loops /\ queue # <<>>
        /\ UNCHANGED <<phase, todo, failing, ready>>
    BY DEF CallShutdown, ShutdownReturns, Loops
  <1>3. /\ Progress /\ StopLoop /\ QueueOK /\ queue \in Seq(Instances)
        /\ phase \notin StartPhases
    BY <1>2 DEF IInv, Progress, TypeOK, StartPhases, StopPhases
  <1>4. Len(queue) \in Nat \ {0} /\ c = queue[1]
    BY <1>1, <1>2, <1>3
  <1>5. \E x \in {"stopping", "stopped"} : status' = [status EXCEPT ![c] = x]
    BY <1>1 DEF CallShutdown, ShutdownReturns
  <1>6. /\ ConsumersRunning' /\ ExtensionsRunning' /\ ReadyMeansReceiving'
        /\ c \in Instances
        /\ \A b \in Instances \ {c} : status'[b] = status[b]
    BY <1>1, <1>2, <1>5, HeadSafe
  <1>7. OtherLevels' /\ ReadyOK'
    BY <1>1, <1>2, <1>6, HeadOtherLevels
  <1>8. Level(c) = LoopLevel(phase) /\ c[2] \notin todo
    BY <1>3, <1>4 DEF QueueOK
  <1>9. CASE CallShutdown
    <2>1. UNCHANGED queue /\ status'[c] = "stopping"
      BY <1>1, <1>6, <1>9 DEF CallShutdown, IInv, TypeOK
    <2>2. QueueOK'
      BY <1>2, <1>3, <2>1 DEF QueueOK
    <2>3. ASSUME NEW b \in Instances, Level(b) = LoopLevel(phase)
          PROVE  /\ b[2] \in todo => status'[b] = "running"
                 /\ b[2] \notin todo /\ ~InQueue(b) => status'[b] = "stopped"
      BY <1>3, <1>4, <1>6, <1>8, <2>3 DEF StopLoop, InQueue
    <2>4. ASSUME NEW j \in 1 .. Len(queue)
          PROVE  status'[queue[j]] = "running" \/ (j = 1 /\ status'[queue[j]] = "stopping")
      <3>1. CASE j = 1
        BY <1>4, <2>1, <3>1
      <3>2. CASE j # 1
        <4>1. queue[j] \in Instances \ {c} /\ status[queue[j]] = "running"
          BY <1>3, <1>4, <3>2 DEF QueueOK, StopLoop
        <4> QED
          BY <1>6, <4>1
      <3> QED
        BY <3>1, <3>2
    <2>5. StopLoop'
      BY <1>2, <2>1, <2>3, <2>4 DEF StopLoop, InQueue
    <2> QED
      BY <1>2, <1>3, <1>6, <1>7, <2>2, <2>5 DEF IInv, Progress
  <1>10. CASE ShutdownReturns
    <2>1. queue' = Tail(queue) /\ status'[c] = "stopped"
      BY <1>1, <1>6, <1>10 DEF ShutdownReturns, IInv, TypeOK
    <2>2. /\ QueueOK'
          /\ \A j \in 1 .. Len(queue') : j + 1 \in 2 .. Len(queue) /\ queue'[j] = queue[j + 1]
          /\ \A b : InQueue(b)' <=> InQueue(b) /\ b # queue[1]
      BY <1>2, <1>3, <2>1, QueueTail
    <2>3. ASSUME NEW b \in Instances, Level(b) = LoopLevel(phase)
          PROVE  /\ b[2] \in todo => status'[b] = "running"
                 /\ b[2] \notin todo /\ ~InQueue(b)' => status'[b] = "stopped"
      BY <1>3, <1>4, <1>6, <1>8, <2>1, <2>2, <2>3 DEF StopLoop
    <2>4. ASSUME NEW j \in 1 .. Len(queue')
          PROVE  status'[queue'[j]] = "running"
      <3>1. j + 1 \in 1 .. Len(queue) /\ j + 1 # 1 /\ queue'[j] = queue[j + 1]
        BY <1>4, <2>2
      <3>2. queue[j + 1] \in Instances \ {c} /\ status[queue[j + 1]] = "running"
        BY <1>3, <1>4, <3>1 DEF QueueOK, StopLoop
      <3> QED
        BY <1>6, <3>1, <3>2
    <2>5. StopLoop'
      BY <1>2, <2>3, <2>4 DEF StopLoop
    <2> QED
      BY <1>2, <1>3, <1>6, <1>7, <2>2, <2>5 DEF IInv, Progress
  <1> QED
    BY <1>9, <1>10

\* The steps between the loops.
LEMMA PhaseStep ==
    ASSUME IInv, TypeOK', Begin \/ Advance \/ Run \/ Close \/ Closing
    PROVE  IInv'
  <1>1. /\ phase \in Loops \cup {"new", "ready", "running", "notReady", "telemetry"}
        /\ UNCHANGED <<queue, failing, status, ready>>
    BY DEF Begin, Advance, Run, Close, Closing, Loops
  <1>2. Progress /\ Pos(phase) \in 0 .. 12
    BY <1>1 DEF IInv, Pos, Loops, StartPhases, StopPhases
  <1>3. queue = <<>> /\ ~failing
    BY <1>1, <1>2
       DEF Progress, QueueOK, Loops, StartPhases, StopPhases, Begin, Advance, Run, Close,
           Closing, LoopDone
  <1>4. /\ Pos(phase') = Pos(phase) + 1
        /\ phase' \in Phases \ {"aborted", "killed"}
    <2>1. CASE Advance
      BY <2>1, AfterPos DEF Advance
    <2>2. CASE Begin \/ Run \/ Close \/ Closing
      BY <2>2 DEF Begin, Run, Close, Closing, Pos, Phases, StartPhases, Returned
    <2> QED
      BY <2>1, <2>2
  <1>5. todo' = Units(phase')
    <2>1. CASE Advance
      BY <2>1 DEF Advance
    <2>2. CASE Begin
      BY <2>2 DEF Begin, Units
    <2>3. CASE Closing
      BY <2>3 DEF Closing, Units
    <2>4. CASE Run
      BY <2>4 DEF Run, Units
    <2>5. CASE Close
      BY <1>2, <2>5 DEF Close, Units, Progress
    <2> QED
      BY <2>1, <2>2, <2>3, <2>4, <2>5
  <1>6. phase' = "notReady" => ready \subseteq todo'
    BY <1>5 DEF IInv, TypeOK, Units
  <1>7. Pos(phase) = 7 => ready = {}
    <2>1. SUFFICES ASSUME Pos(phase) = 7
                   PROVE  ready = {}
      OBVIOUS
    <2>2. phase = "notReady"
      BY <1>1, <2>1 DEF Pos, Loops, StartPhases, StopPhases
    <2>3. todo = {}
      BY <2>2 DEF Begin, Advance, Run, Close, Closing, LoopDone
    <2> QED
      BY <1>2, <2>2, <2>3 DEF Progress, ReadyOK
  <1>8. ASSUME NEW c \in Instances
        PROVE  /\ Level(c) = Pos(phase) => status[c] = "running"
               /\ 12 - Level(c) = Pos(phase) => status[c] = "stopped"
    <2>1. Level(c) \in 1 .. 4
      BY InstanceIs
    <2>2. ~InQueue(c)
      BY <1>3 DEF InQueue
    <2>3. CASE Level(c) = Pos(phase)
      <3>1. phase \in StartPhases /\ LoopLevel(phase) = Level(c)
        BY <1>1, <2>1, <2>3 DEF Pos, Loops, StartPhases, StopPhases, LoopLevel
      <3>2. todo = {}
        BY <3>1 DEF Begin, Advance, Run, Close, Closing, LoopDone, StartPhases
      <3>3. status[c] = "running"
        BY <1>2, <1>3, <2>2, <3>1, <3>2 DEF Progress, StartLoop
      <3> QED
        BY <2>1, <2>3, <3>3
    <2>4. CASE 12 - Level(c) = Pos(phase)
      <3>1. phase \in StopPhases /\ LoopLevel(phase) = Level(c)
        <4>1. Pos(phase) \in 8 .. 11 /\ Level(c) = 12 - Pos(phase)
          BY <1>2, <2>1, <2>4
        <4>2. phase \in StopPhases
          BY <1>1, <4>1 DEF Pos, Loops, StartPhases, StopPhases
        <4> QED
          BY <4>1, <4>2 DEF LoopLevel
      <3>2. todo = {}
        BY <3>1 DEF Begin, Advance, Run, Close, Closing, LoopDone, StopPhases
      <3>3. status[c] = "stopped"
        BY <1>2, <2>2, <3>1, <3>2 DEF Progress, StopLoop
      <3> QED
        BY <2>1, <2>4, <3>3
    <2> QED
      BY <2>3, <2>4
  <1> QED
    BY <1>1, <1>2, <1>3, <1>4, <1>5, <1>6, <1>7, <1>8, LoopBegins DEF Loops, StartPhases, StopPhases

\* A watcher is told.
LEMMA NotifyStep ==
    ASSUME IInv, TypeOK', NEW w \in Watchers,
           NotifyPipelineReady(w) \/ NotifyPipelineNotReady(w)
    PROVE  IInv'
  <1>1. /\ phase \in {"ready", "notReady"} /\ UNCHANGED <<phase, queue, failing, status>>
        /\ todo' = todo \ {w}
        /\ phase = "notReady" => ready' = ready \ {w}
    BY DEF NotifyPipelineReady, NotifyPipelineNotReady
  <1>2. Progress /\ phase \notin Loops /\ Pos(phase) \in {5, 7}
    BY <1>1 DEF IInv, Loops, StartPhases, StopPhases, Pos
  <1>3. ConsumersRunning' /\ ExtensionsRunning'
    BY <1>1 DEF IInv, ConsumersRunning, ExtensionsRunning, Active
  <1>4. ReadyMeansReceiving'
    <2>1. ASSUME NEW c \in ReceiverInstances
          PROVE  status[c] = "running"
      BY <1>2, LevelIs DEF Progress, OtherLevels
    <2> QED
      BY <1>1, <2>1 DEF ReadyMeansReceiving
  <1>5. QueueOK' /\ OtherLevels'
    <2>1. queue = <<>> /\ ~failing
      BY <1>2 DEF Progress, QueueOK, Loops
    <2> QED
      BY <1>1, <1>2, <2>1 DEF Progress, QueueOK, OtherLevels
  <1>6. ReadyOK'
    BY <1>1, <1>2 DEF Progress, ReadyOK, Pos
  <1> QED
    BY <1>1, <1>2, <1>3, <1>4, <1>5, <1>6 DEF IInv, Progress, Loops

LEMMA NextIInv == NoLogs /\ IInv /\ [Next]_vars => IInv'
  <1> SUFFICES ASSUME NoLogs, IInv, [Next]_vars
               PROVE  IInv'
    OBVIOUS
  <1>1. TypeOK'
    BY NextType
  <1>2. CASE StartReports \/ (\E c \in Reporters : ReportFatalError(c)) \/ Signal
             \/ SignalTestComplete \/ ReadState \/ UNCHANGED vars
    <2>1. UNCHANGED <<phase, todo, queue, failing, status, ready>>
      BY <1>2 DEF StartReports, ReportFatalError, Signal, SignalTestComplete, ReadState, vars
    <2> QED
      BY <1>1, <2>1, Aside
  <1>3. CASE BeginFails \/ BuildFails \/ Abort \/ Killed
             \/ (\E w \in Watchers : NotifyPipelineReadyFails(w))
    <2>1. UNCHANGED <<status, ready>> /\ phase' \in {"aborted", "killed"}
      BY <1>3 DEF BeginFails, BuildFails, Abort, Killed, NotifyPipelineReadyFails
    <2> QED
      BY <1>1, <2>1, EndsEarly
  <1>4. CASE Begin \/ Advance \/ Run \/ Close \/ SelectStop
             \/ (\E c \in Reporters : SelectError(c))
    <2>1. Begin \/ Advance \/ Run \/ Close \/ Closing
      BY <1>4 DEF SelectStop, SelectError
    <2> QED
      BY <1>1, <2>1, PhaseStep
  <1>5. CASE NextUnit
    BY <1>1, <1>5, UnitBegins
  <1>6. CASE CallStart \/ StartReturns \/ StartReturnsError
    BY <1>1, <1>6, StartStep
  <1>7. CASE CallShutdown \/ ShutdownReturns
    BY <1>1, <1>7, StopStep
  <1>8. ASSUME NEW w \in Watchers, NotifyPipelineReady(w) \/ NotifyPipelineNotReady(w)
        PROVE  IInv'
    BY <1>1, <1>8, NotifyStep
  <1> QED
    BY <1>2, <1>3, <1>4, <1>5, <1>6, <1>7, <1>8 DEF Next, Execute

-----------------------------------------------------------------------------
(* What follows. *)

\* execute keeps the invariant, whatever configuration without logs it is given, wherever
\* a Start fails and whenever a signal or a fatal error comes.
THEOREM Invariance == ASSUME NoLogs PROVE Spec => []IInv
  <1>1. Init => IInv
    BY InitIInv
  <1>2. IInv /\ [Next]_vars => IInv'
    BY NextIInv
  <1> QED
    BY <1>1, <1>2, PTL DEF Spec

\* While components are started and stopped, everyone who can send finds its consumers
\* running, and every pipeline component finds the extensions running: for any number of
\* pipelines, processors, and exporters and receivers that pipelines share.
THEOREM UsedStaysRunning == ASSUME NoLogs PROVE Spec => []UsedIsRunning
  <1>1. IInv => UsedIsRunning
    BY DEF IInv, UsedIsRunning
  <1> QED
    BY <1>1, Invariance, PTL

\* Watchers believe that data is received only while every receiver runs, and a service
\* that has closed has stopped every component.
THEOREM StatesStayTrue == ASSUME NoLogs PROVE Spec => []StatesAreTrue
  <1>1. IInv => StatesAreTrue
    <2>1. ASSUME IInv, phase = "closed", NEW c \in Instances
          PROVE  status[c] = "stopped"
      <3>1. Progress /\ Pos(phase) = 13 /\ Level(c) \in 1 .. 4
        BY <2>1, InstanceIs DEF IInv, Pos
      <3> QED
        BY <3>1 DEF Progress, OtherLevels
    <2> QED
      BY <2>1 DEF StatesAreTrue, IInv, ClosedMeansStopped
  <1> QED
    BY <1>1, Invariance, PTL
=============================================================================
