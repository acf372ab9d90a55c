------------------------ MODULE ExporterHelperProofs ------------------------
(***************************************************************************)
(* Proofs, for every set of requests, items and workers and every setting  *)
(* of the queue and the retries, of the safety properties that the runs    *)
(* check on small instances of ExporterHelper.                             *)
(***************************************************************************)
EXTENDS ExporterHelper, SequenceTheorems, TLAPS

GaveUp == {"expired", "cancelled", "interrupted"}

\* What the tail of the retry loop does to the goroutine's own state: it
\* returns with the items left, or parks, and parks only if retries go on.
Parks(r) ==
    /\ ~RetryStopped
    /\ pc' = [pc EXCEPT ![r] = "backoff"]
    /\ UNCHANGED <<result, dropped, worker>>

\* The back-off either returns what is left as dropped or parks.
LEMMA BackOffCases ==
    ASSUME NEW r \in Requests, NEW left, BackOff(r, left)
    PROVE  Parks(r) \/ \E res \in GaveUp : Return(r, res, left)
  BY DEF BackOff, Select, Parks, GaveUp

-----------------------------------------------------------------------------
(* Type correctness *)

\* Returning keeps the types of what it writes.
LEMMA ReturnType ==
    ASSUME TypeOK, NEW r \in Requests, NEW res \in Results,
           NEW drop \in SUBSET Items, Return(r, res, drop)
    PROVE  /\ pc' \in [Requests -> {"idle", "queued", "done"} \cup Active]
           /\ result' \in [Requests -> Results]
           /\ dropped' \in [Requests -> SUBSET Items]
           /\ worker' \in [Workers -> Requests \cup {"off", "idle", "exited"}]
  BY DEF TypeOK, Return, Released

\* The back-off of retrySender.send, whichever way it goes, keeps the types of
\* what it writes.
LEMMA BackOffType ==
    ASSUME TypeOK, NEW r \in Requests, NEW left \in SUBSET Items, BackOff(r, left)
    PROVE  /\ pc' \in [Requests -> {"idle", "queued", "done"} \cup Active]
           /\ result' \in [Requests -> Results]
           /\ dropped' \in [Requests -> SUBSET Items]
           /\ worker' \in [Workers -> Requests \cup {"off", "idle", "exited"}]
  <1>1. CASE Parks(r)
    BY <1>1 DEF Parks, TypeOK, Active
  <1>2. CASE \E res \in GaveUp : Return(r, res, left)
    <2>1. PICK res \in GaveUp : Return(r, res, left)
      BY <1>2
    <2>2. res \in Results
      BY DEF GaveUp, Results
    <2> QED
      BY <2>1, <2>2, ReturnType
  <1> QED
    BY <1>1, <1>2, BackOffCases

\* A new exporter is well typed.
LEMMA InitTypeOK == Init => TypeOK
  BY ExporterAssumption DEF Init, TypeOK, Lifecycles, Results, Active

\* Every step of callers, workers and shutdown keeps the types.
LEMMA NextTypeOK == TypeOK /\ [Next]_vars => TypeOK'
  <1> SUFFICES ASSUME TypeOK, [Next]_vars
               PROVE  TypeOK'
    OBVIOUS
  <1> USE ExporterAssumption
  <1>1. CASE Start
    BY <1>1 DEF Start, TypeOK, Lifecycles
  <1>2. CASE StartFails
    BY <1>2 DEF StartFails, TypeOK, Lifecycles
  <1>3. CASE StopRetries
    BY <1>3 DEF StopRetries, TypeOK, Lifecycles, Results, Released
  <1>4. CASE ShutdownStep
    BY <1>4 DEF ShutdownStep, StopQueue, AwaitConsumers, ShutdownExporter, TypeOK, Lifecycles
  <1>5. ASSUME NEW r \in Requests, RequestStep(r)
        PROVE  TypeOK'
    <2>1. CASE QueueEnabled /\ Enqueue(r)
      <3>1. queue' \in Seq(Requests) /\ Len(queue') = Len(queue) + 1
        BY <2>1 DEF Enqueue, TypeOK
      <3> QED
        BY <2>1, <3>1 DEF Enqueue, CanProduce, TypeOK
    <2>2. CASE QueueEnabled /\ Refuse(r)
      BY <2>2 DEF Refuse, TypeOK, Results
    <2>3. CASE ~QueueEnabled /\ SendDirectly(r)
      BY <2>3 DEF SendDirectly, TypeOK, Active
    <2>4. CASE BeginAttempt(r)
      BY <2>4 DEF BeginAttempt, TypeOK, Active, LateBound
    <2>5. CASE AttemptSucceeds(r)
      <3>1. Return(r, "ok", {}) /\ "ok" \in Results
        BY <2>5 DEF AttemptSucceeds, Results
      <3> QED
        BY <2>5, <3>1, ReturnType DEF AttemptSucceeds, TypeOK
    <2>6. CASE AttemptFailsForGood(r)
      <3>1. PICK drop \in SUBSET data[r] :
               Return(r, IF RetryEnabled THEN "permanent" ELSE "error", drop)
        BY <2>6 DEF AttemptFailsForGood
      <3>2. drop \in SUBSET Items
        BY DEF TypeOK
      <3>3. (IF RetryEnabled THEN "permanent" ELSE "error") \in Results
        BY DEF Results
      <3> QED
        BY <2>6, <3>1, <3>2, <3>3, ReturnType DEF AttemptFailsForGood, TypeOK
    <2>7. CASE AttemptFails(r)
      <3>1. data[r] \in SUBSET Items
        BY DEF TypeOK
      <3> QED
        BY <2>7, <3>1, BackOffType DEF AttemptFails, TypeOK
    <2>8. CASE AttemptFailsPartially(r)
      <3>1. PICK failed \in SUBSET data[r] :
               /\ acked' = [acked EXCEPT ![r] = @ \cup (data[r] \ failed)]
               /\ data' = [data EXCEPT ![r] = OnPartialError(r, failed)]
               /\ BackOff(r, OnPartialError(r, failed))
        BY <2>8 DEF AttemptFailsPartially
      <3>2. OnPartialError(r, failed) \in SUBSET Items
        BY DEF OnPartialError, TypeOK
      <3>3. /\ acked' \in [Requests -> SUBSET Items]
            /\ data' \in [Requests -> SUBSET Items]
        BY <3>1, <3>2 DEF TypeOK
      <3> QED
        BY <2>8, <3>1, <3>2, <3>3, BackOffType DEF AttemptFailsPartially, TypeOK
    <2>9. CASE TimerFires(r)
      BY <2>9 DEF TimerFires, TypeOK, Active
    <2>10. CASE CancelContext(r)
      <3>1. CASE pc[r] = "backoff"
        <4>1. Return(r, "cancelled", data[r]) /\ "cancelled" \in Results
          BY <2>10, <3>1 DEF CancelContext, Results
        <4>2. data[r] \in SUBSET Items
          BY DEF TypeOK
        <4> QED
          BY <2>10, <4>1, <4>2, ReturnType DEF CancelContext, TypeOK
      <3>2. CASE pc[r] # "backoff"
        BY <2>10, <3>2 DEF CancelContext, TypeOK
      <3> QED
        BY <3>1, <3>2
    <2> QED
      BY <1>5, <2>1, <2>2, <2>3, <2>4, <2>5, <2>6, <2>7, <2>8, <2>9, <2>10
         DEF RequestStep, Send, AttemptReturns
  <1>6. ASSUME NEW w \in Workers, WorkerStep(w)
        PROVE  TypeOK'
    <2>1. CASE WorkerTake(w)
      <3>1. /\ Head(queue) \in Requests
            /\ queue' \in Seq(Requests)
            /\ Len(queue') = Len(queue) - 1
        BY <2>1 DEF WorkerTake, TypeOK
      <3> QED
        BY <2>1, <3>1 DEF WorkerTake, TypeOK, Active
    <2>2. CASE WorkerExit(w)
      BY <2>2 DEF WorkerExit, TypeOK
    <2> QED
      BY <1>6, <2>1, <2>2 DEF WorkerStep
  <1>7. CASE UNCHANGED vars
    BY <1>7 DEF vars, TypeOK
  <1> QED
    BY <1>1, <1>2, <1>3, <1>4, <1>5, <1>6, <1>7 DEF Next

\* Every variable keeps its type and the queue never exceeds QueueSize,
\* whatever the number of requests, workers and retries.
THEOREM TypeCorrect == Spec => []TypeOK
  BY InitTypeOK, NextTypeOK, PTL DEF Spec

-----------------------------------------------------------------------------
(***************************************************************************)
(* The inductive invariant.  NoExportAfterShutdown needs to know that an   *)
(* active request is held by a worker (Held) and that AwaitConsumers has   *)
(* seen every worker leave (Phases).  LossIsReported needs the accounting  *)
(* of the items of an undecided request, and that a decided one is never   *)
(* taken from the queue again (Queued).  OneAttemptAfterStop needs that    *)
(* closing retryStopCh leaves nobody parked.                               *)
(***************************************************************************)

Phases ==
    /\ lifecycle \in {"new", "startFailed"} =>
          queue = <<>> /\ \A r \in Requests : pc[r] = "idle"
    /\ lifecycle \in {"drained", "stopped"} => \A w \in Workers : worker[w] = "exited"

Queued ==
    /\ \A i \in 1 .. Len(queue) : pc[queue[i]] = "queued"
    /\ \A i, j \in 1 .. Len(queue) : queue[i] = queue[j] => i = j

Held ==
    QueueEnabled => \A r \in Requests : pc[r] \in Active => \E w \in Workers : worker[w] = r

Accounted ==
    \A r \in Requests :
        /\ acked[r] \cup data[r] = Items
        /\ pc[r] # "done" => result[r] = "none"
        /\ DataType = "traces" /\ pc[r] # "done" => acked[r] \cap data[r] = {}

OnceStopped ==
    \A r \in Requests :
        /\ RetryStopped => pc[r] # "backoff"
        /\ late[r] > 0 => RetryStopped /\ pc[r] \in {"exporting", "done"}

IInv ==
    /\ TypeOK
    /\ Phases
    /\ Queued
    /\ HeldOnce
    /\ Held
    /\ Accounted
    /\ LossIsReported
    /\ OnceStopped
    /\ OneAttemptAfterStop

\* The conjuncts about where requests and workers are.
Places == Phases /\ Queued /\ HeldOnce /\ Held /\ OnceStopped /\ OneAttemptAfterStop

\* A goroutine that returns from send leaves every request in its place.
LEMMA ReturnPlaces ==
    ASSUME IInv, NEW r \in Requests, NEW res, NEW drop,
           pc[r] \in Active, Return(r, res, drop),
           UNCHANGED <<lifecycle, queue, late>>
    PROVE  Places'
  <1> USE ExporterAssumption DEF IInv, TypeOK
  <1>1. /\ pc' = [pc EXCEPT ![r] = "done"]
        /\ worker' = [w \in Workers |-> IF worker[w] = r THEN "idle" ELSE worker[w]]
    BY DEF Return, Released
  <1>2. Phases'
    BY <1>1 DEF Phases, Active
  <1>3. Queued'
    BY <1>1 DEF Queued, Active
  <1>4. HeldOnce'
    BY <1>1 DEF HeldOnce
  <1>5. Held'
    <2> SUFFICES ASSUME QueueEnabled, NEW q \in Requests, pc'[q] \in Active
                 PROVE  \E w \in Workers : worker'[w] = q
      BY DEF Held
    <2>1. q # r /\ pc[q] \in Active
      BY <1>1 DEF Active
    <2>2. PICK w \in Workers : worker[w] = q
      BY <2>1 DEF Held
    <2> QED
      BY <1>1, <2>1, <2>2
  <1>6. OnceStopped' /\ OneAttemptAfterStop'
    BY <1>1 DEF OnceStopped, OneAttemptAfterStop, RetryStopped
  <1> QED
    BY <1>2, <1>3, <1>4, <1>5, <1>6 DEF Places

\* So does one that parks, which it only does while retries go on.
LEMMA ParksPlaces ==
    ASSUME IInv, NEW r \in Requests, pc[r] = "exporting", Parks(r),
           UNCHANGED <<lifecycle, queue, late>>
    PROVE  Places'
  <1> USE ExporterAssumption DEF IInv, TypeOK, Parks
  <1>1. Phases'
    BY DEF Phases
  <1>2. Queued'
    BY DEF Queued
  <1>3. HeldOnce' /\ Held'
    BY DEF HeldOnce, Held, Active
  <1>4. OnceStopped' /\ OneAttemptAfterStop'
    BY DEF OnceStopped, OneAttemptAfterStop, RetryStopped
  <1> QED
    BY <1>1, <1>2, <1>3, <1>4 DEF Places

\* Together: a back-off leaves every request where the queue, the workers and
\* the callers expect it.
LEMMA BackOffPlaces ==
    ASSUME IInv, NEW r \in Requests, NEW left, pc[r] = "exporting",
           BackOff(r, left), UNCHANGED <<lifecycle, queue, late>>
    PROVE  Places'
  <1>1. CASE Parks(r)
    BY <1>1, ParksPlaces
  <1>2. CASE \E res \in GaveUp : Return(r, res, left)
    BY <1>2, ReturnPlaces DEF Active
  <1> QED
    BY <1>1, <1>2, BackOffCases

\* The books balance after a step that hands `left' to the back-off, if they
\* balance between what is then acknowledged and what is left.
LEMMA BackOffAccounts ==
    ASSUME IInv, TypeOK', NEW r \in Requests, NEW left, pc[r] = "exporting",
           BackOff(r, left),
           \A q \in Requests \ {r} : acked'[q] = acked[q] /\ data'[q] = data[q],
           data'[r] = left,
           acked'[r] \cup left = Items,
           DataType = "traces" => acked'[r] \cap left = {}
    PROVE  Accounted' /\ LossIsReported'
  <1> USE DEF IInv, TypeOK
  <1>1. CASE Parks(r)
    <2>1. Accounted'
      BY <1>1 DEF Accounted, Parks
    <2>2. result' = result /\ dropped' = dropped /\ result[r] = "none"
      BY <1>1 DEF Accounted, Parks
    <2>3. LossIsReported'
      BY <2>2 DEF LossIsReported
    <2> QED
      BY <2>1, <2>3
  <1>2. CASE \E res \in GaveUp : Return(r, res, left)
    <2>1. PICK res \in GaveUp : Return(r, res, left)
      BY <1>2
    <2>2. /\ pc' = [pc EXCEPT ![r] = "done"]
          /\ result' = [result EXCEPT ![r] = res]
          /\ dropped' = [dropped EXCEPT ![r] = left]
          /\ res # "ok"
      BY <2>1 DEF Return, GaveUp
    <2>3. Accounted'
      BY <2>2 DEF Accounted
    <2>4. LossIsReported'
      BY <2>2 DEF LossIsReported
    <2> QED
      BY <2>3, <2>4
  <1> QED
    BY <1>1, <1>2, BackOffCases

\* A new exporter satisfies the inductive invariant.
LEMMA InitIInv == Init => IInv
  <1> SUFFICES ASSUME Init
               PROVE  IInv
    OBVIOUS
  <1>1. Phases /\ Queued /\ HeldOnce /\ Held
    BY ExporterAssumption DEF Init, Phases, Queued, HeldOnce, Held, Active
  <1>2. Accounted /\ LossIsReported
    BY DEF Init, Accounted, LossIsReported
  <1>3. OnceStopped /\ OneAttemptAfterStop
    BY DEF Init, OnceStopped, OneAttemptAfterStop, RetryStopped
  <1> QED
    BY <1>1, <1>2, <1>3, InitTypeOK DEF IInv

\* The steps of one request keep the invariant.
LEMMA RequestStepIInv ==
    ASSUME IInv, TypeOK', NEW r \in Requests, RequestStep(r)
    PROVE  IInv'
  <1> USE ExporterAssumption DEF IInv, TypeOK
  <1>1. CASE QueueEnabled /\ Enqueue(r)
    <2>1. Phases'
      BY <1>1 DEF Enqueue, Phases
    <2>2. Queued'
      <3>1. /\ Len(queue') = Len(queue) + 1
            /\ \A i \in 1 .. Len(queue) : queue'[i] = queue[i] /\ queue[i] \in Requests
            /\ queue'[Len(queue) + 1] = r
        BY <1>1 DEF Enqueue
      <3>2. \A i \in 1 .. Len(queue) : queue[i] # r
        BY <1>1 DEF Enqueue, Queued
      <3>3. pc' = [pc EXCEPT ![r] = "queued"]
        BY <1>1 DEF Enqueue
      <3>4. Len(queue) \in Nat /\ Len(queue') \in Nat
        BY LenProperties
      <3>5. \A i \in 1 .. Len(queue') : i \in 1 .. Len(queue) \/ i = Len(queue) + 1
        BY <3>1, <3>4
      <3>6. \A i \in 1 .. Len(queue') : pc'[queue'[i]] = "queued"
        BY <3>1, <3>2, <3>3, <3>5 DEF Queued
      <3>7. \A i, j \in 1 .. Len(queue') : queue'[i] = queue'[j] => i = j
        <4> SUFFICES ASSUME NEW i \in 1 .. Len(queue'), NEW j \in 1 .. Len(queue'),
                            queue'[i] = queue'[j]
                     PROVE  i = j
          OBVIOUS
        <4>1. CASE i \in 1 .. Len(queue) /\ j \in 1 .. Len(queue)
          BY <3>1, <4>1 DEF Queued
        <4>2. CASE i = Len(queue) + 1
          BY <3>1, <3>2, <3>5, <4>2
        <4>3. CASE j = Len(queue) + 1
          BY <3>1, <3>2, <3>5, <4>3
        <4> QED
          BY <3>5, <4>1, <4>2, <4>3
      <3> QED
        BY <3>6, <3>7 DEF Queued
    <2>3. HeldOnce' /\ Held'
      BY <1>1 DEF Enqueue, HeldOnce, Held, Active
    <2>4. Accounted' /\ LossIsReported'
      BY <1>1 DEF Enqueue, Accounted, LossIsReported
    <2>5. OnceStopped' /\ OneAttemptAfterStop'
      BY <1>1 DEF Enqueue, OnceStopped, OneAttemptAfterStop, RetryStopped
    <2> QED
      BY <2>1, <2>2, <2>3, <2>4, <2>5
  <1>2. CASE QueueEnabled /\ Refuse(r)
    <2>1. Phases' /\ Queued'
      BY <1>2 DEF Refuse, Phases, Queued
    <2>2. HeldOnce' /\ Held'
      BY <1>2 DEF Refuse, HeldOnce, Held, Active
    <2>3. Accounted' /\ LossIsReported'
      BY <1>2 DEF Refuse, Accounted, LossIsReported
    <2>4. OnceStopped' /\ OneAttemptAfterStop'
      BY <1>2 DEF Refuse, OnceStopped, OneAttemptAfterStop, RetryStopped
    <2> QED
      BY <2>1, <2>2, <2>3, <2>4
  <1>3. CASE ~QueueEnabled /\ SendDirectly(r)
    <2>1. Phases' /\ Queued'
      BY <1>3 DEF SendDirectly, Phases, Queued
    <2>2. HeldOnce' /\ Held'
      BY <1>3 DEF SendDirectly, HeldOnce, Held, Active
    <2>3. Accounted' /\ LossIsReported'
      BY <1>3 DEF SendDirectly, Accounted, LossIsReported
    <2>4. OnceStopped' /\ OneAttemptAfterStop'
      BY <1>3 DEF SendDirectly, OnceStopped, OneAttemptAfterStop, RetryStopped
    <2> QED
      BY <2>1, <2>2, <2>3, <2>4
  <1>4. CASE BeginAttempt(r)
    <2>1. Phases' /\ Queued'
      BY <1>4 DEF BeginAttempt, Phases, Queued
    <2>2. HeldOnce' /\ Held'
      BY <1>4 DEF BeginAttempt, HeldOnce, Held, Active
    <2>3. Accounted' /\ LossIsReported'
      BY <1>4 DEF BeginAttempt, Accounted, LossIsReported
    <2>4. late[r] = 0
      <3>1. pc[r] = "attempt" /\ late[r] \in Nat
        BY <1>4 DEF BeginAttempt
      <3>2. ~(late[r] > 0)
        BY <3>1 DEF OnceStopped
      <3> QED
        BY <3>1, <3>2
    <2>5. OnceStopped' /\ OneAttemptAfterStop'
      BY <1>4, <2>4 DEF BeginAttempt, OnceStopped, OneAttemptAfterStop, RetryStopped, LateBound
    <2> QED
      BY <2>1, <2>2, <2>3, <2>5
  <1>5. CASE AttemptSucceeds(r)
    <2>1. Places'
      BY <1>5, ReturnPlaces DEF AttemptSucceeds, Active
    <2>2. Accounted' /\ LossIsReported'
      BY <1>5 DEF AttemptSucceeds, Return, Accounted, LossIsReported
    <2> QED
      BY <2>1, <2>2 DEF Places
  <1>6. CASE AttemptFailsForGood(r)
    <2>1. PICK drop \in SUBSET data[r] :
             Return(r, IF RetryEnabled THEN "permanent" ELSE "error", drop)
      BY <1>6 DEF AttemptFailsForGood
    <2>2. Places'
      BY <1>6, <2>1, ReturnPlaces DEF AttemptFailsForGood, Active
    <2>3. Accounted' /\ LossIsReported'
      BY <1>6, <2>1 DEF AttemptFailsForGood, Return, Accounted, LossIsReported
    <2> QED
      BY <2>2, <2>3 DEF Places
  <1>7. CASE AttemptFails(r)
    <2>1. Places'
      BY <1>7, BackOffPlaces DEF AttemptFails
    <2>2. Accounted' /\ LossIsReported'
      BY <1>7, BackOffAccounts DEF AttemptFails, Accounted
    <2> QED
      BY <2>1, <2>2 DEF Places
  <1>8. CASE AttemptFailsPartially(r)
    <2>1. PICK failed \in SUBSET data[r] :
             /\ acked' = [acked EXCEPT ![r] = @ \cup (data[r] \ failed)]
             /\ data' = [data EXCEPT ![r] = OnPartialError(r, failed)]
             /\ BackOff(r, OnPartialError(r, failed))
      BY <1>8 DEF AttemptFailsPartially
    <2>2. Places'
      BY <1>8, <2>1, BackOffPlaces DEF AttemptFailsPartially
    <2>3. /\ acked'[r] \cup OnPartialError(r, failed) = Items
          /\ DataType = "traces" => acked'[r] \cap OnPartialError(r, failed) = {}
      BY <1>8, <2>1 DEF AttemptFailsPartially, OnPartialError, Accounted
    <2>4. Accounted' /\ LossIsReported'
      BY <1>8, <2>1, <2>3, BackOffAccounts DEF AttemptFailsPartially
    <2> QED
      BY <2>2, <2>4 DEF Places
  <1>9. CASE TimerFires(r)
    <2>1. Phases' /\ Queued'
      BY <1>9 DEF TimerFires, Phases, Queued
    <2>2. HeldOnce' /\ Held'
      BY <1>9 DEF TimerFires, HeldOnce, Held, Active
    <2>3. Accounted' /\ LossIsReported'
      BY <1>9 DEF TimerFires, Accounted, LossIsReported
    <2>4. OnceStopped' /\ OneAttemptAfterStop'
      BY <1>9 DEF TimerFires, OnceStopped, OneAttemptAfterStop, RetryStopped
    <2> QED
      BY <2>1, <2>2, <2>3, <2>4
  <1>10. CASE CancelContext(r)
    <2>1. CASE pc[r] = "backoff"
      <3>1. Places'
        BY <1>10, <2>1, ReturnPlaces DEF CancelContext, Active
      <3>2. /\ pc' = [pc EXCEPT ![r] = "done"]
            /\ result' = [result EXCEPT ![r] = "cancelled"]
            /\ dropped' = [dropped EXCEPT ![r] = data[r]]
            /\ acked' = acked
            /\ data' = data
        BY <1>10, <2>1 DEF CancelContext, Return
      <3>3. Accounted'
        BY <3>2 DEF Accounted
      <3>4. LossIsReported'
        BY <2>1, <3>2 DEF Accounted, LossIsReported
      <3> QED
        BY <3>1, <3>3, <3>4 DEF Places
    <2>2. CASE pc[r] # "backoff"
      BY <1>10, <2>2 DEF CancelContext, Phases, Queued, HeldOnce, Held, Accounted,
                         LossIsReported, OnceStopped, OneAttemptAfterStop, RetryStopped
    <2> QED
      BY <2>1, <2>2
  <1> QED
    BY <1>1, <1>2, <1>3, <1>4, <1>5, <1>6, <1>7, <1>8, <1>9, <1>10
       DEF RequestStep, Send, AttemptReturns

\* So do the steps of one worker.
LEMMA WorkerStepIInv ==
    ASSUME IInv, NEW w \in Workers, WorkerStep(w)
    PROVE  Phases' /\ Queued' /\ HeldOnce' /\ Held' /\ Accounted'
           /\ LossIsReported' /\ OnceStopped' /\ OneAttemptAfterStop'
  <1> USE ExporterAssumption DEF IInv, TypeOK
  <1>1. CASE WorkerTake(w)
    <2>1. /\ Len(queue) \in Nat \ {0}
          /\ queue[1] \in Requests
          /\ pc[queue[1]] = "queued"
          /\ queue' \in Seq(Requests)
          /\ Len(queue') = Len(queue) - 1
          /\ \A i \in 1 .. Len(queue') : queue'[i] = queue[i + 1]
      BY <1>1 DEF WorkerTake, Queued
    <2>2. /\ pc' = [pc EXCEPT ![queue[1]] = "attempt"]
          /\ worker' = [worker EXCEPT ![w] = queue[1]]
          /\ worker[w] = "idle"
      BY <1>1 DEF WorkerTake
    <2>3. Phases'
      BY <1>1, <2>1, <2>2 DEF WorkerTake, Phases
    <2>4. Queued'
      <3>1. ASSUME NEW i \in 1 .. Len(queue')
            PROVE  /\ i + 1 \in 1 .. Len(queue)
                   /\ queue'[i] = queue[i + 1]
                   /\ queue'[i] # queue[1]
                   /\ pc'[queue'[i]] = "queued"
        <4>1. i \in Nat \ {0} /\ i + 1 \in 1 .. Len(queue) /\ 1 \in 1 .. Len(queue)
          <5> DEFINE n == Len(queue)
          <5> DEFINE m == Len(queue')
          <5>1. n \in Nat \ {0} /\ m = n - 1 /\ i \in 1 .. m
            BY <2>1
          <5> HIDE DEF n, m
          <5>2. i \in Nat \ {0} /\ i + 1 \in 1 .. n /\ 1 \in 1 .. n
            BY <5>1
          <5> QED
            BY <5>2 DEF n
        <4>2. queue'[i] = queue[i + 1] /\ queue[i + 1] \in Requests
          <5>1. queue \in Seq(Requests)
            OBVIOUS
          <5>2. queue[i + 1] \in Requests
            BY <4>1, <5>1, ElementOfSeq
          <5> QED
            BY <2>1, <5>2
        <4>3. pc[queue[i + 1]] = "queued" /\ queue[i + 1] # queue[1]
          <5> HIDE DEF TypeOK
          <5> DEFINE k == i + 1
          <5>1. k \in 1 .. Len(queue) /\ k # 1
            BY <4>1
          <5> HIDE DEF k
          <5>2. pc[queue[k]] = "queued" /\ queue[k] # queue[1]
            BY <4>1, <5>1 DEF Queued
          <5> QED
            BY <5>2 DEF k
        <4> QED
          BY <2>2, <4>1, <4>2, <4>3
      <3>2. \A i \in 1 .. Len(queue') : pc'[queue'[i]] = "queued"
        BY <3>1
      <3>3. ASSUME NEW i \in 1 .. Len(queue'), NEW j \in 1 .. Len(queue'),
                   queue'[i] = queue'[j]
            PROVE  i = j
        <4>1. i + 1 = j + 1
          BY <3>1, <3>3 DEF Queued
        <4> QED
          BY <2>1, <4>1
      <3> QED
        BY <3>2, <3>3 DEF Queued
    <2>5. HeldOnce'
      BY <2>1, <2>2 DEF HeldOnce, Active
    <2>6. Held'
      BY <2>1, <2>2 DEF Held, Active
    <2>7. Accounted' /\ LossIsReported'
      BY <1>1, <2>1, <2>2 DEF WorkerTake, Accounted, LossIsReported
    <2>8. OnceStopped' /\ OneAttemptAfterStop'
      BY <1>1, <2>1, <2>2 DEF WorkerTake, OnceStopped, OneAttemptAfterStop, RetryStopped
    <2> QED
      BY <2>3, <2>4, <2>5, <2>6, <2>7, <2>8
  <1>2. CASE WorkerExit(w)
    <2>1. Phases' /\ Queued'
      BY <1>2 DEF WorkerExit, Phases, Queued
    <2>2. HeldOnce' /\ Held'
      BY <1>2 DEF WorkerExit, HeldOnce, Held
    <2>3. Accounted' /\ LossIsReported'
      BY <1>2 DEF WorkerExit, Accounted, LossIsReported
    <2>4. OnceStopped' /\ OneAttemptAfterStop'
      BY <1>2 DEF WorkerExit, OnceStopped, OneAttemptAfterStop, RetryStopped
    <2> QED
      BY <2>1, <2>2, <2>3, <2>4
  <1> QED
    BY <1>1, <1>2 DEF WorkerStep

\* So does starting, and each step of shutting down.
LEMMA LifecycleStepIInv ==
    ASSUME IInv, Start \/ StartFails \/ StopRetries \/ ShutdownStep
    PROVE  Phases' /\ Queued' /\ HeldOnce' /\ Held' /\ Accounted'
           /\ LossIsReported' /\ OnceStopped' /\ OneAttemptAfterStop'
  <1> USE ExporterAssumption DEF IInv, TypeOK
  <1>1. CASE Start \/ StartFails
    <2>1. /\ UNCHANGED <<queue, pc, data, acked, dropped, result, late>>
          /\ lifecycle = "new"
          /\ lifecycle' \in {"running", "startFailed"}
          /\ worker' = worker \/ worker' = [w \in Workers |-> "idle"]
      BY <1>1 DEF Start, StartFails
    <2>2. queue = <<>> /\ \A r \in Requests : pc[r] = "idle"
      BY <2>1 DEF Phases
    <2>3. Phases' /\ Queued'
      BY <2>1, <2>2 DEF Phases, Queued
    <2>4. HeldOnce' /\ Held'
      BY <2>1, <2>2 DEF HeldOnce, Held, Active
    <2>5. Accounted' /\ LossIsReported'
      BY <2>1 DEF Accounted, LossIsReported
    <2>6. OnceStopped' /\ OneAttemptAfterStop'
      BY <2>1 DEF OnceStopped, OneAttemptAfterStop, RetryStopped
    <2> QED
      BY <2>3, <2>4, <2>5, <2>6
  <1>2. CASE StopRetries
    <2> DEFINE parked == {r \in Requests : pc[r] = "backoff"}
    <2>1. /\ lifecycle = "running"
          /\ lifecycle' = "retryStopped"
          /\ pc' = [r \in Requests |-> IF r \in parked THEN "done" ELSE pc[r]]
          /\ result' = [r \in Requests |->
                          IF r \in parked THEN "interrupted" ELSE result[r]]
          /\ dropped' = [r \in Requests |-> IF r \in parked THEN data[r] ELSE dropped[r]]
          /\ worker' = [w \in Workers |-> IF worker[w] \in parked THEN "idle" ELSE worker[w]]
          /\ UNCHANGED <<queue, data, acked, late>>
      BY <1>2 DEF StopRetries, Released
    <2>2. Phases' /\ Queued'
      BY <2>1 DEF Phases, Queued
    <2>3. HeldOnce'
      BY <2>1 DEF HeldOnce
    <2>4. Held'
      <3> SUFFICES ASSUME QueueEnabled, NEW q \in Requests, pc'[q] \in Active
                   PROVE  \E w \in Workers : worker'[w] = q
        BY DEF Held
      <3>1. q \notin parked /\ pc[q] \in Active
        BY <2>1 DEF Active
      <3>2. PICK w \in Workers : worker[w] = q
        BY <3>1 DEF Held
      <3> QED
        BY <2>1, <3>1, <3>2
    <2>5. Accounted'
      BY <2>1 DEF Accounted
    <2>6. LossIsReported'
      <3> SUFFICES ASSUME NEW q \in Requests
                   PROVE  /\ result'[q] = "ok" => acked'[q] = Items /\ dropped'[q] = {}
                          /\ result'[q] \in GaveUp =>
                                /\ acked'[q] \cup dropped'[q] = Items
                                /\ DataType = "traces" => acked'[q] \cap dropped'[q] = {}
        BY DEF LossIsReported, GaveUp
      <3>1. CASE q \in parked
        BY <2>1, <3>1 DEF Accounted
      <3>2. CASE q \notin parked
        BY <2>1, <3>2 DEF LossIsReported, GaveUp
      <3> QED
        BY <3>1, <3>2
    <2>7. OnceStopped' /\ OneAttemptAfterStop'
      BY <2>1 DEF OnceStopped, OneAttemptAfterStop, RetryStopped
    <2> QED
      BY <2>2, <2>3, <2>4, <2>5, <2>6, <2>7
  <1>3. CASE ShutdownStep
    <2>1. /\ UNCHANGED <<queue, worker, pc, data, acked, dropped, result, late>>
          /\ lifecycle \in {"retryStopped", "queueStopping", "drained"}
          /\ lifecycle' \in {"queueStopping", "drained", "stopped"}
          /\ lifecycle' = "drained" => \A w \in Workers : worker[w] = "exited"
          /\ lifecycle' = "stopped" => lifecycle = "drained"
      BY <1>3 DEF ShutdownStep, StopQueue, AwaitConsumers, ShutdownExporter
    <2>2. Phases' /\ Queued'
      BY <2>1 DEF Phases, Queued
    <2>3. HeldOnce' /\ Held'
      BY <2>1 DEF HeldOnce, Held
    <2>4. Accounted' /\ LossIsReported'
      BY <2>1 DEF Accounted, LossIsReported
    <2>5. OnceStopped' /\ OneAttemptAfterStop'
      BY <2>1 DEF OnceStopped, OneAttemptAfterStop, RetryStopped
    <2> QED
      BY <2>2, <2>3, <2>4, <2>5
  <1> QED
    BY <1>1, <1>2, <1>3

\* Every step keeps the inductive invariant: one case per group of actions.
LEMMA NextIInv == IInv /\ [Next]_vars => IInv'
  <1> SUFFICES ASSUME IInv, [Next]_vars
               PROVE  IInv'
    OBVIOUS
  <1>1. TypeOK'
    BY NextTypeOK DEF IInv
  <1>2. CASE Start \/ StartFails \/ StopRetries \/ ShutdownStep
    BY <1>1, <1>2, LifecycleStepIInv DEF IInv
  <1>3. CASE \E r \in Requests : RequestStep(r)
    BY <1>1, <1>3, RequestStepIInv
  <1>4. CASE \E w \in Workers : WorkerStep(w)
    BY <1>1, <1>4, WorkerStepIInv DEF IInv
  <1>5. CASE UNCHANGED vars
    BY <1>1, <1>5 DEF vars, IInv, Phases, Queued, HeldOnce, Held, Accounted,
                      LossIsReported, OnceStopped, OneAttemptAfterStop, RetryStopped
  <1> QED
    BY <1>2, <1>3, <1>4, <1>5 DEF Next

\* For every instance, queue, workers, retry loop and shutdown keep the inductive
\* invariant from which the properties below follow.
THEOREM Invariance == Spec => []IInv
  BY InitIInv, NextIInv, PTL DEF Spec

-----------------------------------------------------------------------------
(* What follows from the invariant. *)

\* For every number of requests, workers and attempts: what send reports as
\* exported was exported, and what the retry loop gives up is counted.
THEOREM LossReported == Spec => []LossIsReported
  <1>1. IInv => LossIsReported
    BY DEF IInv
  <1> QED
    BY <1>1, Invariance, PTL

\* For every instance, a trace request is never retried with spans that a
\* partial error has reported as exported.
THEOREM AckedNotResent == Spec => []NoAckedItemResent
  <1>1. IInv => NoAckedItemResent
    BY DEF IInv, Accounted, NoAckedItemResent, Active
  <1> QED
    BY <1>1, Invariance, PTL

\* For every instance, closing retryStopCh leaves each request one attempt.
THEOREM OneLateAttempt == Spec => []OneAttemptAfterStop
  <1>1. IInv => OneAttemptAfterStop
    BY DEF IInv
  <1> QED
    BY <1>1, Invariance, PTL

\* For every instance, a request is in the hands of at most one worker.
THEOREM OneHolder == Spec => []HeldOnce
  <1>1. IInv => HeldOnce
    BY DEF IInv
  <1> QED
    BY <1>1, Invariance, PTL

\* For every instance, once the wrapped exporter is shut down no worker is
\* inside the push function or on its way to it.
THEOREM QuietAfterShutdown == Spec => []NoExportAfterShutdown
  <1>1. IInv => NoExportAfterShutdown
    <2> SUFFICES ASSUME IInv, QueueEnabled, lifecycle = "stopped",
                        NEW r \in Requests, pc[r] \in Active
                 PROVE  FALSE
      BY DEF NoExportAfterShutdown
    <2>1. PICK w \in Workers : worker[w] = r
      BY DEF IInv, Held
    <2>2. worker[w] = "exited"
      BY DEF IInv, Phases
    <2> QED
      BY <2>1, <2>2, ExporterAssumption
  <1> QED
    BY <1>1, Invariance, PTL

-----------------------------------------------------------------------------
(***************************************************************************)
(* The refinement of RequestFate.  A step of one request changes that      *)
(* request's fate only, so that each action is matched against the         *)
(* abstract one by the fate of its request before and after; the guard     *)
(* ~closed of the abstract actions is where NoExportAfterShutdown is       *)
(* needed.                                                                 *)
(***************************************************************************)

Closed == QueueEnabled /\ lifecycle = "stopped"

\* The invariant lets no request be active while the exporter is closed.
LEMMA ActiveNotClosed ==
    ASSUME IInv, NEW r \in Requests, pc[r] \in Active
    PROVE  ~Closed
  <1> SUFFICES ASSUME Closed
               PROVE  FALSE
    OBVIOUS
  <1>1. PICK w \in Workers : worker[w] = r
    BY DEF IInv, Held, Closed
  <1>2. worker[w] = "exited"
    BY DEF IInv, Phases, Closed
  <1> QED
    BY <1>1, <1>2, ExporterAssumption

\* A step that leaves the other requests' progress alone changes one fate.
LEMMA OneFateChanges ==
    ASSUME NEW r \in Requests, NEW to,
           \A q \in Requests \ {r} : pc'[q] = pc[q] /\ result'[q] = result[q],
           FateOf(r)' = to
    PROVE  [q \in Requests |-> FateOf(q)]' =
               [[q \in Requests |-> FateOf(q)] EXCEPT ![r] = to]
  <1>1. ASSUME NEW q \in Requests \ {r}
        PROVE  FateOf(q)' = FateOf(q)
    BY DEF FateOf
  <1>2. ASSUME NEW q \in Requests
        PROVE  FateOf(q)' = IF q = r THEN to ELSE FateOf(q)
    BY <1>1
  <1> QED
    BY <1>2

\* A step after which every request has its fate, and nothing more has been
\* acknowledged, is a stutter of RequestFate.
LEMMA NoFateChanges ==
    ASSUME \A q \in Requests : FateOf(q)' = FateOf(q),
           UNCHANGED acked,
           Closed' = Closed
    PROVE  UNCHANGED Fate!vars
  <1>1. [q \in Requests |-> FateOf(q)]' = [q \in Requests |-> FateOf(q)]
    OBVIOUS
  <1> QED
    BY <1>1 DEF Fate!vars, Closed

\* What a pc and a result say about the fate.
LEMMA FateCases ==
    ASSUME NEW r \in Requests
    PROVE  /\ pc[r] = "idle" => FateOf(r) = "new"
           /\ pc[r] = "queued" \/ pc[r] \in Active => FateOf(r) = "accepted"
           /\ pc[r] = "done" /\ result[r] = "refused" => FateOf(r) = "refused"
           /\ pc[r] = "done" /\ result[r] = "ok" => FateOf(r) = "ok"
           /\ pc[r] = "done" /\ result[r] \notin {"refused", "ok"} => FateOf(r) = "lost"
  BY DEF FateOf, Active

\* Each step of one request is a step of RequestFate or a stutter.
LEMMA RequestStepFate ==
    ASSUME IInv, TypeOK', NEW r \in Requests, RequestStep(r)
    PROVE  [Fate!Next]_(Fate!vars)
  <1> USE DEF IInv, TypeOK
  <1> DEFINE fates == [q \in Requests |-> FateOf(q)]
  <1>0. /\ fates[r] = FateOf(r)
        /\ lifecycle' = lifecycle
        /\ Closed' = Closed
    BY DEF RequestStep, Send, Enqueue, Refuse, SendDirectly, BeginAttempt,
           AttemptReturns, AttemptSucceeds, AttemptFailsForGood, AttemptFails,
           AttemptFailsPartially, TimerFires, CancelContext, Closed
  <1>1. CASE QueueEnabled /\ Enqueue(r)
    <2>1. /\ FateOf(r) = "new" /\ FateOf(r)' = "accepted"
          /\ UNCHANGED acked
          /\ ~Closed
      BY <1>1 DEF Enqueue, CanProduce, QueueStopped, FateOf, Closed
    <2>2. fates' = [fates EXCEPT ![r] = "accepted"]
      BY <1>1, <2>1, OneFateChanges DEF Enqueue
    <2>3. Fate!Accept(r)
      BY <1>0, <2>1, <2>2 DEF Fate!Accept, Closed
    <2> QED
      BY <2>3 DEF Fate!Next
  <1>2. CASE QueueEnabled /\ Refuse(r)
    <2>1. /\ FateOf(r) = "new" /\ FateOf(r)' = "refused"
          /\ UNCHANGED acked
      BY <1>2 DEF Refuse, FateOf
    <2>2. fates' = [fates EXCEPT ![r] = "refused"]
      BY <1>2, <2>1, OneFateChanges DEF Refuse
    <2>3. Fate!Refuse(r)
      BY <1>0, <2>1, <2>2 DEF Fate!Refuse, Closed
    <2> QED
      BY <2>3 DEF Fate!Next
  <1>3. CASE ~QueueEnabled /\ SendDirectly(r)
    <2>1. /\ FateOf(r) = "new" /\ FateOf(r)' = "accepted"
          /\ UNCHANGED acked
          /\ ~Closed
      BY <1>3 DEF SendDirectly, FateOf, Closed
    <2>2. fates' = [fates EXCEPT ![r] = "accepted"]
      BY <1>3, <2>1, OneFateChanges DEF SendDirectly
    <2>3. Fate!Accept(r)
      BY <1>0, <2>1, <2>2 DEF Fate!Accept, Closed
    <2> QED
      BY <2>3 DEF Fate!Next
  <1>4. CASE BeginAttempt(r) \/ TimerFires(r)
    <2>1. /\ \A q \in Requests : FateOf(q)' = FateOf(q)
          /\ UNCHANGED acked
      BY <1>4 DEF BeginAttempt, TimerFires, FateOf
    <2> QED
      BY <1>0, <2>1, NoFateChanges
  <1>5. CASE AttemptSucceeds(r)
    <2>1. /\ FateOf(r) = "accepted" /\ FateOf(r)' = "ok"
          /\ acked' = [acked EXCEPT ![r] = Items]
      BY <1>5 DEF AttemptSucceeds, Return, FateOf, Accounted
    <2>2. fates' = [fates EXCEPT ![r] = "ok"]
      BY <1>5, <2>1, OneFateChanges DEF AttemptSucceeds, Return
    <2>3. ~Closed
      BY <1>5, ActiveNotClosed DEF AttemptSucceeds, Active
    <2>4. Fate!Complete(r)
      BY <1>0, <2>1, <2>2, <2>3 DEF Fate!Complete, Closed
    <2> QED
      BY <2>4 DEF Fate!Next
  <1>6. ASSUME NEW res \in Results \ {"ok", "refused"}, NEW drop, NEW got \in SUBSET Items,
               pc[r] \in Active, Return(r, res, drop),
               acked' = [acked EXCEPT ![r] = @ \cup got]
        PROVE  Fate!Next
    <2>1. FateOf(r) = "accepted" /\ FateOf(r)' = "lost"
      BY <1>6 DEF Return, FateOf, Active
    <2>2. fates' = [fates EXCEPT ![r] = "lost"]
      BY <1>6, <2>1, OneFateChanges DEF Return
    <2>3. ~Closed
      BY <1>6, ActiveNotClosed
    <2>4. Fate!GiveUp(r)
      BY <1>0, <1>6, <2>1, <2>2, <2>3 DEF Fate!GiveUp, Closed
    <2> QED
      BY <2>4 DEF Fate!Next
  <1>7. UNCHANGED acked => acked' = [acked EXCEPT ![r] = @ \cup {}]
    OBVIOUS
  <1>8. CASE AttemptFailsForGood(r)
    <2>1. PICK drop \in SUBSET data[r] :
             Return(r, IF RetryEnabled THEN "permanent" ELSE "error", drop)
      BY <1>8 DEF AttemptFailsForGood
    <2>2. (IF RetryEnabled THEN "permanent" ELSE "error") \in Results \ {"ok", "refused"}
      BY DEF Results
    <2>3. pc[r] \in Active /\ {} \in SUBSET Items
          /\ acked' = [acked EXCEPT ![r] = @ \cup {}]
      BY <1>7, <1>8 DEF AttemptFailsForGood, Active
    <2>4. Fate!Next
      BY <1>6, <2>1, <2>2, <2>3
    <2> QED
      BY <2>4
  <1>9. ASSUME NEW left, NEW got \in SUBSET Items, pc[r] = "exporting", BackOff(r, left),
               acked' = [acked EXCEPT ![r] = @ \cup got]
        PROVE  [Fate!Next]_(Fate!vars)
    <2>1. CASE Parks(r)
      <3>1. /\ FateOf(r) = "accepted"
            /\ \A q \in Requests : FateOf(q)' = FateOf(q)
        BY <1>9, <2>1 DEF Parks, FateOf
      <3>2. fates' = fates
        BY <3>1
      <3>3. ~Closed
        BY <1>9, ActiveNotClosed DEF Active
      <3>4. Fate!Acknowledge(r)
        BY <1>0, <1>9, <3>1, <3>2, <3>3 DEF Fate!Acknowledge, Closed
      <3> QED
        BY <3>4 DEF Fate!Next
    <2>2. CASE \E res \in GaveUp : Return(r, res, left)
      <3>1. PICK res \in GaveUp : Return(r, res, left)
        BY <2>2
      <3>2. res \in Results \ {"ok", "refused"} /\ pc[r] \in Active
        BY <1>9 DEF GaveUp, Results, Active
      <3>3. Fate!Next
        BY <1>6, <1>9, <3>1, <3>2
      <3> QED
        BY <3>3
    <2> QED
      BY <1>9, <2>1, <2>2, BackOffCases
  <1>10. CASE AttemptFails(r)
    <2>1. {} \in SUBSET Items
      OBVIOUS
    <2>2. acked' = [acked EXCEPT ![r] = @ \cup {}]
      BY <1>7, <1>10 DEF AttemptFails
    <2>3. pc[r] = "exporting" /\ BackOff(r, data[r])
      BY <1>10 DEF AttemptFails
    <2> QED
      BY <1>9, <2>1, <2>2, <2>3
  <1>11. CASE AttemptFailsPartially(r)
    <2>1. PICK failed \in SUBSET data[r] :
             /\ acked' = [acked EXCEPT ![r] = @ \cup (data[r] \ failed)]
             /\ BackOff(r, OnPartialError(r, failed))
      BY <1>11 DEF AttemptFailsPartially
    <2>2. data[r] \ failed \in SUBSET Items /\ pc[r] = "exporting"
      BY <1>11 DEF AttemptFailsPartially
    <2> QED
      BY <1>9, <2>1, <2>2
  <1>12. CASE CancelContext(r)
    <2>1. CASE pc[r] = "backoff"
      <3>1. /\ Return(r, "cancelled", data[r])
            /\ "cancelled" \in Results \ {"ok", "refused"}
            /\ pc[r] \in Active
            /\ {} \in SUBSET Items
            /\ acked' = [acked EXCEPT ![r] = @ \cup {}]
        BY <1>7, <1>12, <2>1 DEF CancelContext, Results, Active
      <3>2. Fate!Next
        BY <1>6, <3>1
      <3> QED
        BY <3>2
    <2>2. CASE pc[r] # "backoff"
      <3>1. /\ \A q \in Requests : FateOf(q)' = FateOf(q)
            /\ UNCHANGED acked
        BY <1>12, <2>2 DEF CancelContext, FateOf
      <3> QED
        BY <1>0, <3>1, NoFateChanges
    <2> QED
      BY <2>1, <2>2
  <1> QED
    BY <1>1, <1>2, <1>3, <1>4, <1>5, <1>8, <1>10, <1>11, <1>12
       DEF RequestStep, Send, AttemptReturns

\* Every step of the exporter is a step of RequestFate or a stutter: taking a
\* request from the queue is invisible, closing retryStopCh gives up whatever is
\* parked, and shutting the wrapped exporter down closes.
LEMMA NextFate == IInv /\ [Next]_vars => [Fate!Next]_(Fate!vars)
  <1> SUFFICES ASSUME IInv, [Next]_vars
               PROVE  [Fate!Next]_(Fate!vars)
    OBVIOUS
  <1> USE DEF IInv, TypeOK
  <1> DEFINE fates == [q \in Requests |-> FateOf(q)]
  <1>0. TypeOK'
    BY NextTypeOK
  <1>1. CASE Start \/ StartFails \/ StopQueue \/ AwaitConsumers
    <2>1. /\ \A q \in Requests : FateOf(q)' = FateOf(q)
          /\ UNCHANGED acked
          /\ Closed' = Closed
      BY <1>1 DEF Start, StartFails, StopQueue, AwaitConsumers, FateOf, Closed
    <2> QED
      BY <2>1, NoFateChanges
  <1>2. CASE StopRetries
    <2> DEFINE parked == {q \in Requests : pc[q] = "backoff"}
    <2>1. /\ pc' = [q \in Requests |-> IF q \in parked THEN "done" ELSE pc[q]]
          /\ result' = [q \in Requests |->
                          IF q \in parked THEN "interrupted" ELSE result[q]]
          /\ UNCHANGED acked
          /\ ~Closed /\ ~Closed'
      BY <1>2 DEF StopRetries, Closed
    <2>2. \A q \in Requests :
             /\ FateOf(q)' = IF q \in parked THEN "lost" ELSE FateOf(q)
             /\ q \in parked => FateOf(q) = "accepted"
      BY <2>1 DEF FateOf
    <2>3. CASE parked = {}
      <3>1. Closed' = Closed
        BY <2>1 DEF Closed
      <3>2. \A q \in Requests : FateOf(q)' = FateOf(q)
        BY <2>2, <2>3
      <3> QED
        BY <2>1, <3>1, <3>2, NoFateChanges
    <2>4. CASE parked # {}
      <3>1. /\ fates' = [q \in Requests |-> IF q \in parked THEN "lost" ELSE fates[q]]
            /\ \A q \in parked : fates[q] = "accepted"
            /\ parked \in SUBSET Requests
        BY <2>2
      <3>2. Fate!GiveUpAll(parked)
        BY <2>1, <2>4, <3>1 DEF Fate!GiveUpAll, Closed
      <3> QED
        BY <3>1, <3>2 DEF Fate!Next
    <2> QED
      BY <2>3, <2>4
  <1>3. CASE ShutdownExporter
    <2>1. /\ \A q \in Requests : FateOf(q)' = FateOf(q)
          /\ UNCHANGED acked
          /\ ~Closed
          /\ Closed' <=> QueueEnabled
      BY <1>3 DEF ShutdownExporter, FateOf, Closed
    <2>2. CASE QueueEnabled
      <3>1. fates' = fates
        BY <2>1
      <3>2. Fate!Close
        BY <2>1, <2>2, <3>1 DEF Fate!Close, Closed
      <3> QED
        BY <3>2 DEF Fate!Next
    <2>3. CASE ~QueueEnabled
      <3>1. Closed' = Closed
        BY <2>1, <2>3 DEF Closed
      <3> QED
        BY <2>1, <3>1, NoFateChanges
    <2> QED
      BY <2>2, <2>3
  <1>4. CASE \E r \in Requests : RequestStep(r)
    BY <1>0, <1>4, RequestStepFate
  <1>5. CASE \E w \in Workers : WorkerStep(w)
    <2>1. PICK w \in Workers : WorkerTake(w) \/ WorkerExit(w)
      BY <1>5 DEF WorkerStep
    <2>2. CASE WorkerTake(w)
      <3>1. /\ Head(queue) \in Requests
            /\ pc[Head(queue)] = "queued"
            /\ Closed' = Closed
        BY <2>2 DEF WorkerTake, Queued, Closed
      <3>2. /\ \A q \in Requests : FateOf(q)' = FateOf(q)
            /\ UNCHANGED acked
        BY <2>2, <3>1 DEF WorkerTake, FateOf
      <3> QED
        BY <3>1, <3>2, NoFateChanges
    <2>3. CASE WorkerExit(w)
      <3>1. /\ \A q \in Requests : FateOf(q)' = FateOf(q)
            /\ UNCHANGED acked
            /\ Closed' = Closed
        BY <2>3 DEF WorkerExit, FateOf, Closed
      <3> QED
        BY <3>1, NoFateChanges
    <2> QED
      BY <2>1, <2>2, <2>3
  <1>6. CASE UNCHANGED vars
    <2>1. /\ \A q \in Requests : FateOf(q)' = FateOf(q)
          /\ UNCHANGED acked
          /\ Closed' = Closed
      BY <1>6 DEF vars, FateOf, Closed
    <2> QED
      BY <2>1, NoFateChanges
  <1> QED
    BY <1>1, <1>2, <1>3, <1>4, <1>5, <1>6 DEF Next, ShutdownStep

\* For every instance, queue, workers, retries and shutdown implement the
\* abstract fate of a request: each request is refused or accepted once,
\* decided at most once, "ok" only with all its items acknowledged, and nothing
\* is accepted or acknowledged after the wrapped exporter is shut down.
THEOREM FateRefined == Spec => ImplementsFate
  <1>1. Init => Fate!Init
    BY DEF Init, Fate!Init, FateOf
  <1> QED
    BY <1>1, NextFate, Invariance, PTL DEF Spec, ImplementsFate, Fate!Spec

=============================================================================
