--------------------------- MODULE ExporterHelper ---------------------------
(***************************************************************************)
(* exporter/exporterhelper: the machinery every exporter of the collector  *)
(* is wrapped in.  A request (one ConsumeTraces / ConsumeMetrics /         *)
(* ConsumeLogs call) goes through                                          *)
(*                                                                         *)
(*    queuedRetrySender -> observability wrapper -> retrySender            *)
(*       -> timeoutSender -> the exporter's own push function              *)
(*                                                                         *)
(* either on a queue worker (queue enabled) or on the caller's goroutine.  *)
(* Start and Shutdown of baseExporter run concurrently with all of it.     *)
(*                                                                         *)
(* Data is reduced to the set of items of a request.  The numbers of items *)
(* the senders return (req.count(), droppedItems) are modelled by the sets *)
(* they count.  The push function is the environment: every attempt ends   *)
(* in one of the outcomes retrySender tells apart.                         *)
(***************************************************************************)
EXTENDS Naturals, Sequences

CONSTANTS
    Requests,      \* requests handed to the exporter
    Items,         \* items carried by every request
    Workers,       \* QueueSettings.NumConsumers goroutines
    QueueEnabled,  \* QueueSettings.Enabled
    QueueSize,     \* QueueSettings.QueueSize
    RetryEnabled,  \* RetrySettings.Enabled
    GivesUp,       \* RetrySettings.MaxElapsedTime # 0 (0: retry for ever)
    MaxAttempts,   \* bound: attempts that fit into MaxElapsedTime
    DataType       \* which request type: its onPartialError differs

ASSUME ExporterAssumption ==
    /\ QueueEnabled \in BOOLEAN
    /\ RetryEnabled \in BOOLEAN
    /\ GivesUp \in BOOLEAN
    /\ QueueSize \in Nat
    /\ MaxAttempts \in Nat \ {0}
    /\ DataType \in {"traces", "metrics", "logs"}
    /\ Requests \cap {"off", "idle", "exited"} = {}

VARIABLES
    lifecycle,  \* progress of baseExporter.Start and Shutdown
    queue,      \* the BoundedQueue's channel
    worker,     \* worker[w]: "off", "idle", "exited" or the request it runs
    pc,         \* pc[r]: where request r is
    data,       \* data[r]: items still to be sent (req after onPartialError)
    acked,      \* acked[r]: items the push function reported as exported
    dropped,    \* dropped[r]: items the returned count stands for
    result,     \* result[r]: how send returned
    attempts,   \* attempts[r]: calls of the push function, at most MaxAttempts
    late,       \* late[r]: attempts begun after retryStopCh was closed, up to LateBound
    cancelled   \* cancelled[r]: the caller's context is done

vars == <<lifecycle, queue, worker, pc, data, acked, dropped, result,
          attempts, late, cancelled>>

Lifecycles == {"new", "running", "startFailed", "retryStopped",
               "queueStopping", "drained", "stopped"}
Results == {"none", "ok", "refused", "permanent", "error", "expired",
            "cancelled", "interrupted"}

\* Bound: two late attempts are told apart from one, more are not counted.
LateBound == 2

\* A goroutine is inside consumerSender.send for the request.
Active == {"attempt", "exporting", "backoff"}

\* close(qrs.retryStopCh) has happened.
RetryStopped == lifecycle \in {"retryStopped", "queueStopping", "drained", "stopped"}

\* BoundedQueue.Stop has set its stopped flag and closed its stop channel.
QueueStopped == lifecycle \in {"queueStopping", "drained", "stopped"}

Init ==
    /\ lifecycle = "new"
    /\ queue = <<>>
    /\ worker = [w \in Workers |-> "off"]
    /\ pc = [r \in Requests |-> "idle"]
    /\ data = [r \in Requests |-> Items]
    /\ acked = [r \in Requests |-> {}]
    /\ dropped = [r \in Requests |-> {}]
    /\ result = [r \in Requests |-> "none"]
    /\ attempts = [r \in Requests |-> 0]
    /\ late = [r \in Requests |-> 0]
    /\ cancelled = [r \in Requests |-> FALSE]

-----------------------------------------------------------------------------
(* baseExporter.Start *)

\* The wrapped exporter starts, then the queue's consumers are started.
Start ==
    /\ lifecycle = "new"
    /\ lifecycle' = "running"
    /\ worker' = [w \in Workers |-> "idle"]
    /\ UNCHANGED <<queue, pc, data, acked, dropped, result, attempts, late, cancelled>>

\* The wrapped exporter fails to start: the consumers are never started.
StartFails ==
    /\ lifecycle = "new"
    /\ lifecycle' = "startFailed"
    /\ UNCHANGED <<queue, worker, pc, data, acked, dropped, result, attempts, late, cancelled>>

-----------------------------------------------------------------------------
(* queuedRetrySender.send *)

\* External: BoundedQueue.Produce accepts while not stopped and not full.
CanProduce == ~QueueStopped /\ Len(queue) < QueueSize

\* Mutant: the request is added whatever Produce answers.
EnqueueUnchecked(r) ==
    /\ lifecycle \notin {"new", "startFailed"}
    /\ pc[r] = "idle"
    /\ queue' = Append(queue, r)
    /\ pc' = [pc EXCEPT ![r] = "queued"]
    /\ UNCHANGED <<lifecycle, worker, data, acked, dropped, result, attempts, late, cancelled>>

\* send with the queue enabled and room in it.
Enqueue(r) ==
    /\ lifecycle \notin {"new", "startFailed"}
    /\ pc[r] = "idle"
    /\ CanProduce
    /\ queue' = Append(queue, r)
    /\ pc' = [pc EXCEPT ![r] = "queued"]
    /\ UNCHANGED <<lifecycle, worker, data, acked, dropped, result, attempts, late, cancelled>>

\* Produce returned false: errorRefused, and all items count as dropped.
Refuse(r) ==
    /\ lifecycle \notin {"new", "startFailed"}
    /\ pc[r] = "idle"
    /\ ~CanProduce
    /\ pc' = [pc EXCEPT ![r] = "done"]
    /\ result' = [result EXCEPT ![r] = "refused"]
    /\ dropped' = [dropped EXCEPT ![r] = data[r]]
    /\ UNCHANGED <<lifecycle, queue, worker, data, acked, attempts, late, cancelled>>

\* send with the queue disabled: the caller runs consumerSender.send itself.
SendDirectly(r) ==
    /\ lifecycle \notin {"new", "startFailed"}
    /\ pc[r] = "idle"
    /\ pc' = [pc EXCEPT ![r] = "attempt"]
    /\ UNCHANGED <<lifecycle, queue, worker, data, acked, dropped, result, attempts, late, cancelled>>

\* queuedRetrySender.send.
Send(r) == IF QueueEnabled THEN Enqueue(r) \/ Refuse(r) ELSE SendDirectly(r)

-----------------------------------------------------------------------------
(* The queue's consumers.  External: each one selects between the items    *)
(* channel and the queue's stop channel, so that once the queue is stopped *)
(* a consumer with items waiting may take one or leave.                    *)

\* Mutant: the consumer peeks at the channel and does not take the item out.
WorkerPeek(w) ==
    /\ worker[w] = "idle"
    /\ queue # <<>>
    /\ worker' = [worker EXCEPT ![w] = Head(queue)]
    /\ pc' = [pc EXCEPT ![Head(queue)] = "attempt"]
    /\ UNCHANGED <<lifecycle, queue, data, acked, dropped, result, attempts, late, cancelled>>

WorkerTake(w) ==
    /\ worker[w] = "idle"
    /\ queue # <<>>
    /\ queue' = Tail(queue)
    /\ worker' = [worker EXCEPT ![w] = Head(queue)]
    /\ pc' = [pc EXCEPT ![Head(queue)] = "attempt"]
    /\ UNCHANGED <<lifecycle, data, acked, dropped, result, attempts, late, cancelled>>

WorkerExit(w) ==
    /\ worker[w] = "idle"
    /\ QueueStopped
    /\ worker' = [worker EXCEPT ![w] = "exited"]
    /\ UNCHANGED <<lifecycle, queue, pc, data, acked, dropped, result, attempts, late, cancelled>>

-----------------------------------------------------------------------------
(* retrySender.send and timeoutSender.send *)

\* The loop calls nextSender.send: timeoutSender derives a context with a
\* timeout and calls the push function.
BeginAttempt(r) ==
    /\ pc[r] = "attempt"
    /\ pc' = [pc EXCEPT ![r] = "exporting"]
    /\ attempts' = [attempts EXCEPT ![r] = IF @ < MaxAttempts THEN @ + 1 ELSE @]
    /\ late' = [late EXCEPT ![r] = IF RetryStopped /\ @ < LateBound THEN @ + 1 ELSE @]
    /\ UNCHANGED <<lifecycle, queue, worker, data, acked, dropped, result, cancelled>>

\* The workers that run a request of S go back to the queue.
Released(S) == [w \in Workers |-> IF worker[w] \in S THEN "idle" ELSE worker[w]]

\* send returns: the observability wrapper records the outcome and the
\* goroutine is free again.
Return(r, res, drop) ==
    /\ pc' = [pc EXCEPT ![r] = "done"]
    /\ result' = [result EXCEPT ![r] = res]
    /\ dropped' = [dropped EXCEPT ![r] = drop]
    /\ worker' = Released({r})

\* Mutant: the select waits on the context and the timer only.
SelectWithoutStop(r, left) ==
    \/ cancelled[r] /\ Return(r, "cancelled", left)
    \/ /\ ~cancelled[r]
       /\ pc' = [pc EXCEPT ![r] = "backoff"]
       /\ UNCHANGED <<result, dropped, worker>>

\* The select of the back-off when it is entered.  The delay is positive, so
\* only the context and retryStopCh can be ready at once; if neither is, the
\* goroutine parks.
Select(r, left) ==
    \/ cancelled[r] /\ Return(r, "cancelled", left)
    \/ RetryStopped /\ Return(r, "interrupted", left)
    \/ /\ ~cancelled[r]
       /\ ~RetryStopped
       /\ pc' = [pc EXCEPT ![r] = "backoff"]
       /\ UNCHANGED <<result, dropped, worker>>

\* Mutant: the count returned is that of the request before onPartialError.
BackOffWithOldRequest(r, left) ==
    \/ GivesUp /\ Return(r, "expired", Items \ (acked[r] \cup data[r]))
    \/ /\ ~(GivesUp /\ attempts[r] = MaxAttempts)
       /\ Select(r, left)

\* NextBackOff: the elapsed time may exceed MaxElapsedTime after any attempt,
\* and has done so after MaxAttempts of them.
BackOff(r, left) ==
    \/ GivesUp /\ Return(r, "expired", left)
    \/ /\ ~(GivesUp /\ attempts[r] = MaxAttempts)
       /\ Select(r, left)

\* The push function returns nil, and a count of 0 with it: send would pass on another
\* count, but no exporter of the repository has one without an error.
AttemptSucceeds(r) ==
    /\ pc[r] = "exporting"
    /\ acked' = [acked EXCEPT ![r] = @ \cup data[r]]
    /\ Return(r, "ok", {})
    /\ UNCHANGED <<lifecycle, queue, data, attempts, late, cancelled>>

\* A permanent error, or any error when retries are disabled: send returns at
\* once with the number of items the push function says it dropped.
AttemptFailsForGood(r) ==
    /\ pc[r] = "exporting"
    /\ \E drop \in SUBSET data[r] :
          Return(r, IF RetryEnabled THEN "permanent" ELSE "error", drop)
    /\ UNCHANGED <<lifecycle, queue, data, acked, attempts, late, cancelled>>

\* A retryable error; a throttleRetry only lengthens the delay.
AttemptFails(r) ==
    /\ pc[r] = "exporting"
    /\ RetryEnabled
    /\ BackOff(r, data[r])
    /\ UNCHANGED <<lifecycle, queue, data, acked, attempts, late, cancelled>>

\* Mutant: the request is retried whole after a partial error.
OnPartialErrorKeepsAll(r, failed) == data[r]

\* onPartialError: tracesRequest keeps the failed items only, metricsRequest
\* and logsRequest keep everything.
OnPartialError(r, failed) == IF DataType = "traces" THEN failed ELSE data[r]

\* A consumererror.PartialError that names the items that were not exported.
AttemptFailsPartially(r) ==
    /\ pc[r] = "exporting"
    /\ RetryEnabled
    /\ \E failed \in SUBSET data[r] :
          /\ failed # {}
          /\ acked' = [acked EXCEPT ![r] = @ \cup (data[r] \ failed)]
          /\ data' = [data EXCEPT ![r] = OnPartialError(r, failed)]
          /\ BackOff(r, OnPartialError(r, failed))
    /\ UNCHANGED <<lifecycle, queue, attempts, late, cancelled>>

AttemptReturns(r) ==
    \/ AttemptSucceeds(r)
    \/ AttemptFailsForGood(r)
    \/ AttemptFails(r)
    \/ AttemptFailsPartially(r)

\* time.After wakes the parked goroutine: next iteration of the loop.
TimerFires(r) ==
    /\ pc[r] = "backoff"
    /\ pc' = [pc EXCEPT ![r] = "attempt"]
    /\ UNCHANGED <<lifecycle, queue, worker, data, acked, dropped, result, attempts, late, cancelled>>

\* The caller's context is cancelled or times out; a goroutine parked in the
\* back-off of that request returns.
CancelContext(r) ==
    /\ ~cancelled[r]
    /\ pc[r] # "done"
    /\ cancelled' = [cancelled EXCEPT ![r] = TRUE]
    /\ IF pc[r] = "backoff"
       THEN Return(r, "cancelled", data[r])
       ELSE UNCHANGED <<pc, result, dropped, worker>>
    /\ UNCHANGED <<lifecycle, queue, data, acked, attempts, late>>

-----------------------------------------------------------------------------
(* baseExporter.Shutdown: queuedRetrySender.shutdown, then the wrapped one *)

\* close(retryStopCh) wakes every goroutine parked in a back-off.
StopRetries ==
    /\ lifecycle = "running"
    /\ lifecycle' = "retryStopped"
    /\ LET parked == {r \in Requests : pc[r] = "backoff"} IN
          /\ pc' = [r \in Requests |-> IF r \in parked THEN "done" ELSE pc[r]]
          /\ result' = [r \in Requests |->
                          IF r \in parked THEN "interrupted" ELSE result[r]]
          /\ dropped' = [r \in Requests |->
                           IF r \in parked THEN data[r] ELSE dropped[r]]
          /\ worker' = Released(parked)
    /\ UNCHANGED <<queue, data, acked, attempts, late, cancelled>>

\* External: BoundedQueue.Stop disables producers and signals the consumers.
StopQueue ==
    /\ lifecycle = "retryStopped"
    /\ lifecycle' = "queueStopping"
    /\ UNCHANGED <<queue, worker, pc, data, acked, dropped, result, attempts, late, cancelled>>

\* External: BoundedQueue.Stop returns when every consumer has left.
AwaitConsumers ==
    /\ lifecycle = "queueStopping"
    /\ \A w \in Workers : worker[w] = "exited"
    /\ lifecycle' = "drained"
    /\ UNCHANGED <<queue, worker, pc, data, acked, dropped, result, attempts, late, cancelled>>

\* Mutant: the wrapped exporter is shut down before the queued sender.
ShutdownExporterFirst ==
    /\ RetryStopped /\ lifecycle # "stopped"
    /\ lifecycle' = "stopped"
    /\ UNCHANGED <<queue, worker, pc, data, acked, dropped, result, attempts, late, cancelled>>

\* be.shutdown: the wrapped exporter's own Shutdown.
ShutdownExporter ==
    /\ lifecycle = "drained"
    /\ lifecycle' = "stopped"
    /\ UNCHANGED <<queue, worker, pc, data, acked, dropped, result, attempts, late, cancelled>>

-----------------------------------------------------------------------------
RequestStep(r) ==
    \/ Send(r)
    \/ BeginAttempt(r)
    \/ AttemptReturns(r)
    \/ TimerFires(r)
    \/ CancelContext(r)

WorkerStep(w) == WorkerTake(w) \/ WorkerExit(w)

ShutdownStep == StopQueue \/ AwaitConsumers \/ ShutdownExporter

Next ==
    \/ Start
    \/ StartFails
    \/ StopRetries
    \/ ShutdownStep
    \/ \E r \in Requests : RequestStep(r)
    \/ \E w \in Workers : WorkerStep(w)

Spec == Init /\ [][Next]_vars

(***************************************************************************)
(* Goroutines that can run do run, timers fire, the push function returns  *)
(* (timeoutSender bounds every attempt) and a Shutdown that has begun goes *)
(* on.  Callers, cancellation and the decision to shut down are not fair.  *)
(***************************************************************************)
Fairness ==
    /\ \A r \in Requests :
          /\ WF_vars(BeginAttempt(r))
          /\ WF_vars(AttemptReturns(r))
          /\ WF_vars(TimerFires(r))
    /\ \A w \in Workers : WF_vars(WorkerStep(w))
    /\ WF_vars(ShutdownStep)

FairSpec == Spec /\ Fairness

-----------------------------------------------------------------------------
(* Properties *)

\* Every variable keeps its type, and the queue never exceeds QueueSize.
TypeOK ==
    /\ lifecycle \in Lifecycles
    /\ queue \in Seq(Requests)
    /\ Len(queue) <= QueueSize
    /\ worker \in [Workers -> Requests \cup {"off", "idle", "exited"}]
    /\ pc \in [Requests -> {"idle", "queued", "done"} \cup Active]
    /\ data \in [Requests -> SUBSET Items]
    /\ acked \in [Requests -> SUBSET Items]
    /\ dropped \in [Requests -> SUBSET Items]
    /\ result \in [Requests -> Results]
    /\ attempts \in [Requests -> 0 .. MaxAttempts]
    /\ late \in [Requests -> Nat]
    /\ cancelled \in [Requests -> BOOLEAN]

\* No data is lost silently: when send returns success every item has been
\* exported, and when the retry loop gives up (elapsed time, cancellation,
\* shutdown) every item was either exported or counted in the number of
\* dropped items that is returned; for traces the two never overlap, so the
\* count is exact.
LossIsReported ==
    \A r \in Requests :
        /\ result[r] = "ok" => acked[r] = Items /\ dropped[r] = {}
        /\ result[r] \in {"expired", "cancelled", "interrupted"} =>
              /\ acked[r] \cup dropped[r] = Items
              /\ DataType = "traces" => acked[r] \cap dropped[r] = {}

\* A retry after a partial error resends only what was not exported: an item
\* the back end has acknowledged is not in the data of a later attempt.
\* (tracesRequest.onPartialError; the other request types resend everything.)
NoAckedItemResent ==
    DataType = "traces" =>
        \A r \in Requests : pc[r] \in Active => acked[r] \cap data[r] = {}

\* queued_retry.go says of shutdown that retry, once stopped, "will only try
\* once every request": whatever the interleaving of timers, cancellation and
\* the closing of retryStopCh, no request begins two attempts after it.
OneAttemptAfterStop == \A r \in Requests : late[r] <= 1

\* With the queue enabled, when the wrapped exporter has been shut down no
\* goroutine is inside, or on its way to, the push function.
NoExportAfterShutdown ==
    QueueEnabled /\ lifecycle = "stopped" => \A r \in Requests : pc[r] \notin Active

\* A request is run by at most one worker, and never while it is queued.
HeldOnce ==
    \A w, v \in Workers :
        worker[w] \in Requests =>
            /\ pc[worker[w]] \in Active
            /\ worker[w] = worker[v] => w = v

\* queued_retry.go:125 and the test StopWhileWaiting say that stopping the
\* queue drains it.
DrainedOnShutdown == lifecycle = "stopped" => queue = <<>>

\* A Shutdown that has begun completes although workers are exporting, parked
\* in a back-off or still taking requests, and callers still add some.
ShutdownTerminates == (lifecycle = "retryStopped") ~> (lifecycle = "stopped")

\* Closing retryStopCh ends the retry loops, those of callers too that no worker
\* waits for: whoever is inside send returns, even if every attempt fails and
\* MaxElapsedTime is 0.
RetriesEndAtStop ==
    \A r \in Requests : (pc[r] \in Active /\ RetryStopped) ~> (pc[r] = "done")

\* A queued request is eventually taken and decided unless shutdown begins.
QueuedIsDecided ==
    \A r \in Requests :
        (pc[r] = "queued") ~> (pc[r] = "done" \/ lifecycle # "running")

-----------------------------------------------------------------------------
(* The helper implements the abstract fate of a request. *)

FateOf(r) ==
    IF pc[r] = "idle" THEN "new"
    ELSE IF pc[r] # "done" THEN "accepted"
    ELSE IF result[r] \in {"refused", "ok"} THEN result[r] ELSE "lost"

Fate == INSTANCE RequestFate
            WITH fate <- [r \in Requests |-> FateOf(r)],
                 closed <- QueueEnabled /\ lifecycle = "stopped"

\* Every step of the queue, the workers, the retry loop and Shutdown is a step
\* of RequestFate or changes nothing the pipeline can see.
ImplementsFate == Fate!Spec
=============================================================================
