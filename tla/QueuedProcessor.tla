-------------------------- MODULE QueuedProcessor --------------------------
(***************************************************************************)
(* processor/queuedprocessor (queued_retry), one in each pipeline: Consume *)
(* puts the data on a bounded queue, workers send it to the next consumer  *)
(* and put what failed back at the end of the queue, then wait before they *)
(* take anything else.  The queue is jaeger's BoundedQueue, modelled from  *)
(* its use: Produce fails when it is full or stopped, Stop waits for the   *)
(* workers, and a worker that finds the queue stopped may take another     *)
(* item or leave.                                                          *)
(***************************************************************************)
EXTENDS Naturals, Sequences

CONSTANTS
    Branches,   \* the pipelines with such a processor
    Workers,    \* workers of each queue
    Payloads,   \* what the receiver passes on, each to every pipeline
    Items,      \* items (spans, points) of a payload
    QueueSize,  \* queue_size
    Retry,      \* retry_on_failure
    DataType    \* "traces" or "metrics"

VARIABLES
    entries,   \* entries[p]: queue items
    worker,    \* worker[p][w]: where the worker is, and the queue item it has
    stopPhase, \* stopPhase[p]: of Shutdown
    exported,  \* exported[p][d]: items of d the next consumer accepted
    dropped    \* dropped[p][d]: items of d recorded as dropped

queueVars == <<entries, worker, stopPhase, exported, dropped>>

\* A queue item: the payload, the object that holds it, and the items in it.
QueueItem(d, o, left) == [payload |-> d, object |-> o, items |-> left]
NoItem == [payload |-> "none", object |-> <<>>, items |-> {}]

QueueInit ==
    /\ entries = [p \in Branches |-> <<>>]
    /\ worker = [p \in Branches |-> [w \in Workers |-> [at |-> "idle", item |-> NoItem]]]
    /\ stopPhase = [p \in Branches |-> "running"]
    /\ exported = [p \in Branches |-> [d \in Payloads |-> {}]]
    /\ dropped = [p \in Branches |-> [d \in Payloads |-> {}]]

Stopped(p) == stopPhase[p] \in {"stopping", "stopped"}

\* Produce; external.
CanProduce(p) == ~Stopped(p) /\ Len(entries[p]) < QueueSize

\* ConsumeTraces and ConsumeMetrics, when Produce succeeds.
Enqueue(p, item) ==
    /\ CanProduce(p)
    /\ entries' = [entries EXCEPT ![p] = Append(@, item)]
    /\ UNCHANGED <<worker, stopPhase, exported, dropped>>

WorkerAt(p, w, step, item) ==
    worker' = [worker EXCEPT ![p][w] = [at |-> step, item |-> item]]

Take(p, w) ==
    /\ worker[p][w].at = "idle"
    /\ entries[p] # <<>>
    /\ entries' = [entries EXCEPT ![p] = Tail(@)]
    /\ WorkerAt(p, w, "export", Head(entries[p]))
    /\ UNCHANGED <<stopPhase, exported, dropped>>

\* export returns nil.
ExportSucceeds(p, w) ==
    LET item == worker[p][w].item
    IN  /\ worker[p][w].at = "export"
        /\ exported' = [exported EXCEPT ![p][item.payload] = @ \cup item.items]
        /\ WorkerAt(p, w, "idle", NoItem)
        /\ UNCHANGED <<entries, stopPhase, dropped>>

\* onDropped.
Drop(p, w, item) ==
    /\ dropped' = [dropped EXCEPT ![p][item.payload] = @ \cup item.items]
    /\ WorkerAt(p, w, "idle", NoItem)
    /\ UNCHANGED entries

\* A permanent error.
ExportFailsForGood(p, w) ==
    /\ worker[p][w].at = "export"
    /\ Drop(p, w, worker[p][w].item)
    /\ UNCHANGED <<stopPhase, exported>>

\* Mutant: the item of before the partial error.
RemainingAll(item, failed) == item

\* What remains to be exported after an error: onPartialError makes a new item for the
\* traces that failed and keeps metrics as they are.
Remaining(item, failed) == IF DataType = "traces" THEN [item EXCEPT !.items = failed] ELSE item

\* After a retryable error: dropped without retries, or when the item cannot be put at
\* the end of the queue again; else the worker backs off.
PutBack(p, w, item) ==
    \/ ~(Retry /\ CanProduce(p)) /\ Drop(p, w, item)
    \/ /\ Retry /\ CanProduce(p)
       /\ entries' = [entries EXCEPT ![p] = Append(@, item)]
       /\ WorkerAt(p, w, "backoff", NoItem)
       /\ UNCHANGED dropped

ExportFails(p, w) ==
    /\ worker[p][w].at = "export"
    /\ PutBack(p, w, worker[p][w].item)
    /\ UNCHANGED <<stopPhase, exported>>

\* A consumererror.PartialError: some items were accepted.
ExportFailsPartially(p, w) ==
    LET item == worker[p][w].item
    IN  /\ worker[p][w].at = "export"
        /\ \E failed \in (SUBSET item.items) \ {{}, item.items} :
              /\ exported' = [exported EXCEPT ![p][item.payload] = @ \cup (item.items \ failed)]
              /\ PutBack(p, w, Remaining(item, failed))
        /\ UNCHANGED stopPhase

\* The delay is over, or stopCh is closed.
BackOffEnds(p, w) ==
    /\ worker[p][w].at = "backoff"
    /\ WorkerAt(p, w, "idle", NoItem)
    /\ UNCHANGED <<entries, stopPhase, exported, dropped>>

Leave(p, w) ==
    /\ worker[p][w].at = "idle"
    /\ Stopped(p)
    /\ WorkerAt(p, w, "exited", NoItem)
    /\ UNCHANGED <<entries, stopPhase, exported, dropped>>

\* Shutdown: close(stopCh), then queue.Stop, which waits for the workers.
CloseStopCh(p) ==
    /\ stopPhase[p] = "running"
    /\ stopPhase' = [stopPhase EXCEPT ![p] = "closing"]
    /\ UNCHANGED <<entries, worker, exported, dropped>>

\* Mutant: the queue is stopped in a goroutine, and Shutdown returns.
StopQueueAside(p) ==
    /\ stopPhase[p] = "closing"
    /\ stopPhase' = [stopPhase EXCEPT ![p] = "stopped"]
    /\ UNCHANGED <<entries, worker, exported, dropped>>

StopQueue(p) ==
    /\ stopPhase[p] = "closing"
    /\ stopPhase' = [stopPhase EXCEPT ![p] = "stopping"]
    /\ UNCHANGED <<entries, worker, exported, dropped>>

StopReturns(p) ==
    /\ stopPhase[p] = "stopping"
    /\ \A w \in Workers : worker[p][w].at = "exited"
    /\ stopPhase' = [stopPhase EXCEPT ![p] = "stopped"]
    /\ UNCHANGED <<entries, worker, exported, dropped>>

WorkerStep(p, w) ==
    \/ Take(p, w) \/ ExportSucceeds(p, w) \/ ExportFailsForGood(p, w)
    \/ ExportFails(p, w) \/ ExportFailsPartially(p, w) \/ BackOffEnds(p, w)
    \/ Leave(p, w)

ShutdownStep(p) == CloseStopCh(p) \/ StopQueue(p) \/ StopReturns(p)

-----------------------------------------------------------------------------

QueueItems == [payload : Payloads, object : Payloads \X Nat, items : SUBSET Items]

QueueTypeOK ==
    /\ entries \in [Branches -> Seq(QueueItems)]
    /\ worker \in [Branches -> [Workers -> [at : {"idle", "export", "backoff", "exited"},
                                            item : QueueItems \cup {NoItem}]]]
    /\ stopPhase \in [Branches -> {"running", "closing", "stopping", "stopped"}]
    /\ exported \in [Branches -> [Payloads -> SUBSET Items]]
    /\ dropped \in [Branches -> [Payloads -> SUBSET Items]]
    /\ \A p \in Branches : Len(entries[p]) <= QueueSize

\* The queue items of pipeline p that are waiting, and those a worker has.
Waiting(p) == {entries[p][i] : i \in DOMAIN entries[p]}
Carried(p) == {worker[p][w].item : w \in {w \in Workers : worker[p][w].at = "export"}}
Held(p, d) == {i \in Items : \E q \in Waiting(p) \cup Carried(p) : q.payload = d /\ i \in q.items}
============================================================================
