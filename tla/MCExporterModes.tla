-------------------------- MODULE MCExporterModes --------------------------
(***************************************************************************)
(* Two configurations of ExporterHelper and the remote write exporter,     *)
(* checked side by side: a behaviour chooses one of them (mode) and the    *)
(* others stay in their initial states.                                    *)
(*   direct: no queue, metrics, retries without a time limit;              *)
(*   queued: a queue and one worker, traces, retries that give up;         *)
(*   remote: two calls of the remote write exporter, with either client.   *)
(***************************************************************************)
EXTENDS RemoteWrite

CONSTANTS r1, r2, w1

VARIABLES mode, lifecycle, queue, worker, pc, data, acked, dropped, result, attempts,
          late, cancelled

directSystem == <<lifecycle, queue, worker, pc, data, acked, dropped, result, attempts,
                  late, cancelled>>

Direct == INSTANCE ExporterHelper
    WITH Requests <- {r1, r2}, Items <- {1, 2}, Workers <- {w1}, QueueEnabled <- FALSE,
         QueueSize <- 2, RetryEnabled <- TRUE, GivesUp <- FALSE, MaxAttempts <- 2,
         DataType <- "metrics"

VARIABLES qLifecycle, qQueue, qWorker, qPc, qData, qAcked, qDropped, qResult, qAttempts,
          qLate, qCancelled

queuedSystem == <<qLifecycle, qQueue, qWorker, qPc, qData, qAcked, qDropped, qResult,
                  qAttempts, qLate, qCancelled>>

Queued == INSTANCE ExporterHelper
    WITH Requests <- {r1, r2}, Items <- {1}, Workers <- {w1}, QueueEnabled <- TRUE,
         QueueSize <- 2, RetryEnabled <- TRUE, GivesUp <- TRUE, MaxAttempts <- 2,
         DataType <- "traces", lifecycle <- qLifecycle, queue <- qQueue,
         worker <- qWorker, pc <- qPc, data <- qData, acked <- qAcked,
         dropped <- qDropped, result <- qResult, attempts <- qAttempts, late <- qLate,
         cancelled <- qCancelled

Data == INSTANCE RemoteWriteData
MCPayloads == Data!PlainPayloads \cup Data!MixedPayloads
MCNames == Data!Names

ModesInit ==
    /\ mode \in {"direct", "queued", "remote"}
    /\ Direct!Init /\ Queued!Init /\ Init
    /\ mode # "remote" => ~signing

ModesNext ==
    \/ mode = "queued" /\ Queued!Next /\ UNCHANGED <<mode, directSystem, vars>>
    \/ mode = "direct" /\ Direct!Next /\ UNCHANGED <<mode, queuedSystem, vars>>
    \/ mode = "remote" /\ Next /\ UNCHANGED <<mode, directSystem, queuedSystem>>

ModesSpec ==
    /\ ModesInit
    /\ [][ModesNext]_<<mode, directSystem, queuedSystem, vars>>
    /\ Direct!Fairness /\ Queued!Fairness

-----------------------------------------------------------------------------
(* The property these configurations are for; those of RemoteWrite alone are             *)
(* LossIsCounted, UnderItsSignature and ShutdownIsQuiet.                                 *)

\* A queued request is decided, unless shutdown begins first, and a shutdown that has begun
\* completes: the callers' own retry loops end, although retries are not limited in time,
\* and so do the workers of a queue.  Without a queue what such a loop returns in the end
\* counts every item not exported, although metrics are sent again whole after a partial
\* error.
RequestsMove ==
    /\ Queued!QueuedIsDecided
    /\ Direct!RetriesEndAtStop
    /\ Queued!ShutdownTerminates
    /\ []Direct!LossIsReported
=============================================================================
