----------------------------- MODULE MCCollector -----------------------------
(***************************************************************************)
(* Parts of the collector checked side by side: a behaviour chooses one of *)
(* them (part) and the others stay in their initial states.                *)
(*   service: a traces and a metrics pipeline that share a receiver and an *)
(*            exporter, see MCService;                                     *)
(*   fanout:  three pipelines of traces behind a connector, one of which   *)
(*            modifies data, without retries, and a memory limiter in the  *)
(*            first;                                                       *)
(*   queue:   one pipeline of metrics with retries, a queue of one entry   *)
(*            and two workers, so that it is full when data comes back.    *)
(***************************************************************************)
EXTENDS MCService, FanOut

CONSTANTS p3, w1, w2, d1, d2

FanOutOrder == <<p1, p2, p3>>

VARIABLE part

VARIABLES
    qForceDrop, qTicking, qSeen, qEntries, qWorker, qStopPhase, qExported, qDropped, qCall,
    qRefused, qAccepted, qResult, qTouched

fullQueueVars ==
    <<qForceDrop, qTicking, qSeen, qEntries, qWorker, qStopPhase, qExported, qDropped, qCall,
    qRefused, qAccepted, qResult, qTouched>>

Queue == INSTANCE FanOut
    WITH Limiters <- {}, AllocLimit <- 2, SpikeLimit <- 1, Ballast <- 1,
         AllocLevels <- {1}, Branches <- {p1}, Order <- <<p1>>, Declares <- {},
         Modifies <- {}, Workers <- {w1, w2}, Payloads <- {d1, d2}, Items <- {1, 2},
         QueueSize <- 1, Retry <- TRUE, DataType <- "metrics",
         forceDrop <- qForceDrop, ticking <- qTicking, seen <- qSeen, entries <- qEntries,
         worker <- qWorker, stopPhase <- qStopPhase, exported <- qExported,
         dropped <- qDropped, call <- qCall, refused <- qRefused,
         accepted <- qAccepted, result <- qResult, touched <- qTouched

\* These are configurations of the kind that the theorems are about.
ASSUME FanOutSettings == SettingsOK /\ Queue!SettingsOK

-----------------------------------------------------------------------------

AllInit ==
    /\ part \in {"service", "fanout", "queue"}
    /\ Init /\ FanOutInit /\ Queue!FanOutInit

ServiceStep(Step) == part = "service" /\ Step /\ UNCHANGED <<part, fanOutVars, fullQueueVars>>

AllNext ==
    \/ ServiceStep(Next)
    \/ part = "fanout" /\ FanOutNext /\ UNCHANGED <<part, vars, fullQueueVars>>
    \/ part = "queue" /\ Queue!FanOutNext /\ UNCHANGED <<part, vars, fanOutVars>>

\* execute runs where it is chosen, and so do the workers of the full queue.  In their
\* initial states nothing that is fair is enabled, so where they are not chosen they keep
\* nobody waiting.  What is checked of the three pipelines is safety and needs no fairness.
AllSpec ==
    /\ AllInit
    /\ [][AllNext]_<<part, vars, fanOutVars, fullQueueVars>>
    /\ WF_vars(ServiceStep(Execute))
    /\ Queue!Fairness

-----------------------------------------------------------------------------
(* The invariants are those of Service, UsedIsRunning and StatesAreTrue, and those of     *)
(* FanOut, Isolated and ItemsAccounted; ImplementsFate is that of FanOut as well.         *)

\* Service: a fatal error stops the service, unless a component blocks in Start, and a stop
\* completes.  QueuedProcessor: Shutdown of a pipeline returns, and until then what is put
\* back into a queue that is full is accounted for and its fate decided once.
StopsComplete ==
    /\ LateErrorStops /\ StopCompletes
    /\ Queue!ShutdownsReturn
    /\ Queue!ImplementsFate
    /\ [](FanOutTypeOK /\ Queue!ItemsAccounted /\ Queue!ReceiverTold)
=============================================================================
