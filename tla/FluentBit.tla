------------------------------ MODULE FluentBit ------------------------------
(***************************************************************************)
(* extension/fluentbitextension: a goroutine keeps a subprocess running    *)
(* and restarts it when it ends; a goroutine per subprocess waits for its  *)
(* end and reports it on a channel without buffer.                         *)
(***************************************************************************)
EXTENDS Naturals

CONSTANTS MaxProcesses  \* bound: subprocesses started

VARIABLES
    state,      \* of the loop in run
    current,    \* the subprocess cmd refers to, 0 before the first
    alive,      \* subprocesses that run
    reporting,  \* subprocesses whose end is to be sent to procWait
    told,       \* subprocesses that were sent SIGTERM
    contextDone, \* the context is cancelled
    stopper,    \* Shutdown
    failedWrite \* history: the configuration could not be written to a subprocess

processVars == <<state, current, alive, reporting, told, contextDone, stopper, failedWrite>>

ProcessInit ==
    /\ state = "new"
    /\ current = 0
    /\ alive = {} /\ reporting = {} /\ told = {}
    /\ contextDone = FALSE
    /\ stopper = "no"
    /\ failedWrite = FALSE

\* Start of the extension, which starts the loop.
StartManager ==
    /\ state = "new" /\ stopper = "no"
    /\ state' = "starting"
    /\ UNCHANGED <<current, alive, reporting, told, contextDone, stopper, failedWrite>>

\* cmd.Start, and the goroutine that waits for the end of the subprocess.
StartProcess ==
    /\ state = "starting" /\ current < MaxProcesses
    /\ \/ /\ current' = current + 1
          /\ alive' = alive \cup {current + 1}
          /\ state' = "running"
       \/ state' = "errored" /\ UNCHANGED <<current, alive>>
    /\ UNCHANGED <<reporting, told, contextDone, stopper, failedWrite>>

\* renderConfig.
WriteConfig ==
    /\ state = "running"
    /\ \/ state' = "waiting" /\ failedWrite' = failedWrite
       \/ state' = "errored" /\ failedWrite' = TRUE
    /\ UNCHANGED <<current, alive, reporting, told, contextDone, stopper>>

\* The select: the end of a subprocess, or the context is done.
ReceiveEnd(n) ==
    /\ state = "waiting" /\ n \in reporting
    /\ reporting' = reporting \ {n}
    /\ state' = IF contextDone THEN "stopped" ELSE "errored"
    /\ UNCHANGED <<current, alive, told, contextDone, stopper, failedWrite>>

\* Mutant: run returns and leaves the subprocess to itself.
SeeCancelledLeaves ==
    /\ state = "waiting" /\ contextDone
    /\ state' = "stopped"
    /\ UNCHANGED <<current, alive, reporting, told, contextDone, stopper, failedWrite>>

SeeCancelled ==
    /\ state = "waiting" /\ contextDone
    /\ state' = "shutting-down"
    /\ UNCHANGED <<current, alive, reporting, told, contextDone, stopper, failedWrite>>

Terminate ==
    /\ state = "shutting-down"
    /\ told' = told \cup {current}
    /\ state' = "terminating"
    /\ UNCHANGED <<current, alive, reporting, contextDone, stopper, failedWrite>>

\* <-procWait after SIGTERM.
AwaitEnd(n) ==
    /\ state = "terminating" /\ n \in reporting
    /\ reporting' = reporting \ {n}
    /\ state' = "stopped"
    /\ UNCHANGED <<current, alive, told, contextDone, stopper, failedWrite>>

\* Errored, then Restarting, which sleeps.
Restart ==
    /\ state = "errored"
    /\ state' = "starting"
    /\ UNCHANGED <<current, alive, reporting, told, contextDone, stopper, failedWrite>>

\* The subprocess ends by itself or because it was told to.
ProcessEnds(n) ==
    /\ n \in alive
    /\ alive' = alive \ {n}
    /\ reporting' = reporting \cup {n}
    /\ UNCHANGED <<state, current, told, contextDone, stopper, failedWrite>>

ShutdownManager ==
    /\ stopper = "no" /\ state # "new"
    /\ contextDone' = TRUE
    /\ stopper' = "waiting"
    /\ UNCHANGED <<state, current, alive, reporting, told, failedWrite>>

\* shutdownSignal is closed when run returns; after five seconds Shutdown returns anyway.
ShutdownReturns ==
    /\ stopper = "waiting"
    /\ stopper' = IF state = "stopped" THEN "clean" ELSE "timeout"
    /\ UNCHANGED <<state, current, alive, reporting, told, contextDone, failedWrite>>

RunStep ==
    \/ StartProcess \/ WriteConfig \/ SeeCancelled \/ Terminate \/ Restart
    \/ \E n \in reporting : ReceiveEnd(n) \/ AwaitEnd(n)

ProcessNext ==
    \/ StartManager
    \/ RunStep
    \/ \E n \in alive : ProcessEnds(n)
    \/ ShutdownManager \/ ShutdownReturns

\* The loop goes on when it can, and a subprocess that was told to end does.
ProcessFairness ==
    /\ WF_processVars(RunStep)
    /\ \A n \in 1..MaxProcesses : WF_processVars(n \in told /\ ProcessEnds(n))

ProcessSpec == ProcessInit /\ [][ProcessNext]_processVars

-----------------------------------------------------------------------------

\* A subprocess is started only after the one before has ended, and the loop that waits
\* for one waits for the current one; when Shutdown returns in time none is left.  (A
\* subprocess to which the configuration could not be written is forgotten: the next one
\* is started beside it, and its end is taken for the end of the next.)
OneProcess ==
    failedWrite \/ /\ alive \cup reporting \subseteq {current}
                   /\ state \in {"starting", "errored", "stopped"} => alive \cup reporting = {}
                   /\ stopper = "clean" => alive = {}

\* A subprocess that ends is started again unless Shutdown has begun, and one that runs
\* when Shutdown begins is ended and waited for.  (While a subprocess cannot be started
\* the loop does not look at the context.)
KeptRunning ==
    /\ (state = "waiting" /\ current \in reporting) ~> (state = "starting" \/ contextDone)
    /\ (contextDone /\ state = "waiting") ~> (state = "stopped" \/ failedWrite)
=============================================================================
