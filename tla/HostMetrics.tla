----------------------------- MODULE HostMetrics -----------------------------
(***************************************************************************)
(* receiver/hostmetricsreceiver: Start returns at once and leaves a        *)
(* goroutine to initialize the scrapers one after the other and to begin   *)
(* a loop, in a goroutine of its own, that asks all of them at every tick  *)
(* and passes on what it has.  Shutdown closes a channel, which the loop   *)
(* looks at between two rounds, and the scrapers; it waits for nobody.     *)
(* The scrapers (files of the operating system) are external.              *)
(***************************************************************************)
EXTENDS Naturals

CONSTANT NumScrapers  \* those of the host, then those of resources

VARIABLES
    starter,   \* the goroutine of Start: "no", "init", "report", "done"
    ready,     \* how many scrapers it has initialized
    reported,  \* the service has taken the fatal error
    loop,      \* "no", "select", "scrape", "consume", "ended"
    tick,      \* a tick waits in the ticker's channel
    asked,     \* scrapers asked in this round
    stop,      \* Shutdown: "no", "closing", "returned"
    closed     \* scrapers closed

vars == <<starter, ready, reported, loop, tick, asked, stop, closed>>

Init ==
    /\ starter = "no" /\ ready = 0 /\ reported = FALSE
    /\ loop = "no" /\ tick = FALSE /\ asked = 0
    /\ stop = "no" /\ closed = 0

Start ==
    /\ starter = "no"
    /\ starter' = "init"
    /\ UNCHANGED <<ready, reported, loop, tick, asked, stop, closed>>

\* The next scraper is initialized, or fails: those after it are left as they are.
Initialize ==
    /\ starter = "init" /\ ready < NumScrapers
    /\ \/ ready' = ready + 1 /\ starter' = starter
       \/ starter' = "report" /\ ready' = ready
    /\ UNCHANGED <<reported, loop, tick, asked, stop, closed>>

\* ReportFatalError waits for a service that is not stopping yet.
ReportFatalError ==
    /\ starter = "report" /\ ~reported
    /\ stop = "no"
    /\ reported' = TRUE
    /\ UNCHANGED <<starter, ready, loop, tick, asked, stop, closed>>

\* The loop begins when initializeScrapers has returned, after a failure too.
StartScrapers ==
    /\ \/ starter = "init" /\ ready = NumScrapers
       \/ starter = "report" /\ reported
    /\ starter' = "done"
    /\ loop' = "select"
    /\ UNCHANGED <<ready, reported, tick, asked, stop, closed>>

\* The ticker drops ticks while one waits.
Tick ==
    /\ loop \in {"select", "scrape", "consume"} /\ ~tick
    /\ tick' = TRUE
    /\ UNCHANGED <<starter, ready, reported, loop, asked, stop, closed>>

\* select takes one of the cases that are ready.
SelectTick ==
    /\ loop = "select" /\ tick
    /\ tick' = FALSE
    /\ loop' = "scrape" /\ asked' = 0
    /\ UNCHANGED <<starter, ready, reported, stop, closed>>

\* Mutant: the channel is looked at when there is no tick.
SelectDoneLast ==
    /\ loop = "select" /\ stop # "no" /\ ~tick
    /\ loop' = "ended"
    /\ UNCHANGED <<starter, ready, reported, tick, asked, stop, closed>>

SelectDone ==
    /\ loop = "select" /\ stop # "no"
    /\ loop' = "ended"
    /\ UNCHANGED <<starter, ready, reported, tick, asked, stop, closed>>

\* Whether a scraper fails or not, the next one is asked.
ScrapeMetrics ==
    /\ loop = "scrape"
    /\ asked' = asked + 1
    /\ loop' = IF asked' = NumScrapers THEN "consume" ELSE loop
    /\ UNCHANGED <<starter, ready, reported, tick, stop, closed>>

ConsumeMetrics ==
    /\ loop = "consume"
    /\ loop' = "select" /\ asked' = 0
    /\ UNCHANGED <<starter, ready, reported, tick, stop, closed>>

\* The service calls it some time after Start.
Shutdown ==
    /\ starter # "no" /\ stop = "no"
    /\ stop' = "closing"
    /\ UNCHANGED <<starter, ready, reported, loop, tick, asked, closed>>

\* A scraper that fails to close does not keep the others from being closed.
CloseScraper ==
    /\ stop = "closing"
    /\ closed' = closed + 1
    /\ stop' = IF closed' = NumScrapers THEN "returned" ELSE stop
    /\ UNCHANGED <<starter, ready, reported, loop, tick, asked>>

LoopStep == SelectTick \/ SelectDone \/ ScrapeMetrics \/ ConsumeMetrics

Next ==
    \/ Start \/ Initialize \/ ReportFatalError \/ StartScrapers
    \/ Tick \/ LoopStep
    \/ Shutdown \/ CloseScraper

\* Scrapers and consumer return; select chooses at random, so that a case that is ready
\* again and again is taken in the end; ticks come.
Fairness == WF_vars(LoopStep) /\ SF_vars(SelectDone) /\ WF_vars(Tick)

Spec == Init /\ [][Next]_vars /\ Fairness

-----------------------------------------------------------------------------

\* The loop asks scrapers that were initialized; one whose initialization failed, or was
\* left out, only after the service was told.
InitializedOrReported ==
    loop # "no" => ready = NumScrapers \/ reported

\* A loop ends once Shutdown has closed the channel, however long a round takes.
ScrapingStops == (stop # "no" /\ loop # "no") ~> loop = "ended"

\* The comment on Shutdown: "Shutdown terminates all tickers and stops the underlying
\* scrapers".
StoppedAtShutdown == stop = "returned" => loop \notin {"scrape", "consume"}
=============================================================================
