--------------------------- MODULE BatchProcessor ---------------------------
(***************************************************************************)
(* processor/batchprocessor: one goroutine collects what the callers put   *)
(* into the newItem channel and sends a batch when it has sendBatchSize    *)
(* items or when the timer fires.  A trace that would make the batch       *)
(* larger than sendBatchMaxSize is split; what remains of it goes back     *)
(* into the channel from a goroutine of its own.  Shutdown closes the      *)
(* channel.                                                                *)
(*                                                                         *)
(* A payload is a pointer: `payload[c]' is the content of the pdata.Traces *)
(* of call c wherever it is (with the caller, in the channel, with the     *)
(* goroutine that puts it back).  The metric pipeline is the case          *)
(* SendBatchMaxSize = 0.  The order in which splitTrace copies spans is    *)
(* left to SplitTraces.                                                    *)
(***************************************************************************)
EXTENDS Naturals, Sequences, FiniteSets

CONSTANTS
    Calls,             \* calls of ConsumeTraces (or ConsumeMetrics)
    SpanCount,         \* SpanCount[c]: spans in the payload of call c
    SendBatchSize,     \* Config.SendBatchSize
    SendBatchMaxSize,  \* Config.SendBatchMaxSize, 0: no maximum
    ChannelSize        \* capacity of newItem, runtime.NumCPU()

ASSUME BatchAssumption ==
    /\ SpanCount \in [Calls -> Nat]
    /\ SendBatchSize \in Nat
    /\ SendBatchMaxSize \in Nat
    /\ ChannelSize \in Nat \ {0}

VARIABLES
    payload,    \* payload[c]: the spans the object of call c holds now
    called,     \* calls that have put their payload into the channel
    newItem,    \* the channel
    closed,     \* close(newItem) has happened
    resending,  \* calls whose remainder a goroutine is putting back
    cycle,      \* startProcessingCycle: "off", "running", "done", or "crashed" (a panic)
    batch,      \* batchTraces.traceData
    spanCount,  \* batchTraces.spanCount
    armed,      \* the timer is running
    tick,       \* timer.C: "none", "due", or "stale" (from before the last Reset)
    sent,       \* spans passed to nextConsumer successfully
    failed,     \* spans of batches nextConsumer refused: logged and dropped
    largest,    \* history: size of the largest batch passed on
    early       \* history: a batch was sent by a stale tick

vars == <<payload, called, newItem, closed, resending, cycle, batch, spanCount,
          armed, tick, sent, failed, largest, early>>

Elements(s) == {s[i] : i \in DOMAIN s}

Init ==
    /\ payload = [c \in Calls |-> [k \in 1 .. SpanCount[c] |-> <<c, k>>]]
    /\ called = {}
    /\ newItem = <<>>
    /\ closed = FALSE
    /\ resending = {}
    /\ cycle = "off"
    /\ batch = {}
    /\ spanCount = 0
    /\ armed = FALSE
    /\ tick = "none"
    /\ sent = {}
    /\ failed = {}
    /\ largest = 0
    /\ early = FALSE

-----------------------------------------------------------------------------
Start ==
    /\ cycle = "off"
    /\ cycle' = "running"
    /\ armed' = TRUE
    /\ UNCHANGED <<payload, called, newItem, closed, resending, batch, spanCount,
                   tick, sent, failed, largest, early>>

\* A blocked caller waits for room.  The service starts the receivers after the
\* processors and stops them before, so that there are no callers before Start
\* and none is left when the channel is closed.
ConsumeTraces(c) ==
    /\ cycle = "running"
    /\ c \notin called
    /\ ~closed
    /\ Len(newItem) < ChannelSize
    /\ newItem' = Append(newItem, c)
    /\ called' = called \cup {c}
    /\ UNCHANGED <<payload, closed, resending, cycle, batch, spanCount, armed, tick,
                   sent, failed, largest, early>>

\* The goroutine with the remainder of a split payload.
Resend(c) ==
    /\ c \in resending
    /\ ~closed
    /\ Len(newItem) < ChannelSize
    /\ newItem' = Append(newItem, c)
    /\ resending' = resending \ {c}
    /\ UNCHANGED <<payload, called, closed, cycle, batch, spanCount, armed, tick,
                   sent, failed, largest, early>>

\* Sending on a closed channel panics, which ends the process.
ResendPanics(c) ==
    /\ c \in resending
    /\ closed
    /\ cycle # "crashed"
    /\ cycle' = "crashed"
    /\ UNCHANGED <<payload, called, newItem, closed, resending, batch, spanCount,
                   armed, tick, sent, failed, largest, early>>

Shutdown ==
    /\ cycle = "running"
    /\ ~closed
    /\ closed' = TRUE
    /\ UNCHANGED <<payload, called, newItem, resending, cycle, batch, spanCount, armed,
                   tick, sent, failed, largest, early>>

-----------------------------------------------------------------------------
(* startProcessingCycle *)

\* sendItems: the batch is passed on and reset, whether or not it was accepted.
SendItems(spans, n) ==
    /\ \/ sent' = sent \cup spans /\ UNCHANGED failed
       \/ failed' = failed \cup spans /\ UNCHANGED sent
    /\ largest' = IF n > largest THEN n ELSE largest
    /\ batch' = {}
    /\ spanCount' = 0

\* batch.add, then sendItems if the batch is large enough; timer.Stop does not
\* take a tick out of timer.C, so one that is there survives Reset.
AddAndSend(moved) ==
    LET spans == batch \cup Elements(moved)
        n     == spanCount + Len(moved) IN
    IF n >= SendBatchSize
    THEN /\ SendItems(spans, n)
         /\ armed' = TRUE
         /\ tick' = IF tick = "none" THEN "none" ELSE "stale"
    ELSE /\ batch' = spans
         /\ spanCount' = n
         /\ UNCHANGED <<sent, failed, largest, armed, tick>>

\* The next item is larger than what the batch may still take.
TooLarge(c) == SendBatchMaxSize > 0 /\ spanCount + Len(payload[c]) > SendBatchMaxSize

\* Whole payload: its spans move into the batch, the object is left empty.
ReceiveWhole ==
    /\ cycle = "running"
    /\ newItem # <<>>
    /\ ~TooLarge(Head(newItem))
    /\ newItem' = Tail(newItem)
    /\ payload' = [payload EXCEPT ![Head(newItem)] = <<>>]
    /\ AddAndSend(payload[Head(newItem)])
    /\ UNCHANGED <<called, closed, resending, cycle, early>>

\* Mutant: the spans that were copied stay in the payload.
SplitWithoutRemoving(c, size) ==
    LET td == payload[c] IN
    IF Len(td) <= size
    THEN [taken |-> td, left |-> <<>>]
    ELSE [taken |-> SubSeq(td, Len(td) - size + 1, Len(td)), left |-> td]

\* splitTrace: the last `size' spans are moved into a new object; a payload that
\* has no more than that many is returned itself, and add then empties it.
SplitTrace(c, size) ==
    LET td == payload[c] IN
    IF Len(td) <= size
    THEN [taken |-> td, left |-> <<>>]
    ELSE [taken |-> SubSeq(td, Len(td) - size + 1, Len(td)),
          left  |-> SubSeq(td, 1, Len(td) - size)]

\* Mutant: the split fills the batch up to sendBatchMaxSize.
RoomUpToMax == SendBatchMaxSize - spanCount + 1

\* sendBatchSize-itemCount: what is missing to a full batch.
Room == SendBatchSize - spanCount

\* Part of the payload goes into the batch, the object goes back.
ReceiveSplit ==
    /\ cycle = "running"
    /\ newItem # <<>>
    /\ TooLarge(Head(newItem))
    /\ LET c     == Head(newItem)
           split == SplitTrace(c, Room) IN
          /\ newItem' = Tail(newItem)
          /\ payload' = [payload EXCEPT ![c] = split.left]
          /\ resending' = resending \cup {c}
          /\ AddAndSend(split.taken)
    /\ UNCHANGED <<called, closed, cycle, early>>

\* Mutant: the last batch is not flushed.
ReceiveCloseNoFlush ==
    /\ cycle = "running"
    /\ closed
    /\ newItem = <<>>
    /\ cycle' = "done"
    /\ UNCHANGED <<payload, called, newItem, closed, resending, batch, spanCount, armed,
                   tick, sent, failed, largest, early>>

\* The channel is closed and empty: flush and leave; Shutdown returns.
ReceiveClose ==
    /\ cycle = "running"
    /\ closed
    /\ newItem = <<>>
    /\ IF spanCount > 0
       THEN SendItems(batch, spanCount)
       ELSE UNCHANGED <<batch, spanCount, sent, failed, largest>>
    /\ cycle' = "done"
    /\ UNCHANGED <<payload, called, newItem, closed, resending, armed, tick, early>>

\* The runtime's timer runs out; a tick that is still in timer.C stays there.
TimerExpires ==
    /\ armed
    /\ cycle # "crashed"
    /\ armed' = FALSE
    /\ tick' = IF tick = "none" THEN "due" ELSE tick
    /\ UNCHANGED <<payload, called, newItem, closed, resending, cycle, batch, spanCount,
                   sent, failed, largest, early>>

\* Mutant: the timer is not reset after a tick.
TimerTickNoReset ==
    /\ cycle = "running"
    /\ tick # "none"
    /\ IF spanCount > 0
       THEN SendItems(batch, spanCount)
       ELSE UNCHANGED <<batch, spanCount, sent, failed, largest>>
    /\ early' = (early \/ (tick = "stale" /\ spanCount > 0))
    /\ tick' = "none"
    /\ UNCHANGED <<payload, called, newItem, closed, resending, cycle, armed>>

\* case <-bp.timer.C.
TimerTick ==
    /\ cycle = "running"
    /\ tick # "none"
    /\ IF spanCount > 0
       THEN SendItems(batch, spanCount)
       ELSE UNCHANGED <<batch, spanCount, sent, failed, largest>>
    /\ early' = (early \/ (tick = "stale" /\ spanCount > 0))
    /\ tick' = "none"
    /\ armed' = TRUE
    /\ UNCHANGED <<payload, called, newItem, closed, resending, cycle>>

-----------------------------------------------------------------------------
CycleStep == ReceiveWhole \/ ReceiveSplit \/ ReceiveClose

Next ==
    \/ Start
    \/ Shutdown
    \/ CycleStep
    \/ TimerExpires
    \/ TimerTick
    \/ \E c \in Calls : ConsumeTraces(c) \/ Resend(c) \/ ResendPanics(c)

Spec == Init /\ [][Next]_vars

\* The goroutines run, the timer fires, and Go's select, which chooses at
\* random, does not neglect a tick that is always there.  Callers and Shutdown
\* need not act.
Fairness ==
    /\ WF_vars(CycleStep)
    /\ WF_vars(TimerExpires)
    /\ SF_vars(TimerTick)
    /\ \A c \in Calls : SF_vars(Resend(c))

FairSpec == Spec /\ Fairness

-----------------------------------------------------------------------------
(* Properties *)

SpansOf(c) == {<<c, k>> : k \in 1 .. SpanCount[c]}
Spans == UNION {SpansOf(c) : c \in Calls}

\* Every variable keeps its type, and the channel never exceeds its capacity.
TypeOK ==
    /\ payload \in [Calls -> Seq(Spans)]
    /\ called \subseteq Calls
    /\ newItem \in Seq(Calls)
    /\ Len(newItem) <= ChannelSize
    /\ closed \in BOOLEAN
    /\ resending \subseteq Calls
    /\ cycle \in {"off", "running", "done", "crashed"}
    /\ batch \subseteq Spans
    /\ spanCount \in Nat
    /\ armed \in BOOLEAN
    /\ tick \in {"none", "due", "stale"}
    /\ sent \subseteq Spans
    /\ failed \subseteq Spans
    /\ largest \in Nat
    /\ early \in BOOLEAN

\* Splitting, putting back, sending and failing neither lose nor duplicate a
\* span: each is in exactly one of its payload object, the batch, what was sent
\* and what was dropped with a warning; and spanCount is the size of the batch.
SpanInOnePlace ==
    /\ \A c \in Calls : \A s \in SpansOf(c) :
          Cardinality({p \in {"payload", "batch", "sent", "failed"} :
                          \/ p = "payload" /\ s \in Elements(payload[c])
                          \/ p = "batch" /\ s \in batch
                          \/ p = "sent" /\ s \in sent
                          \/ p = "failed" /\ s \in failed}) = 1
    /\ spanCount = Cardinality(batch)

\* Batches are bounded when there is a maximum, whatever the two sizes are: by
\* send_batch_max_size, or by send_batch_size if that is larger, which nothing checks.  A
\* split fills the batch up to send_batch_size, after any timeouts, splits and remainders.
BatchesBounded ==
    SendBatchMaxSize > 0 => largest <= SendBatchMaxSize \/ largest <= SendBatchSize

\* README: send_batch_max_size is "the maximum number of items in a batch", and
\* "ensures that larger batches are split into smaller units".  Not so if it is smaller than
\* send_batch_size.
MaxSizeRespected == SendBatchMaxSize > 0 => largest <= SendBatchMaxSize

\* TestBatchProcessorTraceSendWhenClosing: when Shutdown returns, everything
\* that was accepted before has been passed on.
ShutdownFlushes ==
    cycle \in {"done", "crashed"} =>
        \A c \in called : SpansOf(c) \subseteq sent \cup failed

\* What Shutdown does guarantee: when the cycle has ended by itself, an accepted
\* span that was not passed on is in a remainder whose goroutine came too late.
FlushedButRemainders ==
    cycle = "done" =>
        \A c \in called :
            SpansOf(c) \subseteq sent \cup failed \cup
                (IF c \in resending THEN Elements(payload[c]) ELSE {})

\* batch_processor.go:42: a batch that is not full is sent when "cfg.Timeout is
\* elapsed since the timestamp when the previous batch was sent out", never by
\* a tick that was in timer.C before.
NotSentEarly == ~early

\* config.go: "Timeout sets the time after which a batch will be sent regardless
\* of size": accepted spans are passed on, unless the processor is shut down.
SpansAreSent ==
    \A c \in Calls :
        (c \in called) ~> (SpansOf(c) \subseteq sent \cup failed \/ closed)

\* Shutdown comes to an end.
ShutdownReturns == closed ~> (cycle \in {"done", "crashed"})
=============================================================================
