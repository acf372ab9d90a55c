---------------------------- MODULE GroupByTrace ----------------------------
(***************************************************************************)
(* processor/groupbytraceprocessor: spans of one trace are kept for a wait *)
(* duration and then sent on together.  One goroutine, the event machine,  *)
(* owns the ring buffer and takes its work from a buffered channel.  Into  *)
(* that channel write, through fire: the callers of ConsumeTraces, one     *)
(* timer per trace placed in the ring, one goroutine (markAsReleased) per  *)
(* expired trace, and the machine itself (eviction).  Shutdown writes the  *)
(* stop event past fire, without the lock.  The storage is shared by the   *)
(* machine and the releasing goroutines.                                   *)
(*                                                                         *)
(* The unit of data is the singleTraceBatch that splitByTrace produces.    *)
(* The batches of a trace may come in one call or in many, before, while   *)
(* and after the trace is sent on.  A timer, and the releasing goroutine   *)
(* it leads to, is identified by the batch whose arrival placed the trace  *)
(* in the ring; so is the stay of the trace in the ring that begins then.  *)
(***************************************************************************)
EXTENDS RingBuffer, Sequences

CONSTANTS
    Batches,     \* batches of spans, each of one trace
    TraceOf,     \* TraceOf[b]: the trace of batch b
    Calls,       \* calls of ConsumeTraces
    Payload,     \* Payload[c]: the batches of call c, as splitByTrace orders them
    BufferSize   \* capacity of the events channel

ASSUME GroupByTraceAssumption ==
    /\ TraceOf \in [Batches -> Traces]
    /\ Payload \in [Calls -> Seq(Batches)]
    /\ BufferSize \in Nat \ {0}

Elements(s) == {s[i] : i \in DOMAIN s}

\* A batch is one object: it is in one call, at one place.
ASSUME BatchAssumption ==
    /\ \A c \in Calls : \A i, j \in DOMAIN Payload[c] : Payload[c][i] = Payload[c][j] => i = j
    /\ \A c, d \in Calls : Elements(Payload[c]) \cap Elements(Payload[d]) # {} => c = d

VARIABLES
    ring,      \* the ring buffer
    content,   \* memoryStorage.content: <<>> where the map has no entry
    leaked,    \* read locks of the storage that nobody will release
    events,    \* the channel
    machine,   \* "off", "running", "stopping" (wants the lock), "stopped" (closed)
    work,      \* batches of the traceReceived event being handled
    call,      \* call[c]: "idle", "firing" (holds the read lock), "done"
    timer,     \* timer[b]: "none", "armed", "firing", "done"
    releaser,  \* releaser[b]: "none", "reading", "read", "firing", "second", "done"
    loot,      \* loot[b]: what releaser b copied from the storage
    shut,      \* Shutdown: "no", "waiting", "returned"
    out,       \* what nextConsumer has received, in order: the spans and their releaser
    owner,     \* history: owner[t]: the batch that placed t in the ring last
    stay,      \* history: stay[b]: owner of b's trace when b was stored, {} before
    late,      \* history: batches stored while their trace was leaving
    evicted,   \* history: traces that had to make room in the ring
    discarded, \* history: batches that were stored when their trace was evicted
    rejected,  \* history: batches nextConsumer refused
    lost       \* history: batches deleted from the storage undelivered

vars == <<ring, content, leaked, events, machine, work, call, timer, releaser,
          loot, shut, out, owner, stay, late, evicted, discarded, rejected, lost>>

Init ==
    /\ ring = NewRingBuffer
    /\ content = [t \in Traces |-> <<>>]
    /\ leaked = 0
    /\ events = <<>>
    /\ machine = "off"
    /\ work = <<>>
    /\ call = [c \in Calls |-> "idle"]
    /\ timer = [b \in Batches |-> "none"]
    /\ releaser = [b \in Batches |-> "none"]
    /\ loot = [b \in Batches |-> <<>>]
    /\ shut = "no"
    /\ out = <<>>
    /\ owner = [t \in Traces |-> {}]
    /\ stay = [b \in Batches |-> {}]
    /\ late = {}
    /\ evicted = {}
    /\ discarded = {}
    /\ rejected = {}
    /\ lost = {}

-----------------------------------------------------------------------------
(* eventMachine.fire, in two steps: take the read lock and look at closed, *)
(* then write to the channel.                                              *)

HasRoom == Len(events) < BufferSize

\* A pending Lock keeps new readers out; a closed machine discards the event.
LockFree == machine # "stopping"
Begin == IF machine = "stopped" THEN "done" ELSE "firing"

\* Somebody is inside fire.
Firing ==
    \/ \E c \in Calls : call[c] = "firing"
    \/ \E b \in Batches : timer[b] = "firing" \/ releaser[b] \in {"firing", "second"}

ConsumeTraces(c) ==
    /\ machine # "off" /\ LockFree
    /\ call[c] = "idle"
    /\ call' = [call EXCEPT ![c] = Begin]
    /\ UNCHANGED <<ring, content, leaked, events, machine, work, timer, releaser,
                   loot, shut, out, owner, stay, late, evicted, discarded, rejected, lost>>

SendReceived(c) ==
    /\ call[c] = "firing" /\ HasRoom
    /\ events' = Append(events, <<"received", c>>)
    /\ call' = [call EXCEPT ![c] = "done"]
    /\ UNCHANGED <<ring, content, leaked, machine, work, timer, releaser,
                   loot, shut, out, owner, stay, late, evicted, discarded, rejected, lost>>

\* time.AfterFunc runs its function once the wait duration is over.
TimerFires(b) ==
    /\ timer[b] = "armed" /\ LockFree
    /\ timer' = [timer EXCEPT ![b] = Begin]
    /\ UNCHANGED <<ring, content, leaked, events, machine, work, call, releaser,
                   loot, shut, out, owner, stay, late, evicted, discarded, rejected, lost>>

SendExpired(b) ==
    /\ timer[b] = "firing" /\ HasRoom
    /\ events' = Append(events, <<"expired", b>>)
    /\ timer' = [timer EXCEPT ![b] = "done"]
    /\ UNCHANGED <<ring, content, leaked, machine, work, call, releaser,
                   loot, shut, out, owner, stay, late, evicted, discarded, rejected, lost>>

-----------------------------------------------------------------------------
(* markAsReleased, on a goroutine of its own *)

\* The machine is about to take the storage's lock.
MachineAtStorage ==
    \/ work # <<>>
    \/ machine = "running" /\ events # <<>> /\ Head(events)[1] = "removed"

\* get copies what is stored; if nothing is, it returns with the read lock held.
Get(b) ==
    /\ releaser[b] = "reading"
    /\ ~(leaked > 0 /\ MachineAtStorage)
    /\ IF content[TraceOf[b]] = <<>>
       THEN /\ leaked' = leaked + 1
            /\ releaser' = [releaser EXCEPT ![b] = "done"]
            /\ loot' = loot
       ELSE /\ leaked' = leaked
            /\ releaser' = [releaser EXCEPT ![b] = "read"]
            /\ loot' = [loot EXCEPT ![b] = content[TraceOf[b]]]
    /\ UNCHANGED <<ring, content, events, machine, work, call, timer, shut, out,
                   owner, stay, late, evicted, discarded, rejected, lost>>

\* fire(traceReleased, traceRemoved): one lock for the two events.
FireReleased(b) ==
    /\ releaser[b] = "read" /\ LockFree
    /\ releaser' = [releaser EXCEPT ![b] = Begin]
    /\ UNCHANGED <<ring, content, leaked, events, machine, work, call, timer,
                   loot, shut, out, owner, stay, late, evicted, discarded, rejected, lost>>

\* Mutant: the two events are fired in the other order.
SendRemovedFirst(b) ==
    /\ releaser[b] = "firing" /\ Len(events) + 1 < BufferSize
    /\ events' = events \o <<<<"removed", TraceOf[b]>>, <<"released", b>>>>
    /\ releaser' = [releaser EXCEPT ![b] = "done"]
    /\ UNCHANGED <<ring, content, leaked, machine, work, call, timer,
                   loot, shut, out, owner, stay, late, evicted, discarded, rejected, lost>>

SendReleased(b) ==
    /\ releaser[b] = "firing" /\ HasRoom
    /\ events' = Append(events, <<"released", b>>)
    /\ releaser' = [releaser EXCEPT ![b] = "second"]
    /\ UNCHANGED <<ring, content, leaked, machine, work, call, timer,
                   loot, shut, out, owner, stay, late, evicted, discarded, rejected, lost>>

SendRemoved(b) ==
    /\ releaser[b] = "second" /\ HasRoom
    /\ events' = Append(events, <<"removed", TraceOf[b]>>)
    /\ releaser' = [releaser EXCEPT ![b] = "done"]
    /\ UNCHANGED <<ring, content, leaked, machine, work, call, timer,
                   loot, shut, out, owner, stay, late, evicted, discarded, rejected, lost>>

-----------------------------------------------------------------------------
(* The event machine *)

Start ==
    /\ machine = "off"
    /\ machine' = "running"
    /\ UNCHANGED <<ring, content, leaked, events, work, call, timer, releaser,
                   loot, shut, out, owner, stay, late, evicted, discarded, rejected, lost>>

\* The machine takes the next event, of the given type.
Takes(typ) ==
    /\ machine = "running"
    /\ work = <<>>
    /\ events # <<>>
    /\ Head(events)[1] = typ

OnTraceReceived ==
    /\ Takes("received")
    /\ work' = Payload[Head(events)[2]]
    /\ events' = Tail(events)
    /\ UNCHANGED <<ring, content, leaked, machine, call, timer, releaser,
                   loot, shut, out, owner, stay, late, evicted, discarded, rejected, lost>>

\* Mutant: the stored spans are replaced.
AddSpansReplacing(b) ==
    /\ leaked = 0
    /\ content' = [content EXCEPT ![TraceOf[b]] = <<b>>]

\* createOrAppend needs the storage's lock.
AddSpans(b) ==
    /\ leaked = 0
    /\ content' = [content EXCEPT ![TraceOf[b]] = Append(@, b)]

\* The trace is being sent on or removed: a releaser has it, or the channel
\* holds an event to delete it.
Leaving(t) ==
    \/ \E r \in Batches :
          TraceOf[r] = t /\ releaser[r] \in {"reading", "read", "firing", "second"}
    \/ <<"removed", t>> \in Elements(events)

\* History: the stay of the trace in the ring that b belongs to, and whether
\* b came while the trace was leaving.
Recorded(b, placer) ==
    /\ stay' = [stay EXCEPT ![b] = placer]
    /\ late' = late \cup {a \in {b} : Leaving(TraceOf[a])}

\* processBatch for a trace that is in the ring.
ProcessKnown ==
    /\ work # <<>>
    /\ Contains(ring, TraceOf[Head(work)])
    /\ AddSpans(Head(work))
    /\ Recorded(Head(work), owner[TraceOf[Head(work)]])
    /\ work' = Tail(work)
    /\ UNCHANGED <<ring, leaked, events, machine, call, timer, releaser,
                   loot, shut, out, owner, evicted, discarded, rejected, lost>>

\* Mutant: the evicted trace is not removed from the storage.
FireEvictedNever(gone) == UNCHANGED events

\* The machine fires traceRemoved to itself: with no room it waits for itself.
FireEvicted(gone) ==
    IF gone = NoTrace
    THEN UNCHANGED events
    ELSE HasRoom /\ events' = Append(events, <<"removed", gone>>)

\* processBatch for a trace that is not in the ring.
ProcessNew ==
    /\ work # <<>>
    /\ ~Contains(ring, TraceOf[Head(work)])
    /\ LET b == Head(work)
           t == TraceOf[b] IN
          /\ ring' = Put(ring, t)
          /\ FireEvicted(Evicted(ring))
          /\ AddSpans(b)
          /\ Recorded(b, {b})
          /\ timer' = [timer EXCEPT ![b] = "armed"]
          /\ owner' = [owner EXCEPT ![t] = {b}]
          /\ evicted' = evicted \cup ({Evicted(ring)} \ {NoTrace})
          /\ discarded' = discarded \cup {a \in Batches :
                TraceOf[a] = Evicted(ring) /\ a \in Elements(content[TraceOf[a]])}
    /\ work' = Tail(work)
    /\ UNCHANGED <<leaked, machine, call, releaser, loot, shut, out, rejected, lost>>

\* Mutant: the ring is not asked whether it still holds the trace.
OnTraceExpiredUnchecked ==
    /\ Takes("expired")
    /\ LET b == Head(events)[2] IN
          /\ ring' = Delete(ring, TraceOf[b])
          /\ releaser' = [releaser EXCEPT ![b] = "reading"]
    /\ events' = Tail(events)
    /\ UNCHANGED <<content, leaked, machine, work, call, timer, loot, shut, out,
                   owner, stay, late, evicted, discarded, rejected, lost>>

\* A trace that is no longer in the ring is skipped; otherwise it leaves the
\* ring and a goroutine is started to release it.
OnTraceExpired ==
    /\ Takes("expired")
    /\ LET b == Head(events)[2] IN
          IF Contains(ring, TraceOf[b])
          THEN /\ ring' = Delete(ring, TraceOf[b])
               /\ releaser' = [releaser EXCEPT ![b] = "reading"]
          ELSE UNCHANGED <<ring, releaser>>
    /\ events' = Tail(events)
    /\ UNCHANGED <<content, leaked, machine, work, call, timer, loot, shut, out,
                   owner, stay, late, evicted, discarded, rejected, lost>>

\* nextConsumer.ConsumeTraces receives the copy the releaser made.
OnTraceReleased ==
    /\ Takes("released")
    /\ out' = Append(out, [by |-> Head(events)[2], spans |-> loot[Head(events)[2]]])
    /\ events' = Tail(events)
    /\ UNCHANGED <<ring, content, leaked, machine, work, call, timer, releaser,
                   loot, shut, owner, stay, late, evicted, discarded, rejected, lost>>

\* nextConsumer returns an error, which the machine does not look at.
OnTraceReleasedFails ==
    /\ Takes("released")
    /\ rejected' = rejected \cup Elements(loot[Head(events)[2]])
    /\ events' = Tail(events)
    /\ UNCHANGED <<ring, content, leaked, machine, work, call, timer, releaser,
                   loot, shut, out, owner, stay, late, evicted, discarded, lost>>

Delivered == UNION {Elements(out[i].spans) : i \in DOMAIN out}

OnTraceRemoved ==
    /\ Takes("removed")
    /\ leaked = 0
    /\ LET t == Head(events)[2] IN
          /\ content' = [content EXCEPT ![t] = <<>>]
          /\ lost' = lost \cup (Elements(content[t]) \ Delivered)
    /\ events' = Tail(events)
    /\ UNCHANGED <<ring, leaked, machine, work, call, timer, releaser,
                   loot, shut, out, owner, stay, late, evicted, discarded, rejected>>

\* The stop event: the machine asks for the lock ...
OnStop ==
    /\ Takes("stop")
    /\ machine' = "stopping"
    /\ events' = Tail(events)
    /\ UNCHANGED <<ring, content, leaked, work, call, timer, releaser,
                   loot, shut, out, owner, stay, late, evicted, discarded, rejected, lost>>

\* ... and gets it when nobody is inside fire; Shutdown returns.
Close ==
    /\ machine = "stopping"
    /\ ~Firing
    /\ machine' = "stopped"
    /\ shut' = "returned"
    /\ UNCHANGED <<ring, content, leaked, events, work, call, timer, releaser,
                   loot, out, owner, stay, late, evicted, discarded, rejected, lost>>

\* eventMachine.shutdown writes to the channel without taking the lock.
Shutdown ==
    /\ machine # "off"
    /\ shut = "no" /\ HasRoom
    /\ shut' = "waiting"
    /\ events' = Append(events, <<"stop">>)
    /\ UNCHANGED <<ring, content, leaked, machine, work, call, timer, releaser,
                   loot, out, owner, stay, late, evicted, discarded, rejected, lost>>

-----------------------------------------------------------------------------
MachineStep ==
    \/ OnTraceReceived
    \/ ProcessKnown
    \/ ProcessNew
    \/ OnTraceExpired
    \/ OnTraceReleased
    \/ OnTraceReleasedFails
    \/ OnTraceRemoved
    \/ OnStop
    \/ Close

TimerStep(b) == TimerFires(b) \/ SendExpired(b)
ReleaserStep(b) == Get(b) \/ FireReleased(b) \/ SendReleased(b) \/ SendRemoved(b)

Next ==
    \/ Start
    \/ Shutdown
    \/ MachineStep
    \/ \E c \in Calls : ConsumeTraces(c) \/ SendReceived(c)
    \/ \E b \in Batches : TimerStep(b) \/ ReleaserStep(b)

Spec == Init /\ [][Next]_vars

\* The machine and the goroutines that can run do run, timers fire, and a call
\* that has begun goes on.  Calls and Shutdown need not happen.
Fairness ==
    /\ WF_vars(MachineStep)
    /\ \A c \in Calls : WF_vars(SendReceived(c))
    /\ \A b \in Batches : WF_vars(TimerStep(b)) /\ WF_vars(ReleaserStep(b))

FairSpec == Spec /\ Fairness

-----------------------------------------------------------------------------
(* Properties *)

\* The batches of trace t.
BatchesOf(t) == {b \in Batches : TraceOf[b] = t}

\* Every variable keeps its type, and the channel never exceeds its capacity.
TypeOK ==
    /\ ring \in RingType
    /\ \A t \in Traces : Elements(content[t]) \subseteq Batches
    /\ leaked \in Nat
    /\ Len(events) <= BufferSize
    /\ machine \in {"off", "running", "stopping", "stopped"}
    /\ Elements(work) \subseteq Batches
    /\ call \in [Calls -> {"idle", "firing", "done"}]
    /\ timer \in [Batches -> {"none", "armed", "firing", "done"}]
    /\ releaser \in [Batches -> {"none", "reading", "read", "firing", "second", "done"}]
    /\ shut \in {"no", "waiting", "returned"}

\* The ring's slice and map agree after any sequence of put (with eviction),
\* expiry and re-arrival: no trace occupies two positions and contains never
\* answers for a trace that has lost its position.
RingConsistent == Consistent(ring)

\* The README promises the trace with all its spans.  For any arrivals: each
\* delivery is of one trace and repeats no batch; what was stored during one
\* stay of the trace in the ring is delivered together, except the batches that
\* came while an earlier release or removal of the trace was under way (late);
\* and two deliveries share spans only if one of them has such late batches.
WholeAndOnce ==
    /\ \A i \in DOMAIN out :
          LET s == out[i].spans IN
          /\ \A j, k \in DOMAIN s : s[j] = s[k] => j = k
          /\ \E t \in Traces : Elements(s) \subseteq BatchesOf(t)
          /\ \A a \in Elements(s) \ late, b \in Batches \ late :
                stay[a] = stay[b] => b \in Elements(s)
    /\ \A i, j \in DOMAIN out :
          i # j /\ Elements(out[i].spans) \cap Elements(out[j].spans) # {}
             => (Elements(out[i].spans) \cup Elements(out[j].spans)) \cap late # {}

\* A releaser copies no spans that were evicted, even if the traceExpired event
\* was in the channel before the eviction, unless more of the trace came before
\* the removal was handled.
CopiesNotEvicted(r) ==
    loot'[r] # loot[r] /\ Elements(loot'[r]) \cap discarded # {}
        => Elements(loot'[r]) \cap late # {}

\* A trace that was never evicted is handed to a releaser by the timer that was
\* started when it was placed in the ring last: timers are never stopped, and
\* those of earlier stays are over.
ByOwnTimer(b) ==
    releaser[b] = "none" /\ releaser'[b] = "reading"
        => owner[TraceOf[b]] = {b} \/ TraceOf[b] \in evicted

\* Eviction against expiry: onTraceExpired asks the ring whether the trace is
\* still there, which keeps evicted spans from being sent on and timers from
\* releasing what is not theirs.
EvictedNotReleased == [][\A b \in Batches : CopiesNotEvicted(b) /\ ByOwnTimer(b)]_vars

\* processor.go:44: "Items that are evicted from the buffer are discarded
\* without warning".  For any arrivals, what onTraceRemoved deletes without its
\* having been sent on was stored when its trace was evicted, or refused by
\* nextConsumer, or came late, while its trace was leaving: nothing that is
\* stored in time is lost otherwise.  And get leaves the storage locked only
\* after a late arrival.
LossIsExplained ==
    /\ lost \subseteq discarded \cup rejected \cup late
    /\ leaked > 0 => late # {}

\* storage.go: "Implementations should be safe for concurrent use": a lock of
\* the storage that was taken is given back.
StorageLockReleased == leaked = 0

\* README: the processor waits "a pre-determined amount of time before releasing
\* the trace": a trace is handed to a releaser by the timer that was started
\* when it was placed in the ring, not by an older one.
ReleasedByOwnTimer ==
    [][\A b \in Batches :
          releaser[b] = "none" /\ releaser'[b] = "reading" => owner[TraceOf[b]] = {b}]_vars

\* processor.go:214: the two events are fired atomically "so that a concurrent
\* shutdown won't leave an orphaned trace in the storage".
NoOrphanAfterShutdown ==
    shut = "returned" => \A t \in Traces : Elements(content[t]) \cap Delivered = {}

\* The machine waits for room in the channel that only it empties.
SelfBlocked ==
    /\ work # <<>> /\ ~HasRoom
    /\ ~Contains(ring, TraceOf[Head(work)]) /\ Evicted(ring) # NoTrace

\* The machine has taken the stop event and waits for the lock, which somebody holds
\* who waits for room in the channel that nobody empties any more.
StopBlocked == machine = "stopping" /\ ~HasRoom /\ Firing

\* The machine waits for the storage, which get has left locked.
LockBlocked == leaked > 0

Wedged == SelfBlocked \/ StopBlocked \/ LockBlocked

\* Spans that were stored are delivered, refused by the next consumer or deleted
\* for a reason that LossIsExplained accepts, unless the processor is shut down:
\* the only thing that keeps them is a machine that waits for ever.
TraceLeaves ==
    \A b \in Batches :
        (b \in Elements(content[TraceOf[b]])) ~>
            \/ b \in Delivered \cup rejected \cup lost
            \/ shut # "no" \/ Wedged

\* No spans stay in the storage for ever, evicted or not, while the processor
\* runs and its machine does.
StorageDrains ==
    \A t \in Traces : (content[t] # <<>>) ~> (content[t] = <<>> \/ shut # "no" \/ Wedged)

\* Shutdown returns although timers and releasers keep firing events and the
\* channel fills up, unless one of the two cycles of waiting closes or the storage is locked.
ShutdownReturns == (shut = "waiting") ~> (shut = "returned" \/ Wedged)

\* event.go: "firing an event will block until enough capacity is available":
\* the handling of a received payload comes to an end.
PayloadIsHandled == (work # <<>>) ~> (work = <<>>)
=============================================================================
