------------------------- MODULE GroupByTraceProofs -------------------------
(***************************************************************************)
(* Proofs about the groupbytrace processor, for any number of traces,      *)
(* batches and calls, any ring size and any capacity of the channel, and   *)
(* for any arrivals: the batches of a trace may come in one call or in     *)
(* many, before, while and after the trace is sent on.                     *)
(***************************************************************************)
EXTENDS GroupByTrace, TLAPS

-----------------------------------------------------------------------------
(* The operations of the ring *)

\* newRingBuffer: an empty slice and an empty map agree.
LEMMA NewRingConsistent == NewRingBuffer \in RingType /\ Consistent(NewRingBuffer)
  BY RingAssumption DEF NewRingBuffer, RingType, Consistent, Contains, Positions, Absent

\* The position put writes to exists: the index wraps around.
LEMMA NextIndexInRange ==
    ASSUME NEW r \in RingType
    PROVE  NextIndex(r) \in Positions
  <1>1. r.index + 1 \in Nat /\ NumTraces \in Nat \ {0}
    BY RingAssumption DEF RingType, Positions
  <1>2. \A x \in Nat, n \in Nat \ {0} : x % n \in 0 .. n - 1
    OBVIOUS
  <1> QED
    BY <1>1, <1>2 DEF NextIndex, Positions

\* delete clears both halves, and only those of its ID.
LEMMA DeleteConsistent ==
    ASSUME NEW r \in RingType, Consistent(r), NEW t \in Traces
    PROVE  /\ Delete(r, t) \in RingType
           /\ Consistent(Delete(r, t))
           /\ ~Contains(Delete(r, t), t)
           /\ \A u \in Traces : ~Contains(r, u) => ~Contains(Delete(r, t), u)
           /\ Delete(r, t).index = r.index
           /\ Contains(r, t) => Delete(r, t).ids[r.idToIndex[t]] = NoTrace
  <1>1. CASE ~Contains(r, t)
    BY <1>1 DEF Delete
  <1>2. CASE Contains(r, t)
    <2> DEFINE p == r.idToIndex[t]
               d == Delete(r, t)
    <2>1. p \in Positions /\ r.ids[p] = t
      BY <1>2 DEF Consistent, Contains, RingType
    <2>2. /\ d.index = r.index
          /\ d.ids = [r.ids EXCEPT ![p] = NoTrace]
          /\ d.idToIndex = [r.idToIndex EXCEPT ![t] = Absent]
          /\ d \in RingType
      BY <1>2, <2>1 DEF Delete, RingType
    <2> HIDE DEF p, d
    <2>3. /\ \A u \in Traces \ {t} : d.idToIndex[u] = r.idToIndex[u]
          /\ d.idToIndex[t] = Absent
          /\ \A q \in Positions \ {p} : d.ids[q] = r.ids[q]
          /\ d.ids[p] = NoTrace
      BY <2>1, <2>2 DEF RingType
    <2>4. ASSUME NEW u \in Traces, Contains(d, u)
          PROVE  d.ids[d.idToIndex[u]] = u
      <3>1. u # t /\ d.idToIndex[u] = r.idToIndex[u] /\ r.idToIndex[u] \in Positions
        BY <2>3, <2>4 DEF Contains, RingType
      <3>2. r.ids[r.idToIndex[u]] = u
        BY <3>1, <2>4 DEF Consistent, Contains
      <3>3. r.idToIndex[u] # p
        BY <3>1, <3>2, <2>1
      <3> QED
        BY <3>1, <3>2, <3>3, <2>3
    <2>5. ASSUME NEW q \in Positions, d.ids[q] # NoTrace
          PROVE  d.idToIndex[d.ids[q]] = q
      <3>1. q # p /\ d.ids[q] = r.ids[q]
        BY <2>3, <2>5
      <3>2. r.ids[q] \in Traces /\ r.idToIndex[r.ids[q]] = q
        BY <2>5, <3>1 DEF Consistent, RingType
      <3>3. r.ids[q] # t
        BY <3>1, <3>2 DEF p
      <3> QED
        BY <2>3, <3>1, <3>2, <3>3
    <2>6. Consistent(d)
      BY <2>4, <2>5 DEF Consistent
    <2> QED
      BY <2>2, <2>3, <2>6 DEF Contains, d, p
  <1> QED
    BY <1>1, <1>2

\* put keeps the ring consistent, provided the ID is not in it yet: that is
\* what the contains test of processBatch is for.
LEMMA PutConsistent ==
    ASSUME NEW r \in RingType, Consistent(r), NEW t \in Traces, ~Contains(r, t)
    PROVE  Put(r, t) \in RingType /\ Consistent(Put(r, t))
  <1> DEFINE p == NextIndex(r)
             c == IF Evicted(r) # NoTrace THEN Delete(r, Evicted(r)) ELSE r
             s == Put(r, t)
  <1>1. p \in Positions
    BY NextIndexInRange
  <1>2. c \in RingType /\ Consistent(c) /\ ~Contains(c, t) /\ c.ids[p] = NoTrace
    <2>1. CASE Evicted(r) = NoTrace
      BY <2>1 DEF Evicted
    <2>2. CASE Evicted(r) # NoTrace
      <3>1. Evicted(r) \in Traces /\ Evicted(r) = r.ids[p]
        BY <1>1, <2>2 DEF Evicted, RingType
      <3>2. r.idToIndex[Evicted(r)] = p
        BY <1>1, <2>2, <3>1 DEF Consistent
      <3>3. p # Absent
        BY <1>1, RingAssumption DEF Positions, Absent
      <3> QED
        BY <2>2, <3>1, <3>2, <3>3, DeleteConsistent DEF Contains
    <2> QED
      BY <2>1, <2>2
  <1>3. /\ s.ids = [c.ids EXCEPT ![p] = t]
        /\ s.idToIndex = [c.idToIndex EXCEPT ![t] = p]
        /\ s \in RingType
    BY <1>1, <1>2 DEF Put, RingType
  <1> HIDE DEF p, c, s
  <1>4. /\ \A u \in Traces \ {t} : s.idToIndex[u] = c.idToIndex[u]
        /\ s.idToIndex[t] = p
        /\ \A q \in Positions \ {p} : s.ids[q] = c.ids[q]
        /\ s.ids[p] = t
    BY <1>1, <1>2, <1>3 DEF RingType
  <1>5. ASSUME NEW u \in Traces, Contains(s, u)
        PROVE  s.ids[s.idToIndex[u]] = u
    <2>1. CASE u = t
      BY <1>4, <2>1
    <2>2. CASE u # t
      <3>1. s.idToIndex[u] = c.idToIndex[u] /\ c.idToIndex[u] \in Positions
        BY <1>2, <1>4, <1>5, <2>2 DEF Contains, RingType
      <3>2. c.ids[c.idToIndex[u]] = u
        BY <1>2, <1>5, <3>1 DEF Consistent, Contains
      <3>3. c.idToIndex[u] # p
        BY <1>2, <3>2, RingAssumption
      <3> QED
        BY <1>4, <3>1, <3>2, <3>3
    <2> QED
      BY <2>1, <2>2
  <1>6. ASSUME NEW q \in Positions, s.ids[q] # NoTrace
        PROVE  s.idToIndex[s.ids[q]] = q
    <2>1. CASE q = p
      BY <1>4, <2>1
    <2>2. CASE q # p
      <3>1. s.ids[q] = c.ids[q] /\ c.ids[q] \in Traces
        BY <1>2, <1>4, <1>6, <2>2 DEF RingType
      <3>2. c.idToIndex[c.ids[q]] = q
        BY <1>2, <1>6, <3>1 DEF Consistent
      <3>3. c.ids[q] # t
        BY <1>2, <3>2, RingAssumption DEF Contains, Positions, Absent
      <3> QED
        BY <1>4, <3>1, <3>2, <3>3
    <2> QED
      BY <2>1, <2>2
  <1> QED
    BY <1>3, <1>5, <1>6 DEF Consistent, s

-----------------------------------------------------------------------------
(* The machine uses the ring for real traces only, and puts a trace only   *)
(* after asking whether it is there.                                       *)

EventSet ==
    ({"received"} \X Calls) \cup ({"expired", "released"} \X Batches)
        \cup ({"removed"} \X Traces) \cup {<<"stop">>}

RingInv ==
    /\ ring \in RingType
    /\ Consistent(ring)
    /\ work \in Seq(Batches)
    /\ events \in Seq(EventSet)

\* What a sender appends is an event.
LEMMA AppendEvent ==
    ASSUME events \in Seq(EventSet), NEW e \in EventSet
    PROVE  Append(events, e) \in Seq(EventSet)
  OBVIOUS

\* So is everything the callers, timers, releasers and Shutdown send.
LEMMA SentEvents ==
    /\ <<"stop">> \in EventSet
    /\ \A c \in Calls : <<"received", c>> \in EventSet
    /\ \A b \in Batches : <<"expired", b>> \in EventSet /\ <<"released", b>> \in EventSet
    /\ \A t \in Traces : <<"removed", t>> \in EventSet
  BY DEF EventSet

\* The ring is consistent before the first event.
LEMMA InitRingInv == Init => RingInv
  BY NewRingConsistent DEF Init, RingInv

\* Every step of the machine, the timers, the releasers and the callers keeps it
\* so; only processBatch and onTraceExpired touch the ring.
LEMMA NextRingInv == RingInv /\ [Next]_vars => RingInv'
  <1> SUFFICES ASSUME RingInv, [Next]_vars
               PROVE  RingInv'
    OBVIOUS
  <1> USE GroupByTraceAssumption
  <1>1. CASE Start \/ Close \/ UNCHANGED vars
    BY <1>1 DEF Start, Close, vars, RingInv
  <1>2. CASE Shutdown
    BY <1>2, AppendEvent, SentEvents DEF Shutdown, RingInv
  <1>3. CASE OnTraceReceived
    <2>1. Head(events) \in EventSet /\ Tail(events) \in Seq(EventSet)
      BY <1>3 DEF OnTraceReceived, Takes, RingInv
    <2>2. Head(events)[2] \in Calls
      BY <1>3, <2>1 DEF OnTraceReceived, Takes, EventSet
    <2> QED
      BY <1>3, <2>1, <2>2 DEF OnTraceReceived, RingInv
  <1>4. CASE ProcessKnown
    BY <1>4 DEF ProcessKnown, RingInv
  <1>5. CASE ProcessNew
    <2> DEFINE t == TraceOf[Head(work)]
    <2>1. Head(work) \in Batches /\ Tail(work) \in Seq(Batches) /\ t \in Traces
      BY <1>5 DEF ProcessNew, RingInv
    <2>2. ring' = Put(ring, t) /\ ~Contains(ring, t) /\ work' = Tail(work)
      BY <1>5 DEF ProcessNew
    <2>3. ring' \in RingType /\ Consistent(ring')
      BY <2>1, <2>2, PutConsistent DEF RingInv
    <2>4. events' \in Seq(EventSet)
      <3>1. FireEvicted(Evicted(ring))
        BY <1>5 DEF ProcessNew
      <3>2. Evicted(ring) \in Traces \cup {NoTrace}
        BY NextIndexInRange DEF Evicted, RingInv, RingType
      <3>3. CASE Evicted(ring) = NoTrace
        BY <3>1, <3>3 DEF FireEvicted, RingInv
      <3>4. CASE Evicted(ring) # NoTrace
        <4>1. <<"removed", Evicted(ring)>> \in EventSet
          BY <3>2, <3>4, SentEvents
        <4> QED
          BY <3>1, <3>4, <4>1, AppendEvent DEF FireEvicted, RingInv
      <3> QED
        BY <3>3, <3>4
    <2> QED
      BY <2>1, <2>2, <2>3, <2>4 DEF RingInv
  <1>6. CASE OnTraceExpired
    <2>1. Head(events) \in EventSet /\ Tail(events) \in Seq(EventSet)
      BY <1>6 DEF OnTraceExpired, Takes, RingInv
    <2>2. Head(events)[2] \in Batches
      BY <1>6, <2>1 DEF OnTraceExpired, Takes, EventSet
    <2>3. ring' = ring \/ ring' = Delete(ring, TraceOf[Head(events)[2]])
      BY <1>6 DEF OnTraceExpired
    <2>4. ring' \in RingType /\ Consistent(ring')
      BY <2>2, <2>3, DeleteConsistent DEF RingInv
    <2> QED
      BY <1>6, <2>1, <2>4 DEF OnTraceExpired, RingInv
  <1>7. CASE OnTraceReleased \/ OnTraceReleasedFails \/ OnTraceRemoved \/ OnStop
    <2>1. ring' = ring /\ work' = work /\ events # <<>> /\ events' = Tail(events)
      BY <1>7 DEF OnTraceReleased, OnTraceReleasedFails, OnTraceRemoved, OnStop, Takes
    <2> QED
      BY <2>1 DEF RingInv
  <1>8. ASSUME NEW c \in Calls, ConsumeTraces(c) \/ SendReceived(c)
        PROVE  RingInv'
    <2>1. CASE ConsumeTraces(c)
      BY <2>1 DEF ConsumeTraces, RingInv
    <2>2. CASE SendReceived(c)
      BY <2>2, AppendEvent, SentEvents DEF SendReceived, RingInv
    <2> QED
      BY <1>8, <2>1, <2>2
  <1>9. ASSUME NEW b \in Batches, TimerStep(b) \/ ReleaserStep(b)
        PROVE  RingInv'
    <2>1. CASE TimerFires(b) \/ Get(b) \/ FireReleased(b)
      BY <2>1 DEF TimerFires, Get, FireReleased, RingInv
    <2>2. CASE SendExpired(b)
      BY <2>2, AppendEvent, SentEvents DEF SendExpired, RingInv
    <2>3. CASE SendReleased(b)
      BY <2>3, AppendEvent, SentEvents DEF SendReleased, RingInv
    <2>4. CASE SendRemoved(b)
      <3>1. TraceOf[b] \in Traces
        OBVIOUS
      <3> QED
        BY <2>4, <3>1, AppendEvent, SentEvents DEF SendRemoved, RingInv
    <2> QED
      BY <1>9, <2>1, <2>2, <2>3, <2>4 DEF TimerStep, ReleaserStep
  <1> QED
    BY <1>1, <1>2, <1>3, <1>4, <1>5, <1>6, <1>7, <1>8, <1>9 DEF Next, MachineStep

\* For every ring size and every arrival order: the map and the slice of the
\* ring agree, so that no trace is released for a position it has lost.
THEOREM RingStaysConsistent == Spec => []RingConsistent
  <1>1. RingInv => RingConsistent
    BY DEF RingInv, RingConsistent
  <1> QED
    BY <1>1, InitRingInv, NextRingInv, PTL DEF Spec

-----------------------------------------------------------------------------
(* Types, and the bound of the channel. *)

Deliveries == [by : Batches, spans : Seq(Batches)]

Types ==
    /\ content \in [Traces -> Seq(Batches)]
    /\ leaked \in Nat
    /\ Len(events) <= BufferSize
    /\ machine \in {"off", "running", "stopping", "stopped"}
    /\ call \in [Calls -> {"idle", "firing", "done"}]
    /\ timer \in [Batches -> {"none", "armed", "firing", "done"}]
    /\ releaser \in [Batches -> {"none", "reading", "read", "firing", "second", "done"}]
    /\ loot \in [Batches -> Seq(Batches)]
    /\ shut \in {"no", "waiting", "returned"}
    /\ out \in Seq(Deliveries)
    /\ owner \in [Traces -> SUBSET Batches]
    /\ stay \in [Batches -> SUBSET Batches]

LEMMA InitTypes == Init => Types
  <1>1. <<>> \in Seq(Batches) /\ <<>> \in Seq(Deliveries) /\ Len(<<>>) = 0
    OBVIOUS
  <1> QED
    BY <1>1, GroupByTraceAssumption DEF Init, Types

\* What may happen to the channel in one step.
LEMMA ChannelStep ==
    ASSUME [Next]_vars
    PROVE  \/ events' = events
           \/ HasRoom /\ \E e : events' = Append(events, e)
           \/ events # <<>> /\ events' = Tail(events)
  BY DEF Next, vars, MachineStep, TimerStep, ReleaserStep, Start, Shutdown, ConsumeTraces,
         SendReceived, TimerFires, SendExpired, Get, FireReleased, SendReleased, SendRemoved,
         OnTraceReceived, ProcessKnown, ProcessNew, FireEvicted, OnTraceExpired,
         OnTraceReleased, OnTraceReleasedFails, OnTraceRemoved, OnStop, Close, Takes

LEMMA NextTypes == RingInv /\ Types /\ [Next]_vars => Types'
  <1> SUFFICES ASSUME RingInv, Types, [Next]_vars
               PROVE  Types'
    OBVIOUS
  <1> USE GroupByTraceAssumption
  <1>1. Len(events') <= BufferSize
    <2>1. PICK s \in Seq(EventSet) : s = events /\ Len(s) <= BufferSize
      BY DEF RingInv, Types
    <2>2. CASE events' = events
      BY <2>1, <2>2
    <2>3. ASSUME HasRoom, NEW e, events' = Append(events, e)
          PROVE  Len(events') <= BufferSize
      <3>1. Len(s) \in Nat /\ Len(s) < BufferSize /\ Len(Append(s, e)) = Len(s) + 1
        BY <2>1, <2>3 DEF HasRoom
      <3> QED
        BY <2>1, <2>3, <3>1
    <2>4. CASE events # <<>> /\ events' = Tail(events)
      <3>1. Len(s) \in Nat /\ Len(Tail(s)) = Len(s) - 1
        BY <2>1, <2>4
      <3> QED
        BY <2>1, <2>4, <3>1
    <2> QED
      BY <2>2, <2>3, <2>4, ChannelStep
  <1>2. content' \in [Traces -> Seq(Batches)]
    <2>1. \/ content' = content
          \/ \E t : content' = [content EXCEPT ![t] = <<>>]
          \/ work # <<>> /\ content' = [content EXCEPT ![TraceOf[Head(work)]] = Append(@, Head(work))]
      BY DEF Next, vars, MachineStep, TimerStep, ReleaserStep, Start, Shutdown, ConsumeTraces,
             SendReceived, TimerFires, SendExpired, Get, FireReleased, SendReleased, SendRemoved,
             OnTraceReceived, ProcessKnown, ProcessNew, AddSpans, OnTraceExpired,
             OnTraceReleased, OnTraceReleasedFails, OnTraceRemoved, OnStop, Close
    <2>2. ASSUME NEW t, content' = [content EXCEPT ![t] = <<>>]
          PROVE  content' \in [Traces -> Seq(Batches)]
      <3>1. <<>> \in Seq(Batches)
        OBVIOUS
      <3> QED
        BY <2>2, <3>1 DEF Types
    <2>3. CASE work # <<>> /\ content' = [content EXCEPT ![TraceOf[Head(work)]] = Append(@, Head(work))]
      <3>1. Head(work) \in Batches /\ TraceOf[Head(work)] \in Traces
        BY <2>3 DEF RingInv
      <3>2. \A s \in Seq(Batches) : Append(s, Head(work)) \in Seq(Batches)
        BY <3>1
      <3> QED
        BY <2>3, <3>1, <3>2 DEF Types
    <2> QED
      BY <2>1, <2>2, <2>3 DEF Types
  <1>3. /\ leaked' \in Nat
        /\ machine' \in {"off", "running", "stopping", "stopped"}
        /\ shut' \in {"no", "waiting", "returned"}
    BY DEF Types, Next, vars, MachineStep, TimerStep, ReleaserStep, Start, Shutdown,
           ConsumeTraces, SendReceived, TimerFires, SendExpired, Get, FireReleased,
           SendReleased, SendRemoved, OnTraceReceived, ProcessKnown, ProcessNew,
           OnTraceExpired, OnTraceReleased, OnTraceReleasedFails, OnTraceRemoved, OnStop, Close
  <1>4. /\ call' \in [Calls -> {"idle", "firing", "done"}]
        /\ timer' \in [Batches -> {"none", "armed", "firing", "done"}]
    BY DEF Types, Next, vars, MachineStep, TimerStep, ReleaserStep, Start, Shutdown, Begin,
           ConsumeTraces, SendReceived, TimerFires, SendExpired, Get, FireReleased,
           SendReleased, SendRemoved, OnTraceReceived, ProcessKnown, ProcessNew,
           OnTraceExpired, OnTraceReleased, OnTraceReleasedFails, OnTraceRemoved, OnStop, Close
  <1>5. releaser' \in [Batches -> {"none", "reading", "read", "firing", "second", "done"}]
    <2>1. \/ releaser' = releaser
          \/ \E b, x : /\ x \in {"reading", "read", "firing", "second", "done"}
                       /\ releaser' = [releaser EXCEPT ![b] = x]
      BY DEF Next, vars, MachineStep, TimerStep, ReleaserStep, Start, Shutdown, Begin,
             ConsumeTraces, SendReceived, TimerFires, SendExpired, Get, FireReleased,
             SendReleased, SendRemoved, OnTraceReceived, ProcessKnown, ProcessNew,
             OnTraceExpired, OnTraceReleased, OnTraceReleasedFails, OnTraceRemoved, OnStop, Close
    <2> QED
      BY <2>1 DEF Types
  <1>6. loot' \in [Batches -> Seq(Batches)]
    <2>1. \/ loot' = loot
          \/ \E b \in Batches : loot' = [loot EXCEPT ![b] = content[TraceOf[b]]]
      BY DEF Next, vars, MachineStep, TimerStep, ReleaserStep, Start, Shutdown,
             ConsumeTraces, SendReceived, TimerFires, SendExpired, Get, FireReleased,
             SendReleased, SendRemoved, OnTraceReceived, ProcessKnown, ProcessNew,
             OnTraceExpired, OnTraceReleased, OnTraceReleasedFails, OnTraceRemoved, OnStop, Close
    <2> QED
      BY <2>1 DEF Types
  <1>7. out' \in Seq(Deliveries)
    <2>1. \/ out' = out
          \/ /\ Takes("released")
             /\ out' = Append(out, [by |-> Head(events)[2], spans |-> loot[Head(events)[2]]])
      BY DEF Next, vars, MachineStep, TimerStep, ReleaserStep, Start, Shutdown,
             ConsumeTraces, SendReceived, TimerFires, SendExpired, Get, FireReleased,
             SendReleased, SendRemoved, OnTraceReceived, ProcessKnown, ProcessNew,
             OnTraceExpired, OnTraceReleased, OnTraceReleasedFails, OnTraceRemoved, OnStop, Close
    <2>2. CASE /\ Takes("released")
               /\ out' = Append(out, [by |-> Head(events)[2], spans |-> loot[Head(events)[2]]])
      <3>1. Head(events) \in EventSet
        BY <2>2 DEF Takes, RingInv
      <3>2. [by |-> Head(events)[2], spans |-> loot[Head(events)[2]]] \in Deliveries
        BY <2>2, <3>1 DEF Takes, EventSet, Types, Deliveries
      <3> QED
        BY <2>2, <3>2 DEF Types
    <2> QED
      BY <2>1, <2>2 DEF Types
  <1>8. owner' \in [Traces -> SUBSET Batches]
    <2>1. \/ owner' = owner
          \/ work # <<>> /\ owner' = [owner EXCEPT ![TraceOf[Head(work)]] = {Head(work)}]
      BY DEF Next, vars, MachineStep, TimerStep, ReleaserStep, Start, Shutdown,
             ConsumeTraces, SendReceived, TimerFires, SendExpired, Get, FireReleased,
             SendReleased, SendRemoved, OnTraceReceived, ProcessKnown, ProcessNew,
             OnTraceExpired, OnTraceReleased, OnTraceReleasedFails, OnTraceRemoved, OnStop, Close
    <2>2. \A b \in Batches : {b} \in SUBSET Batches
      OBVIOUS
    <2>3. work # <<>> => Head(work) \in Batches
      BY DEF RingInv
    <2>4. CASE work # <<>> /\ owner' = [owner EXCEPT ![TraceOf[Head(work)]] = {Head(work)}]
      <3>1. PICK S \in SUBSET Batches : S = {Head(work)}
        BY <2>2, <2>3, <2>4
      <3> QED
        BY <2>4, <3>1 DEF Types
    <2> QED
      BY <2>1, <2>4 DEF Types
  <1>9. stay' \in [Batches -> SUBSET Batches]
    <2>1. \/ stay' = stay
          \/ /\ work # <<>>
             /\ \/ stay' = [stay EXCEPT ![Head(work)] = owner[TraceOf[Head(work)]]]
                \/ stay' = [stay EXCEPT ![Head(work)] = {Head(work)}]
      BY DEF Next, vars, MachineStep, TimerStep, ReleaserStep, Start, Shutdown,
             ConsumeTraces, SendReceived, TimerFires, SendExpired, Get, FireReleased,
             SendReleased, SendRemoved, OnTraceReceived, ProcessKnown, ProcessNew, Recorded,
             OnTraceExpired, OnTraceReleased, OnTraceReleasedFails, OnTraceRemoved, OnStop, Close
    <2>2. work # <<>> => Head(work) \in Batches
      BY DEF RingInv
    <2>3. \A b \in Batches : {b} \in SUBSET Batches /\ owner[TraceOf[b]] \in SUBSET Batches
      BY DEF Types
    <2>4. CASE work # <<>> /\ stay' = [stay EXCEPT ![Head(work)] = owner[TraceOf[Head(work)]]]
      <3>1. PICK S \in SUBSET Batches : S = owner[TraceOf[Head(work)]]
        BY <2>2, <2>3, <2>4
      <3> QED
        BY <2>4, <3>1 DEF Types
    <2>5. CASE work # <<>> /\ stay' = [stay EXCEPT ![Head(work)] = {Head(work)}]
      <3>1. PICK S \in SUBSET Batches : S = {Head(work)}
        BY <2>2, <2>3, <2>5
      <3> QED
        BY <2>5, <3>1 DEF Types
    <2> QED
      BY <2>1, <2>4, <2>5 DEF Types
  <1> QED
    BY <1>1, <1>2, <1>3, <1>4, <1>5, <1>6, <1>7, <1>8, <1>9 DEF Types

\* Every variable keeps its type and the channel its capacity, whatever arrives.
THEOREM TypeCorrect == Spec => []TypeOK
  <1>1. RingInv /\ Types => TypeOK
    <2>1. \A s \in Seq(Batches) : Elements(s) \subseteq Batches
      BY DEF Elements
    <2> QED
      BY <2>1 DEF RingInv, Types, TypeOK
  <1> QED
    BY <1>1, InitRingInv, NextRingInv, InitTypes, NextTypes, PTL DEF Spec

-----------------------------------------------------------------------------
(* The ring and the traces in it. *)

\* put places its ID and drops the one that has to make room.
LEMMA PutContains ==
    ASSUME NEW r \in RingType, Consistent(r), NEW t \in Traces, ~Contains(r, t)
    PROVE  /\ \A u \in Traces : Contains(Put(r, t), u) <=> u = t \/ (u # Evicted(r) /\ Contains(r, u))
           /\ Evicted(r) # NoTrace => Evicted(r) \in Traces /\ Contains(r, Evicted(r))
  <1> DEFINE p == NextIndex(r)
             g == Evicted(r)
  <1>1. p \in Positions /\ p # Absent
    BY NextIndexInRange, RingAssumption DEF Positions, Absent
  <1>2. g # NoTrace => g \in Traces /\ Contains(r, g)
    BY <1>1 DEF Evicted, RingType, Consistent, Contains
  <1>3. CASE g = NoTrace
    <2>1. Put(r, t).idToIndex = [r.idToIndex EXCEPT ![t] = p]
      BY <1>3 DEF Put, RingType
    <2> QED
      BY <1>1, <1>2, <1>3, <2>1, RingAssumption DEF Contains, RingType
  <1>4. CASE g # NoTrace
    <2>1. Put(r, t).idToIndex = [Delete(r, g).idToIndex EXCEPT ![t] = p]
      BY <1>4 DEF Put, RingType
    <2>2. Delete(r, g).idToIndex = [r.idToIndex EXCEPT ![g] = Absent]
      BY <1>2, <1>4 DEF Delete, RingType
    <2> QED
      BY <1>1, <1>2, <1>4, <2>1, <2>2 DEF Contains, RingType
  <1> QED
    BY <1>2, <1>3, <1>4

\* delete drops its ID.
LEMMA DeleteContains ==
    ASSUME NEW r \in RingType, NEW t \in Traces, Contains(r, t)
    PROVE  \A u \in Traces : Contains(Delete(r, t), u) <=> u # t /\ Contains(r, u)
  <1>1. Delete(r, t).idToIndex = [r.idToIndex EXCEPT ![t] = Absent]
    BY DEF Delete, RingType
  <1> QED
    BY <1>1 DEF Contains, RingType

-----------------------------------------------------------------------------
(***************************************************************************)
(* The inductive invariant, for any arrivals.                              *)
(*                                                                         *)
(* A stay of a trace in the ring begins with the batch that places it and  *)
(* ends with eviction or expiry.  A batch that is stored while its trace   *)
(* is leaving is late; once a batch of a stay comes in time, nothing of    *)
(* its trace is leaving and nothing begins to leave before the stay ends   *)
(* (InTime).  So a removal finds in the storage what was evicted, what its *)
(* releaser has copied, and late batches (CopiedOK, SecondOK, RemovedOK),  *)
(* and a second releaser, or a second stay, meets the spans of the first   *)
(* only together with late batches (TwiceOK, AgainOK).                     *)
(***************************************************************************)

Distinct(s) == \A i, j \in DOMAIN s : s[i] = s[j] => i = j

\* The events in the channel, by type.
Pending == {events[i] : i \in 1 .. Len(events)}
Received == {c \in Calls : <<"received", c>> \in Pending}
Expired == {b \in Batches : <<"expired", b>> \in Pending}
Released == {b \in Batches : <<"released", b>> \in Pending}
Removed == {t \in Traces : <<"removed", t>> \in Pending}

InRing == {t \in Traces : Contains(ring, t)}

\* The batches that were ever stored; those of trace t that are, and those that
\* releaser r has copied.
Stored == {b \in Batches : stay[b] # {}}
Con == [t \in Traces |-> Elements(content[t])]
Lot == [r \in Batches |-> Elements(loot[r])]

\* Traces that a releaser is about to read, that a releaser has, that are leaving.
Busy == {"reading", "read", "firing", "second"}
Read == {t \in Traces : \E r \in Batches : TraceOf[r] = t /\ releaser[r] = "reading"}
Held == {t \in Traces : \E r \in Batches : TraceOf[r] = t /\ releaser[r] \in Busy}
Leave == Held \cup Removed

\* What may be deleted: it was sent on, or its loss is explained.
Settled == late \cup discarded \cup rejected \cup Delivered

\* A batch is stored once: while it waits to be handled it was not.
CallOK ==
    \A c \in Calls :
        /\ c \in Received => call[c] = "done"
        /\ call[c] # "done" \/ c \in Received =>
              \A b \in Elements(Payload[c]) : b \notin Stored /\ b \notin Elements(work)
WorkOK ==
    /\ Distinct(work) /\ \A b \in Elements(work) : b \notin Stored
    /\ work # <<>> => machine = "running"

\* A timer is started once and leads to one releaser.
TimerOK ==
    \A b \in Batches :
        /\ timer[b] # "none" => b \in Stored
        /\ b \in Expired => timer[b] = "done" /\ releaser[b] = "none"
        /\ releaser[b] # "none" => timer[b] = "done"

\* Without evictions only the timer of the present stay can still go off.
OwnerOK ==
    \A b \in Batches :
        (timer[b] \in {"armed", "firing"} \/ b \in Expired) /\ TraceOf[b] \notin evicted =>
            owner[TraceOf[b]] = {b} /\ TraceOf[b] \in InRing

StayOK ==
    /\ late \subseteq Stored /\ discarded \subseteq Stored
    /\ \A b \in Batches : stay[b] \subseteq Stored
    /\ \A t \in InRing : \E x \in Stored : TraceOf[x] = t /\ owner[t] = {x} /\ stay[x] = {x}

ContentOK ==
    \A t \in Traces :
        Distinct(content[t]) /\ \A b \in Con[t] : b \in Stored /\ TraceOf[b] = t

LootOK ==
    \A r \in Batches :
        /\ Distinct(loot[r]) /\ \A b \in Lot[r] : b \in Stored /\ TraceOf[b] = TraceOf[r]
        /\ releaser[r] \in {"none", "reading"} => Lot[r] = {}

\* A releaser's copy is sent on once.
OutOK ==
    /\ \A r \in Released : releaser[r] \in {"second", "done"}
    /\ \A i \in DOMAIN out :
          /\ out[i].spans = loot[out[i].by]
          /\ releaser[out[i].by] \in {"second", "done"} /\ out[i].by \notin Released
    /\ \A i, j \in DOMAIN out : out[i].by = out[j].by => i = j

OnceInEvents ==
    \A i, j \in 1 .. Len(events) :
        events[i] = events[j] /\ events[i][1] \in {"received", "expired", "released"} => i = j

\* What a removal may find in the storage.
CopiedOK ==
    \A r \in Batches :
        releaser[r] \in {"read", "firing"} => Con[TraceOf[r]] \subseteq Settled \cup Lot[r]
SecondOK ==
    \A r \in Batches :
        releaser[r] = "second" =>
            \/ Con[TraceOf[r]] \subseteq Settled
            \/ r \in Released /\ Con[TraceOf[r]] \subseteq Settled \cup Lot[r]
RemovedOK ==
    \A j \in 1 .. Len(events), t \in Traces : events[j] = <<"removed", t>> =>
        \A b \in Con[t] :
            \/ b \in Settled
            \/ \E i \in 1 .. (j - 1), r \in Batches : events[i] = <<"released", r>> /\ b \in Lot[r]

\* What was stored in time during the present stay is there, and only there.
InTime ==
    \A t \in InRing : \A b \in Stored \ late : stay[b] = owner[t] =>
        b \in Con[t] /\ t \notin Leave /\ \A r \in Batches : b \notin Lot[r]

\* What was stored in time during one stay is together.
Together ==
    \A a, b \in Stored \ late : stay[a] = stay[b] =>
        /\ \A t \in Traces : a \in Con[t] => b \in Con[t]
        /\ \A r \in Batches : a \in Lot[r] => b \in Lot[r]

\* Spans that were copied and are still stored belong to a trace that is leaving;
\* when it is in the ring, or has another reader, late batches are with them.
TwiceOK ==
    \A r \in Batches :
        Lot[r] \cap Con[TraceOf[r]] # {} =>
            /\ TraceOf[r] \in Leave \/ machine = "stopped"
            /\ TraceOf[r] \in InRing \cup Read => (Con[TraceOf[r]] \cup Lot[r]) \cap late # {}

\* A trace that has a reader, and another one or a new stay.
AgainOK ==
    \A r \in Batches :
        /\ releaser[r] = "reading"
        /\ \/ TraceOf[r] \in InRing
           \/ \E q \in Batches : q # r /\ TraceOf[q] = TraceOf[r] /\ releaser[q] = "reading"
        => Con[TraceOf[r]] = {} \/ Con[TraceOf[r]] \cap late # {}

SharedOK ==
    \A q, r \in Batches :
        q # r /\ Lot[q] \cap Lot[r] # {} => (Lot[q] \cup Lot[r]) \cap late # {}

\* Evicted spans wait for their removal; what meets them is late.
EvictedOK ==
    \A t \in Traces :
        Con[t] \cap discarded # {} =>
            t \in Removed /\ (t \in InRing \cup Read => Con[t] \cap late # {})

\* Without late batches a reader has its trace for itself and finds it stored.
ReaderOK ==
    \A r \in Batches :
        releaser[r] = "reading" /\ (\A b \in late : TraceOf[b] # TraceOf[r]) =>
            /\ Con[TraceOf[r]] # {} /\ TraceOf[r] \notin InRing /\ TraceOf[r] \notin Removed
            /\ \A q \in Batches : q # r /\ TraceOf[q] = TraceOf[r] => releaser[q] \notin Busy

\* About the channel and those who write to it; about the data.
ControlInv ==
    CallOK /\ WorkOK /\ TimerOK /\ OwnerOK /\ OutOK /\ OnceInEvents /\ SecondOK /\ RemovedOK
DataInv ==
    /\ StayOK /\ ContentOK /\ LootOK /\ CopiedOK /\ InTime /\ Together
    /\ TwiceOK /\ AgainOK /\ SharedOK /\ EvictedOK /\ ReaderOK /\ LossIsExplained

GenInv == ControlInv /\ DataInv

LEMMA InitGen == Init => GenInv
  <1> SUFFICES ASSUME Init
               PROVE  GenInv
    OBVIOUS
  <1> USE GroupByTraceAssumption
  <1>1. /\ Len(events) = 0 /\ DOMAIN out = {} /\ DOMAIN work = {} /\ Elements(work) = {}
        /\ Elements(<<>>) = {} /\ Distinct(<<>>)
    BY DEF Init, Elements, Distinct
  <1>2. Pending = {}
    BY <1>1 DEF Pending
  <1>3. Received = {} /\ Expired = {} /\ Released = {} /\ Removed = {}
    BY <1>2 DEF Received, Expired, Released, Removed
  <1>4. InRing = {} /\ Stored = {}
    BY DEF Init, NewRingBuffer, Contains, InRing, Stored
  <1>5. (\A t \in Traces : Con[t] = {}) /\ (\A r \in Batches : Lot[r] = {})
    BY <1>1 DEF Init, Con, Lot
  <1>6. CallOK /\ WorkOK
    BY <1>1, <1>3, <1>4 DEF Init, CallOK, WorkOK, Distinct
  <1>7. TimerOK /\ OwnerOK /\ StayOK
    BY <1>3, <1>4 DEF Init, TimerOK, OwnerOK, StayOK
  <1>8. ContentOK /\ LootOK
    BY <1>1, <1>5 DEF Init, ContentOK, LootOK
  <1>9. OutOK /\ OnceInEvents /\ RemovedOK
    BY <1>1, <1>3 DEF OutOK, OnceInEvents, RemovedOK
  <1>10. CopiedOK /\ SecondOK /\ InTime /\ Together
    BY <1>4 DEF Init, CopiedOK, SecondOK, InTime, Together
  <1>11. TwiceOK /\ AgainOK /\ SharedOK /\ EvictedOK /\ ReaderOK /\ LossIsExplained
    BY <1>5 DEF Init, TwiceOK, AgainOK, SharedOK, EvictedOK, ReaderOK, LossIsExplained
  <1> QED
    BY <1>6, <1>7, <1>8, <1>9, <1>10, <1>11 DEF GenInv, ControlInv, DataInv

-----------------------------------------------------------------------------
(* The channel after a step. *)

\* An event is written to the channel.
LEMMA Appended ==
    ASSUME events \in Seq(EventSet), NEW e, events' = Append(events, e)
    PROVE  /\ Len(events) \in Nat /\ Len(events') = Len(events) + 1
           /\ \A i \in 1 .. Len(events) : events'[i] = events[i]
           /\ events'[Len(events) + 1] = e
           /\ Pending' = Pending \cup {e}
  <1>1. PICK s \in Seq(EventSet), n \in Nat : s = events /\ n = Len(s)
    OBVIOUS
  <1>2. PICK t : t = Append(s, e)
    OBVIOUS
  <1>3. Len(t) = n + 1 /\ (\A i \in 1 .. n : t[i] = s[i]) /\ t[n + 1] = e
    BY <1>1, <1>2
  <1>4. {t[i] : i \in 1 .. (n + 1)} = {s[i] : i \in 1 .. n} \cup {e}
    BY <1>1, <1>3
  <1>5. events' = t
    BY <1>1, <1>2
  <1>6. Pending = {s[i] : i \in 1 .. n} /\ Pending' = {t[i] : i \in 1 .. (n + 1)}
    BY <1>1, <1>3, <1>5 DEF Pending
  <1> QED
    BY <1>1, <1>3, <1>4, <1>5, <1>6

\* The first event is taken from the channel.
LEMMA Taken ==
    ASSUME events \in Seq(EventSet), events # <<>>, events' = Tail(events)
    PROVE  /\ Len(events) \in Nat \ {0} /\ Len(events') = Len(events) - 1
           /\ \A i \in 1 .. Len(events') : i + 1 \in 1 .. Len(events) /\ events'[i] = events[i + 1]
           /\ Head(events) = events[1] /\ Head(events) \in EventSet
           /\ Pending = Pending' \cup {Head(events)}
  <1>1. PICK s \in Seq(EventSet), n \in Nat : s = events /\ n = Len(s) /\ n # 0
    OBVIOUS
  <1>2. PICK t : t = Tail(s)
    OBVIOUS
  <1>3. /\ Len(t) = n - 1 /\ (\A i \in 1 .. (n - 1) : t[i] = s[i + 1]) /\ Head(s) = s[1]
        /\ s[1] \in EventSet
    BY <1>1, <1>2
  <1>4. ASSUME NEW x
        PROVE  (\E i \in 1 .. n : s[i] = x) <=> (\E i \in 1 .. (n - 1) : t[i] = x) \/ x = s[1]
    <2>1. ASSUME NEW i \in 1 .. n, s[i] = x, i # 1
          PROVE  \E j \in 1 .. (n - 1) : t[j] = x
      <3>1. i - 1 \in 1 .. (n - 1) /\ (i - 1) + 1 = i
        BY <2>1
      <3> QED
        BY <1>3, <2>1, <3>1
    <2>2. ASSUME NEW i \in 1 .. (n - 1), t[i] = x
          PROVE  \E j \in 1 .. n : s[j] = x
      <3>1. i + 1 \in 1 .. n
        BY <1>1
      <3> QED
        BY <1>3, <2>2, <3>1
    <2> QED
      BY <1>1, <2>1, <2>2
  <1>5. events' = t
    BY <1>1, <1>2
  <1>6. Pending = {s[i] : i \in 1 .. n} /\ Pending' = {t[i] : i \in 1 .. (n - 1)}
    BY <1>1, <1>3, <1>5 DEF Pending
  <1>7. {s[i] : i \in 1 .. n} = {t[i] : i \in 1 .. (n - 1)} \cup {s[1]}
    BY <1>4
  <1>8. Len(events') = n - 1 /\ \A i \in 1 .. (n - 1) : i + 1 \in 1 .. n /\ events'[i] = s[i + 1]
    BY <1>1, <1>3, <1>5
  <1>9. Head(events) = s[1] /\ Pending = Pending' \cup {Head(events)}
    BY <1>1, <1>3, <1>6, <1>7
  <1> QED
    BY <1>1, <1>3, <1>8, <1>9

\* What is written once is in the channel once.
LEMMA OnceAppended ==
    ASSUME events \in Seq(EventSet), NEW e, events' = Append(events, e), OnceInEvents,
           e[1] \in {"received", "expired", "released"} => e \notin Pending
    PROVE  OnceInEvents'
  <1>1. /\ Len(events) \in Nat /\ Len(events') = Len(events) + 1
        /\ \A i \in 1 .. Len(events) : events'[i] = events[i]
        /\ events'[Len(events) + 1] = e
    BY Appended
  <1>2. SUFFICES ASSUME NEW i \in 1 .. (Len(events) + 1), NEW j \in 1 .. (Len(events) + 1),
                        events'[i] = events'[j], events'[i][1] \in {"received", "expired", "released"}
                 PROVE  i = j
    BY <1>1 DEF OnceInEvents
  <1>3. CASE i = Len(events) + 1 \/ j = Len(events) + 1
    BY <1>1, <1>2, <1>3 DEF Pending
  <1>4. CASE i \in 1 .. Len(events) /\ j \in 1 .. Len(events)
    BY <1>1, <1>2, <1>4 DEF OnceInEvents
  <1> QED
    BY <1>1, <1>3, <1>4

\* When it is taken it is there no more.
LEMMA OnceTaken ==
    ASSUME events \in Seq(EventSet), events # <<>>, events' = Tail(events), OnceInEvents
    PROVE  /\ OnceInEvents'
           /\ Head(events)[1] \in {"received", "expired", "released"} => Head(events) \notin Pending'
  <1>1. PICK n \in Nat \ {0} : n = Len(events) /\ Len(events') = n - 1
    BY Taken
  <1>2. /\ \A i \in 1 .. (n - 1) : i + 1 \in 1 .. n /\ events'[i] = events[i + 1]
        /\ Head(events) = events[1]
    BY <1>1, Taken
  <1>3. OnceInEvents'
    <2>1. SUFFICES ASSUME NEW i \in 1 .. (n - 1), NEW j \in 1 .. (n - 1),
                          events'[i] = events'[j], events'[i][1] \in {"received", "expired", "released"}
                   PROVE  i = j
      BY <1>1 DEF OnceInEvents
    <2>2. i + 1 = j + 1
      BY <1>1, <1>2, <2>1 DEF OnceInEvents
    <2> QED
      BY <2>2
  <1>4. ASSUME Head(events)[1] \in {"received", "expired", "released"},
               NEW i \in 1 .. (n - 1), events'[i] = Head(events)
        PROVE  FALSE
    <2>1. i + 1 \in 1 .. n /\ 1 \in 1 .. n /\ events[i + 1] = events[1]
      BY <1>1, <1>2, <1>4
    <2>2. i + 1 = 1
      BY <1>1, <1>2, <1>4, <2>1 DEF OnceInEvents
    <2> QED
      BY <2>2
  <1>5. Pending' = {events'[i] : i \in 1 .. (n - 1)}
    BY <1>1 DEF Pending
  <1> QED
    BY <1>3, <1>4, <1>5

\* The order of release and removal, when an event is written ...
LEMMA RemovedAppended ==
    ASSUME events \in Seq(EventSet), NEW e, events' = Append(events, e), RemovedOK,
           Lot' = Lot, Settled \subseteq Settled',
           \A t \in Removed : Con'[t] \subseteq Con[t] \cup Settled',
           \A t \in Traces : e = <<"removed", t>> =>
              \A b \in Con'[t] : b \in Settled' \/ \E r \in Released : b \in Lot[r]
    PROVE  RemovedOK'
  <1>1. PICK n \in Nat : n = Len(events) /\ Len(events') = n + 1
    BY Appended
  <1>2. (\A i \in 1 .. n : events'[i] = events[i]) /\ events'[n + 1] = e
    BY <1>1, Appended
  <1>3. ASSUME NEW j \in 1 .. (n + 1), NEW t \in Traces, events'[j] = <<"removed", t>>,
               NEW b \in Con'[t], b \notin Settled'
        PROVE  \E i \in 1 .. (j - 1), r \in Batches : events'[i] = <<"released", r>> /\ b \in Lot'[r]
    <2>1. CASE j = n + 1
      <3>1. \A r \in Released : r \in Batches /\ \E i \in 1 .. n : events'[i] = <<"released", r>>
        BY <1>1, <1>2 DEF Released, Pending
      <3>2. j - 1 = n /\ e = <<"removed", t>>
        <4>1. j - 1 = n
          BY <1>1, <2>1
        <4>2. e = <<"removed", t>>
          BY <1>2, <1>3, <2>1
        <4> QED
          BY <4>1, <4>2
      <3>3. PICK r \in Released : b \in Lot[r]
        BY <1>3, <3>2
      <3>4. PICK i \in 1 .. n : r \in Batches /\ events'[i] = <<"released", r>>
        BY <3>1, <3>3
      <3>5. i \in 1 .. (j - 1) /\ b \in Lot'[r]
        BY <3>2, <3>3, <3>4
      <3> QED
        BY <3>4, <3>5, Zenon
    <2>2. CASE j \in 1 .. n
      <3>1. events[j] = <<"removed", t>> /\ \A i \in 1 .. (j - 1) : events'[i] = events[i]
        BY <1>1, <1>2, <1>3, <2>2
      <3>2. j \in 1 .. Len(events) /\ t \in Removed
        BY <1>1, <2>2, <3>1 DEF Removed, Pending
      <3>3. b \in Con[t] /\ b \notin Settled
        BY <1>3, <3>2
      <3>4. PICK i \in 1 .. (j - 1), r \in Batches : events[i] = <<"released", r>> /\ b \in Lot[r]
        BY <3>1, <3>2, <3>3, Zenon DEF RemovedOK
      <3>5. events'[i] = <<"released", r>> /\ b \in Lot'[r]
        BY <3>1, <3>4
      <3> QED
        BY <3>4, <3>5, Zenon
    <2> QED
      BY <1>1, <2>1, <2>2
  <1>4. 1 .. Len(events') = 1 .. (n + 1)
    BY <1>1
  <1>5. \A j \in 1 .. Len(events'), t \in Traces : events'[j] = <<"removed", t>> =>
          \A b \in Con'[t] :
              \/ b \in Settled'
              \/ \E i \in 1 .. (j - 1), r \in Batches : events'[i] = <<"released", r>> /\ b \in Lot'[r]
    BY <1>3, <1>4, Zenon
  <1> QED
    BY <1>5 DEF RemovedOK

\* ... and when one is taken.
LEMMA RemovedTaken ==
    ASSUME events \in Seq(EventSet), events # <<>>, events' = Tail(events), RemovedOK,
           \A t \in Traces : Con'[t] \subseteq Con[t], Lot' = Lot, Settled \subseteq Settled',
           \A r \in Batches : Head(events) = <<"released", r>> => Lot[r] \subseteq Settled'
    PROVE  RemovedOK'
  <1>1. PICK n \in Nat \ {0} : n = Len(events) /\ Len(events') = n - 1
    BY Taken
  <1>2. /\ \A i \in 1 .. (n - 1) : i + 1 \in 1 .. n /\ events'[i] = events[i + 1]
        /\ Head(events) = events[1]
    BY <1>1, Taken
  <1>3. ASSUME NEW j \in 1 .. (n - 1), NEW t \in Traces, events'[j] = <<"removed", t>>,
               NEW b \in Con'[t], b \notin Settled'
        PROVE  \E i \in 1 .. (j - 1), r \in Batches : events'[i] = <<"released", r>> /\ b \in Lot'[r]
    <2>1. (j + 1) - 1 = j /\ j + 1 \in 1 .. n /\ events[j + 1] = <<"removed", t>>
      BY <1>1, <1>2, <1>3
    <2>2. PICK i \in 1 .. j, r \in Batches : events[i] = <<"released", r>> /\ b \in Lot[r]
      BY <1>1, <1>3, <2>1 DEF RemovedOK
    <2>3. i # 1
      BY <1>2, <1>3, <2>2
    <2>4. i - 1 \in 1 .. (j - 1) /\ i - 1 \in 1 .. (n - 1) /\ (i - 1) + 1 = i
      BY <1>1, <2>2, <2>3
    <2>5. events'[i - 1] = <<"released", r>> /\ b \in Lot'[r]
      BY <1>2, <2>2, <2>4
    <2> QED
      BY <2>4, <2>5, Zenon
  <1>4. 1 .. Len(events') = 1 .. (n - 1)
    BY <1>1
  <1>5. \A j \in 1 .. Len(events'), t \in Traces : events'[j] = <<"removed", t>> =>
          \A b \in Con'[t] :
              \/ b \in Settled'
              \/ \E i \in 1 .. (j - 1), r \in Batches : events'[i] = <<"released", r>> /\ b \in Lot'[r]
    BY <1>3, <1>4, Zenon
  <1> QED
    BY <1>5 DEF RemovedOK

\* ... and when the channel stays: what is added to the storage is settled.
LEMMA RemovedKept ==
    ASSUME events \in Seq(EventSet), events' = events, RemovedOK, Settled \subseteq Settled',
           \A t \in Removed : Con'[t] \subseteq Con[t] \cup Settled',
           \A r \in Released : Lot'[r] = Lot[r]
    PROVE  RemovedOK'
  <1>1. ASSUME NEW j \in 1 .. Len(events'), NEW t \in Traces, events'[j] = <<"removed", t>>,
               NEW b \in Con'[t], b \notin Settled'
        PROVE  \E i \in 1 .. (j - 1), r \in Batches : events'[i] = <<"released", r>> /\ b \in Lot'[r]
    <2>1. t \in Removed
      BY <1>1 DEF Removed, Pending
    <2>2. PICK i \in 1 .. (j - 1), r \in Batches : events[i] = <<"released", r>> /\ b \in Lot[r]
      BY <1>1, <2>1 DEF RemovedOK
    <2>3. PICK n \in Nat : n = Len(events)
      OBVIOUS
    <2>4. i \in 1 .. Len(events)
      BY <1>1, <2>2, <2>3
    <2>5. r \in Released
      BY <2>2, <2>4 DEF Released, Pending
    <2>6. events'[i] = <<"released", r>> /\ b \in Lot'[r]
      BY <2>2, <2>5
    <2> QED
      BY <2>2, <2>6, Zenon
  <1>2. \A j \in 1 .. Len(events'), t \in Traces : events'[j] = <<"removed", t>> =>
          \A b \in Con'[t] :
              \/ b \in Settled'
              \/ \E i \in 1 .. (j - 1), r \in Batches : events'[i] = <<"released", r>> /\ b \in Lot'[r]
    BY <1>1, Zenon
  <1> QED
    BY <1>2 DEF RemovedOK

\* What is in the channel after an event of each type was written.
LEMMA Written ==
    ASSUME events \in Seq(EventSet), NEW e, events' = Append(events, e)
    PROVE  /\ e = <<"stop">> =>
                 Received' = Received /\ Expired' = Expired /\ Released' = Released /\ Removed' = Removed
           /\ \A c \in Calls : e = <<"received", c>> =>
                 /\ Received' = Received \cup {c}
                 /\ Expired' = Expired /\ Released' = Released /\ Removed' = Removed
           /\ \A b \in Batches : e = <<"expired", b>> =>
                 /\ Expired' = Expired \cup {b}
                 /\ Received' = Received /\ Released' = Released /\ Removed' = Removed
           /\ \A b \in Batches : e = <<"released", b>> =>
                 /\ Released' = Released \cup {b}
                 /\ Received' = Received /\ Expired' = Expired /\ Removed' = Removed
           /\ \A t \in Traces : e = <<"removed", t>> =>
                 /\ Removed' = Removed \cup {t}
                 /\ Received' = Received /\ Expired' = Expired /\ Released' = Released
  <1>1. Pending' = Pending \cup {e}
    BY Appended
  <1>2. /\ Received' = {c \in Calls : <<"received", c>> \in Pending \cup {e}}
        /\ Expired' = {b \in Batches : <<"expired", b>> \in Pending \cup {e}}
        /\ Released' = {b \in Batches : <<"released", b>> \in Pending \cup {e}}
        /\ Removed' = {t \in Traces : <<"removed", t>> \in Pending \cup {e}}
    BY <1>1 DEF Received, Expired, Released, Removed
  <1>3. CASE e = <<"stop">>
    BY <1>2, <1>3 DEF Received, Expired, Released, Removed
  <1>4. ASSUME NEW c \in Calls, e = <<"received", c>>
        PROVE  /\ Received' = Received \cup {c}
               /\ Expired' = Expired /\ Released' = Released /\ Removed' = Removed
    BY <1>2, <1>4 DEF Received, Expired, Released, Removed
  <1>5. ASSUME NEW b \in Batches, e = <<"expired", b>>
        PROVE  /\ Expired' = Expired \cup {b}
               /\ Received' = Received /\ Released' = Released /\ Removed' = Removed
    BY <1>2, <1>5 DEF Received, Expired, Released, Removed
  <1>6. ASSUME NEW b \in Batches, e = <<"released", b>>
        PROVE  /\ Released' = Released \cup {b}
               /\ Received' = Received /\ Expired' = Expired /\ Removed' = Removed
    BY <1>2, <1>6 DEF Received, Expired, Released, Removed
  <1>7. ASSUME NEW t \in Traces, e = <<"removed", t>>
        PROVE  /\ Removed' = Removed \cup {t}
               /\ Received' = Received /\ Expired' = Expired /\ Released' = Released
    BY <1>2, <1>7 DEF Received, Expired, Released, Removed
  <1> QED
    BY <1>3, <1>4, <1>5, <1>6, <1>7

\* What is in the channel after an event of each type was taken.
LEMMA Took ==
    ASSUME events \in Seq(EventSet), events # <<>>, events' = Tail(events), OnceInEvents
    PROVE  /\ Received' \subseteq Received /\ Expired' \subseteq Expired
           /\ Released' \subseteq Released /\ Removed' \subseteq Removed
           /\ Head(events)[1] # "released" => Released' = Released
           /\ \A t \in Traces : Head(events) # <<"removed", t>> => (t \in Removed' <=> t \in Removed)
           /\ \A c \in Calls : Head(events) = <<"received", c>> =>
                 c \in Received /\ c \notin Received'
           /\ \A b \in Batches : Head(events) = <<"expired", b>> =>
                 b \in Expired /\ b \notin Expired'
           /\ \A b \in Batches : Head(events) = <<"released", b>> =>
                 b \in Released /\ Released' = Released \ {b}
           /\ \A t \in Traces : Head(events) = <<"removed", t>> => t \in Removed
  <1>1. PICK h : h = Head(events)
    OBVIOUS
  <1>2. Pending = Pending' \cup {h}
    BY <1>1, Taken
  <1>3. h[1] \in {"received", "expired", "released"} => h \notin Pending'
    BY <1>1, OnceTaken
  <1>4. PICK P : P = Pending'
    OBVIOUS
  <1>5. /\ Received' = {c \in Calls : <<"received", c>> \in P}
        /\ Expired' = {b \in Batches : <<"expired", b>> \in P}
        /\ Released' = {b \in Batches : <<"released", b>> \in P}
        /\ Removed' = {t \in Traces : <<"removed", t>> \in P}
    BY <1>4 DEF Received, Expired, Released, Removed
  <1>6. /\ Received' \subseteq Received /\ Expired' \subseteq Expired
        /\ Released' \subseteq Released /\ Removed' \subseteq Removed
    BY <1>2, <1>4, <1>5 DEF Received, Expired, Released, Removed
  <1>7. /\ h[1] # "released" => Released' = Released
        /\ \A t \in Traces : h # <<"removed", t>> => (t \in Removed' <=> t \in Removed)
    BY <1>2, <1>4, <1>5 DEF Released, Removed
  <1>8. ASSUME NEW c \in Calls, h = <<"received", c>>
        PROVE  c \in Received /\ c \notin Received'
    BY <1>2, <1>3, <1>4, <1>5, <1>8 DEF Received
  <1>9. ASSUME NEW b \in Batches, h = <<"released", b>>
        PROVE  b \in Released /\ Released' = Released \ {b}
    BY <1>2, <1>3, <1>4, <1>5, <1>9 DEF Released
  <1>10. ASSUME NEW b \in Batches, h = <<"expired", b>>
         PROVE  b \in Expired /\ b \notin Expired'
    BY <1>2, <1>3, <1>4, <1>5, <1>10 DEF Expired
  <1>11. \A t \in Traces : h = <<"removed", t>> => t \in Removed
    BY <1>2 DEF Removed
  <1> QED
    BY <1>1, <1>6, <1>7, <1>8, <1>9, <1>10, <1>11

\* The event that is taken carries what its type says.
LEMMA HeadEvent ==
    ASSUME RingInv, events # <<>>
    PROVE  /\ Head(events)[1] = "received" => \E c \in Calls : Head(events) = <<"received", c>>
           /\ Head(events)[1] = "expired" => \E b \in Batches : Head(events) = <<"expired", b>>
           /\ Head(events)[1] = "released" => \E b \in Batches : Head(events) = <<"released", b>>
           /\ Head(events)[1] = "removed" => \E t \in Traces : Head(events) = <<"removed", t>>
  <1>1. PICK h \in EventSet : h = Head(events)
    BY DEF RingInv
  <1> QED
    BY <1>1 DEF EventSet

-----------------------------------------------------------------------------
(* The steps.  What a step leaves alone first. *)

LEMMA ChannelKept ==
    ASSUME events' = events
    PROVE  /\ Received' = Received /\ Expired' = Expired /\ Released' = Released /\ Removed' = Removed
           /\ (OnceInEvents => OnceInEvents')
  BY DEF Pending, Received, Expired, Released, Removed, OnceInEvents

LEMMA RingKept == ASSUME ring' = ring PROVE InRing' = InRing
  BY DEF InRing

LEMMA StorageKept == ASSUME content' = content PROVE Con' = Con
  BY DEF Con

LEMMA LootKept == ASSUME loot' = loot PROVE Lot' = Lot
  BY DEF Lot

LEMMA StoredKept == ASSUME stay' = stay PROVE Stored' = Stored
  BY DEF Stored

LEMMA SettledKept ==
    ASSUME out' = out, rejected' = rejected, late' = late, discarded' = discarded
    PROVE  Delivered' = Delivered /\ Settled' = Settled
  <1>1. Delivered' = Delivered
    BY DEF Delivered
  <1> QED
    BY <1>1 DEF Settled

LEMMA ReadersKept ==
    ASSUME \A r \in Batches : releaser'[r] = "reading" <=> releaser[r] = "reading"
    PROVE  Read' = Read
  BY DEF Read

LEMMA HeldKept ==
    ASSUME \A r \in Batches : releaser'[r] \in Busy <=> releaser[r] \in Busy
    PROVE  Held' = Held
  BY DEF Held

\* Every delivery has a releaser.
LEMMA Releasers ==
    ASSUME Types
    PROVE  \A i \in DOMAIN out : out[i].by \in Batches
  <1>1. PICK q \in Seq(Deliveries) : q = out
    BY DEF Types
  <1>2. \A i \in DOMAIN q : q[i] \in Deliveries
    OBVIOUS
  <1>3. \A x \in Deliveries : x.by \in Batches
    BY DEF Deliveries
  <1> QED
    BY <1>1, <1>2, <1>3

\* The data, when storage, copies and ring are left alone and releasers go on
\* with what they have.
LEMMA DataKept ==
    ASSUME DataInv, GroupByTraceAssumption,
           ring' = ring, content' = content, loot' = loot, stay' = stay, late' = late,
           owner' = owner, discarded' = discarded, lost' = lost, leaked' = leaked,
           Settled \subseteq Settled', rejected \subseteq rejected',
           \A r \in Batches :
              /\ releaser'[r] = "reading" <=> releaser[r] = "reading"
              /\ releaser'[r] \in {"none", "reading"} => releaser[r] \in {"none", "reading"}
              /\ releaser'[r] \in {"read", "firing"} => releaser[r] \in {"read", "firing"}
              /\ releaser'[r] \in Busy => releaser[r] \in Busy,
           Leave' \subseteq Leave, Leave' = Leave \/ machine' = "stopped",
           machine = "stopped" => machine' = "stopped",
           Removed \subseteq Removed',
           \A t \in Removed' : t \in Removed \/
              \E q \in Batches : TraceOf[q] = t /\ releaser[q] \in Busy \ {"reading"}
    PROVE  DataInv'
  <1>1. InRing' = InRing /\ Con' = Con /\ Lot' = Lot /\ Stored' = Stored /\ Read' = Read
    BY RingKept, StorageKept, LootKept, StoredKept, ReadersKept
  <1>2. StayOK' /\ ContentOK' /\ LootOK'
    <2>1. StayOK'
      <3>1. late' \subseteq Stored' /\ discarded' \subseteq Stored'
        BY <1>1 DEF DataInv, StayOK
      <3>2. \A b \in Batches : stay'[b] \subseteq Stored'
        BY <1>1 DEF DataInv, StayOK
      <3>3. \A t \in InRing' : \E x \in Stored' :
              TraceOf[x] = t /\ owner'[t] = {x} /\ stay'[x] = {x}
        <4>1. SUFFICES ASSUME NEW t \in InRing
                       PROVE  \E x \in Stored : TraceOf[x] = t /\ owner'[t] = {x} /\ stay'[x] = {x}
          BY <1>1
        <4>2. StayOK
          BY DEF DataInv
        <4>3. PICK x \in Stored : TraceOf[x] = t /\ owner[t] = {x} /\ stay[x] = {x}
          BY <4>2 DEF StayOK
        <4>4. owner'[t] = {x} /\ stay'[x] = {x}
          BY <4>3
        <4> QED
          BY <4>3, <4>4
      <3> QED
        BY <3>1, <3>2, <3>3 DEF StayOK
    <2>2. ContentOK'
      BY <1>1 DEF DataInv, ContentOK
    <2>3. LootOK'
      BY <1>1 DEF DataInv, LootOK
    <2> QED
      BY <2>1, <2>2, <2>3
  <1>3. CopiedOK'
    BY <1>1 DEF DataInv, CopiedOK
  <1>4. InTime' /\ Together'
    BY <1>1 DEF DataInv, InTime, Together
  <1>5. TwiceOK'
    BY <1>1 DEF DataInv, TwiceOK
  <1>6. AgainOK' /\ SharedOK'
    BY <1>1 DEF DataInv, AgainOK, SharedOK
  <1>7. EvictedOK'
    BY <1>1 DEF DataInv, EvictedOK
  <1>8. ReaderOK'
    BY <1>1, GroupByTraceAssumption DEF DataInv, ReaderOK
  <1>9. LossIsExplained'
    BY DEF DataInv, LossIsExplained
  <1> QED
    BY <1>2, <1>3, <1>4, <1>5, <1>6, <1>7, <1>8, <1>9 DEF DataInv

\* Start, Close and the first halves of fire.
LEMMA QuietGen ==
    ASSUME RingInv, Types, GenInv,
           \/ Start \/ Close \/ UNCHANGED vars
           \/ \E c \in Calls : ConsumeTraces(c)
           \/ \E b \in Batches : TimerFires(b) \/ FireReleased(b)
    PROVE  GenInv'
  <1> USE GroupByTraceAssumption
  <1>1. /\ ring' = ring /\ content' = content /\ leaked' = leaked /\ events' = events
        /\ work' = work /\ loot' = loot /\ out' = out /\ owner' = owner /\ evicted' = evicted
        /\ rejected' = rejected /\ lost' = lost /\ stay' = stay /\ late' = late
        /\ discarded' = discarded
    BY DEF Start, Close, vars, ConsumeTraces, TimerFires, FireReleased
  <1>2. \A b \in Batches :
          /\ timer'[b] # "none" <=> timer[b] # "none"
          /\ timer'[b] \in {"armed", "firing"} => timer[b] \in {"armed", "firing"}
          /\ timer[b] = "done" => timer'[b] = "done"
    BY DEF Types, Start, Close, vars, ConsumeTraces, TimerFires, FireReleased, Begin
  <1>3. \A c \in Calls : call[c] = "done" => call'[c] = "done"
    BY DEF Types, Start, Close, vars, ConsumeTraces, TimerFires, FireReleased
  <1>4. \A b \in Batches :
          \/ releaser'[b] = releaser[b]
          \/ releaser[b] = "read" /\ releaser'[b] = "firing"
          \/ releaser[b] = "read" /\ releaser'[b] = "done" /\ machine' = "stopped"
    BY DEF Types, Start, Close, vars, ConsumeTraces, TimerFires, FireReleased, Begin
  <1>5. /\ machine = "stopped" => machine' = "stopped"
        /\ machine = "running" => machine' = "running"
    BY DEF Types, Start, Close, vars, ConsumeTraces, TimerFires, FireReleased, Begin
  <1>6. /\ Received' = Received /\ Expired' = Expired /\ Released' = Released /\ Removed' = Removed
        /\ InRing' = InRing /\ Con' = Con /\ Lot' = Lot /\ Stored' = Stored
        /\ Delivered' = Delivered /\ Settled' = Settled
    BY <1>1, ChannelKept, RingKept, StorageKept, LootKept, StoredKept, SettledKept
  <1>7. Held' \subseteq Held /\ (Held' = Held \/ machine' = "stopped")
    BY <1>4 DEF Held, Busy
  <1>8. Leave' \subseteq Leave /\ (Leave' = Leave \/ machine' = "stopped")
    BY <1>6, <1>7 DEF Leave
  <1>9. DataInv'
    BY <1>1, <1>4, <1>5, <1>6, <1>8, DataKept DEF GenInv, Busy
  <1>10. CallOK' /\ WorkOK'
    BY <1>1, <1>3, <1>5, <1>6 DEF GenInv, ControlInv, CallOK, WorkOK
  <1>11. TimerOK' /\ OwnerOK'
    BY <1>1, <1>2, <1>4, <1>6 DEF GenInv, ControlInv, TimerOK, OwnerOK
  <1>12. OutOK'
    BY <1>1, <1>4, <1>6, Releasers DEF GenInv, ControlInv, OutOK, Released
  <1>13. OnceInEvents' /\ RemovedOK'
    BY <1>1, <1>6, ChannelKept, RemovedKept DEF GenInv, ControlInv, RingInv, Removed, Released
  <1>14. SecondOK'
    BY <1>4, <1>6 DEF GenInv, ControlInv, SecondOK
  <1> QED
    BY <1>9, <1>10, <1>11, <1>12, <1>13, <1>14 DEF GenInv, ControlInv

\* The second halves of fire, and Shutdown.
LEMMA SendGen ==
    ASSUME RingInv, Types, GenInv,
           \/ Shutdown
           \/ \E c \in Calls : SendReceived(c)
           \/ \E b \in Batches : SendExpired(b) \/ SendReleased(b) \/ SendRemoved(b)
    PROVE  GenInv'
  <1> USE GroupByTraceAssumption
  <1>1. /\ ring' = ring /\ content' = content /\ leaked' = leaked /\ machine' = machine
        /\ work' = work /\ loot' = loot /\ out' = out /\ owner' = owner /\ evicted' = evicted
        /\ rejected' = rejected /\ lost' = lost /\ stay' = stay /\ late' = late
        /\ discarded' = discarded
    BY DEF Shutdown, SendReceived, SendExpired, SendReleased, SendRemoved
  <1>2. /\ InRing' = InRing /\ Con' = Con /\ Lot' = Lot /\ Stored' = Stored
        /\ Delivered' = Delivered /\ Settled' = Settled
    BY <1>1, RingKept, StorageKept, LootKept, StoredKept, SettledKept
  <1>3. events \in Seq(EventSet) /\ OnceInEvents /\ RemovedOK /\ DataInv
    BY DEF RingInv, GenInv, ControlInv
  <1>4. \A i \in DOMAIN out : out[i].by \in Batches
    BY Releasers
  <1>5. WorkOK'
    BY <1>1, <1>2 DEF GenInv, ControlInv, WorkOK
  <1>6. CASE Shutdown
    <2>1. PICK e : e = <<"stop">> /\ events' = Append(events, e)
      BY <1>6 DEF Shutdown
    <2>2. call' = call /\ timer' = timer /\ releaser' = releaser
      BY <1>6 DEF Shutdown
    <2>3. Received' = Received /\ Expired' = Expired /\ Released' = Released /\ Removed' = Removed
      BY <1>3, <2>1, Written
    <2>4. e[1] \notin {"received", "expired", "released"} /\ \A t : e # <<"removed", t>>
      BY <2>1
    <2>5. OnceInEvents' /\ RemovedOK'
      BY <1>2, <1>3, <2>1, <2>4, OnceAppended, RemovedAppended
    <2>6. Leave' = Leave
      BY <2>2, <2>3, HeldKept DEF Leave
    <2>7. DataInv'
      BY <1>1, <1>2, <1>3, <2>2, <2>3, <2>6, DataKept
    <2>8. CallOK' /\ TimerOK' /\ OwnerOK'
      BY <1>1, <1>2, <2>2, <2>3 DEF GenInv, ControlInv, CallOK, TimerOK, OwnerOK
    <2>9. OutOK' /\ SecondOK'
      BY <1>1, <1>2, <2>2, <2>3 DEF GenInv, ControlInv, OutOK, SecondOK
    <2> QED
      BY <1>5, <2>5, <2>7, <2>8, <2>9 DEF GenInv, ControlInv
  <1>7. ASSUME NEW c \in Calls, SendReceived(c)
        PROVE  GenInv'
    <2>1. PICK e : e = <<"received", c>> /\ events' = Append(events, e)
      BY <1>7 DEF SendReceived
    <2>2. /\ call[c] = "firing" /\ call' = [call EXCEPT ![c] = "done"]
          /\ timer' = timer /\ releaser' = releaser
      BY <1>7 DEF SendReceived
    <2>3. /\ Received' = Received \cup {c}
          /\ Expired' = Expired /\ Released' = Released /\ Removed' = Removed
      BY <1>3, <2>1, Written
    <2>4. e \notin Pending /\ \A t : e # <<"removed", t>>
      <3>1. c \notin Received
        BY <2>2 DEF GenInv, ControlInv, CallOK
      <3> QED
        BY <2>1, <3>1 DEF Received
    <2>5. OnceInEvents' /\ RemovedOK'
      BY <1>2, <1>3, <2>1, <2>4, OnceAppended, RemovedAppended
    <2>6. Leave' = Leave
      BY <2>2, <2>3, HeldKept DEF Leave
    <2>7. DataInv'
      BY <1>1, <1>2, <1>3, <2>2, <2>3, <2>6, DataKept
    <2>8. CallOK'
      BY <1>1, <1>2, <2>2, <2>3 DEF GenInv, ControlInv, CallOK, Types
    <2>9. TimerOK' /\ OwnerOK'
      BY <1>1, <1>2, <2>2, <2>3 DEF GenInv, ControlInv, TimerOK, OwnerOK
    <2>10. OutOK' /\ SecondOK'
      BY <1>1, <1>2, <2>2, <2>3 DEF GenInv, ControlInv, OutOK, SecondOK
    <2> QED
      BY <1>5, <2>5, <2>7, <2>8, <2>9, <2>10 DEF GenInv, ControlInv
  <1>8. ASSUME NEW b \in Batches, SendExpired(b)
        PROVE  GenInv'
    <2>1. PICK e : e = <<"expired", b>> /\ events' = Append(events, e)
      BY <1>8 DEF SendExpired
    <2>2. /\ timer[b] = "firing" /\ timer' = [timer EXCEPT ![b] = "done"]
          /\ call' = call /\ releaser' = releaser
      BY <1>8 DEF SendExpired
    <2>3. /\ Expired' = Expired \cup {b}
          /\ Received' = Received /\ Released' = Released /\ Removed' = Removed
      BY <1>3, <2>1, Written
    <2>4. e \notin Pending /\ \A t : e # <<"removed", t>>
      <3>1. b \notin Expired
        BY <2>2 DEF GenInv, ControlInv, TimerOK
      <3> QED
        BY <2>1, <3>1 DEF Expired
    <2>5. OnceInEvents' /\ RemovedOK'
      BY <1>2, <1>3, <2>1, <2>4, OnceAppended, RemovedAppended
    <2>6. Leave' = Leave
      BY <2>2, <2>3, HeldKept DEF Leave
    <2>7. DataInv'
      BY <1>1, <1>2, <1>3, <2>2, <2>3, <2>6, DataKept
    <2>8. CallOK'
      BY <1>1, <1>2, <2>2, <2>3 DEF GenInv, ControlInv, CallOK
    <2>9. timer'[b] = "done" /\ \A a \in Batches : a # b => timer'[a] = timer[a]
      BY <2>2 DEF Types
    <2>10. TimerOK' /\ OwnerOK'
      BY <1>1, <1>2, <2>2, <2>3, <2>9 DEF GenInv, ControlInv, TimerOK, OwnerOK
    <2>11. OutOK' /\ SecondOK'
      BY <1>1, <1>2, <2>2, <2>3 DEF GenInv, ControlInv, OutOK, SecondOK
    <2> QED
      BY <1>5, <2>5, <2>7, <2>8, <2>10, <2>11 DEF GenInv, ControlInv
  <1>9. ASSUME NEW b \in Batches, SendReleased(b)
        PROVE  GenInv'
    <2>1. PICK e : e = <<"released", b>> /\ events' = Append(events, e)
      BY <1>9 DEF SendReleased
    <2>2. /\ releaser[b] = "firing" /\ releaser' = [releaser EXCEPT ![b] = "second"]
          /\ call' = call /\ timer' = timer
      BY <1>9 DEF SendReleased
    <2>3. /\ Released' = Released \cup {b}
          /\ Received' = Received /\ Expired' = Expired /\ Removed' = Removed
      BY <1>3, <2>1, Written
    <2>4. e \notin Pending /\ \A t : e # <<"removed", t>>
      <3>1. b \notin Released
        BY <2>2 DEF GenInv, ControlInv, OutOK
      <3> QED
        BY <2>1, <3>1 DEF Released
    <2>5. OnceInEvents' /\ RemovedOK'
      BY <1>2, <1>3, <2>1, <2>4, OnceAppended, RemovedAppended
    <2>6. releaser'[b] = "second" /\ \A a \in Batches : a # b => releaser'[a] = releaser[a]
      BY <2>2 DEF Types
    <2>7. Leave' = Leave
      <3>1. \A r \in Batches : releaser'[r] \in Busy <=> releaser[r] \in Busy
        BY <2>2, <2>6 DEF Busy
      <3> QED
        BY <2>3, <3>1, HeldKept DEF Leave
    <2>8. DataInv'
      BY <1>1, <1>2, <1>3, <2>2, <2>3, <2>6, <2>7, DataKept DEF Busy
    <2>9. CallOK' /\ TimerOK' /\ OwnerOK'
      BY <1>1, <1>2, <2>2, <2>3, <2>6 DEF GenInv, ControlInv, CallOK, TimerOK, OwnerOK
    <2>10. OutOK'
      BY <1>1, <1>4, <2>2, <2>3, <2>6 DEF GenInv, ControlInv, OutOK, Released
    <2>11. SecondOK'
      BY <1>2, <2>2, <2>3, <2>6 DEF GenInv, ControlInv, DataInv, CopiedOK, SecondOK
    <2> QED
      BY <1>5, <2>5, <2>8, <2>9, <2>10, <2>11 DEF GenInv, ControlInv
  <1>10. ASSUME NEW b \in Batches, SendRemoved(b)
         PROVE  GenInv'
    <2>1. PICK e : e = <<"removed", TraceOf[b]>> /\ events' = Append(events, e)
      BY <1>10 DEF SendRemoved
    <2>2. /\ releaser[b] = "second" /\ releaser' = [releaser EXCEPT ![b] = "done"]
          /\ call' = call /\ timer' = timer
      BY <1>10 DEF SendRemoved
    <2>3. PICK u \in Traces : u = TraceOf[b]
      OBVIOUS
    <2>4. /\ Removed' = Removed \cup {u}
          /\ Received' = Received /\ Expired' = Expired /\ Released' = Released
      BY <1>3, <2>1, <2>3, Written
    <2>5. \A t \in Traces : e = <<"removed", t>> =>
            \A a \in Con[t] : a \in Settled \/ \E r \in Released : a \in Lot[r]
      BY <2>1, <2>2, <2>3 DEF GenInv, ControlInv, SecondOK
    <2>6. e[1] \notin {"received", "expired", "released"}
      BY <2>1
    <2>7. OnceInEvents' /\ RemovedOK'
      BY <1>2, <1>3, <2>1, <2>5, <2>6, OnceAppended, RemovedAppended
    <2>8. releaser'[b] = "done" /\ \A a \in Batches : a # b => releaser'[a] = releaser[a]
      BY <2>2 DEF Types
    <2>9. Leave' = Leave
      BY <2>2, <2>3, <2>4, <2>8 DEF Leave, Held, Busy
    <2>10. DataInv'
      BY <1>1, <1>2, <1>3, <2>2, <2>3, <2>4, <2>8, <2>9, DataKept DEF Busy
    <2>11. CallOK' /\ TimerOK' /\ OwnerOK'
      BY <1>1, <1>2, <2>2, <2>4, <2>8 DEF GenInv, ControlInv, CallOK, TimerOK, OwnerOK
    <2>12. OutOK'
      BY <1>1, <1>4, <2>2, <2>4, <2>8 DEF GenInv, ControlInv, OutOK, Released
    <2>13. SecondOK'
      BY <1>2, <2>2, <2>4, <2>8 DEF GenInv, ControlInv, SecondOK
    <2> QED
      BY <1>5, <2>7, <2>10, <2>11, <2>12, <2>13 DEF GenInv, ControlInv
  <1> QED
    BY <1>6, <1>7, <1>8, <1>9, <1>10


\* The machine takes an event that is about no releaser and no removal.
LEMMA TookOther ==
    ASSUME RingInv, GenInv, events # <<>>, events' = Tail(events),
           Head(events)[1] \notin {"released", "removed"},
           Con' = Con, Lot' = Lot, Settled' = Settled
    PROVE  /\ Received' \subseteq Received /\ Expired' \subseteq Expired
           /\ Released' = Released /\ Removed' = Removed
           /\ OnceInEvents' /\ RemovedOK'
  <1>1. events \in Seq(EventSet) /\ OnceInEvents /\ RemovedOK
    BY DEF RingInv, GenInv, ControlInv
  <1>2. (\A t : Head(events) # <<"removed", t>>) /\ (\A r : Head(events) # <<"released", r>>)
    OBVIOUS
  <1>3. Removed' = Removed
    <2>1. \A t \in Traces : t \in Removed' <=> t \in Removed
      BY <1>1, <1>2, Took
    <2> QED
      BY <2>1 DEF Removed
  <1>4. /\ Received' \subseteq Received /\ Expired' \subseteq Expired /\ Released' = Released
    BY <1>1, Took
  <1>5. OnceInEvents'
    BY <1>1, OnceTaken
  <1>6. RemovedOK'
    BY <1>1, <1>2, RemovedTaken
  <1> QED
    BY <1>3, <1>4, <1>5, <1>6

\* The stop event and the next payload.
LEMMA StopReceivedGen ==
    ASSUME RingInv, Types, GenInv, OnStop \/ OnTraceReceived
    PROVE  GenInv'
  <1> USE GroupByTraceAssumption
  <1>1. /\ ring' = ring /\ content' = content /\ leaked' = leaked /\ loot' = loot /\ out' = out
        /\ owner' = owner /\ evicted' = evicted /\ rejected' = rejected /\ lost' = lost
        /\ stay' = stay /\ late' = late /\ discarded' = discarded
        /\ call' = call /\ timer' = timer /\ releaser' = releaser
    BY DEF OnStop, OnTraceReceived
  <1>2. /\ events # <<>> /\ events' = Tail(events) /\ machine = "running" /\ work = <<>>
        /\ Head(events)[1] \notin {"released", "removed"}
    BY DEF OnStop, OnTraceReceived, Takes
  <1>3. /\ InRing' = InRing /\ Con' = Con /\ Lot' = Lot /\ Stored' = Stored
        /\ Delivered' = Delivered /\ Settled' = Settled
    BY <1>1, RingKept, StorageKept, LootKept, StoredKept, SettledKept
  <1>4. /\ Received' \subseteq Received /\ Expired' \subseteq Expired
        /\ Released' = Released /\ Removed' = Removed
        /\ OnceInEvents' /\ RemovedOK'
    BY <1>2, <1>3, TookOther
  <1>5. Leave' = Leave
    BY <1>1, <1>4, HeldKept DEF Leave
  <1>6. DataInv'
    BY <1>1, <1>2, <1>3, <1>4, <1>5, DataKept DEF GenInv
  <1>7. TimerOK' /\ OwnerOK'
    BY <1>1, <1>3, <1>4 DEF GenInv, ControlInv, TimerOK, OwnerOK
  <1>8. OutOK' /\ SecondOK'
    BY <1>1, <1>3, <1>4 DEF GenInv, ControlInv, OutOK, SecondOK
  <1>9. CallOK' /\ WorkOK'
    <2>1. CASE OnStop
      <3>1. work' = work
        BY <2>1 DEF OnStop
      <3> QED
        BY <1>1, <1>2, <1>3, <1>4, <3>1 DEF GenInv, ControlInv, CallOK, WorkOK
    <2>2. CASE OnTraceReceived
      <3>1. PICK c \in Calls : Head(events) = <<"received", c>>
        BY <1>2, <2>2, HeadEvent DEF OnTraceReceived, Takes
      <3>2. work' = Payload[c] /\ machine' = "running"
        BY <1>2, <2>2, <3>1 DEF OnTraceReceived
      <3>3. c \in Received /\ c \notin Received'
        BY <1>2, <3>1, Took DEF RingInv, GenInv, ControlInv
      <3>4. Distinct(Payload[c])
        BY BatchAssumption DEF Distinct
      <3>5. \A d \in Calls : d # c => \A b \in Elements(Payload[d]) : b \notin Elements(Payload[c])
        BY BatchAssumption
      <3>6. WorkOK'
        BY <1>3, <3>2, <3>3, <3>4 DEF GenInv, ControlInv, CallOK, WorkOK
      <3>7. CallOK'
        BY <1>1, <1>3, <1>4, <3>2, <3>3, <3>5 DEF GenInv, ControlInv, CallOK
      <3> QED
        BY <3>6, <3>7
    <2> QED
      BY <2>1, <2>2
  <1> QED
    BY <1>4, <1>6, <1>7, <1>8, <1>9 DEF GenInv, ControlInv

\* What was delivered after one more delivery.
LEMMA DeliveredAppended ==
    ASSUME out \in Seq(Deliveries), NEW d \in Deliveries, out' = Append(out, d)
    PROVE  /\ Len(out) \in Nat /\ DOMAIN out = 1 .. Len(out) /\ DOMAIN out' = 1 .. (Len(out) + 1)
           /\ \A i \in 1 .. Len(out) : out'[i] = out[i]
           /\ out'[Len(out) + 1] = d
           /\ Delivered' = Delivered \cup Elements(d.spans)
  <1>1. PICK q \in Seq(Deliveries), n \in Nat : q = out /\ n = Len(q)
    OBVIOUS
  <1>2. PICK r : r = Append(q, d)
    OBVIOUS
  <1>3. /\ DOMAIN q = 1 .. n /\ DOMAIN r = 1 .. (n + 1)
        /\ (\A i \in 1 .. n : r[i] = q[i]) /\ r[n + 1] = d
    BY <1>1, <1>2
  <1>4. out' = r
    BY <1>1, <1>2
  <1>5. Delivered = UNION {Elements(q[i].spans) : i \in 1 .. n}
    BY <1>1, <1>3 DEF Delivered
  <1>6. Delivered' = UNION {Elements(r[i].spans) : i \in 1 .. (n + 1)}
    BY <1>3, <1>4 DEF Delivered
  <1>7. ASSUME NEW x
        PROVE  (\E i \in 1 .. (n + 1) : x \in Elements(r[i].spans))
                   <=> (\E i \in 1 .. n : x \in Elements(q[i].spans)) \/ x \in Elements(d.spans)
    <2>1. 1 .. (n + 1) = (1 .. n) \cup {n + 1}
      BY <1>1
    <2> QED
      BY <1>3, <2>1, Zenon
  <1>8. Delivered' = Delivered \cup Elements(d.spans)
    BY <1>5, <1>6, <1>7
  <1> QED
    BY <1>1, <1>3, <1>4, <1>8

\* A trace is sent on, whether the next consumer takes it or not.
LEMMA ReleasedGen ==
    ASSUME RingInv, Types, GenInv, OnTraceReleased \/ OnTraceReleasedFails
    PROVE  GenInv'
  <1> USE GroupByTraceAssumption
  <1>1. /\ ring' = ring /\ content' = content /\ leaked' = leaked /\ loot' = loot
        /\ owner' = owner /\ evicted' = evicted /\ lost' = lost /\ work' = work
        /\ stay' = stay /\ late' = late /\ discarded' = discarded /\ machine' = machine
        /\ call' = call /\ timer' = timer /\ releaser' = releaser
    BY DEF OnTraceReleased, OnTraceReleasedFails
  <1>2. events # <<>> /\ events' = Tail(events) /\ Head(events)[1] = "released"
    BY DEF OnTraceReleased, OnTraceReleasedFails, Takes
  <1>3. PICK b \in Batches : Head(events) = <<"released", b>>
    BY <1>2, HeadEvent
  <1>4. InRing' = InRing /\ Con' = Con /\ Lot' = Lot /\ Stored' = Stored
    BY <1>1, RingKept, StorageKept, LootKept, StoredKept
  <1>5. events \in Seq(EventSet) /\ OnceInEvents /\ RemovedOK /\ OutOK /\ DataInv
    BY DEF RingInv, GenInv, ControlInv
  <1>6. /\ b \in Released /\ Released' = Released \ {b}
        /\ Received' \subseteq Received /\ Expired' \subseteq Expired
    BY <1>2, <1>3, <1>5, Took
  <1>7. Removed' = Removed
    <2>1. \A t \in Traces : Head(events) # <<"removed", t>>
      BY <1>2
    <2>2. \A t \in Traces : t \in Removed' <=> t \in Removed
      BY <1>2, <1>5, <2>1, Took
    <2> QED
      BY <2>2 DEF Removed
  <1>8. releaser[b] \in {"second", "done"}
    BY <1>5, <1>6 DEF OutOK
  <1>9. /\ Settled' = Settled \cup Lot[b] /\ rejected \subseteq rejected'
        /\ OutOK'
    <2>1. CASE OnTraceReleased
      <3>1. PICK d \in Deliveries : d = [by |-> b, spans |-> loot[b]] /\ out' = Append(out, d)
        BY <1>3, <2>1 DEF OnTraceReleased, Types, Deliveries
      <3>2. d.by = b /\ d.spans = loot[b]
        BY <3>1
      <3>3. rejected' = rejected
        BY <2>1 DEF OnTraceReleased
      <3>4. out \in Seq(Deliveries)
        BY DEF Types
      <3>5. PICK n \in Nat : /\ DOMAIN out = 1 .. n /\ DOMAIN out' = 1 .. (n + 1)
                             /\ (\A i \in 1 .. n : out'[i] = out[i]) /\ out'[n + 1] = d
        BY <3>1, <3>4, DeliveredAppended
      <3>6. Delivered' = Delivered \cup Lot[b]
        BY <3>1, <3>2, <3>4, DeliveredAppended DEF Lot
      <3>7. 1 .. (n + 1) = (1 .. n) \cup {n + 1}
        BY <3>5
      <3>8. /\ \A i \in 1 .. n : /\ out'[i] = out[i] /\ out[i].spans = loot[out[i].by]
                                 /\ releaser[out[i].by] \in {"second", "done"}
                                 /\ out[i].by \notin Released
            /\ \A i, j \in 1 .. n : out[i].by = out[j].by => i = j
        BY <1>5, <3>5 DEF OutOK
      <3>9. \A i \in DOMAIN out' :
              /\ out'[i].spans = loot'[out'[i].by]
              /\ releaser'[out'[i].by] \in {"second", "done"} /\ out'[i].by \notin Released'
        BY <1>1, <1>6, <1>8, <3>2, <3>5, <3>7, <3>8
      <3>10. \A i, j \in DOMAIN out' : out'[i].by = out'[j].by => i = j
        BY <1>6, <3>2, <3>5, <3>7, <3>8
      <3>11. \A r \in Released' : releaser'[r] \in {"second", "done"}
        BY <1>1, <1>5, <1>6 DEF OutOK
      <3>12. OutOK'
        BY <3>9, <3>10, <3>11 DEF OutOK
      <3> QED
        BY <1>1, <3>3, <3>6, <3>12 DEF Settled
    <2>2. CASE OnTraceReleasedFails
      <3>1. out' = out /\ rejected' = rejected \cup Lot[b]
        BY <1>3, <2>2 DEF OnTraceReleasedFails, Lot
      <3>2. Delivered' = Delivered
        BY <3>1 DEF Delivered
      <3>3. OutOK'
        BY <1>1, <1>5, <1>6, <3>1 DEF OutOK
      <3> QED
        BY <1>1, <3>1, <3>2, <3>3 DEF Settled
    <2> QED
      BY <2>1, <2>2
  <1>10. OnceInEvents' /\ RemovedOK'
    <2>1. \A r \in Batches : Head(events) = <<"released", r>> => Lot[r] \subseteq Settled'
      BY <1>3, <1>9
    <2> QED
      BY <1>2, <1>4, <1>5, <1>9, <2>1, OnceTaken, RemovedTaken
  <1>11. Leave' = Leave
    BY <1>1, <1>7, HeldKept DEF Leave
  <1>12. DataInv'
    BY <1>1, <1>5, <1>7, <1>9, <1>11, DataKept
  <1>13. CallOK' /\ WorkOK' /\ TimerOK' /\ OwnerOK'
    BY <1>1, <1>4, <1>6 DEF GenInv, ControlInv, CallOK, WorkOK, TimerOK, OwnerOK
  <1>14. SecondOK'
    <2>1. ASSUME NEW r \in Batches, releaser[r] = "second"
          PROVE  \/ Con[TraceOf[r]] \subseteq Settled'
                 \/ r \in Released' /\ Con[TraceOf[r]] \subseteq Settled' \cup Lot[r]
      BY <1>6, <1>9, <2>1 DEF GenInv, ControlInv, SecondOK
    <2> QED
      BY <1>1, <1>4, <2>1 DEF SecondOK
  <1> QED
    BY <1>9, <1>10, <1>12, <1>13, <1>14 DEF GenInv, ControlInv

\* A trace expires: it was evicted before, or leaves the ring for a releaser.
LEMMA ExpiredGen ==
    ASSUME RingInv, Types, GenInv, OnTraceExpired
    PROVE  GenInv'
  <1> USE GroupByTraceAssumption
  <1>1. /\ content' = content /\ leaked' = leaked /\ loot' = loot /\ out' = out
        /\ owner' = owner /\ evicted' = evicted /\ rejected' = rejected /\ lost' = lost
        /\ stay' = stay /\ late' = late /\ discarded' = discarded /\ machine' = machine
        /\ work' = work /\ call' = call /\ timer' = timer
    BY DEF OnTraceExpired
  <1>2. events # <<>> /\ events' = Tail(events) /\ Head(events)[1] = "expired"
    BY DEF OnTraceExpired, Takes
  <1>3. PICK b \in Batches : Head(events) = <<"expired", b>>
    BY <1>2, HeadEvent
  <1>4. PICK t \in Traces : t = TraceOf[b]
    OBVIOUS
  <1>5. /\ Con' = Con /\ Lot' = Lot /\ Stored' = Stored
        /\ Delivered' = Delivered /\ Settled' = Settled
    BY <1>1, StorageKept, LootKept, StoredKept, SettledKept
  <1>6. /\ Received' \subseteq Received /\ Expired' \subseteq Expired
        /\ Released' = Released /\ Removed' = Removed
        /\ OnceInEvents' /\ RemovedOK'
    BY <1>2, <1>5, TookOther
  <1>7. b \in Expired /\ b \notin Expired'
    BY <1>2, <1>3, Took DEF RingInv, GenInv, ControlInv
  <1>8. CallOK' /\ WorkOK'
    BY <1>1, <1>5, <1>6 DEF GenInv, ControlInv, CallOK, WorkOK
  <1>9. CASE ~Contains(ring, t)
    <2>1. ring' = ring /\ releaser' = releaser
      BY <1>3, <1>4, <1>9 DEF OnTraceExpired
    <2>2. InRing' = InRing
      BY <2>1, RingKept
    <2>3. Leave' = Leave
      BY <1>6, <2>1, HeldKept DEF Leave
    <2>4. DataInv'
      BY <1>1, <1>5, <1>6, <2>1, <2>3, DataKept DEF GenInv
    <2>5. TimerOK' /\ OwnerOK'
      BY <1>1, <1>5, <1>6, <2>1, <2>2 DEF GenInv, ControlInv, TimerOK, OwnerOK
    <2>6. OutOK' /\ SecondOK'
      BY <1>1, <1>5, <1>6, <2>1 DEF GenInv, ControlInv, OutOK, SecondOK
    <2> QED
      BY <1>6, <1>8, <2>4, <2>5, <2>6 DEF GenInv, ControlInv
  <1>10. CASE Contains(ring, t)
    <2>1. ring' = Delete(ring, t) /\ releaser' = [releaser EXCEPT ![b] = "reading"]
      BY <1>3, <1>4, <1>10 DEF OnTraceExpired
    <2>2. t \in InRing /\ InRing' = InRing \ {t}
      BY <1>10, <2>1, DeleteContains DEF RingInv, InRing
    <2>3. timer[b] = "done" /\ releaser[b] = "none"
      BY <1>7 DEF GenInv, ControlInv, TimerOK
    <2>4. releaser'[b] = "reading" /\ \A r \in Batches : r # b => releaser'[r] = releaser[r]
      BY <2>1 DEF Types
    <2>5. Read' = Read \cup {t}
      BY <1>4, <2>3, <2>4 DEF Read
    <2>6. Held' = Held \cup {t}
      BY <1>4, <2>3, <2>4 DEF Held, Busy
    <2>7. Leave' = Leave \cup {t}
      BY <1>6, <2>6 DEF Leave
    <2>8. StayOK'
      <3>1. late' \subseteq Stored' /\ discarded' \subseteq Stored' /\ \A a \in Batches : stay'[a] \subseteq Stored'
        BY <1>1, <1>5 DEF GenInv, DataInv, StayOK
      <3>2. \A u \in InRing' : \E x \in Stored' :
              TraceOf[x] = u /\ owner'[u] = {x} /\ stay'[x] = {x}
        BY <1>1, <1>5, <2>2, Zenon DEF GenInv, DataInv, StayOK
      <3> QED
        BY <3>1, <3>2 DEF StayOK
    <2>9. ContentOK'
      BY <1>1, <1>5 DEF GenInv, DataInv, ContentOK
    <2>10. LootOK'
      BY <1>1, <1>5, <2>3, <2>4 DEF GenInv, DataInv, LootOK
    <2>11. CopiedOK' /\ SecondOK'
      BY <1>1, <1>5, <1>6, <2>4 DEF GenInv, ControlInv, DataInv, CopiedOK, SecondOK
    <2>12. InTime' /\ Together'
      BY <1>1, <1>5, <2>2, <2>7 DEF GenInv, DataInv, InTime, Together
    <2>13. TwiceOK'
      BY <1>1, <1>5, <2>2, <2>5, <2>7 DEF GenInv, DataInv, TwiceOK
    <2>14. AgainOK'
      BY <1>1, <1>4, <1>5, <2>2, <2>4 DEF GenInv, DataInv, AgainOK
    <2>15. SharedOK'
      BY <1>1, <1>5 DEF GenInv, DataInv, SharedOK
    <2>16. EvictedOK'
      BY <1>1, <1>5, <1>6, <2>2, <2>5 DEF GenInv, DataInv, EvictedOK
    <2>17. ReaderOK'
      <3>1. ASSUME \A a \in late : TraceOf[a] # t
            PROVE  Con[t] # {} /\ t \notin Leave
        <4>1. PICK x \in Stored : TraceOf[x] = t /\ owner[t] = {x} /\ stay[x] = {x}
          BY <2>2, Zenon DEF GenInv, DataInv, StayOK
        <4>2. x \in Stored \ late
          BY <3>1, <4>1
        <4> QED
          BY <2>2, <4>1, <4>2 DEF GenInv, DataInv, InTime
      <3>2. ASSUME NEW r \in Batches, releaser'[r] = "reading", \A a \in late : TraceOf[a] # TraceOf[r]
            PROVE  /\ Con[TraceOf[r]] # {} /\ TraceOf[r] \notin InRing' /\ TraceOf[r] \notin Removed
                   /\ \A q \in Batches : q # r /\ TraceOf[q] = TraceOf[r] => releaser'[q] \notin Busy
        <4>1. CASE r = b
          <5>1. Con[t] # {} /\ t \notin Leave
            BY <1>4, <3>1, <3>2, <4>1
          <5> QED
            BY <1>4, <2>2, <2>4, <4>1, <5>1 DEF Leave, Held
        <4>2. CASE r # b
          <5>1. /\ Con[TraceOf[r]] # {} /\ TraceOf[r] \notin InRing /\ TraceOf[r] \notin Removed
                /\ \A q \in Batches : q # r /\ TraceOf[q] = TraceOf[r] => releaser[q] \notin Busy
            BY <2>4, <3>2, <4>2 DEF GenInv, DataInv, ReaderOK
          <5> QED
            BY <1>4, <2>2, <2>4, <5>1
        <4> QED
          BY <4>1, <4>2
      <3> QED
        BY <1>1, <1>5, <1>6, <3>2 DEF ReaderOK
    <2>18. LossIsExplained'
      BY <1>1 DEF GenInv, DataInv, LossIsExplained
    <2>19. TimerOK'
      BY <1>1, <1>5, <1>6, <1>7, <2>3, <2>4 DEF GenInv, ControlInv, TimerOK
    <2>20. OwnerOK'
      <3>1. ASSUME NEW a \in Batches, timer[a] \in {"armed", "firing"} \/ a \in Expired',
                   TraceOf[a] \notin evicted
            PROVE  owner[TraceOf[a]] = {a} /\ TraceOf[a] \in InRing'
        <4>1. owner[TraceOf[a]] = {a} /\ TraceOf[a] \in InRing
          BY <1>6, <3>1 DEF GenInv, ControlInv, OwnerOK
        <4>2. CASE TraceOf[a] = t
          <5>1. owner[t] = {b}
            BY <1>4, <1>7, <3>1, <4>2 DEF GenInv, ControlInv, OwnerOK
          <5>2. a = b
            BY <4>1, <4>2, <5>1
          <5> QED
            BY <1>7, <2>3, <3>1, <5>2
        <4> QED
          BY <2>2, <4>1, <4>2
      <3> QED
        BY <1>1, <3>1 DEF OwnerOK
    <2>21. OutOK'
      BY <1>1, <1>6, <2>3, <2>4, Releasers DEF GenInv, ControlInv, OutOK, Released
    <2> QED
      BY <1>6, <1>8, <2>8, <2>9, <2>10, <2>11, <2>12, <2>13, <2>14, <2>15, <2>16, <2>17,
         <2>18, <2>19, <2>20, <2>21 DEF GenInv, ControlInv, DataInv
  <1> QED
    BY <1>9, <1>10

\* A releaser reads the storage and finds nothing ...
LEMMA GetNothingGen ==
    ASSUME RingInv, Types, GenInv, NEW b \in Batches, Get(b), content[TraceOf[b]] = <<>>
    PROVE  GenInv'
  <1> USE GroupByTraceAssumption
  <1>1. /\ ring' = ring /\ content' = content /\ events' = events /\ loot' = loot /\ out' = out
        /\ owner' = owner /\ evicted' = evicted /\ rejected' = rejected /\ lost' = lost
        /\ stay' = stay /\ late' = late /\ discarded' = discarded /\ machine' = machine
        /\ work' = work /\ call' = call /\ timer' = timer
        /\ releaser[b] = "reading" /\ releaser' = [releaser EXCEPT ![b] = "done"]
    BY DEF Get
  <1>2. PICK t \in Traces : t = TraceOf[b]
    OBVIOUS
  <1>3. /\ InRing' = InRing /\ Con' = Con /\ Lot' = Lot /\ Stored' = Stored
        /\ Delivered' = Delivered /\ Settled' = Settled
        /\ Received' = Received /\ Expired' = Expired /\ Released' = Released /\ Removed' = Removed
    BY <1>1, RingKept, StorageKept, LootKept, StoredKept, SettledKept, ChannelKept
  <1>4. releaser'[b] = "done" /\ \A r \in Batches : r # b => releaser'[r] = releaser[r]
    BY <1>1 DEF Types
  <1>5. Con[t] = {}
    BY <1>2 DEF Con, Elements
  <1>6. Read' \subseteq Read
    BY <1>4 DEF Read
  <1>7. Held' \subseteq Held /\ \A u \in Held : u # t => u \in Held'
    BY <1>2, <1>4 DEF Held, Busy
  <1>8. Leave' \subseteq Leave /\ \A u \in Leave : u # t => u \in Leave'
    BY <1>3, <1>7 DEF Leave
  <1>9. late # {}
    BY <1>1, <1>2, <1>5 DEF GenInv, DataInv, ReaderOK
  <1>10. StayOK'
    <2>1. late' \subseteq Stored' /\ discarded' \subseteq Stored' /\ \A a \in Batches : stay'[a] \subseteq Stored'
      BY <1>1, <1>3 DEF GenInv, DataInv, StayOK
    <2>2. \A u \in InRing' : \E x \in Stored' :
            TraceOf[x] = u /\ owner'[u] = {x} /\ stay'[x] = {x}
      BY <1>1, <1>3, Zenon DEF GenInv, DataInv, StayOK
    <2> QED
      BY <2>1, <2>2 DEF StayOK
  <1>11. ContentOK'
    BY <1>1, <1>3 DEF GenInv, DataInv, ContentOK
  <1>12. LootOK'
    BY <1>1, <1>3, <1>4 DEF GenInv, DataInv, LootOK
  <1>13. CopiedOK' /\ SecondOK'
    BY <1>1, <1>3, <1>4 DEF GenInv, ControlInv, DataInv, CopiedOK, SecondOK
  <1>14. InTime' /\ Together'
    BY <1>1, <1>3, <1>8 DEF GenInv, DataInv, InTime, Together
  <1>15. TwiceOK'
    BY <1>1, <1>3, <1>5, <1>6, <1>8 DEF GenInv, DataInv, TwiceOK
  <1>16. AgainOK' /\ SharedOK'
    BY <1>1, <1>3, <1>4 DEF GenInv, DataInv, AgainOK, SharedOK
  <1>17. EvictedOK'
    BY <1>1, <1>3, <1>6 DEF GenInv, DataInv, EvictedOK
  <1>18. ReaderOK'
    BY <1>1, <1>3, <1>4 DEF GenInv, DataInv, ReaderOK, Busy
  <1>19. LossIsExplained'
    BY <1>1, <1>9 DEF GenInv, DataInv, LossIsExplained
  <1>20. CallOK' /\ WorkOK' /\ OwnerOK'
    BY <1>1, <1>3 DEF GenInv, ControlInv, CallOK, WorkOK, OwnerOK
  <1>21. TimerOK'
    BY <1>1, <1>3, <1>4 DEF GenInv, ControlInv, TimerOK
  <1>22. OutOK'
    BY <1>1, <1>3, <1>4, Releasers DEF GenInv, ControlInv, OutOK, Released
  <1>23. OnceInEvents' /\ RemovedOK'
    BY <1>1, <1>3, ChannelKept, RemovedKept DEF GenInv, ControlInv, RingInv, Removed, Released
  <1> QED
    BY <1>10, <1>11, <1>12, <1>13, <1>14, <1>15, <1>16, <1>17, <1>18, <1>19, <1>20, <1>21,
       <1>22, <1>23 DEF GenInv, ControlInv, DataInv

\* ... or copies what is there.
LEMMA GetCopyGen ==
    ASSUME RingInv, Types, GenInv, NEW b \in Batches, Get(b), content[TraceOf[b]] # <<>>
    PROVE  GenInv'
  <1> USE GroupByTraceAssumption
  <1>1. /\ ring' = ring /\ content' = content /\ events' = events /\ out' = out
        /\ owner' = owner /\ evicted' = evicted /\ rejected' = rejected /\ lost' = lost
        /\ stay' = stay /\ late' = late /\ discarded' = discarded /\ machine' = machine
        /\ work' = work /\ call' = call /\ timer' = timer /\ leaked' = leaked
        /\ releaser[b] = "reading" /\ releaser' = [releaser EXCEPT ![b] = "read"]
        /\ loot' = [loot EXCEPT ![b] = content[TraceOf[b]]]
    BY DEF Get
  <1>2. PICK t \in Traces : t = TraceOf[b]
    OBVIOUS
  <1>3. /\ InRing' = InRing /\ Con' = Con /\ Stored' = Stored
        /\ Delivered' = Delivered /\ Settled' = Settled
        /\ Received' = Received /\ Expired' = Expired /\ Released' = Released /\ Removed' = Removed
    BY <1>1, RingKept, StorageKept, StoredKept, SettledKept, ChannelKept
  <1>4. releaser'[b] = "read" /\ \A r \in Batches : r # b => releaser'[r] = releaser[r]
    BY <1>1 DEF Types
  <1>5. loot'[b] = content[t] /\ \A r \in Batches : r # b => loot'[r] = loot[r]
    BY <1>1, <1>2 DEF Types
  <1>6. Lot'[b] = Con[t] /\ \A r \in Batches : r # b => Lot'[r] = Lot[r]
    BY <1>5 DEF Lot, Con
  <1>7. Con[t] # {}
    <2>1. PICK s \in Seq(Batches) : s = content[t] /\ s # <<>>
      BY <1>2 DEF Types
    <2>2. 1 \in DOMAIN s
      BY <2>1
    <2>3. s[1] \in Elements(s) /\ Con[t] = Elements(s)
      BY <2>1, <2>2 DEF Con, Elements
    <2> QED
      BY <2>3
  <1>8. t \in Read /\ t \in Leave
    BY <1>1, <1>2 DEF Read, Leave, Held, Busy
  <1>9. Read' \subseteq Read
    BY <1>4 DEF Read
  <1>10. Leave' = Leave
    <2>1. \A r \in Batches : releaser'[r] \in Busy <=> releaser[r] \in Busy
      BY <1>1, <1>4 DEF Busy
    <2> QED
      BY <1>3, <2>1, HeldKept DEF Leave
  <1>11. StayOK'
    <2>1. late' \subseteq Stored' /\ discarded' \subseteq Stored' /\ \A a \in Batches : stay'[a] \subseteq Stored'
      BY <1>1, <1>3 DEF GenInv, DataInv, StayOK
    <2>2. \A u \in InRing' : \E x \in Stored' :
            TraceOf[x] = u /\ owner'[u] = {x} /\ stay'[x] = {x}
      BY <1>1, <1>3, Zenon DEF GenInv, DataInv, StayOK
    <2> QED
      BY <2>1, <2>2 DEF StayOK
  <1>12. ContentOK'
    BY <1>1, <1>3 DEF GenInv, DataInv, ContentOK
  <1>13. LootOK'
    <2>1. Distinct(content[t]) /\ \A a \in Con[t] : a \in Stored /\ TraceOf[a] = t
      BY DEF GenInv, DataInv, ContentOK
    <2> QED
      BY <1>2, <1>3, <1>4, <1>5, <1>6, <2>1 DEF GenInv, DataInv, LootOK
  <1>14. CopiedOK' /\ SecondOK'
    <2>1. CopiedOK'
      BY <1>2, <1>3, <1>4, <1>6 DEF GenInv, DataInv, CopiedOK
    <2>2. SecondOK'
      BY <1>3, <1>4, <1>6 DEF GenInv, ControlInv, SecondOK
    <2> QED
      BY <2>1, <2>2
  <1>15. InTime'
    <2>1. ASSUME NEW u \in InRing, NEW a \in Stored \ late, stay[a] = owner[u]
          PROVE  a \in Con[u] /\ u \notin Leave /\ \A r \in Batches : a \notin Lot'[r]
      <3>1. a \in Con[u] /\ u \notin Leave /\ \A r \in Batches : a \notin Lot[r]
        BY <2>1 DEF GenInv, DataInv, InTime
      <3>2. u \in Traces /\ TraceOf[a] = u
        BY <3>1 DEF GenInv, DataInv, ContentOK, InRing
      <3>3. a \notin Con[t]
        BY <1>8, <3>1, <3>2 DEF GenInv, DataInv, ContentOK
      <3> QED
        BY <1>6, <3>1, <3>3
    <2> QED
      BY <1>1, <1>3, <1>10, <2>1 DEF InTime
  <1>16. Together'
    BY <1>1, <1>3, <1>6 DEF GenInv, DataInv, Together
  <1>17. TwiceOK'
    <2>1. t \in InRing \cup Read' => Con[t] \cap late # {}
      BY <1>1, <1>2, <1>4, <1>7 DEF GenInv, DataInv, AgainOK, Read
    <2> QED
      BY <1>1, <1>2, <1>3, <1>6, <1>8, <1>9, <1>10, <2>1 DEF GenInv, DataInv, TwiceOK
  <1>18. AgainOK'
    BY <1>1, <1>3, <1>4 DEF GenInv, DataInv, AgainOK
  <1>19. SharedOK'
    <2>1. ASSUME NEW r \in Batches, r # b, Con[t] \cap Lot[r] # {}
          PROVE  (Con[t] \cup Lot[r]) \cap late # {}
      <3>1. TraceOf[r] = t
        BY <2>1 DEF GenInv, DataInv, ContentOK, LootOK
      <3> QED
        BY <1>8, <2>1, <3>1 DEF GenInv, DataInv, TwiceOK
    <2> QED
      BY <1>1, <1>6, <2>1 DEF GenInv, DataInv, SharedOK
  <1>20. EvictedOK'
    BY <1>1, <1>3, <1>9 DEF GenInv, DataInv, EvictedOK
  <1>21. ReaderOK'
    BY <1>1, <1>3, <1>4 DEF GenInv, DataInv, ReaderOK, Busy
  <1>22. LossIsExplained'
    BY <1>1 DEF GenInv, DataInv, LossIsExplained
  <1>23. CallOK' /\ WorkOK' /\ OwnerOK'
    BY <1>1, <1>3 DEF GenInv, ControlInv, CallOK, WorkOK, OwnerOK
  <1>24. TimerOK'
    BY <1>1, <1>3, <1>4 DEF GenInv, ControlInv, TimerOK
  <1>25. OutOK'
    <2>1. \A i \in DOMAIN out : out[i].by # b
      BY <1>1 DEF GenInv, ControlInv, OutOK
    <2> QED
      BY <1>1, <1>3, <1>4, <1>5, <2>1, Releasers DEF GenInv, ControlInv, OutOK, Released
  <1>26. OnceInEvents' /\ RemovedOK'
    <2>1. \A r \in Released : Lot'[r] = Lot[r]
      BY <1>1, <1>6 DEF GenInv, ControlInv, OutOK, Released
    <2> QED
      BY <1>1, <1>3, <2>1, ChannelKept, RemovedKept DEF GenInv, ControlInv, RingInv, Removed
  <1> QED
    BY <1>11, <1>12, <1>13, <1>14, <1>15, <1>16, <1>17, <1>18, <1>19, <1>20, <1>21, <1>22,
       <1>23, <1>24, <1>25, <1>26 DEF GenInv, ControlInv, DataInv

\* The machine deletes a trace from the storage.
LEMMA RemovedGen ==
    ASSUME RingInv, Types, GenInv, OnTraceRemoved
    PROVE  GenInv'
  <1> USE GroupByTraceAssumption
  <1>1. /\ ring' = ring /\ leaked' = leaked /\ loot' = loot /\ out' = out
        /\ owner' = owner /\ evicted' = evicted /\ rejected' = rejected
        /\ stay' = stay /\ late' = late /\ discarded' = discarded /\ machine' = machine
        /\ work' = work /\ call' = call /\ timer' = timer /\ releaser' = releaser
    BY DEF OnTraceRemoved
  <1>2. events # <<>> /\ events' = Tail(events) /\ Head(events)[1] = "removed"
    BY DEF OnTraceRemoved, Takes
  <1>3. PICK t \in Traces : Head(events) = <<"removed", t>>
    BY <1>2, HeadEvent
  <1>4. content' = [content EXCEPT ![t] = <<>>] /\ lost' = lost \cup (Con[t] \ Delivered)
    <2>1. Head(events)[2] = t /\ Con[t] = Elements(content[t])
      BY <1>3 DEF Con
    <2> QED
      BY <2>1 DEF OnTraceRemoved
  <1>5. /\ InRing' = InRing /\ Lot' = Lot /\ Stored' = Stored
        /\ Delivered' = Delivered /\ Settled' = Settled
    BY <1>1, RingKept, LootKept, StoredKept, SettledKept
  <1>6. content'[t] = <<>> /\ \A u \in Traces : u # t => content'[u] = content[u]
    BY <1>4 DEF Types
  <1>7. Con'[t] = {} /\ \A u \in Traces : u # t => Con'[u] = Con[u]
    BY <1>6 DEF Con, Elements
  <1>8. events \in Seq(EventSet) /\ OnceInEvents /\ RemovedOK
    BY DEF RingInv, GenInv, ControlInv
  <1>9. /\ Received' \subseteq Received /\ Expired' \subseteq Expired
        /\ Released' = Released /\ Removed' \subseteq Removed /\ t \in Removed
    BY <1>2, <1>3, <1>8, Took
  <1>10. \A u \in Removed : u # t => u \in Removed'
    <2>1. \A u \in Removed : u \in Traces /\ (u # t => Head(events) # <<"removed", u>>)
      BY <1>3 DEF Removed
    <2> QED
      BY <1>2, <1>8, <2>1, Took
  <1>11. Con[t] \subseteq Settled
    <2>1. 1 \in 1 .. Len(events) /\ events[1] = <<"removed", t>> /\ 1 .. (1 - 1) = {}
      BY <1>2, <1>3, <1>8, Taken
    <2> QED
      BY <1>8, <2>1 DEF RemovedOK
  <1>12. Held' = Held /\ Read' = Read
    BY <1>1, HeldKept, ReadersKept
  <1>13. Leave' \subseteq Leave /\ t \in Leave /\ \A u \in Leave : u # t => u \in Leave'
    BY <1>9, <1>10, <1>12 DEF Leave
  <1>14. StayOK'
    <2>1. late' \subseteq Stored' /\ discarded' \subseteq Stored' /\ \A a \in Batches : stay'[a] \subseteq Stored'
      BY <1>1, <1>5 DEF GenInv, DataInv, StayOK
    <2>2. \A u \in InRing' : \E x \in Stored' :
            TraceOf[x] = u /\ owner'[u] = {x} /\ stay'[x] = {x}
      BY <1>1, <1>5, Zenon DEF GenInv, DataInv, StayOK
    <2> QED
      BY <2>1, <2>2 DEF StayOK
  <1>15. ContentOK'
    <2>1. Distinct(<<>>)
      BY DEF Distinct
    <2> QED
      BY <1>5, <1>6, <1>7, <2>1 DEF GenInv, DataInv, ContentOK
  <1>16. LootOK'
    BY <1>1, <1>5 DEF GenInv, DataInv, LootOK
  <1>17. \A u \in Traces : Con'[u] \subseteq Con[u]
    BY <1>7
  <1>18. CopiedOK' /\ SecondOK'
    <2>1. \A r \in Batches : TraceOf[r] \in Traces
      OBVIOUS
    <2>2. CopiedOK'
      BY <1>1, <1>5, <1>17, <2>1 DEF GenInv, DataInv, CopiedOK
    <2>3. SecondOK'
      BY <1>1, <1>5, <1>9, <1>17, <2>1 DEF GenInv, ControlInv, SecondOK
    <2> QED
      BY <2>2, <2>3
  <1>19. InTime'
    BY <1>1, <1>5, <1>7, <1>13 DEF GenInv, DataInv, InTime, InRing
  <1>20. Together'
    BY <1>1, <1>5, <1>7 DEF GenInv, DataInv, Together
  <1>21. TwiceOK'
    <2>1. ASSUME NEW r \in Batches, Lot[r] \cap Con'[TraceOf[r]] # {}
          PROVE  /\ TraceOf[r] \in Leave' \/ machine = "stopped"
                 /\ TraceOf[r] \in InRing \cup Read => (Con'[TraceOf[r]] \cup Lot[r]) \cap late # {}
      <3>1. TraceOf[r] # t /\ TraceOf[r] \in Traces
        BY <1>7, <2>1
      <3> QED
        BY <1>7, <1>13, <2>1, <3>1 DEF GenInv, DataInv, TwiceOK
    <2> QED
      BY <1>1, <1>5, <1>12, <2>1 DEF TwiceOK
  <1>22. AgainOK'
    BY <1>1, <1>5, <1>7 DEF GenInv, DataInv, AgainOK
  <1>23. SharedOK'
    BY <1>1, <1>5 DEF GenInv, DataInv, SharedOK
  <1>24. EvictedOK'
    BY <1>1, <1>5, <1>7, <1>10, <1>12 DEF GenInv, DataInv, EvictedOK
  <1>25. ReaderOK'
    <2>1. ASSUME NEW r \in Batches, releaser[r] = "reading", \A a \in late : TraceOf[a] # TraceOf[r]
          PROVE  /\ Con'[TraceOf[r]] # {} /\ TraceOf[r] \notin InRing /\ TraceOf[r] \notin Removed'
                 /\ \A q \in Batches : q # r /\ TraceOf[q] = TraceOf[r] => releaser[q] \notin Busy
      <3>1. /\ Con[TraceOf[r]] # {} /\ TraceOf[r] \notin InRing /\ TraceOf[r] \notin Removed
            /\ \A q \in Batches : q # r /\ TraceOf[q] = TraceOf[r] => releaser[q] \notin Busy
        BY <2>1 DEF GenInv, DataInv, ReaderOK
      <3> QED
        BY <1>7, <1>9, <3>1
    <2> QED
      BY <1>1, <1>5, <2>1 DEF ReaderOK
  <1>26. LossIsExplained'
    BY <1>1, <1>4, <1>11 DEF GenInv, DataInv, LossIsExplained, Settled
  <1>27. CallOK' /\ WorkOK' /\ OwnerOK' /\ TimerOK'
    BY <1>1, <1>5, <1>9 DEF GenInv, ControlInv, CallOK, WorkOK, OwnerOK, TimerOK
  <1>28. OutOK'
    BY <1>1, <1>9 DEF GenInv, ControlInv, OutOK
  <1>29. OnceInEvents' /\ RemovedOK'
    <2>1. \A r \in Batches : Head(events) # <<"released", r>>
      BY <1>2
    <2> QED
      BY <1>2, <1>5, <1>8, <1>17, <2>1, OnceTaken, RemovedTaken
  <1> QED
    BY <1>14, <1>15, <1>16, <1>18, <1>19, <1>20, <1>21, <1>22, <1>23, <1>24, <1>25, <1>26,
       <1>27, <1>28, <1>29 DEF GenInv, ControlInv, DataInv

\* What is left of the payload when its first batch was handled.
LEMMA Rest ==
    ASSUME NEW s \in Seq(Batches), s # <<>>, Distinct(s)
    PROVE  /\ Head(s) \in Batches /\ Head(s) \in Elements(s)
           /\ Elements(Tail(s)) \subseteq Elements(s) \ {Head(s)}
           /\ Distinct(Tail(s))
  <1>1. PICK n \in Nat \ {0} : n = Len(s)
    OBVIOUS
  <1>2. PICK r : r = Tail(s)
    OBVIOUS
  <1>3. /\ DOMAIN s = 1 .. n /\ DOMAIN r = 1 .. (n - 1)
        /\ (\A i \in 1 .. (n - 1) : r[i] = s[i + 1]) /\ Head(s) = s[1]
        /\ s[1] \in Batches
    BY <1>1, <1>2
  <1>4. \A i \in 1 .. (n - 1) : i + 1 \in 1 .. n /\ i + 1 # 1
    BY <1>1
  <1>5. 1 \in 1 .. n
    BY <1>1
  <1>6. \A i, j \in 1 .. n : s[i] = s[j] => i = j
    BY <1>3 DEF Distinct
  <1>7. Elements(s) = {s[i] : i \in 1 .. n} /\ Elements(r) = {r[i] : i \in 1 .. (n - 1)}
    BY <1>3 DEF Elements
  <1>8. Elements(r) \subseteq Elements(s) \ {s[1]}
    BY <1>3, <1>4, <1>5, <1>6, <1>7
  <1>9. Distinct(r)
    <2>1. ASSUME NEW i \in 1 .. (n - 1), NEW j \in 1 .. (n - 1), r[i] = r[j]
          PROVE  i = j
      <3>1. i + 1 = j + 1
        BY <1>3, <1>4, <1>6, <2>1
      <3> QED
        BY <3>1
    <2> QED
      BY <1>3, <2>1 DEF Distinct
  <1> QED
    BY <1>2, <1>3, <1>5, <1>7, <1>8, <1>9

\* What is stored of a trace after one more batch.
LEMMA AppendStored ==
    ASSUME NEW s \in Seq(Batches), NEW b \in Batches, Distinct(s), b \notin Elements(s)
    PROVE  Elements(Append(s, b)) = Elements(s) \cup {b} /\ Distinct(Append(s, b))
  <1>1. PICK n \in Nat : n = Len(s)
    OBVIOUS
  <1>2. PICK r : r = Append(s, b)
    OBVIOUS
  <1>3. /\ DOMAIN s = 1 .. n /\ DOMAIN r = 1 .. (n + 1)
        /\ (\A i \in 1 .. n : r[i] = s[i]) /\ r[n + 1] = b
    BY <1>1, <1>2
  <1>4. 1 .. (n + 1) = (1 .. n) \cup {n + 1}
    BY <1>1
  <1>5. Elements(s) = {s[i] : i \in 1 .. n} /\ Elements(r) = {r[i] : i \in 1 .. (n + 1)}
    BY <1>3 DEF Elements
  <1>6. Elements(r) = Elements(s) \cup {b}
    BY <1>3, <1>4, <1>5
  <1>7. Distinct(r)
    BY <1>3, <1>4, <1>5 DEF Distinct
  <1> QED
    BY <1>2, <1>6, <1>7

\* The history's Leaving is Leave.
LEMMA LeavingIs ==
    ASSUME RingInv, NEW t \in Traces
    PROVE  Leaving(t) <=> t \in Leave
  <1>1. PICK s \in Seq(EventSet) : s = events
    BY DEF RingInv
  <1>2. DOMAIN s = 1 .. Len(s)
    OBVIOUS
  <1>3. Elements(events) = Pending
    BY <1>1, <1>2 DEF Elements, Pending
  <1> QED
    BY <1>3 DEF Leaving, Leave, Held, Busy, Removed

\* What processBatch does to the data whether the trace is in the ring or not.
LEMMA StoreStep ==
    ASSUME RingInv, Types, GenInv, ProcessKnown \/ ProcessNew,
           NEW b \in Batches, b = Head(work), NEW t \in Traces, t = TraceOf[b]
    PROVE  /\ b \notin Stored /\ b \notin late /\ b \notin discarded /\ machine = "running"
           /\ (\A u \in Traces : b \notin Con[u]) /\ (\A r \in Batches : b \notin Lot[r])
           /\ Stored' = Stored \cup {b}
           /\ stay'[b] # {} /\ \A a \in Batches : a # b => stay'[a] = stay[a]
           /\ late \subseteq late' /\ late' \subseteq late \cup {b} /\ (b \in late' <=> t \in Leave)
           /\ Con'[t] = Con[t] \cup {b} /\ \A u \in Traces : u # t => Con'[u] = Con[u]
           /\ CallOK' /\ WorkOK' /\ ContentOK' /\ Lot' = Lot /\ LossIsExplained'
  <1> USE GroupByTraceAssumption
  <1>1. /\ work # <<>> /\ work' = Tail(work) /\ work \in Seq(Batches) /\ leaked = 0
        /\ leaked' = leaked /\ machine' = machine /\ call' = call /\ loot' = loot /\ lost' = lost
        /\ rejected' = rejected
        /\ content' = [content EXCEPT ![t] = Append(@, b)]
        /\ late' = late \cup {a \in {b} : Leaving(TraceOf[a])}
        /\ discarded \subseteq discarded'
    BY DEF ProcessKnown, ProcessNew, AddSpans, Recorded, RingInv
  <1>2. PICK p \in SUBSET Batches : p # {} /\ stay' = [stay EXCEPT ![b] = p]
    <2>1. CASE ProcessKnown
      <3>1. stay' = [stay EXCEPT ![b] = owner[t]] /\ t \in InRing
        BY <2>1 DEF ProcessKnown, Recorded, InRing
      <3>2. PICK x \in Stored : owner[t] = {x}
        BY <3>1, Zenon DEF GenInv, DataInv, StayOK
      <3>3. owner[t] \in SUBSET Batches
        BY DEF Types
      <3> QED
        BY <3>1, <3>2, <3>3
    <2>2. CASE ProcessNew
      <3>1. stay' = [stay EXCEPT ![b] = {b}] /\ {b} \in SUBSET Batches
        BY <2>2 DEF ProcessNew, Recorded
      <3> QED
        BY <3>1
    <2> QED
      BY <2>1, <2>2
  <1>3. stay'[b] = p /\ \A a \in Batches : a # b => stay'[a] = stay[a]
    BY <1>2 DEF Types
  <1>4. /\ Distinct(work) /\ b \in Elements(work) /\ Distinct(work')
        /\ Elements(work') \subseteq Elements(work) \ {b}
    BY <1>1, Rest DEF GenInv, ControlInv, WorkOK
  <1>5. b \notin Stored /\ machine = "running"
    BY <1>1, <1>4 DEF GenInv, ControlInv, WorkOK
  <1>6. b \notin late /\ b \notin discarded
    BY <1>5 DEF GenInv, DataInv, StayOK
  <1>7. (\A u \in Traces : b \notin Con[u]) /\ (\A r \in Batches : b \notin Lot[r])
    BY <1>5 DEF GenInv, DataInv, ContentOK, LootOK
  <1>8. Stored' = Stored \cup {b}
    BY <1>2, <1>3 DEF Stored
  <1>9. late \subseteq late' /\ late' \subseteq late \cup {b} /\ (b \in late' <=> t \in Leave)
    <2>1. Leaving(TraceOf[b]) <=> t \in Leave
      BY LeavingIs
    <2> QED
      BY <1>1, <1>6, <2>1
  <1>10. content'[t] = Append(content[t], b) /\ \A u \in Traces : u # t => content'[u] = content[u]
    BY <1>1 DEF Types
  <1>11. /\ Distinct(content[t]) /\ b \notin Elements(content[t]) /\ content[t] \in Seq(Batches)
    BY <1>7 DEF GenInv, DataInv, ContentOK, Con, Types
  <1>12. Elements(content'[t]) = Elements(content[t]) \cup {b} /\ Distinct(content'[t])
    BY <1>10, <1>11, AppendStored
  <1>13. Con'[t] = Con[t] \cup {b} /\ \A u \in Traces : u # t => Con'[u] = Con[u]
    BY <1>10, <1>12 DEF Con
  <1>14. CallOK'
    <2>1. Received' \subseteq Received
      <3>1. CASE events' = events
        BY <3>1, ChannelKept
      <3>2. ASSUME NEW g, events' = Append(events, <<"removed", g>>)
            PROVE  Received' \subseteq Received
        <4>1. events \in Seq(EventSet)
          BY DEF RingInv
        <4>2. Pending' = Pending \cup {<<"removed", g>>}
          BY <3>2, <4>1, Appended
        <4> QED
          BY <4>2 DEF Received
      <3> QED
        BY <3>1, <3>2 DEF ProcessKnown, ProcessNew, FireEvicted
    <2> QED
      BY <1>1, <1>4, <1>8, <2>1 DEF GenInv, ControlInv, CallOK
  <1>15. WorkOK'
    BY <1>1, <1>4, <1>5, <1>8 DEF GenInv, ControlInv, WorkOK
  <1>16. ContentOK'
    BY <1>8, <1>10, <1>12, <1>13 DEF GenInv, DataInv, ContentOK
  <1>17. Lot' = Lot
    BY <1>1, LootKept
  <1>18. LossIsExplained'
    BY <1>1, <1>9 DEF GenInv, DataInv, LossIsExplained
  <1> QED
    BY <1>2, <1>3, <1>5, <1>6, <1>7, <1>8, <1>9, <1>13, <1>14, <1>15, <1>16, <1>17, <1>18

\* processBatch for a trace in the ring.
LEMMA KnownGen ==
    ASSUME RingInv, Types, GenInv, ProcessKnown
    PROVE  GenInv'
  <1> USE GroupByTraceAssumption
  <1>1. /\ ring' = ring /\ leaked' = leaked /\ events' = events /\ loot' = loot /\ out' = out
        /\ owner' = owner /\ evicted' = evicted /\ discarded' = discarded /\ rejected' = rejected
        /\ lost' = lost /\ call' = call /\ timer' = timer /\ releaser' = releaser /\ machine' = machine
        /\ work # <<>>
    BY DEF ProcessKnown
  <1>2. PICK b \in Batches : b = Head(work)
    BY <1>1 DEF RingInv
  <1>3. PICK t \in Traces : t = TraceOf[b]
    OBVIOUS
  <1>4. /\ b \notin Stored /\ b \notin late /\ b \notin discarded /\ machine = "running"
        /\ (\A u \in Traces : b \notin Con[u]) /\ (\A r \in Batches : b \notin Lot[r])
        /\ Stored' = Stored \cup {b}
        /\ stay'[b] # {} /\ \A a \in Batches : a # b => stay'[a] = stay[a]
    BY <1>2, <1>3, StoreStep
  <1>5. /\ late \subseteq late' /\ late' \subseteq late \cup {b} /\ (b \in late' <=> t \in Leave)
        /\ Con'[t] = Con[t] \cup {b} /\ \A u \in Traces : u # t => Con'[u] = Con[u]
    BY <1>2, <1>3, StoreStep
  <1>6. CallOK' /\ WorkOK' /\ ContentOK' /\ Lot' = Lot /\ LossIsExplained'
    BY <1>2, <1>3, StoreStep
  <1>7. stay'[b] = owner[t] /\ t \in InRing
    BY <1>2, <1>3 DEF ProcessKnown, Recorded, Types, InRing
  <1>8. /\ InRing' = InRing /\ Read' = Read /\ Held' = Held
        /\ Received' = Received /\ Expired' = Expired /\ Released' = Released /\ Removed' = Removed
    BY <1>1, RingKept, ReadersKept, HeldKept, ChannelKept
  <1>9. Leave' = Leave
    BY <1>8 DEF Leave
  <1>10. Delivered' = Delivered
    BY <1>1 DEF Delivered
  <1>11. Settled \subseteq Settled' /\ late' \subseteq Settled'
    BY <1>1, <1>5, <1>10 DEF Settled
  <1>12. StayOK'
    <2>1. late' \subseteq Stored' /\ discarded' \subseteq Stored'
      BY <1>1, <1>4, <1>5 DEF GenInv, DataInv, StayOK
    <2>2. PICK x \in Stored : TraceOf[x] = t /\ owner[t] = {x} /\ stay[x] = {x}
      BY <1>7, Zenon DEF GenInv, DataInv, StayOK
    <2>3. \A a \in Batches : stay'[a] \subseteq Stored'
      <3>1. stay'[b] \subseteq Stored
        BY <1>7, <2>2
      <3>2. \A a \in Batches : stay[a] \subseteq Stored
        BY DEF GenInv, DataInv, StayOK
      <3> QED
        BY <1>4, <3>1, <3>2
    <2>4. ASSUME NEW u \in InRing
          PROVE  \E y \in Stored' : TraceOf[y] = u /\ owner[u] = {y} /\ stay'[y] = {y}
      <3>1. PICK y \in Stored : TraceOf[y] = u /\ owner[u] = {y} /\ stay[y] = {y}
        BY Zenon DEF GenInv, DataInv, StayOK
      <3>2. y # b /\ y \in Batches /\ y \in Stored'
        BY <1>4 DEF Stored
      <3>3. stay'[y] = stay[y]
        BY <1>4, <3>2
      <3> QED
        BY <3>1, <3>2, <3>3
    <2> QED
      BY <1>1, <1>8, <2>1, <2>3, <2>4 DEF StayOK
  <1>13. LootOK'
    BY <1>1, <1>4, <1>6 DEF GenInv, DataInv, LootOK
  <1>14. \A r \in Batches : releaser[r] \in Busy =>
            Con'[TraceOf[r]] \subseteq Con[TraceOf[r]] \cup Settled'
    BY <1>3, <1>5, <1>11 DEF Leave, Held
  <1>15. CopiedOK' /\ SecondOK'
    <2>1. CopiedOK'
      <3>1. \A r \in Batches : releaser[r] \in {"read", "firing"} =>
              Con[TraceOf[r]] \subseteq Settled \cup Lot[r]
        BY DEF GenInv, DataInv, CopiedOK
      <3> QED
        BY <1>1, <1>6, <1>11, <1>14, <3>1 DEF CopiedOK, Busy
    <2>2. SecondOK'
      <3>1. \A r \in Batches : releaser[r] = "second" =>
              \/ Con[TraceOf[r]] \subseteq Settled
              \/ r \in Released /\ Con[TraceOf[r]] \subseteq Settled \cup Lot[r]
        BY DEF GenInv, ControlInv, SecondOK
      <3> QED
        BY <1>1, <1>6, <1>8, <1>11, <1>14, <3>1 DEF SecondOK, Busy
    <2> QED
      BY <2>1, <2>2
  <1>16. OnceInEvents' /\ RemovedOK'
    <2>1. \A u \in Removed : Con'[u] \subseteq Con[u] \cup Settled'
      BY <1>5, <1>11 DEF Leave, Removed
    <2> QED
      BY <1>1, <1>6, <1>11, <2>1, ChannelKept, RemovedKept DEF GenInv, ControlInv, RingInv
  <1>17. \A u \in InRing : owner[u] = owner[t] => u = t
    <2>1. \A u \in InRing : \E x \in Stored : TraceOf[x] = u /\ owner[u] = {x}
      BY Zenon DEF GenInv, DataInv, StayOK
    <2> QED
      BY <1>7, <2>1
  <1>18. InTime'
    <2>1. ASSUME NEW u \in InRing, NEW a \in Stored', a \notin late', stay'[a] = owner[u]
          PROVE  a \in Con'[u] /\ u \notin Leave /\ \A r \in Batches : a \notin Lot[r]
      <3>1. CASE a = b
        BY <1>4, <1>5, <1>7, <1>17, <2>1, <3>1
      <3>2. CASE a # b
        <4>1. a \in Stored \ late /\ stay[a] = owner[u] /\ u \in Traces
          BY <1>4, <1>5, <2>1, <3>2 DEF Stored, InRing
        <4>2. a \in Con[u] /\ u \notin Leave /\ \A r \in Batches : a \notin Lot[r]
          BY <2>1, <4>1 DEF GenInv, DataInv, InTime
        <4> QED
          BY <1>5, <4>1, <4>2
      <3> QED
        BY <3>1, <3>2
    <2> QED
      BY <1>1, <1>6, <1>8, <1>9, <2>1 DEF InTime
  <1>19. Together'
    <2>1. ASSUME NEW a \in Stored', a \notin late', NEW c \in Stored', c \notin late', stay'[a] = stay'[c]
          PROVE  /\ \A u \in Traces : a \in Con'[u] => c \in Con'[u]
                 /\ \A r \in Batches : a \in Lot[r] => c \in Lot[r]
      <3>1. \A d \in Stored' : d \notin late' /\ d # b => d \in Stored \ late /\ stay'[d] = stay[d]
        BY <1>4, <1>5 DEF Stored
      <3>2. ASSUME NEW d \in Stored \ late, stay[d] = owner[t]
            PROVE  d \in Con[t] /\ TraceOf[d] = t /\ \A r \in Batches : d \notin Lot[r]
        BY <1>7, <3>2 DEF GenInv, DataInv, InTime, ContentOK
      <3>3. CASE a = b /\ c = b
        BY <3>3
      <3>4. CASE a = b /\ c # b
        BY <1>4, <1>5, <1>7, <2>1, <3>1, <3>2, <3>4
      <3>5. CASE a # b /\ c = b
        <4>1. a \in Con[t] /\ TraceOf[a] = t /\ \A r \in Batches : a \notin Lot[r]
          BY <1>7, <2>1, <3>1, <3>2, <3>5
        <4>2. \A u \in Traces : a \in Con[u] => u = t
          BY <4>1 DEF GenInv, DataInv, ContentOK
        <4> QED
          BY <1>5, <3>5, <4>1, <4>2
      <3>6. CASE a # b /\ c # b
        <4>1. a \in Stored \ late /\ c \in Stored \ late /\ stay[a] = stay[c]
          BY <2>1, <3>1, <3>6
        <4>2. /\ \A u \in Traces : a \in Con[u] => c \in Con[u]
              /\ \A r \in Batches : a \in Lot[r] => c \in Lot[r]
          BY <4>1 DEF GenInv, DataInv, Together
        <4> QED
          BY <1>5, <3>6, <4>2
      <3> QED
        BY <3>3, <3>4, <3>5, <3>6
    <2> QED
      BY <1>6, <2>1 DEF Together
  <1>20. TwiceOK'
    <2>1. ASSUME NEW r \in Batches, Lot[r] \cap Con'[TraceOf[r]] # {}
          PROVE  /\ TraceOf[r] \in Leave \/ machine = "stopped"
                 /\ TraceOf[r] \in InRing \cup Read => (Con'[TraceOf[r]] \cup Lot[r]) \cap late' # {}
      <3>1. TraceOf[r] \in Traces
        OBVIOUS
      <3>2. Lot[r] \cap Con[TraceOf[r]] # {} /\ Con[TraceOf[r]] \subseteq Con'[TraceOf[r]]
        BY <1>4, <1>5, <2>1, <3>1
      <3>3. /\ TraceOf[r] \in Leave \/ machine = "stopped"
            /\ TraceOf[r] \in InRing \cup Read => (Con[TraceOf[r]] \cup Lot[r]) \cap late # {}
        BY <3>2 DEF GenInv, DataInv, TwiceOK
      <3> QED
        BY <1>5, <3>2, <3>3
    <2> QED
      BY <1>1, <1>6, <1>8, <1>9, <2>1 DEF TwiceOK
  <1>21. AgainOK'
    <2>1. ASSUME NEW r \in Batches, releaser[r] = "reading",
                 \/ TraceOf[r] \in InRing
                 \/ \E q \in Batches : q # r /\ TraceOf[q] = TraceOf[r] /\ releaser[q] = "reading"
          PROVE  Con'[TraceOf[r]] = {} \/ Con'[TraceOf[r]] \cap late' # {}
      <3>1. CASE TraceOf[r] = t
        <4>1. t \in Leave
          BY <2>1, <3>1 DEF Leave, Held, Busy
        <4> QED
          BY <1>5, <3>1, <4>1
      <3>2. CASE TraceOf[r] # t
        <4>1. Con[TraceOf[r]] = {} \/ Con[TraceOf[r]] \cap late # {}
          BY <2>1 DEF GenInv, DataInv, AgainOK
        <4> QED
          BY <1>5, <3>2, <4>1
      <3> QED
        BY <3>1, <3>2
    <2> QED
      BY <1>1, <1>8, <2>1 DEF AgainOK
  <1>22. SharedOK'
    BY <1>5, <1>6 DEF GenInv, DataInv, SharedOK
  <1>23. EvictedOK'
    <2>1. ASSUME NEW u \in Traces, Con'[u] \cap discarded # {}
          PROVE  u \in Removed /\ (u \in InRing \cup Read => Con'[u] \cap late' # {})
      <3>1. Con[u] \cap discarded # {} /\ Con[u] \subseteq Con'[u]
        BY <1>4, <1>5, <2>1
      <3>2. u \in Removed /\ (u \in InRing \cup Read => Con[u] \cap late # {})
        BY <3>1 DEF GenInv, DataInv, EvictedOK
      <3> QED
        BY <1>5, <3>1, <3>2
    <2> QED
      BY <1>1, <1>8, <2>1 DEF EvictedOK
  <1>24. ReaderOK'
    <2>1. ASSUME NEW r \in Batches, releaser[r] = "reading", \A a \in late' : TraceOf[a] # TraceOf[r]
          PROVE  /\ Con'[TraceOf[r]] # {} /\ TraceOf[r] \notin InRing /\ TraceOf[r] \notin Removed
                 /\ \A q \in Batches : q # r /\ TraceOf[q] = TraceOf[r] => releaser[q] \notin Busy
      <3>1. \A a \in late : TraceOf[a] # TraceOf[r]
        BY <1>5, <2>1
      <3>2. /\ Con[TraceOf[r]] # {} /\ TraceOf[r] \notin InRing /\ TraceOf[r] \notin Removed
            /\ \A q \in Batches : q # r /\ TraceOf[q] = TraceOf[r] => releaser[q] \notin Busy
        BY <2>1, <3>1 DEF GenInv, DataInv, ReaderOK
      <3> QED
        BY <1>5, <1>7, <3>2
    <2> QED
      BY <1>1, <1>8, <2>1 DEF ReaderOK
  <1>25. TimerOK' /\ OwnerOK'
    BY <1>1, <1>4, <1>8 DEF GenInv, ControlInv, TimerOK, OwnerOK
  <1>26. OutOK'
    BY <1>1, <1>8 DEF GenInv, ControlInv, OutOK
  <1> QED
    BY <1>6, <1>12, <1>13, <1>15, <1>16, <1>18, <1>19, <1>20, <1>21, <1>22, <1>23, <1>24,
       <1>25, <1>26 DEF GenInv, ControlInv, DataInv

\* processBatch for a trace that is not in the ring, with the eviction of another.
LEMMA NewGen ==
    ASSUME RingInv, Types, GenInv, ProcessNew
    PROVE  GenInv'
  <1> USE GroupByTraceAssumption
  <1>1. /\ leaked' = leaked /\ loot' = loot /\ out' = out /\ rejected' = rejected
        /\ lost' = lost /\ call' = call /\ releaser' = releaser /\ machine' = machine
        /\ work # <<>>
    BY DEF ProcessNew
  <1>2. PICK b \in Batches : b = Head(work)
    BY <1>1 DEF RingInv
  <1>3. PICK t \in Traces : t = TraceOf[b]
    OBVIOUS
  <1>4. /\ b \notin Stored /\ b \notin late /\ b \notin discarded /\ machine = "running"
        /\ (\A u \in Traces : b \notin Con[u]) /\ (\A r \in Batches : b \notin Lot[r])
        /\ Stored' = Stored \cup {b}
        /\ stay'[b] # {} /\ \A a \in Batches : a # b => stay'[a] = stay[a]
    BY <1>2, <1>3, StoreStep
  <1>5. /\ late \subseteq late' /\ late' \subseteq late \cup {b} /\ (b \in late' <=> t \in Leave)
        /\ Con'[t] = Con[t] \cup {b} /\ \A u \in Traces : u # t => Con'[u] = Con[u]
    BY <1>2, <1>3, StoreStep
  <1>6. CallOK' /\ WorkOK' /\ ContentOK' /\ Lot' = Lot /\ LossIsExplained'
    BY <1>2, <1>3, StoreStep
  <1>7. PICK g : g = Evicted(ring)
    OBVIOUS
  <1>8. /\ ring' = Put(ring, t) /\ ~Contains(ring, t) /\ FireEvicted(g)
        /\ timer' = [timer EXCEPT ![b] = "armed"] /\ owner' = [owner EXCEPT ![t] = {b}]
        /\ evicted' = evicted \cup ({g} \ {NoTrace})
        /\ discarded' = discarded \cup {a \in Batches : TraceOf[a] = g /\ a \in Elements(content[TraceOf[a]])}
        /\ stay' = [stay EXCEPT ![b] = {b}]
    BY <1>2, <1>3, <1>7 DEF ProcessNew, Recorded
  <1>9. /\ t \notin InRing /\ (g # NoTrace => g \in InRing)
        /\ InRing' = (InRing \ {g}) \cup {t} /\ t # g
    <2>1. /\ \A u \in Traces : Contains(ring', u) <=> u = t \/ (u # g /\ Contains(ring, u))
          /\ g # NoTrace => g \in Traces /\ Contains(ring, g)
      BY <1>7, <1>8, PutContains DEF RingInv
    <2>2. t # g
      BY <1>8, <2>1, RingAssumption
    <2> QED
      BY <1>8, <2>1, <2>2 DEF InRing
  <1>10. stay'[b] = {b}
    BY <1>8 DEF Types
  <1>11. owner'[t] = {b} /\ \A u \in Traces : u # t => owner'[u] = owner[u]
    BY <1>8 DEF Types
  <1>12. timer'[b] = "armed" /\ \A a \in Batches : a # b => timer'[a] = timer[a]
    BY <1>8 DEF Types
  <1>13. /\ g = NoTrace => events' = events
         /\ g # NoTrace => events' = Append(events, <<"removed", g>>)
    BY <1>8 DEF FireEvicted
  <1>14. /\ Received' = Received /\ Expired' = Expired /\ Released' = Released
         /\ Removed' = Removed \cup ({g} \ {NoTrace})
    <2>1. CASE g = NoTrace
      BY <1>13, <2>1, ChannelKept
    <2>2. CASE g # NoTrace
      <3>1. g \in Traces /\ events \in Seq(EventSet)
        BY <1>9, <2>2 DEF InRing, RingInv
      <3>2. PICK e : e = <<"removed", g>> /\ events' = Append(events, e)
        BY <1>13, <2>2
      <3> QED
        BY <2>2, <3>1, <3>2, Written
    <2> QED
      BY <2>1, <2>2
  <1>15. Read' = Read /\ Held' = Held
    BY <1>1, ReadersKept, HeldKept
  <1>16. Leave' = Leave \cup ({g} \ {NoTrace})
    BY <1>14, <1>15 DEF Leave
  <1>17. /\ discarded \subseteq discarded'
         /\ g # NoTrace => discarded' = discarded \cup Con[g]
         /\ g = NoTrace => discarded' = discarded
    <2>1. CASE g = NoTrace
      <3>1. {a \in Batches : TraceOf[a] = g /\ a \in Elements(content[TraceOf[a]])} = {}
        BY <2>1, RingAssumption
      <3> QED
        BY <1>8, <2>1, <3>1
    <2>2. CASE g # NoTrace
      <3>1. g \in Traces
        BY <1>9, <2>2 DEF InRing
      <3>2. \A a \in Con[g] : a \in Batches /\ TraceOf[a] = g
        BY <3>1 DEF GenInv, DataInv, ContentOK, Stored
      <3>3. {a \in Batches : TraceOf[a] = g /\ a \in Elements(content[TraceOf[a]])} = Con[g]
        <4>1. Con[g] = Elements(content[g])
          BY <3>1 DEF Con
        <4> QED
          BY <3>2, <4>1
      <3> QED
        BY <1>8, <2>2, <3>3
    <2> QED
      BY <2>1, <2>2
  <1>18. Delivered' = Delivered
    BY <1>1 DEF Delivered
  <1>19. Settled \subseteq Settled' /\ late' \subseteq Settled' /\ discarded' \subseteq Settled'
    BY <1>1, <1>5, <1>17, <1>18 DEF Settled
  <1>20. \A u \in Traces : Con[u] \subseteq Stored /\ \A a \in Con[u] : TraceOf[a] = u
    BY DEF GenInv, DataInv, ContentOK
  <1>21. g # NoTrace => g \in Traces
    BY <1>9 DEF InRing
  <1>22. StayOK'
    <2>1. late' \subseteq Stored' /\ discarded' \subseteq Stored'
      BY <1>4, <1>5, <1>17, <1>20, <1>21 DEF GenInv, DataInv, StayOK
    <2>2. \A a \in Batches : stay'[a] \subseteq Stored'
      <3>1. \A a \in Batches : stay[a] \subseteq Stored
        BY DEF GenInv, DataInv, StayOK
      <3> QED
        BY <1>4, <1>10, <3>1
    <2>3. ASSUME NEW u \in InRing'
          PROVE  \E y \in Stored' : TraceOf[y] = u /\ owner'[u] = {y} /\ stay'[y] = {y}
      <3>1. CASE u = t
        BY <1>3, <1>4, <1>10, <1>11, <3>1
      <3>2. CASE u # t
        <4>1. u \in InRing /\ u \in Traces
          BY <1>9, <3>2 DEF InRing
        <4>2. PICK y \in Stored : TraceOf[y] = u /\ owner[u] = {y} /\ stay[y] = {y}
          BY <4>1, Zenon DEF GenInv, DataInv, StayOK
        <4>3. y # b /\ y \in Batches /\ y \in Stored'
          BY <1>4 DEF Stored
        <4>4. stay'[y] = {y} /\ owner'[u] = {y}
          BY <1>4, <1>11, <3>2, <4>1, <4>2, <4>3
        <4> QED
          BY <4>2, <4>3, <4>4
      <3> QED
        BY <3>1, <3>2
    <2> QED
      BY <2>1, <2>2, <2>3 DEF StayOK
  <1>23. LootOK'
    BY <1>1, <1>4, <1>6 DEF GenInv, DataInv, LootOK
  <1>24. \A r \in Batches : releaser[r] \in Busy =>
            Con'[TraceOf[r]] \subseteq Con[TraceOf[r]] \cup Settled'
    BY <1>3, <1>5, <1>19 DEF Leave, Held
  <1>25. CopiedOK' /\ SecondOK'
    <2>1. CopiedOK'
      <3>1. \A r \in Batches : releaser[r] \in {"read", "firing"} =>
              Con[TraceOf[r]] \subseteq Settled \cup Lot[r]
        BY DEF GenInv, DataInv, CopiedOK
      <3> QED
        BY <1>1, <1>6, <1>19, <1>24, <3>1 DEF CopiedOK, Busy
    <2>2. SecondOK'
      <3>1. \A r \in Batches : releaser[r] = "second" =>
              \/ Con[TraceOf[r]] \subseteq Settled
              \/ r \in Released /\ Con[TraceOf[r]] \subseteq Settled \cup Lot[r]
        BY DEF GenInv, ControlInv, SecondOK
      <3> QED
        BY <1>1, <1>6, <1>14, <1>19, <1>24, <3>1 DEF SecondOK, Busy
    <2> QED
      BY <2>1, <2>2
  <1>26. OnceInEvents' /\ RemovedOK'
    <2>1. \A u \in Removed : Con'[u] \subseteq Con[u] \cup Settled'
      BY <1>5, <1>19 DEF Leave, Removed
    <2>2. events \in Seq(EventSet) /\ OnceInEvents /\ RemovedOK
      BY DEF RingInv, GenInv, ControlInv
    <2>3. CASE g = NoTrace
      <3>1. events' = events
        BY <1>13, <2>3
      <3> QED
        BY <1>6, <1>19, <2>1, <2>2, <3>1, ChannelKept, RemovedKept
    <2>4. CASE g # NoTrace
      <3>1. PICK e : e = <<"removed", g>> /\ events' = Append(events, e)
        BY <1>13, <2>4
      <3>2. e[1] \notin {"received", "expired", "released"}
        BY <3>1
      <3>3. \A u \in Traces : e = <<"removed", u>> => \A a \in Con'[u] : a \in Settled'
        BY <1>5, <1>9, <1>17, <1>19, <2>4, <3>1
      <3> QED
        BY <1>6, <1>19, <2>1, <2>2, <3>1, <3>2, <3>3, OnceAppended, RemovedAppended
    <2> QED
      BY <2>3, <2>4
  <1>27. \A a \in Batches : stay[a] # {b}
    BY <1>4 DEF GenInv, DataInv, StayOK
  <1>28. InTime'
    <2>1. ASSUME NEW u \in InRing', NEW a \in Stored', a \notin late', stay'[a] = owner'[u]
          PROVE  a \in Con'[u] /\ u \notin Leave' /\ \A r \in Batches : a \notin Lot[r]
      <3>1. a \in Batches /\ u \in Traces
        BY <2>1 DEF Stored, InRing
      <3>2. CASE u = t
        <4>1. a = b
          BY <1>4, <1>11, <1>27, <2>1, <3>1, <3>2
        <4> QED
          BY <1>4, <1>5, <1>9, <1>16, <2>1, <3>2, <4>1
      <3>3. CASE u # t
        <4>1. u \in InRing /\ u # g /\ owner'[u] = owner[u]
          BY <1>9, <1>11, <2>1, <3>1, <3>3
        <4>2. PICK x \in Stored : owner[u] = {x}
          BY <4>1, Zenon DEF GenInv, DataInv, StayOK
        <4>3. a # b
          BY <1>4, <1>10, <2>1, <4>1, <4>2
        <4>4. a \in Stored \ late /\ stay[a] = owner[u]
          BY <1>4, <1>5, <2>1, <3>1, <4>1, <4>3
        <4>5. a \in Con[u] /\ u \notin Leave /\ \A r \in Batches : a \notin Lot[r]
          BY <4>1, <4>4 DEF GenInv, DataInv, InTime
        <4> QED
          BY <1>5, <1>16, <3>1, <3>3, <4>1, <4>5
      <3> QED
        BY <3>2, <3>3
    <2> QED
      BY <1>6, <2>1 DEF InTime
  <1>29. Together'
    <2>1. ASSUME NEW a \in Stored', a \notin late', NEW c \in Stored', c \notin late', stay'[a] = stay'[c]
          PROVE  /\ \A u \in Traces : a \in Con'[u] => c \in Con'[u]
                 /\ \A r \in Batches : a \in Lot[r] => c \in Lot[r]
      <3>1. a \in Batches /\ c \in Batches
        BY <2>1 DEF Stored
      <3>2. CASE a = b \/ c = b
        <4>1. a = b /\ c = b
          BY <1>4, <1>10, <1>27, <2>1, <3>1, <3>2
        <4> QED
          BY <4>1
      <3>3. CASE a # b /\ c # b
        <4>1. a \in Stored \ late /\ c \in Stored \ late /\ stay[a] = stay[c]
          BY <1>4, <1>5, <2>1, <3>1, <3>3
        <4>2. /\ \A u \in Traces : a \in Con[u] => c \in Con[u]
              /\ \A r \in Batches : a \in Lot[r] => c \in Lot[r]
          BY <4>1 DEF GenInv, DataInv, Together
        <4> QED
          BY <1>5, <3>3, <4>2
      <3> QED
        BY <3>2, <3>3
    <2> QED
      BY <1>6, <2>1 DEF Together
  <1>30. TwiceOK'
    <2>1. ASSUME NEW r \in Batches, Lot[r] \cap Con'[TraceOf[r]] # {}
          PROVE  /\ TraceOf[r] \in Leave' \/ machine = "stopped"
                 /\ TraceOf[r] \in InRing' \cup Read => (Con'[TraceOf[r]] \cup Lot[r]) \cap late' # {}
      <3>1. TraceOf[r] \in Traces
        OBVIOUS
      <3>2. Lot[r] \cap Con[TraceOf[r]] # {} /\ Con[TraceOf[r]] \subseteq Con'[TraceOf[r]]
        BY <1>4, <1>5, <2>1, <3>1
      <3>3. /\ TraceOf[r] \in Leave
            /\ TraceOf[r] \in InRing \cup Read => (Con[TraceOf[r]] \cup Lot[r]) \cap late # {}
        BY <1>4, <3>2 DEF GenInv, DataInv, TwiceOK
      <3>4. CASE TraceOf[r] = t
        BY <1>5, <1>16, <3>3, <3>4
      <3>5. CASE TraceOf[r] # t
        BY <1>5, <1>9, <1>16, <3>2, <3>3, <3>5
      <3> QED
        BY <3>4, <3>5
    <2> QED
      BY <1>1, <1>6, <1>15, <2>1 DEF TwiceOK
  <1>31. AgainOK'
    <2>1. ASSUME NEW r \in Batches, releaser[r] = "reading",
                 \/ TraceOf[r] \in InRing'
                 \/ \E q \in Batches : q # r /\ TraceOf[q] = TraceOf[r] /\ releaser[q] = "reading"
          PROVE  Con'[TraceOf[r]] = {} \/ Con'[TraceOf[r]] \cap late' # {}
      <3>1. CASE TraceOf[r] = t
        <4>1. t \in Leave
          BY <2>1, <3>1 DEF Leave, Held, Busy
        <4> QED
          BY <1>5, <3>1, <4>1
      <3>2. CASE TraceOf[r] # t
        <4>1. TraceOf[r] \in InRing' => TraceOf[r] \in InRing
          BY <1>9, <3>2
        <4>2. Con[TraceOf[r]] = {} \/ Con[TraceOf[r]] \cap late # {}
          BY <2>1, <4>1 DEF GenInv, DataInv, AgainOK
        <4> QED
          BY <1>5, <3>2, <4>2
      <3> QED
        BY <3>1, <3>2
    <2> QED
      BY <1>1, <2>1 DEF AgainOK
  <1>32. SharedOK'
    BY <1>5, <1>6 DEF GenInv, DataInv, SharedOK
  <1>33. EvictedOK'
    <2>1. ASSUME NEW u \in Traces, Con'[u] \cap discarded' # {}
          PROVE  u \in Removed' /\ (u \in InRing' \cup Read => Con'[u] \cap late' # {})
      <3>1. CASE u = g
        <4>1. u # NoTrace /\ u # t /\ Con'[u] = Con[u]
          BY <1>5, <1>9, <2>1, <3>1, RingAssumption
        <4>2. u \in Removed' /\ u \notin InRing' /\ u \in InRing
          BY <1>9, <1>14, <3>1, <4>1
        <4>3. ASSUME u \in Read
              PROVE  Con[u] \cap late # {}
          <5>1. PICK r \in Batches : TraceOf[r] = u /\ releaser[r] = "reading"
            BY <4>3 DEF Read
          <5>2. Con[u] = {} \/ Con[u] \cap late # {}
            BY <4>2, <5>1 DEF GenInv, DataInv, AgainOK
          <5> QED
            BY <2>1, <4>1, <5>2
        <4> QED
          BY <1>5, <4>1, <4>2, <4>3
      <3>2. CASE u # g
        <4>1. Con[u] \cap discarded # {} /\ Con[u] \subseteq Con'[u]
          <5>1. b \notin discarded'
            BY <1>4, <1>17, <1>21
          <5>2. g # NoTrace => Con[u] \cap Con[g] = {}
            BY <1>20, <1>21, <3>2
          <5> QED
            BY <1>5, <1>17, <2>1, <5>1, <5>2
        <4>2. u \in Removed /\ (u \in InRing \cup Read => Con[u] \cap late # {})
          BY <4>1 DEF GenInv, DataInv, EvictedOK
        <4>3. CASE u = t
          BY <1>5, <1>14, <4>2, <4>3 DEF Leave
        <4>4. CASE u # t
          BY <1>5, <1>9, <1>14, <4>2, <4>4
        <4> QED
          BY <4>3, <4>4
      <3> QED
        BY <3>1, <3>2
    <2> QED
      BY <1>15, <2>1 DEF EvictedOK
  <1>34. ReaderOK'
    <2>1. ASSUME NEW r \in Batches, releaser[r] = "reading", \A a \in late' : TraceOf[a] # TraceOf[r]
          PROVE  /\ Con'[TraceOf[r]] # {} /\ TraceOf[r] \notin InRing' /\ TraceOf[r] \notin Removed'
                 /\ \A q \in Batches : q # r /\ TraceOf[q] = TraceOf[r] => releaser[q] \notin Busy
      <3>1. \A a \in late : TraceOf[a] # TraceOf[r]
        BY <1>5, <2>1
      <3>2. /\ Con[TraceOf[r]] # {} /\ TraceOf[r] \notin InRing /\ TraceOf[r] \notin Removed
            /\ \A q \in Batches : q # r /\ TraceOf[q] = TraceOf[r] => releaser[q] \notin Busy
        BY <2>1, <3>1 DEF GenInv, DataInv, ReaderOK
      <3>3. TraceOf[r] \in Leave /\ TraceOf[r] \in Traces
        BY <2>1 DEF Leave, Held, Busy
      <3>4. TraceOf[r] # t
        BY <1>3, <1>5, <2>1, <3>3
      <3> QED
        BY <1>5, <1>9, <1>14, <3>2, <3>3, <3>4
    <2> QED
      BY <1>1, <2>1 DEF ReaderOK
  <1>35. timer[b] = "none" /\ releaser[b] = "none" /\ b \notin Expired
    BY <1>4 DEF GenInv, ControlInv, TimerOK
  <1>36. TimerOK'
    BY <1>1, <1>4, <1>12, <1>14, <1>35 DEF GenInv, ControlInv, TimerOK
  <1>37. OwnerOK'
    <2>1. ASSUME NEW a \in Batches, timer'[a] \in {"armed", "firing"} \/ a \in Expired,
                 TraceOf[a] \notin evicted'
          PROVE  owner'[TraceOf[a]] = {a} /\ TraceOf[a] \in InRing'
      <3>1. CASE a = b
        BY <1>3, <1>9, <1>11, <3>1
      <3>2. CASE a # b
        <4>1. owner[TraceOf[a]] = {a} /\ TraceOf[a] \in InRing
          BY <1>8, <1>12, <2>1, <3>2 DEF GenInv, ControlInv, OwnerOK
        <4>2. TraceOf[a] \in Traces /\ TraceOf[a] # t /\ TraceOf[a] # NoTrace
          BY <1>9, <4>1, RingAssumption
        <4>3. TraceOf[a] # g
          BY <1>8, <2>1, <4>2
        <4> QED
          BY <1>9, <1>11, <4>1, <4>2, <4>3
      <3> QED
        BY <3>1, <3>2
    <2> QED
      BY <1>14, <2>1 DEF OwnerOK
  <1>38. OutOK'
    BY <1>1, <1>14 DEF GenInv, ControlInv, OutOK
  <1> QED
    BY <1>6, <1>22, <1>23, <1>25, <1>26, <1>28, <1>29, <1>30, <1>31, <1>32, <1>33, <1>34,
       <1>36, <1>37, <1>38 DEF GenInv, ControlInv, DataInv

LEMMA NextGen == RingInv /\ Types /\ GenInv /\ [Next]_vars => GenInv'
  <1>1. ASSUME RingInv, Types, GenInv, NEW b \in Batches, Get(b)
        PROVE  GenInv'
    BY <1>1, GetNothingGen, GetCopyGen
  <1> QED
    BY <1>1, QuietGen, SendGen, StopReceivedGen, ExpiredGen, RemovedGen, ReleasedGen,
       KnownGen, NewGen
       DEF Next, MachineStep, TimerStep, ReleaserStep

LEMMA GenInvariance == Spec => [](RingInv /\ Types /\ GenInv)
  BY InitRingInv, NextRingInv, InitTypes, NextTypes, InitGen, NextGen, PTL DEF Spec

-----------------------------------------------------------------------------
(* What the processor promises. *)

\* A delivery is of one trace, each batch once, and holds all that was stored in
\* time during one stay of the trace in the ring; two deliveries share spans
\* only together with batches that came while the trace was leaving.  For any
\* arrivals, whatever the order of timers, releasers, eviction and removal.
THEOREM DeliveredWholeAndOnce == Spec => []WholeAndOnce
  <1>1. Types /\ GenInv => WholeAndOnce
    <2> SUFFICES ASSUME Types, GenInv
                 PROVE  WholeAndOnce
      OBVIOUS
    <2>1. ASSUME NEW i \in DOMAIN out
          PROVE  /\ out[i].by \in Batches /\ out[i].spans = loot[out[i].by]
                 /\ Elements(out[i].spans) = Lot[out[i].by]
      BY Releasers DEF GenInv, ControlInv, OutOK, Lot
    <2>2. ASSUME NEW i \in DOMAIN out
          PROVE  /\ \A j, k \in DOMAIN out[i].spans : out[i].spans[j] = out[i].spans[k] => j = k
                 /\ \E t \in Traces : Elements(out[i].spans) \subseteq BatchesOf(t)
                 /\ \A a \in Elements(out[i].spans) \ late, b \in Batches \ late :
                       stay[a] = stay[b] => b \in Elements(out[i].spans)
      <3>1. PICK r \in Batches : r = out[i].by /\ out[i].spans = loot[r] /\ Elements(out[i].spans) = Lot[r]
        BY <2>1
      <3>2. Distinct(loot[r]) /\ \A a \in Lot[r] : a \in Stored /\ TraceOf[a] = TraceOf[r]
        BY DEF GenInv, DataInv, LootOK
      <3>3. TraceOf[r] \in Traces /\ Lot[r] \subseteq BatchesOf(TraceOf[r])
        BY <3>2, GroupByTraceAssumption DEF BatchesOf, Stored
      <3>4. \A a \in Lot[r] \ late, b \in Batches \ late : stay[a] = stay[b] => b \in Lot[r]
        BY <3>2 DEF GenInv, DataInv, Together, Stored
      <3> QED
        BY <3>1, <3>2, <3>3, <3>4 DEF Distinct
    <2>3. ASSUME NEW i \in DOMAIN out, NEW j \in DOMAIN out, i # j,
                 Elements(out[i].spans) \cap Elements(out[j].spans) # {}
          PROVE  (Elements(out[i].spans) \cup Elements(out[j].spans)) \cap late # {}
      <3>1. out[i].by # out[j].by
        BY <2>3 DEF GenInv, ControlInv, OutOK
      <3> QED
        BY <2>1, <2>3, <3>1 DEF GenInv, DataInv, SharedOK
    <2> QED
      BY <2>2, <2>3 DEF WholeAndOnce
  <1> QED
    BY <1>1, GenInvariance, PTL

\* A releaser copies no evicted spans unless more of the trace came before they
\* were removed, even if its timer was over before the eviction; and a trace
\* that was never evicted is released by the timer of its present stay.
THEOREM EvictedStayUnreleased == Spec => EvictedNotReleased
  <1>1. RingInv /\ Types /\ GenInv /\ [Next]_vars =>
          [\A b \in Batches : CopiesNotEvicted(b) /\ ByOwnTimer(b)]_vars
    <2>1. SUFFICES ASSUME RingInv, Types, GenInv, Next, NEW b \in Batches
                   PROVE  CopiesNotEvicted(b) /\ ByOwnTimer(b)
      OBVIOUS
    <2>2. CopiesNotEvicted(b)
      <3>1. SUFFICES ASSUME loot'[b] # loot[b], Elements(loot'[b]) \cap discarded # {}
                     PROVE  Elements(loot'[b]) \cap late # {}
        BY DEF CopiesNotEvicted
      <3>2. \E r \in Batches : Get(r) /\ loot' # loot
        BY <2>1, <3>1 DEF Next, MachineStep, TimerStep, ReleaserStep, Start, Shutdown,
           ConsumeTraces, SendReceived, TimerFires, SendExpired, FireReleased,
           SendReleased, SendRemoved, OnTraceReceived, ProcessKnown, ProcessNew, OnTraceExpired,
           OnTraceReleased, OnTraceReleasedFails, OnTraceRemoved, OnStop, Close, Get
      <3>3. PICK r \in Batches : Get(r) /\ loot' # loot
        BY <3>2
      <3>4. releaser[r] = "reading" /\ loot' = [loot EXCEPT ![r] = content[TraceOf[r]]]
        BY <3>3 DEF Get
      <3>5. r = b /\ loot'[b] = content[TraceOf[b]]
        BY <3>1, <3>4, <2>1 DEF Types
      <3>6. PICK t \in Traces : t = TraceOf[b]
        BY GroupByTraceAssumption
      <3>7. t \in Read /\ Elements(loot'[b]) = Con[t]
        BY <3>4, <3>5, <3>6 DEF Read, Con
      <3> QED
        BY <2>1, <3>1, <3>7 DEF GenInv, DataInv, EvictedOK
    <2>3. ByOwnTimer(b)
      <3>1. SUFFICES ASSUME releaser[b] = "none", releaser'[b] = "reading"
                     PROVE  owner[TraceOf[b]] = {b} \/ TraceOf[b] \in evicted
        BY DEF ByOwnTimer
      <3>2. OnTraceExpired
        BY <2>1, <3>1 DEF Types, Next, MachineStep, TimerStep, ReleaserStep, Start, Shutdown, Begin,
           ConsumeTraces, SendReceived, TimerFires, SendExpired, Get, FireReleased,
           SendReleased, SendRemoved, OnTraceReceived, ProcessKnown, ProcessNew,
           OnTraceReleased, OnTraceReleasedFails, OnTraceRemoved, OnStop, Close
      <3>3. events # <<>> /\ events' = Tail(events) /\ Head(events)[1] = "expired"
        BY <3>2 DEF OnTraceExpired, Takes
      <3>4. PICK a \in Batches : Head(events) = <<"expired", a>>
        BY <2>1, <3>3, HeadEvent
      <3>5. a \in Expired
        BY <2>1, <3>3, <3>4, Took DEF RingInv, GenInv, ControlInv
      <3>6. a = b
        BY <2>1, <3>1, <3>2, <3>4 DEF OnTraceExpired, Types
      <3> QED
        BY <2>1, <3>5, <3>6 DEF GenInv, ControlInv, OwnerOK
    <2> QED
      BY <2>2, <2>3
  <1> QED
    BY <1>1, GenInvariance, PTL DEF Spec, EvictedNotReleased

\* What onTraceRemoved deletes unsent was stored when its trace was evicted, was
\* refused, or came while its trace was leaving, and get leaves the storage
\* locked only after such a late arrival.
THEOREM LossStaysExplained == Spec => []LossIsExplained
  <1>1. GenInv => LossIsExplained
    BY DEF GenInv, DataInv
  <1> QED
    BY <1>1, GenInvariance, PTL
=============================================================================
