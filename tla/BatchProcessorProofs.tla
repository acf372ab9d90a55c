------------------------ MODULE BatchProcessorProofs ------------------------
(***************************************************************************)
(* Proofs about the batch processor, for any calls with payloads of any    *)
(* size, any sizes of batch and channel, and any interleaving of callers,  *)
(* cycle, timer, remainders and Shutdown; and about the slices of pdata    *)
(* that payloads are made of, for any number and length of slices.         *)
(***************************************************************************)
EXTENDS BatchProcessor, PdataSlice, FiniteSetTheorems, TLAPS

\* splitTrace takes from the end: a payload object is always the front of what it was.
Fronts ==
    \A c \in Calls :
        /\ Len(payload[c]) <= SpanCount[c]
        /\ \A k \in 1 .. Len(payload[c]) : payload[c][k] = <<c, k>>

\* A span is not in two of the places behind the payload,
Disjoint == batch \cap sent = {} /\ batch \cap failed = {} /\ sent \cap failed = {}

\* and it is in one of them if and only if it has left its payload.
OutWhenTaken ==
    \A c \in Calls : \A k \in 1 .. SpanCount[c] :
        <<c, k>> \in batch \cup sent \cup failed <=> k > Len(payload[c])

Counted == IsFiniteSet(batch) /\ Cardinality(batch) = spanCount

\* A full batch is sent at once, so that there is room for what a split takes.
NotFull == spanCount < SendBatchSize \/ spanCount = 0

\* A payload that was accepted and is not empty is on its way to the cycle.
OnItsWay ==
    \A c \in called : payload[c] = <<>> \/ c \in resending \/ c \in Elements(newItem)

Ended == cycle = "done" => closed /\ newItem = <<>> /\ batch = {}

SpansInv == TypeOK /\ Fronts /\ Disjoint /\ OutWhenTaken /\ Counted /\ NotFull
IInv == SpansInv /\ OnItsWay /\ Ended

-----------------------------------------------------------------------------
(* Sequences *)

\* A sequence that has every element once has as many elements as its length.
LEMMA DistinctElements ==
    ASSUME NEW S, NEW s \in Seq(S),
           \A x, y \in 1 .. Len(s) : s[x] = s[y] => x = y
    PROVE  IsFiniteSet(Elements(s)) /\ Cardinality(Elements(s)) = Len(s)
<1>1. s \in Bijection(1 .. Len(s), Elements(s))
  <2>1. s \in [1 .. Len(s) -> Elements(s)]
    BY DEF Elements
  <2>2. \A t \in Elements(s) : \E x \in 1 .. Len(s) : s[x] = t
    BY DEF Elements
  <2> QED BY <2>1, <2>2 DEF Bijection, Injection, Surjection, IsInjective
<1>2. ExistsBijection(1 .. Len(s), Elements(s))
  BY <1>1 DEF ExistsBijection
<1>3. Len(s) \in Nat /\ IsFiniteSet(1 .. Len(s)) /\ Cardinality(1 .. Len(s)) = Len(s)
  BY FS_Interval
<1> QED
  BY <1>2, <1>3, FS_Bijection

\* Receiving takes one item out of the channel.
LEMMA TailElements ==
    ASSUME NEW S, NEW s \in Seq(S), s # <<>>
    PROVE  \A e \in Elements(s) : e = Head(s) \/ e \in Elements(Tail(s))
<1> TAKE e \in Elements(s)
<1>1. PICK x \in 1 .. Len(s) : s[x] = e
  BY DEF Elements
<1>2. CASE x = 1
  BY <1>1, <1>2
<1>3. CASE x # 1
  <2>1. x - 1 \in 1 .. Len(Tail(s)) /\ Tail(s)[x - 1] = s[x]
    BY <1>3
  <2>2. x - 1 \in DOMAIN Tail(s)
    BY <2>1
  <2> QED BY <1>1, <2>1, <2>2 DEF Elements
<1> QED
  BY <1>2, <1>3

\* Sending adds one and keeps the others.
LEMMA AppendElements ==
    ASSUME NEW S, NEW s \in Seq(S), NEW e \in S
    PROVE  Elements(Append(s, e)) = Elements(s) \cup {e}
<1>1. /\ Len(Append(s, e)) = Len(s) + 1 /\ Append(s, e)[Len(s) + 1] = e
      /\ \A x \in 1 .. Len(s) : Append(s, e)[x] = s[x]
      /\ DOMAIN Append(s, e) = 1 .. Len(s) + 1 /\ DOMAIN s = 1 .. Len(s)
  OBVIOUS
<1> QED
  BY <1>1 DEF Elements

-----------------------------------------------------------------------------
(* The steps of the cycle *)

\* batch.add and sendItems, for the spans n + 1 .. of the payload of call c: they are
\* counted once, none is left behind and none is in two places.
LEMMA AddKeepsSpans ==
    ASSUME SpansInv, NEW c \in Calls, NEW n \in 0 .. Len(payload[c]),
           NEW moved \in Seq(Spans), Len(moved) = Len(payload[c]) - n,
           \A x \in 1 .. Len(moved) : moved[x] = <<c, n + x>>,
           NEW left \in Seq(Spans), Len(left) = n,
           \A x \in 1 .. n : left[x] = <<c, x>>,
           payload' = [payload EXCEPT ![c] = left],
           AddAndSend(moved)
    PROVE  /\ batch' \subseteq Spans /\ sent' \subseteq Spans /\ failed' \subseteq Spans
           /\ spanCount' \in Nat /\ largest' \in Nat
           /\ armed' \in BOOLEAN /\ tick' \in {"none", "due", "stale"}
           /\ Fronts' /\ Disjoint' /\ OutWhenTaken' /\ Counted' /\ NotFull'
<1> DEFINE spans == batch \cup Elements(moved)
           size == spanCount + Len(moved)
<1>1. /\ SpanCount \in [Calls -> Nat] /\ payload \in [Calls -> Seq(Spans)]
      /\ spanCount \in Nat /\ Len(payload[c]) <= SpanCount[c]
  BY BatchAssumption DEF SpansInv, TypeOK, Fronts
<1>2. Elements(moved) = {<<c, k>> : k \in (n + 1) .. Len(payload[c])}
  <2>1. \A k \in (n + 1) .. Len(payload[c]) : k - n \in 1 .. Len(moved) /\ moved[k - n] = <<c, k>>
    BY <1>1
  <2>2. \A x \in 1 .. Len(moved) : n + x \in (n + 1) .. Len(payload[c])
    BY <1>1
  <2>3. DOMAIN moved = 1 .. Len(moved)
    OBVIOUS
  <2>4. Elements(moved) \subseteq {<<c, k>> : k \in (n + 1) .. Len(payload[c])}
    <3> SUFFICES ASSUME NEW e \in Elements(moved)
                 PROVE  \E k \in (n + 1) .. Len(payload[c]) : e = <<c, k>>
      OBVIOUS
    <3>1. PICK x \in 1 .. Len(moved) : e = moved[x]
      BY <2>3, Zenon DEF Elements
    <3> WITNESS n + x \in (n + 1) .. Len(payload[c])
    <3> QED BY <3>1
  <2>5. {<<c, k>> : k \in (n + 1) .. Len(payload[c])} \subseteq Elements(moved)
    <3> SUFFICES ASSUME NEW k \in (n + 1) .. Len(payload[c])
                 PROVE  <<c, k>> \in Elements(moved)
      OBVIOUS
    <3>1. k - n \in DOMAIN moved /\ moved[k - n] = <<c, k>>
      BY <2>1, <2>3
    <3> QED BY <3>1, Zenon DEF Elements
  <2> QED BY <2>4, <2>5
<1>3. Elements(moved) \cap (batch \cup sent \cup failed) = {}
  BY <1>1, <1>2 DEF SpansInv, OutWhenTaken
<1>4. IsFiniteSet(spans) /\ Cardinality(spans) = size
  <2>0. \A x, y \in 1 .. Len(moved) : moved[x] = moved[y] => x = y
    OBVIOUS
  <2>1. IsFiniteSet(Elements(moved)) /\ Cardinality(Elements(moved)) = Len(moved)
    BY <2>0, DistinctElements
  <2>2. batch \cap Elements(moved) = {}
    BY <1>3
  <2> HIDE DEF spans
  <2>3. Cardinality(batch \cap Elements(moved)) = 0
    BY <2>2, FS_EmptySet
  <2>4. IsFiniteSet(batch) /\ Cardinality(batch) = spanCount
    BY DEF SpansInv, Counted
  <2>5. /\ IsFiniteSet(spans)
        /\ Cardinality(spans) = spanCount + Len(moved) - Cardinality(batch \cap Elements(moved))
    BY <2>1, <2>4, FS_Union DEF spans
  <2>6. Len(moved) \in Nat
    OBVIOUS
  <2> QED BY <1>1, <2>3, <2>5, <2>6
<1>5. Elements(moved) \subseteq Spans
  BY DEF Elements
<1>6. spans \cap sent = {} /\ spans \cap failed = {} /\ spans \subseteq Spans
  BY <1>3, <1>5 DEF SpansInv, Disjoint, TypeOK
<1>7. /\ batch' \cup sent' \cup failed' = batch \cup sent \cup failed \cup Elements(moved)
      /\ Disjoint'
      /\ batch' \subseteq Spans /\ sent' \subseteq Spans /\ failed' \subseteq Spans
  BY <1>6 DEF AddAndSend, SendItems, Disjoint, SpansInv, TypeOK
<1>8. OutWhenTaken'
  <2> SUFFICES ASSUME NEW d \in Calls, NEW k \in 1 .. SpanCount[d]
               PROVE  <<d, k>> \in batch' \cup sent' \cup failed' <=> k > Len(payload'[d])
    BY DEF OutWhenTaken
  <2>1. <<d, k>> \in batch \cup sent \cup failed <=> k > Len(payload[d])
    BY DEF SpansInv, OutWhenTaken
  <2>2. CASE d # c
    <3>1. payload'[d] = payload[d] /\ <<d, k>> \notin Elements(moved)
      BY <1>1, <1>2, <2>2
    <3> QED BY <1>7, <2>1, <3>1
  <2>3. CASE d = c
    <3>1. Len(payload'[d]) = n
      BY <1>1, <2>3
    <3>2. <<d, k>> \in Elements(moved) <=> k \in (n + 1) .. Len(payload[c])
      BY <1>2, <2>3
    <3>3. Len(payload[c]) \in Nat /\ k \in Nat
      BY <1>1
    <3> QED BY <1>7, <2>1, <2>3, <3>1, <3>2, <3>3
  <2> QED BY <2>2, <2>3
<1>9. Fronts'
  BY <1>1 DEF Fronts, SpansInv
<1>10. Counted' /\ NotFull' /\ spanCount' \in Nat
  <2>1. CASE size >= SendBatchSize
    <3>1. batch' = {} /\ spanCount' = 0
      BY <2>1 DEF AddAndSend, SendItems
    <3>2. IsFiniteSet({}) /\ Cardinality({}) = 0
      BY FS_EmptySet
    <3> QED BY <3>1, <3>2 DEF Counted, NotFull
  <2>2. CASE ~(size >= SendBatchSize)
    <3>1. batch' = spans /\ spanCount' = size
      BY <2>2 DEF AddAndSend
    <3> QED BY <1>1, <1>4, <2>2, <3>1, BatchAssumption DEF Counted, NotFull
  <2> QED BY <2>1, <2>2
<1>11. largest' \in Nat
  <2>1. size \in Nat /\ largest \in Nat
    BY <1>1 DEF SpansInv, TypeOK
  <2> QED BY <2>1 DEF AddAndSend, SendItems
<1>12. armed' \in BOOLEAN /\ tick' \in {"none", "due", "stale"}
  BY Zenon DEF AddAndSend, SpansInv, TypeOK
<1> QED
  BY <1>7, <1>8, <1>9, <1>10, <1>11, <1>12

\* sendItems with the batch as it is: on a tick, and when the channel is closed.
LEMMA FlushKeepsSpans ==
    ASSUME SpansInv, SendItems(batch, spanCount), UNCHANGED payload
    PROVE  /\ batch' \subseteq Spans /\ sent' \subseteq Spans /\ failed' \subseteq Spans
           /\ spanCount' \in Nat /\ largest' \in Nat
           /\ Fronts' /\ Disjoint' /\ OutWhenTaken' /\ Counted' /\ NotFull'
<1>1. /\ batch' \cup sent' \cup failed' = batch \cup sent \cup failed
      /\ Disjoint'
      /\ batch' \subseteq Spans /\ sent' \subseteq Spans /\ failed' \subseteq Spans
  BY DEF SendItems, Disjoint, SpansInv, TypeOK
<1>2. batch' = {} /\ spanCount' = 0 /\ IsFiniteSet({}) /\ Cardinality({}) = 0
  BY FS_EmptySet DEF SendItems
<1>3. largest' \in Nat
  BY DEF SendItems, SpansInv, TypeOK
<1>4. Fronts' /\ OutWhenTaken'
  BY <1>1 DEF Fronts, OutWhenTaken, SpansInv
<1> QED
  BY <1>1, <1>2, <1>3, <1>4 DEF Counted, NotFull

\* What splitTrace takes and leaves are the end and the front of the payload.
LEMMA SplitFrontAndEnd ==
    ASSUME SpansInv, NEW c \in Calls
    PROVE  LET split == SplitTrace(c, Room) IN
           /\ split.taken \in Seq(Spans) /\ split.left \in Seq(Spans)
           /\ Len(split.left) \in 0 .. Len(payload[c])
           /\ Len(split.taken) = Len(payload[c]) - Len(split.left)
           /\ \A x \in 1 .. Len(split.taken) : split.taken[x] = <<c, Len(split.left) + x>>
           /\ \A x \in 1 .. Len(split.left) : split.left[x] = <<c, x>>
           /\ Len(split.taken) <= Room
<1> DEFINE td == payload[c]
<1>1. td \in Seq(Spans) /\ Len(td) \in Nat /\ \A k \in 1 .. Len(td) : td[k] = <<c, k>>
  BY DEF SpansInv, TypeOK, Fronts
<1>2. Room \in Nat
  BY BatchAssumption DEF Room, SpansInv, TypeOK, NotFull
<1>3. CASE Len(td) <= Room
  BY <1>1, <1>2, <1>3 DEF SplitTrace
<1>4. CASE ~(Len(td) <= Room)
  <2> DEFINE lo == Len(td) - Room
             front == SubSeq(td, 1, lo)
             end == SubSeq(td, lo + 1, Len(td))
  <2>1. lo \in Nat /\ 1 <= lo /\ lo <= Len(td) /\ Len(td) - lo = Room
    BY <1>1, <1>2, <1>4
  <2> HIDE DEF lo, td
  <2>2. /\ front \in Seq(Spans) /\ Len(front) = lo
        /\ \A x \in 1 .. lo : front[x] = td[x]
    BY <1>1, <2>1
  <2>3. /\ end \in Seq(Spans) /\ Len(end) = Len(td) - lo
        /\ \A x \in 1 .. Len(td) - lo : end[x] = td[lo + x]
    BY <1>1, <2>1
  <2> HIDE DEF front, end
  <2>4. SplitTrace(c, Room) = [taken |-> end, left |-> front]
    BY <1>4 DEF SplitTrace, lo, td, front, end
  <2>5. \A x \in 1 .. Len(td) - lo : td[lo + x] = <<c, lo + x>>
    BY <1>1, <2>1
  <2>6. \A x \in 1 .. lo : td[x] = <<c, x>>
    BY <1>1, <2>1
  <2>7. Len(payload[c]) = Len(td)
    BY DEF td
  <2>8. SplitTrace(c, Room).taken = end /\ SplitTrace(c, Room).left = front
    BY <2>4
  <2>9. /\ lo \in 0 .. Len(td) /\ Len(end) = Len(td) - Len(front) /\ Len(end) <= Room
        /\ \A x \in 1 .. Len(end) : end[x] = <<c, Len(front) + x>>
        /\ \A x \in 1 .. Len(front) : front[x] = <<c, x>>
    BY <1>1, <1>2, <2>1, <2>2, <2>3, <2>5, <2>6
  <2> QED
    BY <2>2, <2>3, <2>7, <2>8, <2>9
<1> QED
  BY <1>3, <1>4

\* Callers, Shutdown and the timer leave the spans where they are.
LEMMA FrameKeepsSpans ==
    ASSUME SpansInv, UNCHANGED <<payload, batch, spanCount, sent, failed>>
    PROVE  Fronts' /\ Disjoint' /\ OutWhenTaken' /\ Counted' /\ NotFull'
  BY DEF SpansInv, Fronts, Disjoint, OutWhenTaken, Counted, NotFull

\* Taking the first item: it is the only one that need no longer be in the channel.
LEMMA ReceiveKeepsTheOthers ==
    ASSUME IInv, newItem # <<>>, newItem' = Tail(newItem), UNCHANGED called,
           resending \subseteq resending',
           \A d \in Calls \ {Head(newItem)} : payload'[d] = payload[d],
           payload'[Head(newItem)] = <<>> \/ Head(newItem) \in resending'
    PROVE  OnItsWay' /\ newItem' \in Seq(Calls) /\ Len(newItem') <= ChannelSize
<1>1. newItem \in Seq(Calls) /\ Len(newItem) <= ChannelSize /\ called \subseteq Calls
  BY DEF IInv, SpansInv, TypeOK
<1>2. \A d \in Elements(newItem) : d = Head(newItem) \/ d \in Elements(Tail(newItem))
  BY <1>1, TailElements
<1>3. newItem' \in Seq(Calls) /\ Len(newItem') <= ChannelSize
  BY <1>1, BatchAssumption
<1>4. OnItsWay'
  BY <1>1, <1>2 DEF IInv, OnItsWay
<1> QED
  BY <1>3, <1>4

\* The inductive invariant holds before Start,
LEMMA InitInv == Init => IInv
<1> SUFFICES ASSUME Init PROVE IInv
  OBVIOUS
<1>1. \A c \in Calls : SpanCount[c] \in Nat
  BY BatchAssumption
<1>2. \A c \in Calls : \A k \in 1 .. SpanCount[c] : <<c, k>> \in Spans
  BY DEF Spans, SpansOf
<1>3. \A c \in Calls : /\ payload[c] \in Seq(Spans) /\ Len(payload[c]) = SpanCount[c]
                       /\ \A k \in 1 .. SpanCount[c] : payload[c][k] = <<c, k>>
  BY <1>1, <1>2 DEF Init
<1>4. payload \in [Calls -> Seq(Spans)]
  BY <1>3 DEF Init
<1>5. TypeOK
  <2>1. newItem \in Seq(Calls) /\ Len(newItem) <= ChannelSize
    BY BatchAssumption DEF Init
  <2> QED BY <1>4, <2>1 DEF Init, TypeOK
<1>6. Fronts /\ Disjoint /\ OutWhenTaken
  BY <1>1, <1>3 DEF Init, Fronts, Disjoint, OutWhenTaken
<1>7. Counted /\ NotFull
  BY FS_EmptySet DEF Init, Counted, NotFull
<1>8. OnItsWay /\ Ended
  BY DEF Init, OnItsWay, Ended
<1> QED
  BY <1>5, <1>6, <1>7, <1>8 DEF IInv, SpansInv

\* and every step keeps it.
LEMMA StepInv ==
    ASSUME IInv, [Next]_vars
    PROVE  IInv'
<1>0. SpansInv /\ TypeOK /\ OnItsWay /\ Ended
  BY DEF IInv, SpansInv
<1> DEFINE Goal == TypeOK' /\ Fronts' /\ Disjoint' /\ OutWhenTaken' /\ Counted' /\ NotFull'
                   /\ OnItsWay' /\ Ended'
<1>1. ASSUME Start PROVE Goal
  <2>1. Fronts' /\ Disjoint' /\ OutWhenTaken' /\ Counted' /\ NotFull'
    BY <1>0, <1>1, FrameKeepsSpans DEF Start
  <2>2. TypeOK' /\ OnItsWay' /\ Ended'
    BY <1>0, <1>1 DEF Start, TypeOK, OnItsWay, Ended
  <2> QED BY <2>1, <2>2
<1>2. ASSUME Shutdown PROVE Goal
  <2>1. Fronts' /\ Disjoint' /\ OutWhenTaken' /\ Counted' /\ NotFull'
    BY <1>0, <1>2, FrameKeepsSpans DEF Shutdown
  <2>2. TypeOK' /\ OnItsWay' /\ Ended'
    BY <1>0, <1>2 DEF Shutdown, TypeOK, OnItsWay, Ended
  <2> QED BY <2>1, <2>2
<1>3. ASSUME TimerExpires PROVE Goal
  <2>1. Fronts' /\ Disjoint' /\ OutWhenTaken' /\ Counted' /\ NotFull'
    BY <1>0, <1>3, FrameKeepsSpans DEF TimerExpires
  <2>2. TypeOK' /\ OnItsWay' /\ Ended'
    BY <1>0, <1>3 DEF TimerExpires, TypeOK, OnItsWay, Ended
  <2> QED BY <2>1, <2>2
<1>4. ASSUME NEW c \in Calls, ResendPanics(c) PROVE Goal
  <2>1. Fronts' /\ Disjoint' /\ OutWhenTaken' /\ Counted' /\ NotFull'
    BY <1>0, <1>4, FrameKeepsSpans DEF ResendPanics
  <2>2. TypeOK' /\ OnItsWay' /\ Ended'
    BY <1>0, <1>4 DEF ResendPanics, TypeOK, OnItsWay, Ended
  <2> QED BY <2>1, <2>2
<1>5. ASSUME NEW c \in Calls, ConsumeTraces(c) PROVE Goal
  <2>1. Fronts' /\ Disjoint' /\ OutWhenTaken' /\ Counted' /\ NotFull'
    BY <1>0, <1>5, FrameKeepsSpans DEF ConsumeTraces
  <2>2. Elements(newItem') = Elements(newItem) \cup {c}
    BY <1>0, <1>5, AppendElements DEF ConsumeTraces, TypeOK
  <2>3. TypeOK'
    BY <1>0, <1>5, BatchAssumption DEF ConsumeTraces, TypeOK
  <2>4. OnItsWay' /\ Ended'
    BY <1>0, <1>5, <2>2 DEF ConsumeTraces, OnItsWay, Ended
  <2> QED BY <2>1, <2>3, <2>4
<1>6. ASSUME NEW c \in Calls, Resend(c) PROVE Goal
  <2>1. Fronts' /\ Disjoint' /\ OutWhenTaken' /\ Counted' /\ NotFull'
    BY <1>0, <1>6, FrameKeepsSpans DEF Resend
  <2>2. Elements(newItem') = Elements(newItem) \cup {c}
    BY <1>0, <1>6, AppendElements DEF Resend, TypeOK
  <2>3. TypeOK'
    BY <1>0, <1>6, BatchAssumption DEF Resend, TypeOK
  <2>4. OnItsWay' /\ Ended'
    BY <1>0, <1>6, <2>2 DEF Resend, OnItsWay, Ended
  <2> QED BY <2>1, <2>3, <2>4
<1>7. ASSUME ReceiveWhole PROVE Goal
  <2>1. PICK c \in Calls : c = Head(newItem)
    BY <1>0, <1>7 DEF ReceiveWhole, TypeOK
  <2>2. PICK moved \in Seq(Spans) : moved = payload[c]
    BY <1>0 DEF TypeOK
  <2>3. payload' = [payload EXCEPT ![c] = <<>>] /\ AddAndSend(moved)
    BY <1>7, <2>1, <2>2 DEF ReceiveWhole
  <2>4. PICK left \in Seq(Spans) : left = <<>>
    <3>1. <<>> \in Seq(Spans)
      OBVIOUS
    <3> QED BY <3>1, Zenon
  <2>5. PICK n \in 0 .. Len(payload[c]) :
          /\ Len(left) = n /\ Len(moved) = Len(payload[c]) - n
          /\ \A x \in 1 .. Len(moved) : moved[x] = <<c, n + x>>
          /\ \A x \in 1 .. n : left[x] = <<c, x>>
    <3>1. /\ 0 \in 0 .. Len(payload[c]) /\ Len(left) = 0 /\ Len(moved) = Len(payload[c]) - 0
          /\ \A x \in 1 .. Len(moved) : moved[x] = <<c, 0 + x>>
      BY <1>0, <2>2, <2>4 DEF SpansInv, Fronts
    <3> QED BY <3>1
  <2>6. /\ batch' \subseteq Spans /\ sent' \subseteq Spans /\ failed' \subseteq Spans
        /\ spanCount' \in Nat /\ largest' \in Nat
        /\ armed' \in BOOLEAN /\ tick' \in {"none", "due", "stale"}
        /\ Fronts' /\ Disjoint' /\ OutWhenTaken' /\ Counted' /\ NotFull'
    BY <1>0, <2>3, <2>4, <2>5, AddKeepsSpans
  <2>7. OnItsWay' /\ newItem' \in Seq(Calls) /\ Len(newItem') <= ChannelSize
    BY <1>0, <1>7, <2>1, <2>3, ReceiveKeepsTheOthers DEF ReceiveWhole, TypeOK
  <2>8. payload' \in [Calls -> Seq(Spans)]
    BY <1>0, <2>3 DEF TypeOK
  <2>9. TypeOK' /\ Ended'
    BY <1>0, <1>7, <2>6, <2>7, <2>8 DEF ReceiveWhole, TypeOK, Ended
  <2> QED BY <2>6, <2>7, <2>9
<1>8. ASSUME ReceiveSplit PROVE Goal
  <2>1. PICK c \in Calls : c = Head(newItem)
    BY <1>0, <1>8 DEF ReceiveSplit, TypeOK
  <2>2. PICK moved \in Seq(Spans), left \in Seq(Spans) :
            moved = SplitTrace(c, Room).taken /\ left = SplitTrace(c, Room).left
    BY <1>0, SplitFrontAndEnd
  <2>3. /\ payload' = [payload EXCEPT ![c] = left] /\ AddAndSend(moved)
        /\ resending' = resending \cup {c}
    BY <1>8, <2>1, <2>2 DEF ReceiveSplit
  <2>4. PICK n \in 0 .. Len(payload[c]) :
          /\ Len(left) = n /\ Len(moved) = Len(payload[c]) - n
          /\ \A x \in 1 .. Len(moved) : moved[x] = <<c, n + x>>
          /\ \A x \in 1 .. n : left[x] = <<c, x>>
    BY <1>0, <2>2, SplitFrontAndEnd
  <2>5. /\ batch' \subseteq Spans /\ sent' \subseteq Spans /\ failed' \subseteq Spans
        /\ spanCount' \in Nat /\ largest' \in Nat
        /\ armed' \in BOOLEAN /\ tick' \in {"none", "due", "stale"}
        /\ Fronts' /\ Disjoint' /\ OutWhenTaken' /\ Counted' /\ NotFull'
    BY <1>0, <2>3, <2>4, AddKeepsSpans
  <2>6. OnItsWay' /\ newItem' \in Seq(Calls) /\ Len(newItem') <= ChannelSize
    BY <1>0, <1>8, <2>1, <2>3, ReceiveKeepsTheOthers DEF ReceiveSplit, TypeOK
  <2>7. payload' \in [Calls -> Seq(Spans)]
    BY <1>0, <2>3 DEF TypeOK
  <2>8. TypeOK' /\ Ended'
    BY <1>0, <1>8, <2>3, <2>5, <2>6, <2>7 DEF ReceiveSplit, TypeOK, Ended
  <2> QED BY <2>5, <2>6, <2>8
<1>9. ASSUME ReceiveClose PROVE Goal
  <2>1. CASE spanCount > 0
    <3>1. SendItems(batch, spanCount) /\ UNCHANGED payload
      BY <1>9, <2>1 DEF ReceiveClose
    <3>2. /\ batch' \subseteq Spans /\ sent' \subseteq Spans /\ failed' \subseteq Spans
          /\ spanCount' \in Nat /\ largest' \in Nat
          /\ Fronts' /\ Disjoint' /\ OutWhenTaken' /\ Counted' /\ NotFull'
      BY <1>0, <3>1, FlushKeepsSpans
    <3>3. batch' = {}
      BY <3>1 DEF SendItems
    <3>4. TypeOK' /\ OnItsWay' /\ Ended'
      BY <1>0, <1>9, <3>2, <3>3 DEF ReceiveClose, TypeOK, OnItsWay, Ended
    <3> QED BY <3>2, <3>4
  <2>2. CASE ~(spanCount > 0)
    <3>1. UNCHANGED <<payload, batch, spanCount, sent, failed, largest>>
      BY <1>9, <2>2 DEF ReceiveClose
    <3>2. Fronts' /\ Disjoint' /\ OutWhenTaken' /\ Counted' /\ NotFull'
      BY <1>0, <3>1, FrameKeepsSpans
    <3>3. Cardinality(batch) = 0 /\ IsFiniteSet(batch)
      BY <1>0, <2>2 DEF SpansInv, Counted, TypeOK
    <3>4. batch = {}
      BY <3>3, FS_EmptySet
    <3>5. TypeOK' /\ OnItsWay' /\ Ended'
      BY <1>0, <1>9, <3>1, <3>4 DEF ReceiveClose, TypeOK, OnItsWay, Ended
    <3> QED BY <3>2, <3>5
  <2> QED BY <2>1, <2>2
<1>10. ASSUME TimerTick PROVE Goal
  <2>1. CASE spanCount > 0
    <3>1. SendItems(batch, spanCount) /\ UNCHANGED payload
      BY <1>10, <2>1 DEF TimerTick
    <3>2. /\ batch' \subseteq Spans /\ sent' \subseteq Spans /\ failed' \subseteq Spans
          /\ spanCount' \in Nat /\ largest' \in Nat
          /\ Fronts' /\ Disjoint' /\ OutWhenTaken' /\ Counted' /\ NotFull'
      BY <1>0, <3>1, FlushKeepsSpans
    <3>3. early' \in BOOLEAN
      BY <1>10 DEF TimerTick
    <3>4. TypeOK' /\ OnItsWay' /\ Ended'
      BY <1>0, <1>10, <3>2, <3>3 DEF TimerTick, TypeOK, OnItsWay, Ended
    <3> QED BY <3>2, <3>4
  <2>2. CASE ~(spanCount > 0)
    <3>1. UNCHANGED <<payload, batch, spanCount, sent, failed, largest>>
      BY <1>10, <2>2 DEF TimerTick
    <3>2. Fronts' /\ Disjoint' /\ OutWhenTaken' /\ Counted' /\ NotFull'
      BY <1>0, <3>1, FrameKeepsSpans
    <3>3. early' \in BOOLEAN
      BY <1>10 DEF TimerTick
    <3>4. TypeOK' /\ OnItsWay' /\ Ended'
      BY <1>0, <1>10, <3>1, <3>3 DEF TimerTick, TypeOK, OnItsWay, Ended
    <3> QED BY <3>2, <3>4
  <2> QED BY <2>1, <2>2
<1>11. ASSUME UNCHANGED vars PROVE Goal
  <2>1. Fronts' /\ Disjoint' /\ OutWhenTaken' /\ Counted' /\ NotFull'
    BY <1>0, <1>11, FrameKeepsSpans DEF vars
  <2>2. TypeOK' /\ OnItsWay' /\ Ended'
    BY <1>0, <1>11 DEF vars, TypeOK, OnItsWay, Ended
  <2> QED BY <2>1, <2>2
<1>12. Goal
  BY <1>1, <1>2, <1>3, <1>4, <1>5, <1>6, <1>7, <1>8, <1>9, <1>10, <1>11
     DEF Next, CycleStep
<1> QED
  BY <1>12 DEF IInv, SpansInv

-----------------------------------------------------------------------------
(* Theorems *)

\* The spans of all calls are where the invariant says, at any time.
THEOREM Invariance == Spec => []IInv
<1>1. IInv /\ [Next]_vars => IInv'
  BY StepInv
<1> QED
  BY InitInv, <1>1, PTL DEF Spec

\* Every variable keeps its type, and newItem never holds more than its capacity.
THEOREM TypeCorrect == Spec => []TypeOK
<1>1. IInv => TypeOK
  BY DEF IInv, SpansInv
<1> QED
  BY <1>1, Invariance, PTL

\* No span is lost or sent twice by splitting, putting back, sending and failing, and
\* spanCount, by which the cycle decides when to send, is the size of the batch.
THEOREM SpansStayInOnePlace == Spec => []SpanInOnePlace
<1>1. IInv => SpanInOnePlace
  <2> SUFFICES ASSUME SpansInv PROVE SpanInOnePlace
    BY DEF IInv
  <2>1. spanCount = Cardinality(batch)
    BY DEF SpansInv, Counted
  <2>2. ASSUME NEW c \in Calls, NEW k \in 1 .. SpanCount[c]
        PROVE  Cardinality({p \in {"payload", "batch", "sent", "failed"} :
                               \/ p = "payload" /\ <<c, k>> \in Elements(payload[c])
                               \/ p = "batch" /\ <<c, k>> \in batch
                               \/ p = "sent" /\ <<c, k>> \in sent
                               \/ p = "failed" /\ <<c, k>> \in failed}) = 1
    <3> DEFINE Places == {p \in {"payload", "batch", "sent", "failed"} :
                               \/ p = "payload" /\ <<c, k>> \in Elements(payload[c])
                               \/ p = "batch" /\ <<c, k>> \in batch
                               \/ p = "sent" /\ <<c, k>> \in sent
                               \/ p = "failed" /\ <<c, k>> \in failed}
    <3>1. /\ payload[c] \in Seq(Spans) /\ Len(payload[c]) \in Nat /\ k \in Nat \ {0}
          /\ \A x \in 1 .. Len(payload[c]) : payload[c][x] = <<c, x>>
      BY BatchAssumption DEF SpansInv, TypeOK, Fronts
    <3>2. <<c, k>> \in Elements(payload[c]) <=> k <= Len(payload[c])
      BY <3>1 DEF Elements
    <3>3. <<c, k>> \in batch \cup sent \cup failed <=> k > Len(payload[c])
      BY DEF SpansInv, OutWhenTaken
    <3>4. <<c, k>> \in Elements(payload[c]) <=> <<c, k>> \notin batch \cup sent \cup failed
      BY <3>1, <3>2, <3>3
    <3>5. \E p : Places = {p}
      <4>1. CASE <<c, k>> \in Elements(payload[c])
        BY <3>4, <4>1
      <4>2. CASE <<c, k>> \in batch
        BY <3>4, <4>2 DEF SpansInv, Disjoint
      <4>3. CASE <<c, k>> \in sent
        BY <3>4, <4>3 DEF SpansInv, Disjoint
      <4>4. CASE <<c, k>> \in failed
        BY <3>4, <4>4 DEF SpansInv, Disjoint
      <4> QED BY <3>4, <4>1, <4>2, <4>3, <4>4
    <3> HIDE DEF Places
    <3>6. Cardinality(Places) = 1
      BY <3>5, FS_Singleton
    <3> QED BY <3>6 DEF Places
  <2> QED BY <2>1, <2>2 DEF SpanInOnePlace, SpansOf
<1> QED
  BY <1>1, Invariance, PTL

\* When the cycle has ended by itself, an accepted span was passed on or is in a
\* remainder whose goroutine came too late.
THEOREM ShutdownLeavesRemainders == Spec => []FlushedButRemainders
<1>1. IInv => FlushedButRemainders
  <2> SUFFICES ASSUME IInv, cycle = "done", NEW c \in called, NEW k \in 1 .. SpanCount[c],
                      <<c, k>> \notin sent \cup failed
               PROVE  c \in resending /\ <<c, k>> \in Elements(payload[c])
    BY DEF FlushedButRemainders, SpansOf
  <2>1. /\ c \in Calls /\ payload[c] \in Seq(Spans) /\ Len(payload[c]) \in Nat
        /\ k \in Nat \ {0}
        /\ \A x \in 1 .. Len(payload[c]) : payload[c][x] = <<c, x>>
    BY BatchAssumption DEF IInv, SpansInv, TypeOK, Fronts
  <2>2. newItem = <<>> /\ batch = {}
    BY DEF IInv, Ended
  <2>3. k <= Len(payload[c])
    BY <2>1, <2>2 DEF IInv, SpansInv, OutWhenTaken
  <2>4. <<c, k>> \in Elements(payload[c]) /\ payload[c] # <<>>
    BY <2>1, <2>3 DEF Elements
  <2>5. c \notin Elements(newItem)
    BY <2>2 DEF Elements
  <2> QED BY <2>4, <2>5 DEF IInv, OnItsWay
<1> QED
  BY <1>1, Invariance, PTL

\* Batches are bounded for all sizes: a payload goes whole into the batch only if it fits
\* into send_batch_max_size, a split fills the batch up to send_batch_size, and a full batch
\* is sent before the next payload is received.
THEOREM BatchesAreSmall == Spec => []BatchesBounded
<1> DEFINE Inv == IInv /\ BatchesBounded
           Bounded(n) == n <= SendBatchMaxSize \/ n <= SendBatchSize
<1>1. Init => Inv
  BY InitInv, BatchAssumption DEF Init, BatchesBounded
<1>2. Inv /\ [Next]_vars => Inv'
  <2> SUFFICES ASSUME IInv, SendBatchMaxSize > 0, Bounded(largest), [Next]_vars
               PROVE  Bounded(largest')
    BY StepInv DEF BatchesBounded
  <2>1. /\ spanCount \in Nat /\ largest \in Nat
        /\ SendBatchSize \in Nat /\ SendBatchMaxSize \in Nat
    BY BatchAssumption DEF IInv, SpansInv, TypeOK
  <2>2. spanCount <= SendBatchSize
    BY <2>1 DEF IInv, SpansInv, NotFull
  <2>3. ASSUME NEW moved, Bounded(spanCount + Len(moved)), AddAndSend(moved)
        PROVE  Bounded(largest')
    BY <2>1, <2>3 DEF AddAndSend, SendItems
  <2>4. CASE ReceiveWhole
    <3>1. PICK c \in Calls : c = Head(newItem)
      BY <2>4 DEF ReceiveWhole, IInv, SpansInv, TypeOK
    <3>2. PICK moved : moved = payload[c]
      OBVIOUS
    <3>3. AddAndSend(moved) /\ ~TooLarge(c)
      BY <2>4, <3>1, <3>2 DEF ReceiveWhole
    <3>4. Len(moved) \in Nat
      BY <3>2 DEF IInv, SpansInv, TypeOK
    <3> QED BY <2>1, <2>3, <3>2, <3>3, <3>4 DEF TooLarge
  <2>5. CASE ReceiveSplit
    <3>1. PICK c \in Calls : c = Head(newItem)
      BY <2>5 DEF ReceiveSplit, IInv, SpansInv, TypeOK
    <3>2. PICK moved : moved = SplitTrace(c, Room).taken
      OBVIOUS
    <3>3. AddAndSend(moved)
      BY <2>5, <3>1, <3>2 DEF ReceiveSplit
    <3>4. moved \in Seq(Spans) /\ Len(moved) <= Room
      BY <3>2, SplitFrontAndEnd DEF IInv
    <3>5. Len(moved) \in Nat /\ Len(moved) <= SendBatchSize - spanCount
      BY <3>4 DEF Room
    <3> QED BY <2>1, <2>2, <2>3, <3>3, <3>5
  <2>6. CASE ReceiveClose \/ TimerTick
    BY <2>1, <2>2, <2>6 DEF ReceiveClose, TimerTick, SendItems
  <2>7. CASE Start \/ Shutdown \/ TimerExpires \/ UNCHANGED vars
    BY <2>7 DEF Start, Shutdown, TimerExpires, vars
  <2>8. ASSUME NEW c \in Calls, ConsumeTraces(c) \/ Resend(c) \/ ResendPanics(c)
        PROVE  Bounded(largest')
    BY <2>8 DEF ConsumeTraces, Resend, ResendPanics
  <2> QED
    BY <2>4, <2>5, <2>6, <2>7, <2>8 DEF Next, CycleStep
<1>3. Inv => BatchesBounded
  OBVIOUS
<1> QED
  BY <1>1, <1>2, <1>3, PTL DEF Spec

-----------------------------------------------------------------------------
(* PdataSlice.  The inductive invariant says who owns what: an array belongs to one       *)
(* slice, and an element to one place of one array, the room behind the slice included,   *)
(* because a later append or CopyTo may bring what is there back.                          *)

\* The types of the slices' state.
SliceTypeOK ==
    /\ orig \in [Slices -> [array : Arrays \cup {Nil}, len : 0..MaxLen]]
    /\ cells \in [Arrays -> Seq(Addresses \cup {Nil})]
    /\ content \in [Addresses -> Contents]
    /\ value \in [Slices -> Seq(Contents \cup {"nil"})]

\* A slice is the front of its array, which append makes at most one larger than needed.
FrontOfArray ==
    \A s \in Slices : orig[s].len <= Len(Array(s)) /\ Len(Array(s)) <= MaxLen + 1

\* No two slices have the same array,
OwnArray ==
    \A s, d \in Slices : s # d /\ orig[s].array # Nil => orig[s].array # orig[d].array

\* and no element is pointed to from two places, the room behind a slice included.
OwnElements ==
    \A s, d \in Slices : \A j \in DOMAIN Array(s), k \in DOMAIN Array(d) :
        Array(s)[j] = Array(d)[k] /\ Array(s)[j] # Nil => s = d /\ j = k

\* A slice holds its value.
HoldsValue ==
    \A s \in Slices :
        /\ Len(value[s]) = orig[s].len
        /\ \A j \in 1..orig[s].len : value[s][j] = ContentOf(Array(s)[j])

SliceInv == SliceTypeOK /\ FrontOfArray /\ OwnArray /\ OwnElements /\ HoldsValue

-----------------------------------------------------------------------------

LEMMA ArrayType ==
    ASSUME SliceInv, NEW s \in Slices
    PROVE  /\ orig[s] \in [array : Arrays \cup {Nil}, len : 0..MaxLen]
           /\ orig[s].array \in Arrays \cup {Nil} /\ orig[s].len \in 0..MaxLen
           /\ Array(s) \in Seq(Addresses \cup {Nil})
           /\ Len(Array(s)) \in Nat /\ DOMAIN Array(s) = 1..Len(Array(s))
           /\ orig[s].len <= Len(Array(s)) /\ Len(Array(s)) <= MaxLen + 1
           /\ orig[s].array = Nil => Array(s) = <<>> /\ orig[s].len = 0
           /\ orig[s].array # Nil => Array(s) = cells[orig[s].array] /\ orig[s].array \in Arrays
           /\ \A j \in DOMAIN Array(s) : Array(s)[j] \in Addresses \cup {Nil}
  <1>1. orig[s] \in [array : Arrays \cup {Nil}, len : 0..MaxLen]
    BY DEF SliceInv, SliceTypeOK
  <1>2. orig[s].array \in Arrays \cup {Nil} /\ orig[s].len \in 0..MaxLen
    BY <1>1
  <1>3. orig[s].len <= Len(Array(s)) /\ Len(Array(s)) <= MaxLen + 1
    BY DEF SliceInv, FrontOfArray
  <1>4. CASE orig[s].array = Nil
    <2>1. Array(s) = <<>>
      BY <1>4 DEF Array
    <2> QED BY <1>1, <1>2, <1>3, <1>4, <2>1
  <1>5. CASE orig[s].array # Nil
    <2>1. Array(s) = cells[orig[s].array] /\ orig[s].array \in Arrays
      BY <1>2, <1>5 DEF Array
    <2>2. Array(s) \in Seq(Addresses \cup {Nil})
      BY <2>1 DEF SliceInv, SliceTypeOK
    <2> QED BY <1>1, <1>2, <1>3, <1>5, <2>1, <2>2
  <1> QED BY <1>4, <1>5

LEMMA PointersAre ==
    ASSUME SliceInv, NEW s \in Slices
    PROVE  /\ Pointers(s) \in Seq(Addresses \cup {Nil})
           /\ Len(Pointers(s)) = orig[s].len /\ DOMAIN Pointers(s) = 1..orig[s].len
           /\ \A j \in 1..orig[s].len : /\ Pointers(s)[j] = Array(s)[j]
                                        /\ j \in DOMAIN Array(s)
                                        /\ Pointers(s)[j] \in Addresses \cup {Nil}
  <1> DEFINE n == orig[s].len
             q == Array(s)
  <1>1. n \in Nat /\ q \in Seq(Addresses \cup {Nil}) /\ n <= Len(q) /\ DOMAIN q = 1..Len(q)
        /\ Len(q) \in Nat /\ \A j \in DOMAIN q : q[j] \in Addresses \cup {Nil}
    BY ArrayType, SliceAssumption
  <1>2. Pointers(s) = SubSeq(q, 1, n)
    BY DEF Pointers
  <1> HIDE DEF n, q
  <1>3. /\ SubSeq(q, 1, n) \in Seq(Addresses \cup {Nil})
        /\ Len(SubSeq(q, 1, n)) = n /\ DOMAIN SubSeq(q, 1, n) = 1..n
        /\ \A j \in 1..n : SubSeq(q, 1, n)[j] = q[j] /\ j \in DOMAIN q
    BY <1>1
  <1>4. \A j \in 1..n : q[j] \in Addresses \cup {Nil}
    BY <1>1, <1>3
  <1> QED BY <1>2, <1>3, <1>4 DEF n, q

LEMMA InvGivesValues == SliceInv => SlicesAreValues
  <1> SUFFICES ASSUME SliceInv PROVE SlicesAreValues
    OBVIOUS
  <1>1. ASSUME NEW s \in Slices
        PROVE  [j \in 1..orig[s].len |-> ContentOf(Pointers(s)[j])] = value[s]
    <2>1. value[s] \in Seq(Contents \cup {"nil"}) /\ Len(value[s]) = orig[s].len
      BY DEF SliceInv, SliceTypeOK, HoldsValue
    <2>2. \A j \in 1..orig[s].len : value[s][j] = ContentOf(Pointers(s)[j])
      BY PointersAre DEF SliceInv, HoldsValue
    <2> DEFINE f == [j \in 1..orig[s].len |-> ContentOf(Pointers(s)[j])]
               v == value[s]
               n == orig[s].len
    <2>3. DOMAIN f = 1..n /\ \A j \in 1..n : f[j] = v[j]
      BY <2>2
    <2>4. v \in Seq(Contents \cup {"nil"}) /\ Len(v) = n /\ n \in Nat
      BY <2>1, ArrayType, SliceAssumption
    <2>5. f = [j \in DOMAIN f |-> f[j]]
      OBVIOUS
    <2> HIDE DEF f, v, n
    <2>6. v = [j \in 1..n |-> v[j]]
      BY <2>4
    <2>7. f = v
      BY <2>3, <2>6, <2>5
    <2> QED BY <2>7 DEF f, v, n
  <1> QED BY <1>1 DEF SlicesAreValues, SliceInv, OwnArray

-----------------------------------------------------------------------------
(* There are free names: fewer arrays are in use than there are, and fewer elements. *)

LEMMA SomeArrayIsFree ==
    ASSUME SliceInv
    PROVE  /\ FreeArray \in Arrays /\ FreeArray # Nil
           /\ \A s \in Slices : orig[s].array # FreeArray
  <1> DEFINE all == {orig[s].array : s \in Slices}
             f == [s \in Slices |-> orig[s].array]
  <1>1. f \in Surjection(Slices, all)
    BY DEF Surjection
  <1>2. IsFiniteSet(all) /\ Cardinality(all) <= Cardinality(Slices)
    <2> HIDE DEF all, f
    <2> QED BY <1>1, SliceAssumption, FS_Surjection
  <1>3. InUse \in SUBSET all
    BY DEF InUse
  <1>4. IsFiniteSet(InUse) /\ Cardinality(InUse) <= Cardinality(Slices)
    <2> HIDE DEF all, f
    <2>1. IsFiniteSet(InUse) /\ Cardinality(InUse) <= Cardinality(all)
      BY <1>2, <1>3, FS_Subset
    <2> QED BY <1>2, <2>1, SliceAssumption, FS_CardinalityType
  <1>5. Cardinality(Slices) \in Nat
    BY SliceAssumption, FS_CardinalityType
  <1>6. IsFiniteSet(Arrays) /\ Cardinality(Arrays) = Cardinality(Slices) + 1
    BY <1>5, FS_Interval DEF Arrays
  <1>7. ~(Arrays \subseteq InUse)
    <2>1. SUFFICES ASSUME Arrays \subseteq InUse PROVE FALSE
      OBVIOUS
    <2>2. Cardinality(Arrays) <= Cardinality(InUse)
      BY <1>4, <2>1, FS_Subset
    <2> QED BY <1>4, <1>5, <1>6, <2>2, FS_CardinalityType
  <1>8. FreeArray \in Arrays /\ FreeArray \notin InUse
    BY <1>7 DEF FreeArray
  <1>9. FreeArray # Nil
    BY <1>5, <1>8 DEF Arrays, Nil
  <1> QED BY <1>8, <1>9 DEF InUse

LEMMA ReachableIs ==
    ASSUME SliceInv, NEW e
    PROVE  e \in Reachable <=>
               e # Nil /\ \E s \in Slices : \E j \in DOMAIN Array(s) : Array(s)[j] = e
  <1>1. ASSUME e \in Reachable
        PROVE  e # Nil /\ \E s \in Slices : \E j \in DOMAIN Array(s) : Array(s)[j] = e
    <2>1. e # Nil
      BY <1>1 DEF Reachable
    <2>2. PICK a \in InUse : \E j \in DOMAIN cells[a] : e = cells[a][j]
      BY <1>1 DEF Reachable
    <2>3. PICK s \in Slices : orig[s].array = a /\ a # Nil
      BY DEF InUse
    <2>4. Array(s) = cells[a]
      BY <2>3 DEF Array
    <2>5. \E j \in DOMAIN Array(s) : Array(s)[j] = e
      BY <2>2, <2>4
    <2> QED BY <2>1, <2>5
  <1>2. ASSUME NEW s \in Slices, NEW j \in DOMAIN Array(s), Array(s)[j] = e, e # Nil
        PROVE  e \in Reachable
    <2>1. orig[s].array # Nil
      <3>1. SUFFICES ASSUME orig[s].array = Nil PROVE FALSE
        OBVIOUS
      <3>2. Array(s) = <<>>
        BY <3>1 DEF Array
      <3> QED BY <3>2
    <2>2. Array(s) = cells[orig[s].array]
      BY <2>1 DEF Array
    <2>3. orig[s].array \in InUse
      BY <2>1 DEF InUse
    <2>4. \E a \in InUse : \E i \in DOMAIN cells[a] : cells[a][i] = e
      BY <1>2, <2>2, <2>3
    <2> QED BY <1>2, <2>4 DEF Reachable
  <1> QED BY <1>1, <1>2

LEMMA LeftOver ==
    ASSUME NEW A, NEW B, IsFiniteSet(A), IsFiniteSet(B), NEW h \in Nat, NEW m \in Nat,
           Cardinality(A) = h + m, Cardinality(B) <= h
    PROVE  IsFiniteSet(A \ B) /\ Cardinality(A \ B) \in Nat /\ m <= Cardinality(A \ B)
  <1>1. IsFiniteSet(A \ B) /\ Cardinality(A \ B) = Cardinality(A) - Cardinality(A \cap B)
    BY FS_Difference
  <1>2. IsFiniteSet(A \cap B) /\ Cardinality(A \cap B) <= Cardinality(B)
    BY FS_Intersection
  <1>3. Cardinality(A \cap B) \in Nat /\ Cardinality(B) \in Nat /\ Cardinality(A \ B) \in Nat
    BY <1>1, <1>2, FS_CardinalityType
  <1> QED BY <1>1, <1>2, <1>3

LEMMA EnoughElements ==
    ASSUME SliceInv, NEW n \in 0..MaxLen
    PROVE  \E q \in [1..n -> Addresses \ Reachable] : \A j, k \in 1..n : q[j] = q[k] => j = k
  <1> DEFINE D == {y \in Slices \X (1..(MaxLen + 1)) : y[2] \in DOMAIN Array(y[1])}
             f == [x \in D |-> Array(x[1])[x[2]]]
             I == {Array(x[1])[x[2]] : x \in D}
             c == Cardinality(Slices)
             m == MaxLen + 1
  <1>1. c \in Nat /\ m \in Nat /\ n \in Nat /\ n < m
    BY SliceAssumption, FS_CardinalityType
  <1>2. IsFiniteSet(Slices \X (1..m)) /\ Cardinality(Slices \X (1..m)) = c * m
    <2>1. IsFiniteSet(1..m) /\ Cardinality(1..m) = m
      BY <1>1, FS_Interval
    <2> HIDE DEF m
    <2> QED BY <2>1, SliceAssumption, FS_Product
  <1>3. IsFiniteSet(D) /\ Cardinality(D) <= c * m
    <2>1. D \in SUBSET (Slices \X (1..m))
      OBVIOUS
    <2> HIDE DEF D, m, c
    <2> QED BY <1>2, <2>1, FS_Subset
  <1>4. f \in Surjection(D, I)
    BY DEF Surjection
  <1>5. IsFiniteSet(I) /\ Cardinality(I) <= c * m
    <2> HIDE DEF D, f, I, m, c
    <2>1. IsFiniteSet(I) /\ Cardinality(I) <= Cardinality(D)
      BY <1>3, <1>4, FS_Surjection
    <2>2. c * m \in Nat
      BY <1>1
    <2> QED BY <1>3, <2>1, <2>2, FS_CardinalityType
  <1>6. Reachable \in SUBSET I
    <2>1. SUFFICES ASSUME NEW e \in Reachable PROVE e \in I
      OBVIOUS
    <2>2. PICK s \in Slices : \E j \in DOMAIN Array(s) : Array(s)[j] = e
      BY ReachableIs
    <2>3. PICK j \in DOMAIN Array(s) : Array(s)[j] = e
      BY <2>2
    <2>4. j \in 1..(MaxLen + 1)
      BY ArrayType, SliceAssumption
    <2>5. <<s, j>> \in D
      BY <2>4
    <2> QED BY <2>3, <2>5
  <1>7. IsFiniteSet(Reachable) /\ Cardinality(Reachable) <= c * m
    <2> HIDE DEF D, f, I, m, c
    <2>1. IsFiniteSet(Reachable) /\ Cardinality(Reachable) <= Cardinality(I)
      BY <1>5, <1>6, FS_Subset
    <2>2. c * m \in Nat
      BY <1>1
    <2> QED BY <1>5, <2>1, <2>2, FS_CardinalityType
  <1> DEFINE F == Addresses \ Reachable
             k == Cardinality(F)
  <1>8. IsFiniteSet(F) /\ k \in Nat /\ n <= k
    <2> DEFINE h == c * m
    <2>1. h \in Nat /\ m * (c + 1) = h + m
      BY <1>1
    <2>2. IsFiniteSet(Addresses) /\ Cardinality(Addresses) = h + m
      <3>1. Addresses = 1..(h + m)
        BY <2>1 DEF Addresses
      <3> HIDE DEF h, m
      <3> QED BY <1>1, <2>1, <3>1, FS_Interval
    <2>3. IsFiniteSet(Reachable) /\ Cardinality(Reachable) <= h
      BY <1>7
    <2> HIDE DEF D, f, I, m, c, h
    <2>4. IsFiniteSet(F) /\ Cardinality(F) \in Nat /\ m <= Cardinality(F)
      BY <1>1, <2>1, <2>2, <2>3, LeftOver
    <2> QED BY <1>1, <2>4
  <1>9. PICK b : b \in Bijection(1..k, F)
    <2> HIDE DEF F, k
    <2>1. ExistsBijection(1..Cardinality(F), F)
      BY <1>8, FS_CardinalityType
    <2> QED BY <2>1 DEF k, ExistsBijection
  <1>10. b \in [1..k -> F] /\ \A x, y \in 1..k : b[x] = b[y] => x = y
    <2> HIDE DEF F, k
    <2> QED BY <1>9 DEF Bijection, Injection, IsInjective
  <1> HIDE DEF D, f, I, c, m, k
  <1>11. 1..n \subseteq 1..k
    BY <1>1, <1>8
  <1> DEFINE q == [x \in 1..n |-> b[x]]
  <1>12. q \in [1..n -> Addresses \ Reachable]
    BY <1>10, <1>11
  <1>13. \A i, j \in 1..n : q[i] = q[j] => i = j
    BY <1>10, <1>11
  <1> HIDE DEF q
  <1> QED BY <1>12, <1>13

LEMMA SomeElementsAreFree ==
    ASSUME SliceInv, NEW n \in 0..MaxLen
    PROVE  /\ FreeElements(n) \in [1..n -> Addresses]
           /\ \A j, k \in 1..n : FreeElements(n)[j] = FreeElements(n)[k] => j = k
           /\ \A j \in 1..n : FreeElements(n)[j] # Nil
           /\ \A s \in Slices : \A i \in DOMAIN Array(s), j \in 1..n :
                 Array(s)[i] # FreeElements(n)[j]
  <1> DEFINE q == FreeElements(n)
  <1>1. q \in [1..n -> Addresses \ Reachable] /\ \A j, k \in 1..n : q[j] = q[k] => j = k
    BY EnoughElements DEF FreeElements
  <1> HIDE DEF q
  <1>2. \A j \in 1..n : q[j] # Nil
    <2>1. Nil \notin Addresses
      BY SliceAssumption, FS_CardinalityType DEF Addresses, Nil
    <2> QED BY <1>1, <2>1
  <1>3. ASSUME NEW s \in Slices, NEW i \in DOMAIN Array(s), NEW j \in 1..n, Array(s)[i] = q[j]
        PROVE  FALSE
    <2>1. Array(s)[i] \in Reachable
      <3>1. Array(s)[i] # Nil
        BY <1>2, <1>3
      <3> QED BY <3>1, ReachableIs
    <2> QED BY <1>1, <1>3, <2>1
  <1> QED BY <1>1, <1>2, <1>3 DEF q

-----------------------------------------------------------------------------
(* Every operation gives one slice, d, an array q, and makes others, K, nil.  What the    *)
(* remaining slices have must not be touched.                                             *)

Becomes(d, K, a, n) ==
    /\ \A t \in Slices \ (K \cup {d}) : orig[t].array # a
    /\ orig' = [t \in Slices |->
                   IF t = d THEN [array |-> a, len |-> n] ELSE IF t \in K THEN NilSlice ELSE orig[t]]

OthersKeep(d, K, q) ==
    \A t \in Slices \ (K \cup {d}) :
        /\ value'[t] = value[t]
        /\ \A k \in DOMAIN Array(t) : Array(t)[k] # Nil =>
              /\ content'[Array(t)[k]] = content[Array(t)[k]]
              /\ \A j \in DOMAIN q : q[j] # Array(t)[k]

\* No element is twice in q;
Distinct(q) == \A j, k \in DOMAIN q : q[j] = q[k] /\ q[j] # Nil => j = k

\* none of q is in the array of t;
NoneIn(q, t) == \A k \in DOMAIN Array(t), j \in DOMAIN q : q[j] # Nil => Array(t)[k] # q[j]

\* and what slices point to keeps its content.
ContentKept ==
    \A t \in Slices : \A k \in DOMAIN Array(t) : Array(t)[k] # Nil =>
        content'[Array(t)[k]] = content[Array(t)[k]]

\* v is what elements q hold after a step.
Holds(v, q) ==
    /\ Len(v) = Len(q)
    /\ \A j \in 1..Len(q) : v[j] = IF q[j] = Nil THEN "nil" ELSE content'[q[j]]

StepTo(d, K, a, q, n) ==
    /\ d \notin K
    /\ a \in Arrays /\ n \in 0..MaxLen /\ q \in Seq(Addresses \cup {Nil})
    /\ n <= Len(q) /\ Len(q) <= MaxLen + 1
    /\ Becomes(d, K, a, n) /\ cells' = [cells EXCEPT ![a] = q]
    /\ content' \in [Addresses -> Contents]
    /\ value' \in [Slices -> Seq(Contents \cup {"nil"})]
    /\ OthersKeep(d, K, q) /\ Distinct(q)
    /\ Len(value'[d]) = n
    /\ \A j \in 1..n : value'[d][j] = IF q[j] = Nil THEN "nil" ELSE content'[q[j]]
    /\ \A t \in K \cap Slices : value'[t] = <<>>

LEMMA Step ==
    ASSUME SliceInv, NEW d \in Slices, NEW K, NEW a, NEW q, NEW n, StepTo(d, K, a, q, n)
    PROVE  SliceInv'
  <1> USE DEF StepTo
  <1>1. a # Nil
    BY SliceAssumption, FS_CardinalityType DEF Arrays, Nil
  <1>2. /\ orig'[d] = [array |-> a, len |-> n]
        /\ orig'[d].array = a /\ orig'[d].len = n
    BY DEF Becomes
  <1>3. ASSUME NEW t \in Slices, t \in K
        PROVE  orig'[t] = NilSlice /\ orig'[t].array = Nil /\ orig'[t].len = 0
    BY <1>3 DEF Becomes, NilSlice
  <1>4. ASSUME NEW t \in Slices, t \notin K, t # d
        PROVE  orig'[t] = orig[t] /\ orig[t].array # a
    BY <1>4 DEF Becomes
  <1>5. cells'[a] = q /\ \A b \in Arrays : b # a => cells'[b] = cells[b]
    BY DEF SliceInv, SliceTypeOK
  <1>6. Array(d)' = q
    BY <1>1, <1>2, <1>5 DEF Array
  <1>7. ASSUME NEW t \in Slices, t \in K
        PROVE  Array(t)' = <<>>
    BY <1>3, <1>7 DEF Array
  <1>8. ASSUME NEW t \in Slices, t \notin K, t # d
        PROVE  Array(t)' = Array(t)
    <2>1. CASE orig[t].array = Nil
      BY <1>4, <1>8, <2>1 DEF Array
    <2>2. CASE orig[t].array # Nil
      <3>1. orig[t].array \in Arrays
        BY <2>2, ArrayType
      <3> QED BY <1>4, <1>5, <1>8, <2>2, <3>1 DEF Array
    <2> QED BY <2>1, <2>2
  <1>9. SliceTypeOK'
    <2>1. orig' \in [Slices -> [array : Arrays \cup {Nil}, len : 0..MaxLen]]
      <3>1. [array |-> a, len |-> n] \in [array : Arrays \cup {Nil}, len : 0..MaxLen]
        OBVIOUS
      <3>2. NilSlice \in [array : Arrays \cup {Nil}, len : 0..MaxLen]
        BY SliceAssumption DEF NilSlice
      <3>3. \A t \in Slices : orig[t] \in [array : Arrays \cup {Nil}, len : 0..MaxLen]
        BY ArrayType
      <3>4. \A t \in Slices : orig'[t] \in [array : Arrays \cup {Nil}, len : 0..MaxLen]
        BY <1>2, <1>3, <1>4, <3>1, <3>2, <3>3
      <3>5. orig' = [t \in Slices |-> orig'[t]]
        BY DEF Becomes
      <3> QED BY <3>4, <3>5
    <2>2. cells' \in [Arrays -> Seq(Addresses \cup {Nil})]
      BY DEF SliceInv, SliceTypeOK
    <2> QED BY <2>1, <2>2 DEF SliceTypeOK
  <1>10. FrontOfArray'
    <2>1. ASSUME NEW t \in Slices
          PROVE  orig'[t].len <= Len(Array(t)') /\ Len(Array(t)') <= MaxLen + 1
      <3>1. CASE t = d
        BY <1>2, <1>6, <3>1
      <3>2. CASE t \in K
        BY <1>3, <1>7, <3>2, SliceAssumption
      <3>3. CASE t \notin K /\ t # d
        BY <1>4, <1>8, <3>3, ArrayType
      <3> QED BY <3>1, <3>2, <3>3
    <2> QED BY <2>1 DEF FrontOfArray
  <1>11. OwnArray'
    <2>1. ASSUME NEW s \in Slices, NEW t \in Slices, s # t, orig'[s].array # Nil
          PROVE  orig'[s].array # orig'[t].array
      <3>1. s \notin K
        BY <1>3, <2>1
      <3>2. CASE t \in K
        BY <1>3, <2>1, <3>2
      <3>3. CASE s = d /\ t \notin K
        BY <1>2, <1>4, <2>1, <3>3
      <3>4. CASE t = d /\ s \notin K
        BY <1>2, <1>4, <2>1, <3>4
      <3>5. CASE t \notin K /\ t # d /\ s # d
        BY <1>4, <2>1, <3>1, <3>5 DEF SliceInv, OwnArray
      <3> QED BY <3>1, <3>2, <3>3, <3>4, <3>5
    <2> QED BY <2>1 DEF OwnArray
  <1>12. OwnElements'
    <2>1. ASSUME NEW s \in Slices, NEW t \in Slices,
                 NEW j \in DOMAIN Array(s)', NEW k \in DOMAIN Array(t)',
                 Array(s)'[j] = Array(t)'[k], Array(s)'[j] # Nil
          PROVE  s = t /\ j = k
      <3>1. s \notin K /\ t \notin K
        BY <1>7, <2>1
      <3>2. CASE s = d /\ t = d
        BY <1>6, <2>1, <3>2 DEF Distinct
      <3>3. CASE s = d /\ t # d
        BY <1>6, <1>8, <2>1, <3>1, <3>3 DEF OthersKeep
      <3>4. CASE s # d /\ t = d
        BY <1>6, <1>8, <2>1, <3>1, <3>4 DEF OthersKeep
      <3>5. CASE s # d /\ t # d
        BY <1>8, <2>1, <3>1, <3>5 DEF SliceInv, OwnElements
      <3> QED BY <3>2, <3>3, <3>4, <3>5
    <2> QED BY <2>1 DEF OwnElements
  <1>13. HoldsValue'
    <2>1. ASSUME NEW s \in Slices
          PROVE  /\ Len(value'[s]) = orig'[s].len
                 /\ \A j \in 1..orig'[s].len : value'[s][j] = ContentOf(Array(s)[j])'
      <3>1. CASE s = d
        BY <1>2, <1>6, <3>1 DEF ContentOf
      <3>2. CASE s \in K
        BY <1>3, <3>2
      <3>3. CASE s \notin K /\ s # d
        <4>1. Len(value'[s]) = orig'[s].len
          BY <1>4, <3>3 DEF OthersKeep, SliceInv, HoldsValue
        <4>2. ASSUME NEW j \in 1..orig'[s].len
              PROVE  value'[s][j] = ContentOf(Array(s)[j])'
          <5>1. j \in 1..orig[s].len /\ j \in DOMAIN Array(s)
            BY <1>4, <3>3, PointersAre
          <5>2. value'[s][j] = ContentOf(Array(s)[j])
            BY <3>3, <5>1 DEF OthersKeep, SliceInv, HoldsValue
          <5> QED BY <1>8, <3>3, <5>1, <5>2 DEF OthersKeep, ContentOf
        <4> QED BY <4>1, <4>2
      <3> QED BY <3>1, <3>2, <3>3
    <2> QED BY <2>1 DEF HoldsValue
  <1> QED BY <1>9, <1>10, <1>11, <1>12, <1>13 DEF SliceInv

\* A slice that becomes nil, and nothing else.
LEMMA NilStep ==
    ASSUME SliceInv, NEW d \in Slices,
           orig' = [orig EXCEPT ![d] = NilSlice],
           value' = [value EXCEPT ![d] = <<>>],
           UNCHANGED <<cells, content>>
    PROVE  SliceInv'
  <1>1. orig'[d] = NilSlice /\ orig'[d].array = Nil /\ orig'[d].len = 0 /\ value'[d] = <<>>
    BY DEF NilSlice, SliceInv, SliceTypeOK
  <1>2. \A t \in Slices : t # d => orig'[t] = orig[t] /\ value'[t] = value[t]
    BY DEF SliceInv, SliceTypeOK
  <1>3. Array(d)' = <<>>
    BY <1>1 DEF Array
  <1>4. \A t \in Slices : t # d => Array(t)' = Array(t)
    BY <1>2 DEF Array
  <1>5. SliceTypeOK'
    <2>1. NilSlice \in [array : Arrays \cup {Nil}, len : 0..MaxLen]
      BY SliceAssumption DEF NilSlice
    <2>2. <<>> \in Seq(Contents \cup {"nil"})
      OBVIOUS
    <2> QED BY <2>1, <2>2 DEF SliceInv, SliceTypeOK
  <1>6. FrontOfArray'
    <2>1. ASSUME NEW t \in Slices
          PROVE  orig'[t].len <= Len(Array(t)') /\ Len(Array(t)') <= MaxLen + 1
      <3>1. CASE t = d
        BY <1>1, <1>3, <3>1, SliceAssumption
      <3>2. CASE t # d
        BY <1>2, <1>4, <3>2, ArrayType
      <3> QED BY <3>1, <3>2
    <2> QED BY <2>1 DEF FrontOfArray
  <1>7. OwnArray'
    BY <1>1, <1>2 DEF SliceInv, OwnArray
  <1>8. OwnElements'
    BY <1>3, <1>4 DEF SliceInv, OwnElements
  <1>9. HoldsValue'
    BY <1>1, <1>2, <1>4 DEF SliceInv, HoldsValue, ContentOf
  <1> QED BY <1>5, <1>6, <1>7, <1>8, <1>9 DEF SliceInv

-----------------------------------------------------------------------------
(* What append makes.                                                                    *)

LEMMA WriteFront ==
    ASSUME NEW T, NEW p \in Seq(T), NEW c \in Seq(T), Len(p) <= Len(c)
    PROVE  /\ Overwrite(c, p) \in Seq(T) /\ Len(Overwrite(c, p)) = Len(c)
           /\ \A j \in 1..Len(p) : Overwrite(c, p)[j] = p[j]
           /\ \A j \in (Len(p) + 1)..Len(c) : Overwrite(c, p)[j] = c[j]
  <1> DEFINE m == Len(p)
             n == Len(c)
             z == SubSeq(c, m + 1, n)
  <1>1. m \in Nat /\ n \in Nat /\ m <= n
    OBVIOUS
  <1>2. z \in Seq(T) /\ Len(z) = n - m /\ \A j \in 1..(n - m) : z[j] = c[m + j]
    <2>1. CASE m < n
      BY <1>1, <2>1
    <2>2. CASE m = n
      BY <1>1, <2>2
    <2> QED BY <1>1, <2>1, <2>2
  <1>3. p \o z \in Seq(T) /\ Len(p \o z) = n
    BY <1>1, <1>2
  <1>4. \A j \in 1..m : (p \o z)[j] = p[j]
    BY <1>1, <1>2
  <1>5. ASSUME NEW j \in (m + 1)..n
        PROVE  (p \o z)[j] = c[j]
    <2>1. j - m \in 1..(n - m) /\ m + (j - m) = j
      BY <1>1
    <2>2. (p \o z)[j] = z[j - m]
      BY <1>1, <1>2, <2>1
    <2> QED BY <1>2, <2>1, <2>2
  <1>6. Overwrite(c, p) = p \o z
    BY DEF Overwrite
  <1> HIDE DEF z
  <1> QED BY <1>3, <1>4, <1>5, <1>6

\* z is p and then q.
IsJoined(z, p, q) ==
    /\ Len(z) = Len(p) + Len(q)
    /\ \A j \in 1..Len(p) : z[j] = p[j]
    /\ \A j \in 1..Len(q) : z[Len(p) + j] = q[j]

LEMMA Concatenated ==
    ASSUME NEW T, NEW p \in Seq(T), NEW q \in Seq(T)
    PROVE  p \o q \in Seq(T) /\ IsJoined(p \o q, p, q)
  BY DEF IsJoined

\* What append makes of an array: a slice and what is appended, with room behind it that is
\* new or was there before.
IsAppended(s, new, r) ==
    /\ r.array \in Arrays /\ r.cells \in Seq(Addresses \cup {Nil})
    /\ orig[s].len + Len(new) <= Len(r.cells) /\ Len(r.cells) <= MaxLen + 1
    /\ \A j \in 1..orig[s].len : r.cells[j] = Array(s)[j] /\ j \in DOMAIN Array(s)
    /\ \A j \in 1..Len(new) : r.cells[orig[s].len + j] = new[j]
    /\ \A j \in DOMAIN r.cells : j > orig[s].len + Len(new) =>
          r.cells[j] = Nil \/ (j \in DOMAIN Array(s) /\ r.cells[j] = Array(s)[j])
    /\ \A t \in Slices : t # s => orig[t].array # r.array

LEMMA AppendedIs ==
    ASSUME SliceInv, NEW s \in Slices, NEW new \in Seq(Addresses \cup {Nil}),
           Len(new) > 0, orig[s].len + Len(new) <= MaxLen, NEW r \in Appended(s, new)
    PROVE  IsAppended(s, new, r)
  <1> DEFINE T == Addresses \cup {Nil}
             m == orig[s].len
             p == Pointers(s)
             c == Array(s)
             all == p \o new
             k == m + Len(new)
  <1>1. /\ p \in Seq(T) /\ Len(p) = m /\ m \in Nat /\ c \in Seq(T) /\ new \in Seq(T)
        /\ m <= Len(c) /\ Len(c) <= MaxLen + 1 /\ MaxLen \in Nat /\ k <= MaxLen
        /\ Len(new) \in Nat /\ Len(new) > 0
        /\ \A j \in 1..m : p[j] = c[j] /\ j \in DOMAIN c
    BY ArrayType, PointersAre, SliceAssumption
  <1>2. /\ r \in IF Len(all) <= Len(c)
                 THEN {[array |-> orig[s].array, cells |-> Overwrite(c, all)]}
                 ELSE {[array |-> FreeArray, cells |-> all \o room] : room \in {<<>>, <<Nil>>}}
    BY DEF Appended
  <1>3. all \in Seq(T) /\ Len(all) = k /\ k \in Nat
        /\ (\A j \in 1..m : all[j] = p[j]) /\ \A j \in 1..Len(new) : all[m + j] = new[j]
    <2>1. p \in Seq(T) /\ new \in Seq(T) /\ Len(p) = m /\ m \in Nat /\ Len(new) \in Nat
      BY <1>1
    <2> HIDE DEF p, c, T, m
    <2>2. all = p \o new
      OBVIOUS
    <2> HIDE DEF all
    <2>3. all \in Seq(T) /\ IsJoined(all, p, new)
      BY <2>1, <2>2, Concatenated
    <2> QED BY <2>1, <2>3 DEF IsJoined
  <1>4. CASE k <= Len(c)
    <2>1. r = [array |-> orig[s].array, cells |-> Overwrite(c, all)]
      BY <1>2, <1>3, <1>4
    <2>2. r.array = orig[s].array /\ r.cells = Overwrite(c, all)
      BY <2>1
    <2>3. orig[s].array # Nil
      <3>1. SUFFICES ASSUME orig[s].array = Nil PROVE FALSE
        OBVIOUS
      <3>2. c = <<>> /\ m = 0
        BY <3>1, ArrayType
      <3>3. Len(c) = 0
        BY <3>2
      <3> QED BY <1>1, <1>4, <3>2, <3>3
    <2>4. r.array \in Arrays /\ \A t \in Slices : t # s => orig[t].array # r.array
      BY <2>2, <2>3, ArrayType DEF SliceInv, OwnArray
    <2>5. /\ r.cells \in Seq(T) /\ Len(r.cells) = Len(c)
          /\ \A j \in 1..k : r.cells[j] = all[j]
          /\ \A j \in (k + 1)..Len(c) : r.cells[j] = c[j]
      <3>1. all \in Seq(T) /\ c \in Seq(T) /\ Len(all) = k
        BY <1>1, <1>3
      <3> HIDE DEF T, all, k, c
      <3>2. Len(all) <= Len(c)
        BY <1>4, <3>1
      <3>3. /\ Overwrite(c, all) \in Seq(T) /\ Len(Overwrite(c, all)) = Len(c)
            /\ \A j \in 1..Len(all) : Overwrite(c, all)[j] = all[j]
            /\ \A j \in (Len(all) + 1)..Len(c) : Overwrite(c, all)[j] = c[j]
        BY <3>1, <3>2, WriteFront
      <3> QED BY <2>2, <3>1, <3>3
    <2>6. DOMAIN r.cells = 1..Len(c) /\ DOMAIN c = 1..Len(c) /\ Len(c) \in Nat
      <3> HIDE DEF c, T
      <3> QED BY <1>1, <2>5
    <2> HIDE DEF T, all, p, c, k, m
    <2>7. \A j \in 1..m : r.cells[j] = c[j] /\ j \in DOMAIN c
      BY <1>1, <1>3, <2>5 DEF k
    <2>8. \A j \in 1..Len(new) : r.cells[m + j] = new[j]
      BY <1>1, <1>3, <2>5 DEF k
    <2>9. \A j \in DOMAIN r.cells : j > k => j \in DOMAIN c /\ r.cells[j] = c[j]
      BY <1>3, <2>5, <2>6
    <2> QED BY <1>1, <1>4, <2>4, <2>5, <2>7, <2>8, <2>9 DEF T, c, k, m, IsAppended
  <1>5. CASE k > Len(c)
    <2>1. PICK room \in {<<>>, <<Nil>>} : r = [array |-> FreeArray, cells |-> all \o room]
      <3>1. ~(Len(all) <= Len(c))
        <4> HIDE DEF all, c
        <4> QED BY <1>1, <1>3, <1>5
      <3> QED BY <1>2, <3>1
    <2>2. r.array = FreeArray /\ r.cells = all \o room
      BY <2>1
    <2>3. r.array \in Arrays /\ \A t \in Slices : orig[t].array # r.array
      BY <2>2, SomeArrayIsFree
    <2>4. room \in Seq(T) /\ Len(room) \in 0..1 /\ \A j \in 1..Len(room) : room[j] = Nil
      <3>1. CASE room = <<>>
        BY <3>1
      <3>2. CASE room = <<Nil>>
        BY <3>2
      <3> QED BY <3>1, <3>2
    <2> HIDE DEF T, all, p, c, k, m
    <2>5. /\ r.cells \in Seq(T) /\ Len(r.cells) = k + Len(room)
          /\ \A j \in 1..k : r.cells[j] = all[j]
          /\ \A j \in DOMAIN r.cells : j > k => r.cells[j] = Nil
      <3>1. all \in Seq(T) /\ Len(all) = k /\ k \in Nat
        BY <1>3
      <3>2. all \o room \in Seq(T) /\ Len(all \o room) = k + Len(room)
        BY <2>4, <3>1
      <3>3. \A j \in 1..k : (all \o room)[j] = all[j]
        BY <2>4, <3>1
      <3>4. ASSUME NEW j \in DOMAIN (all \o room), j > k
            PROVE  (all \o room)[j] = Nil
        <4>1. j \in 1..(k + Len(room))
          BY <3>2
        <4>2. j - k \in 1..Len(room)
          BY <2>4, <3>1, <3>4, <4>1
        <4>3. (all \o room)[j] = room[j - k]
          BY <2>4, <3>1, <3>4, <4>1
        <4> QED BY <2>4, <4>2, <4>3
      <3> QED BY <2>2, <3>2, <3>3, <3>4
    <2>6. k <= Len(r.cells) /\ Len(r.cells) <= MaxLen + 1
      <3>1. k \in Nat /\ k <= MaxLen /\ MaxLen \in Nat
        BY <1>1, <1>3
      <3> DEFINE l == Len(room)
      <3>2. l \in 0..1 /\ Len(r.cells) = k + l
        BY <2>4, <2>5
      <3> HIDE DEF l
      <3>3. k + l <= MaxLen + 1 /\ k <= k + l
        BY <3>1, <3>2
      <3> QED BY <3>2, <3>3
    <2>7. \A j \in 1..m : r.cells[j] = c[j] /\ j \in DOMAIN c
      BY <1>1, <1>3, <2>5 DEF k
    <2>8. \A j \in 1..Len(new) : r.cells[m + j] = new[j]
      BY <1>1, <1>3, <2>5 DEF k
    <2> QED BY <2>3, <2>5, <2>6, <2>7, <2>8 DEF T, c, k, m, IsAppended
  <1>6. k \in Nat /\ Len(c) \in Nat
    BY <1>1, <1>3
  <1> QED BY <1>4, <1>5, <1>6

\* What is appended and pointed to from nowhere else in the slice is there once.
LEMMA AppendedOwn ==
    ASSUME SliceInv, NEW s \in Slices, NEW new \in Seq(Addresses \cup {Nil}),
           Len(new) > 0, orig[s].len + Len(new) <= MaxLen, NEW r \in Appended(s, new),
           Distinct(new), NoneIn(new, s)
    PROVE  /\ Distinct(r.cells)
           /\ \A j \in DOMAIN r.cells :
                 \/ r.cells[j] = Nil
                 \/ \E i \in 1..Len(new) : r.cells[j] = new[i]
                 \/ j \in DOMAIN Array(s) /\ r.cells[j] = Array(s)[j]
  <1> DEFINE m == orig[s].len
             z == r.cells
  <1>1. IsAppended(s, new, r)
    BY AppendedIs
  <1>2. m \in Nat /\ Len(new) \in Nat /\ z \in Seq(Addresses \cup {Nil})
    BY <1>1, ArrayType, SliceAssumption DEF IsAppended
  <1>3. ASSUME NEW j \in DOMAIN z
        PROVE  \/ z[j] = Nil
               \/ j - m \in 1..Len(new) /\ z[j] = new[j - m]
               \/ j \in DOMAIN Array(s) /\ z[j] = Array(s)[j]
    <2>1. j \in Nat /\ j > 0
      BY <1>2
    <2>2. CASE j <= m
      BY <1>1, <1>2, <2>1, <2>2 DEF IsAppended
    <2>3. CASE j > m /\ j <= m + Len(new)
      <3>1. j - m \in 1..Len(new) /\ m + (j - m) = j
        BY <1>2, <2>1, <2>3
      <3>2. z[m + (j - m)] = new[j - m]
        BY <1>1, <3>1 DEF IsAppended
      <3> QED BY <3>1, <3>2
    <2>4. CASE j > m + Len(new)
      BY <1>1, <2>4 DEF IsAppended
    <2> QED BY <1>2, <2>1, <2>2, <2>3, <2>4
  <1>4. DOMAIN z \subseteq Nat
    BY <1>2
  <1>5. \A j, k \in DOMAIN Array(s) : Array(s)[j] = Array(s)[k] /\ Array(s)[j] # Nil => j = k
    BY DEF SliceInv, OwnElements
  <1>6. DOMAIN new = 1..Len(new)
    OBVIOUS
  <1> HIDE DEF m, z
  <1>7. ASSUME NEW j \in DOMAIN z, NEW k \in DOMAIN z, z[j] = z[k], z[j] # Nil
        PROVE  j = k
    <2>1. CASE j - m \in 1..Len(new) /\ z[j] = new[j - m]
      <3>1. k - m \in 1..Len(new) /\ z[k] = new[k - m]
        BY <1>3, <1>7, <1>6, <2>1 DEF NoneIn
      <3>2. j - m = k - m
        BY <1>7, <1>6, <2>1, <3>1 DEF Distinct
      <3> QED BY <1>2, <1>4, <3>2
    <2>2. CASE j \in DOMAIN Array(s) /\ z[j] = Array(s)[j]
      <3>1. k \in DOMAIN Array(s) /\ z[k] = Array(s)[k]
        BY <1>3, <1>7, <1>6, <2>2 DEF NoneIn
      <3> QED BY <1>5, <1>7, <2>2, <3>1
    <2> QED BY <1>3, <1>7, <2>1, <2>2
  <1> QED BY <1>3, <1>7 DEF z, Distinct

-----------------------------------------------------------------------------
(* The operations.                                                                       *)

\* New elements are appended to a slice.
LEMMA AppendStep ==
    ASSUME SliceInv, NEW s \in Slices, NEW new \in Seq(Addresses \cup {Nil}),
           Len(new) > 0, orig[s].len + Len(new) <= MaxLen, AppendTo(s, new),
           Distinct(new), \A t \in Slices : NoneIn(new, t),
           content' \in [Addresses -> Contents], ContentKept,
           NEW v \in Seq(Contents \cup {"nil"}), Holds(v, new),
           value' = [value EXCEPT ![s] = @ \o v]
    PROVE  SliceInv'
  <1>1. PICK r \in Appended(s, new) :
            /\ cells' = [cells EXCEPT ![r.array] = r.cells]
            /\ orig' = [orig EXCEPT ![s] = [array |-> r.array, len |-> @.len + Len(new)]]
    BY DEF AppendTo
  <1> DEFINE m == orig[s].len
             a == r.array
             q == r.cells
             n == m + Len(new)
             w == value[s]
             z == w \o v
  <1>2. /\ a \in Arrays /\ q \in Seq(Addresses \cup {Nil})
        /\ n <= Len(q) /\ Len(q) <= MaxLen + 1
        /\ \A j \in 1..m : q[j] = Array(s)[j] /\ j \in DOMAIN Array(s)
        /\ \A j \in 1..Len(new) : q[m + j] = new[j]
        /\ \A t \in Slices : t # s => orig[t].array # a
    <2>1. IsAppended(s, new, r)
      BY AppendedIs
    <2> QED BY <2>1 DEF IsAppended
  <1>3. Distinct(q)
    BY AppendedOwn
  <1>4. \A j \in DOMAIN q : \/ q[j] = Nil
                            \/ \E i \in 1..Len(new) : q[j] = new[i]
                            \/ j \in DOMAIN Array(s) /\ q[j] = Array(s)[j]
    BY AppendedOwn
  <1>5. m \in Nat /\ Len(new) \in Nat /\ n \in 0..MaxLen
    BY ArrayType, SliceAssumption
  <1>6. Becomes(s, {}, a, n)
    BY <1>1, <1>2 DEF Becomes, SliceInv, SliceTypeOK
  <1>7. w \in Seq(Contents \cup {"nil"}) /\ Len(w) = m
        /\ \A j \in 1..m : w[j] = ContentOf(Array(s)[j])
    BY DEF SliceInv, SliceTypeOK, HoldsValue
  <1>8. value'[s] = z /\ \A t \in Slices : t # s => value'[t] = value[t]
    BY DEF SliceInv, SliceTypeOK
  <1>9. z \in Seq(Contents \cup {"nil"}) /\ Len(z) = n
        /\ (\A j \in 1..m : z[j] = w[j])
        /\ \A j \in 1..Len(new) : z[m + j] = v[j]
    <2>1. w \in Seq(Contents \cup {"nil"}) /\ Len(w) = m /\ Len(v) = Len(new)
      BY <1>7 DEF Holds
    <2>2. z = w \o v /\ n = m + Len(new)
      OBVIOUS
    <2> HIDE DEF w, m, n, z
    <2>3. z \in Seq(Contents \cup {"nil"}) /\ IsJoined(z, w, v)
      BY <2>1, <2>2, Concatenated
    <2> QED BY <2>1, <2>2, <2>3 DEF IsJoined
  <1>10. value' \in [Slices -> Seq(Contents \cup {"nil"})]
    <2>1. value' = [value EXCEPT ![s] = z]
      OBVIOUS
    <2> HIDE DEF w, z
    <2> QED BY <1>9, <2>1 DEF SliceInv, SliceTypeOK
  <1> HIDE DEF z
  <1>11. OthersKeep(s, {}, q)
    <2>1. ASSUME NEW t \in Slices, t # s, NEW k \in DOMAIN Array(t), Array(t)[k] # Nil,
                 NEW j \in DOMAIN q, q[j] = Array(t)[k]
          PROVE  FALSE
      <3>1. ~\E i \in 1..Len(new) : q[j] = new[i]
        BY <2>1 DEF NoneIn
      <3>2. j \in DOMAIN Array(s) /\ q[j] = Array(s)[j]
        BY <1>4, <2>1, <3>1
      <3>3. Array(s)[j] = Array(t)[k] /\ Array(s)[j] # Nil
        BY <2>1, <3>2
      <3>4. s = t
        BY <3>2, <3>3 DEF SliceInv, OwnElements
      <3> QED BY <2>1, <3>4
    <2> QED BY <1>8, <2>1 DEF OthersKeep, ContentKept
  <1>12. ASSUME NEW j \in 1..n
         PROVE  value'[s][j] = IF q[j] = Nil THEN "nil" ELSE content'[q[j]]
    <2>1. CASE j <= m
      <3>1. j \in 1..m
        BY <1>5, <2>1
      <3>2. q[j] = Array(s)[j] /\ j \in DOMAIN Array(s)
        BY <1>2, <3>1
      <3>3. value'[s][j] = ContentOf(Array(s)[j])
        BY <1>7, <1>8, <1>9, <3>1
      <3>4. Array(s)[j] # Nil => content'[Array(s)[j]] = content[Array(s)[j]]
        BY <3>2 DEF ContentKept
      <3>5. ContentOf(Array(s)[j]) = IF Array(s)[j] = Nil THEN "nil" ELSE content[Array(s)[j]]
        BY DEF ContentOf
      <3> QED BY <3>2, <3>3, <3>4, <3>5
    <2>2. CASE j > m
      <3>1. j - m \in 1..Len(new) /\ m + (j - m) = j
        BY <1>5, <2>2
      <3>2. q[m + (j - m)] = new[j - m] /\ z[m + (j - m)] = v[j - m]
        BY <1>2, <1>9, <3>1
      <3>3. q[j] = new[j - m] /\ value'[s][j] = v[j - m]
        BY <1>8, <3>1, <3>2
      <3> QED BY <3>1, <3>3 DEF Holds
    <2>3. j \in Nat /\ m \in Nat
      BY <1>5
    <2>4. j <= m \/ j > m
      BY <2>3
    <2> QED BY <2>1, <2>2, <2>4
  <1>13. Len(value'[s]) = n
    BY <1>8, <1>9
  <1> HIDE DEF m, a, q, n, w
  <1>14. cells' = [cells EXCEPT ![a] = q]
    BY <1>1 DEF a, q
  <1>15. StepTo(s, {}, a, q, n)
    BY <1>2, <1>3, <1>5, <1>6, <1>10, <1>11, <1>12, <1>13, <1>14 DEF StepTo
  <1> QED BY <1>15, Step

LEMMA ResizeUpKeeps ==
    ASSUME SliceInv, NEW s \in Slices, NEW n \in 0..MaxLen, ResizeUp(s, n)
    PROVE  SliceInv'
  <1> DEFINE m == orig[s].len
             k == n - m
             new == FreeElements(k)
             v == [j \in 1..k |-> Empty]
  <1>1. m \in Nat /\ n > m /\ k \in 0..MaxLen /\ k > 0 /\ m + k = n /\ n <= MaxLen
    BY ArrayType, SliceAssumption DEF ResizeUp
  <1>2. /\ new \in [1..k -> Addresses]
        /\ \A i, j \in 1..k : new[i] = new[j] => i = j
        /\ \A j \in 1..k : new[j] # Nil
        /\ \A t \in Slices : \A i \in DOMAIN Array(t), j \in 1..k : Array(t)[i] # new[j]
    <2> HIDE DEF k
    <2> QED BY <1>1, SomeElementsAreFree
  <1>3. AppendTo(s, new)
    BY DEF ResizeUp
  <1>4. content' = [e \in Addresses |-> IF \E j \in DOMAIN new : new[j] = e THEN Empty ELSE content[e]]
    BY DEF ResizeUp
  <1>5. Len(value[s]) = m
    BY DEF SliceInv, HoldsValue
  <1>6. value' = [value EXCEPT ![s] = @ \o v]
    BY <1>5 DEF ResizeUp
  <1> HIDE DEF new, v, k
  <1>7. new \in Seq(Addresses \cup {Nil}) /\ Len(new) = k /\ DOMAIN new = 1..k
    BY <1>1, <1>2
  <1>8. content' \in [Addresses -> Contents]
    BY <1>4, SliceAssumption DEF SliceInv, SliceTypeOK
  <1>9. ASSUME NEW t \in Slices, NEW i \in DOMAIN Array(t), Array(t)[i] # Nil
        PROVE  content'[Array(t)[i]] = content[Array(t)[i]]
    <2>1. Array(t)[i] \in Addresses
      BY <1>9, ArrayType
    <2> QED BY <1>2, <1>4, <1>7, <2>1
  <1>10. v \in Seq(Contents \cup {"nil"}) /\ Len(v) = k /\ \A j \in 1..k : v[j] = Empty
    BY <1>1, SliceAssumption DEF v
  <1>11. \A j \in 1..k : v[j] = IF new[j] = Nil THEN "nil" ELSE content'[new[j]]
    BY <1>2, <1>4, <1>7, <1>10
  <1>12. Len(new) > 0 /\ orig[s].len + Len(new) <= MaxLen
    BY <1>1, <1>7
  <1>13. Holds(v, new)
    BY <1>7, <1>10, <1>11 DEF Holds
  <1>14. Distinct(new) /\ \A t \in Slices : NoneIn(new, t)
    BY <1>2, <1>7 DEF Distinct, NoneIn
  <1>15. ContentKept
    BY <1>9 DEF ContentKept
  <1> HIDE DEF m
  <1> QED BY <1>3, <1>6, <1>7, <1>8, <1>10, <1>12, <1>13, <1>14, <1>15, AppendStep

LEMMA AppendElementKeeps ==
    ASSUME SliceInv, NEW s \in Slices, NEW c \in Contents \cup {"nil"}, AppendElement(s, c)
    PROVE  SliceInv'
  <1> DEFINE e == IF c = "nil" THEN Nil ELSE FreeElements(1)[1]
             new == <<e>>
             v == <<c>>
  <1>1. orig[s].len \in Nat /\ orig[s].len + 1 <= MaxLen /\ 1 \in 0..MaxLen
    BY ArrayType, SliceAssumption DEF AppendElement
  <1>2. FreeElements(1)[1] \in Addresses /\ FreeElements(1)[1] # Nil
        /\ \A t \in Slices : \A i \in DOMAIN Array(t) : Array(t)[i] # FreeElements(1)[1]
    BY <1>1, SomeElementsAreFree
  <1>3. /\ AppendTo(s, new)
        /\ content' = IF e = Nil THEN content ELSE [content EXCEPT ![e] = c]
        /\ value' = [value EXCEPT ![s] = Append(@, c)]
    BY DEF AppendElement
  <1>4. e \in Addresses \cup {Nil} /\ (e = Nil <=> c = "nil")
        /\ \A t \in Slices : \A i \in DOMAIN Array(t) : e # Nil => Array(t)[i] # e
    BY <1>2
  <1> HIDE DEF e
  <1>5. new \in Seq(Addresses \cup {Nil}) /\ Len(new) = 1 /\ new[1] = e
    BY <1>4
  <1>6. v \in Seq(Contents \cup {"nil"}) /\ Len(v) = 1 /\ v[1] = c
    OBVIOUS
  <1>7. value' = [value EXCEPT ![s] = @ \o v]
    <2>1. value[s] \in Seq(Contents \cup {"nil"})
      BY DEF SliceInv, SliceTypeOK
    <2>2. Append(value[s], c) = value[s] \o <<c>>
      BY <2>1
    <2> QED BY <1>3, <2>2
  <1>8. content' \in [Addresses -> Contents]
    BY <1>3, <1>4 DEF SliceInv, SliceTypeOK
  <1>9. ContentKept
    BY <1>3, <1>4 DEF SliceInv, SliceTypeOK, ContentKept
  <1>10. v[1] = IF new[1] = Nil THEN "nil" ELSE content'[new[1]]
    BY <1>3, <1>4, <1>5, <1>6 DEF SliceInv, SliceTypeOK
  <1>11. DOMAIN new = {1}
    OBVIOUS
  <1> HIDE DEF new, v
  <1>12. Holds(v, new)
    BY <1>5, <1>6, <1>10 DEF Holds
  <1>13. Distinct(new) /\ \A t \in Slices : NoneIn(new, t)
    BY <1>4, <1>5, <1>11 DEF Distinct, NoneIn
  <1>14. Len(new) > 0 /\ orig[s].len + Len(new) <= MaxLen
    BY <1>1, <1>5
  <1> QED BY <1>3, <1>5, <1>6, <1>7, <1>8, <1>9, <1>12, <1>13, <1>14, AppendStep

LEMMA OwnArrayOf ==
    ASSUME SliceInv, NEW s \in Slices
    PROVE  Distinct(Array(s))
  BY DEF SliceInv, OwnElements, Distinct

LEMMA OwnOfOthers ==
    ASSUME SliceInv, NEW s \in Slices, NEW t \in Slices, s # t,
           NEW j \in DOMAIN Array(s), NEW k \in DOMAIN Array(t), Array(t)[k] # Nil
    PROVE  Array(s)[j] # Array(t)[k]
  BY DEF SliceInv, OwnElements

LEMMA ValueOf ==
    ASSUME SliceInv, NEW s \in Slices
    PROVE  /\ value[s] \in Seq(Contents \cup {"nil"}) /\ Len(value[s]) = orig[s].len
           /\ \A j \in 1..orig[s].len :
                 value[s][j] = IF Array(s)[j] = Nil THEN "nil" ELSE content[Array(s)[j]]
  BY DEF SliceInv, SliceTypeOK, HoldsValue, ContentOf

LEMMA NoValue ==
    ASSUME SliceInv, NEW s \in Slices, orig[s].len = 0
    PROVE  value[s] = <<>>
  BY ValueOf

LEMMA ResizeDownKeeps ==
    ASSUME SliceInv, NEW s \in Slices, NEW n \in 0..MaxLen, ResizeDown(s, n)
    PROVE  SliceInv'
  <1> DEFINE v == value[s]
             q == Array(s)
             a == orig[s].array
  <1>1. /\ n <= orig[s].len /\ cells' = cells /\ content' = content
        /\ orig' = [orig EXCEPT ![s] = IF n = 0 THEN NilSlice ELSE [array |-> @.array, len |-> n]]
        /\ value' = [value EXCEPT ![s] = SubSeq(@, 1, n)]
    BY DEF ResizeDown
  <1>2. v \in Seq(Contents \cup {"nil"}) /\ Len(v) = orig[s].len /\ n \in Nat
    BY ValueOf, SliceAssumption
  <1>3. CASE n = 0
    <2>1. SubSeq(value[s], 1, n) = <<>>
      BY <1>2, <1>3
    <2>2. value' = [value EXCEPT ![s] = <<>>]
      BY <1>1, <2>1
    <2>3. orig' = [orig EXCEPT ![s] = NilSlice]
      BY <1>1, <1>3
    <2> QED BY <1>1, <2>2, <2>3, NilStep
  <1>4. CASE n > 0
    <2>1. a # Nil
      BY <1>1, <1>4, ArrayType
    <2>2. a \in Arrays /\ q = cells[a] /\ q \in Seq(Addresses \cup {Nil})
          /\ n <= Len(q) /\ Len(q) <= MaxLen + 1 /\ orig[s].len \in Nat
      BY <1>1, <1>2, <2>1, ArrayType, SliceAssumption
    <2>3. cells' = [cells EXCEPT ![a] = q]
      BY <1>1, <2>2 DEF SliceInv, SliceTypeOK
    <2>4. Becomes(s, {}, a, n)
      <3>1. orig' = [orig EXCEPT ![s] = [array |-> a, len |-> n]]
        <4>1. orig' = [orig EXCEPT ![s] = IF n = 0 THEN NilSlice
                                          ELSE [array |-> orig[s].array, len |-> n]]
          BY <1>1
        <4>2. n # 0
          BY <1>4
        <4> QED BY <4>1, <4>2
      <3>2. \A t \in Slices : t # s => orig[t].array # a
        BY <2>1 DEF SliceInv, OwnArray
      <3> HIDE DEF a
      <3> QED BY <3>1, <3>2 DEF Becomes, SliceInv, SliceTypeOK
    <2>5. value'[s] = SubSeq(v, 1, n) /\ \A t \in Slices : t # s => value'[t] = value[t]
      BY <1>1 DEF SliceInv, SliceTypeOK
    <2>6. SubSeq(v, 1, n) \in Seq(Contents \cup {"nil"}) /\ Len(SubSeq(v, 1, n)) = n
          /\ \A j \in 1..n : SubSeq(v, 1, n)[j] = v[j]
      <3> HIDE DEF v
      <3> QED BY <1>1, <1>2, <2>2
    <2>7. value' \in [Slices -> Seq(Contents \cup {"nil"})]
      <3> HIDE DEF v
      <3> QED BY <1>1, <2>6 DEF SliceInv, SliceTypeOK, v
    <2>8. OthersKeep(s, {}, q)
      BY <1>1, <2>5, OwnOfOthers DEF OthersKeep
    <2>9. \A j \in 1..n : value'[s][j] = IF q[j] = Nil THEN "nil" ELSE content'[q[j]]
      <3>1. \A j \in 1..n : j \in 1..orig[s].len
        BY <1>1, <1>2, <2>2
      <3> QED BY <1>1, <2>5, <2>6, <3>1, ValueOf
    <2>10. Len(value'[s]) = n
      BY <2>5, <2>6
    <2>11. Distinct(q) /\ content' \in [Addresses -> Contents]
      BY <1>1, OwnArrayOf DEF SliceInv, SliceTypeOK
    <2> HIDE DEF v, q, a
    <2>12. StepTo(s, {}, a, q, n)
      BY <2>2, <2>3, <2>4, <2>7, <2>8, <2>9, <2>10, <2>11 DEF StepTo
    <2> QED BY <2>12, Step
  <1> QED BY <1>2, <1>3, <1>4

LEMMA SetElementKeeps ==
    ASSUME SliceInv, NEW s \in Slices, NEW j \in 1..MaxLen, NEW c \in Contents,
           SetElement(s, j, c)
    PROVE  SliceInv'
  <1> DEFINE v == value[s]
             q == Array(s)
             a == orig[s].array
             n == orig[s].len
             e == q[j]
  <1>1. j \in 1..n /\ n \in 0..MaxLen /\ n \in Nat
    BY ArrayType, SliceAssumption DEF SetElement
  <1>2. Pointers(s)[j] = e /\ j \in DOMAIN q /\ e \in Addresses /\ e # Nil
    BY <1>1, PointersAre DEF SetElement
  <1>3. /\ content' = [content EXCEPT ![e] = c] /\ value' = [value EXCEPT ![s][j] = c]
        /\ orig' = orig /\ cells' = cells
    BY <1>2 DEF SetElement
  <1>4. a # Nil /\ a \in Arrays /\ q = cells[a] /\ q \in Seq(Addresses \cup {Nil})
        /\ n <= Len(q) /\ Len(q) <= MaxLen + 1
    BY <1>1, ArrayType
  <1>5. cells' = [cells EXCEPT ![a] = q]
    BY <1>3, <1>4 DEF SliceInv, SliceTypeOK
  <1>6. Becomes(s, {}, a, n)
    <2>1. orig[s] = [array |-> a, len |-> n]
      BY ArrayType
    <2>2. \A t \in Slices : t # s => orig[t].array # a
      BY <1>4 DEF SliceInv, OwnArray
    <2>3. orig' = [t \in Slices |-> IF t = s THEN [array |-> a, len |-> n] ELSE orig[t]]
      <3> HIDE DEF a, n
      <3> QED BY <1>3, <2>1 DEF SliceInv, SliceTypeOK
    <2> QED BY <2>2, <2>3 DEF Becomes
  <1>7. v \in Seq(Contents \cup {"nil"}) /\ Len(v) = n
    BY ValueOf
  <1>8. value'[s] = [v EXCEPT ![j] = c] /\ \A t \in Slices : t # s => value'[t] = value[t]
    BY <1>3 DEF SliceInv, SliceTypeOK
  <1>9. [v EXCEPT ![j] = c] \in Seq(Contents \cup {"nil"}) /\ Len([v EXCEPT ![j] = c]) = n
        /\ \A k \in 1..n : [v EXCEPT ![j] = c][k] = IF k = j THEN c ELSE v[k]
    <2> HIDE DEF v, n
    <2> QED BY <1>1, <1>7
  <1>10. value' \in [Slices -> Seq(Contents \cup {"nil"})]
    <2>1. value' = [value EXCEPT ![s] = [v EXCEPT ![j] = c]]
      BY <1>3
    <2> HIDE DEF v
    <2> QED BY <1>9, <2>1 DEF SliceInv, SliceTypeOK
  <1>11. content' \in [Addresses -> Contents] /\ content'[e] = c
         /\ \A x \in Addresses : x # e => content'[x] = content[x]
    BY <1>2, <1>3 DEF SliceInv, SliceTypeOK
  <1>12. OthersKeep(s, {}, q)
    <2>1. ASSUME NEW t \in Slices, t # s, NEW k \in DOMAIN Array(t), Array(t)[k] # Nil
          PROVE  /\ content'[Array(t)[k]] = content[Array(t)[k]]
                 /\ \A i \in DOMAIN q : q[i] # Array(t)[k]
      <3>1. \A i \in DOMAIN q : q[i] # Array(t)[k]
        BY <2>1, OwnOfOthers
      <3>2. Array(t)[k] \in Addresses
        BY <2>1, ArrayType
      <3> QED BY <1>2, <1>11, <3>1, <3>2
    <2> QED BY <1>8, <2>1 DEF OthersKeep
  <1>13. Distinct(q)
    BY OwnArrayOf
  <1>14. ASSUME NEW k \in 1..n
         PROVE  value'[s][k] = IF q[k] = Nil THEN "nil" ELSE content'[q[k]]
    <2>1. k \in DOMAIN q /\ q[k] \in Addresses \cup {Nil}
      BY PointersAre
    <2>2. CASE k = j
      BY <1>2, <1>8, <1>9, <1>11, <2>2
    <2>3. CASE k # j
      <3>1. q[k] # Nil => q[k] # e
        BY <1>2, <1>13, <2>1, <2>3 DEF Distinct
      <3>2. v[k] = IF q[k] = Nil THEN "nil" ELSE content[q[k]]
        BY ValueOf
      <3> QED BY <1>8, <1>9, <1>11, <2>1, <2>3, <3>1, <3>2
    <2> QED BY <2>2, <2>3
  <1>15. Len(value'[s]) = n
    BY <1>8, <1>9
  <1> HIDE DEF v, q, a, n, e
  <1>16. StepTo(s, {}, a, q, n)
    BY <1>1, <1>4, <1>5, <1>6, <1>10, <1>11, <1>12, <1>13, <1>14, <1>15 DEF StepTo
  <1> QED BY <1>16, Step

LEMMA CopyEmptyKeeps ==
    ASSUME SliceInv, NEW s \in Slices, NEW d \in Slices, CopyEmpty(s, d)
    PROVE  SliceInv'
  BY NilStep DEF CopyEmpty

LEMMA MoveKeeps ==
    ASSUME SliceInv, NEW s \in Slices, NEW d \in Slices, MoveAndAppendTo(s, d)
    PROVE  SliceInv'
  <1> DEFINE n == orig[s].len
             m == orig[d].len
             v == value[s]
             w == value[d]
             z == w \o v
  <1>1. /\ s # d /\ n + m <= MaxLen /\ content' = content
        /\ value' = [value EXCEPT ![d] = z, ![s] = <<>>]
    BY DEF MoveAndAppendTo
  <1>2. /\ n \in 0..MaxLen /\ m \in 0..MaxLen /\ n \in Nat /\ m \in Nat
        /\ v \in Seq(Contents \cup {"nil"}) /\ Len(v) = n
        /\ w \in Seq(Contents \cup {"nil"}) /\ Len(w) = m
    BY ArrayType, ValueOf, SliceAssumption
  <1>3. /\ z \in Seq(Contents \cup {"nil"}) /\ Len(z) = m + n
        /\ \A j \in 1..m : z[j] = w[j]
        /\ \A j \in 1..n : z[m + j] = v[j]
    <2>1. w \in Seq(Contents \cup {"nil"}) /\ v \in Seq(Contents \cup {"nil"}) /\ z = w \o v
      BY <1>2
    <2> HIDE DEF w, v, z
    <2>2. z \in Seq(Contents \cup {"nil"}) /\ IsJoined(z, w, v)
      BY <2>1, Concatenated
    <2> HIDE DEF n, m
    <2> QED BY <1>2, <2>2 DEF IsJoined
  <1>4. /\ value'[d] = z /\ value'[s] = <<>>
        /\ \A t \in Slices : t # s /\ t # d => value'[t] = value[t]
    BY <1>1 DEF SliceInv, SliceTypeOK
  <1>5. value' \in [Slices -> Seq(Contents \cup {"nil"})]
    <2>1. \A t \in Slices : value[t] \in Seq(Contents \cup {"nil"}) /\ DOMAIN value = Slices
      BY DEF SliceInv, SliceTypeOK
    <2>2. <<>> \in Seq(Contents \cup {"nil"})
      OBVIOUS
    <2> HIDE DEF w, v, z
    <2>3. \A t \in Slices : value'[t] \in Seq(Contents \cup {"nil"})
      BY <1>3, <1>4, <2>1, <2>2
    <2>4. value' = [t \in Slices |-> value'[t]]
      BY <1>1 DEF SliceInv, SliceTypeOK
    <2> QED BY <2>3, <2>4
  <1>6. content' \in [Addresses -> Contents]
    BY <1>1 DEF SliceInv, SliceTypeOK
  <1>7. CASE n = 0
    <2>1. orig' = [orig EXCEPT ![s] = NilSlice] /\ cells' = cells
      BY <1>7 DEF MoveAndAppendTo
    <2>2. v = <<>>
      BY <1>7, NoValue
    <2>3. z = w
      <3> HIDE DEF w
      <3> QED BY <1>2, <2>2
    <2>4. value' = [value EXCEPT ![s] = <<>>]
      <3>1. value' = [value EXCEPT ![d] = value[d], ![s] = <<>>]
        BY <1>1, <2>3
      <3> QED BY <3>1 DEF SliceInv, SliceTypeOK
    <2> QED BY <1>1, <2>1, <2>4, NilStep
  <1>8. CASE n > 0 /\ m = 0
    <2> DEFINE a == orig[s].array
               q == Array(s)
    <2>1. orig' = [orig EXCEPT ![d] = orig[s], ![s] = NilSlice] /\ cells' = cells
      BY <1>2, <1>8 DEF MoveAndAppendTo
    <2>2. a # Nil /\ a \in Arrays /\ q = cells[a] /\ q \in Seq(Addresses \cup {Nil})
          /\ n <= Len(q) /\ Len(q) <= MaxLen + 1
      BY <1>8, ArrayType
    <2>3. cells' = [cells EXCEPT ![a] = q]
      BY <2>1, <2>2 DEF SliceInv, SliceTypeOK
    <2>4. Becomes(d, {s}, a, n)
      <3>1. orig[s] = [array |-> a, len |-> n]
        BY ArrayType
      <3>2. \A t \in Slices : t # s => orig[t].array # a
        BY <2>2 DEF SliceInv, OwnArray
      <3>3. orig' = [t \in Slices |-> IF t = d THEN [array |-> a, len |-> n]
                                     ELSE IF t = s THEN NilSlice ELSE orig[t]]
        <4> HIDE DEF a, n
        <4> QED BY <1>1, <2>1, <3>1 DEF SliceInv, SliceTypeOK
      <3> QED BY <3>2, <3>3 DEF Becomes
    <2>5. OthersKeep(d, {s}, q)
      <3>1. ASSUME NEW t \in Slices, t # s, NEW i \in DOMAIN Array(t), Array(t)[i] # Nil
            PROVE  \A j \in DOMAIN q : q[j] # Array(t)[i]
        BY <3>1, OwnOfOthers
      <3> HIDE DEF q, z
      <3> QED BY <1>1, <1>4, <3>1 DEF OthersKeep
    <2>6. z = v
      <3>1. w = <<>>
        BY <1>8, NoValue
      <3> HIDE DEF v, w
      <3> QED BY <1>2, <3>1
    <2>7. \A j \in 1..n : value'[d][j] = IF q[j] = Nil THEN "nil" ELSE content'[q[j]]
      BY <1>1, <1>4, <2>6, ValueOf
    <2>8. Len(value'[d]) = n /\ Distinct(q) /\ \A t \in {s} \cap Slices : value'[t] = <<>>
      BY <1>2, <1>4, <2>6, OwnArrayOf
    <2> HIDE DEF n, m, v, w, a, q
    <2>9. StepTo(d, {s}, a, q, n)
      BY <1>1, <1>2, <1>5, <1>6, <2>2, <2>3, <2>4, <2>5, <2>7, <2>8 DEF StepTo
    <2> QED BY <2>9, Step
  <1>9. CASE n > 0 /\ m > 0
    <2> DEFINE new == Pointers(s)
    <2>1. PICK r \in Appended(d, new) :
              /\ cells' = [cells EXCEPT ![r.array] = r.cells]
              /\ orig' = [orig EXCEPT ![d] = [array |-> r.array, len |-> @.len + orig[s].len],
                                      ![s] = NilSlice]
      BY <1>2, <1>9 DEF MoveAndAppendTo
    <2>2. /\ new \in Seq(Addresses \cup {Nil}) /\ Len(new) = n /\ DOMAIN new = 1..n
          /\ \A j \in 1..n : new[j] = Array(s)[j] /\ j \in DOMAIN Array(s)
      BY PointersAre
    <2>3. Distinct(new)
      BY <2>2, OwnArrayOf DEF Distinct
    <2>4. NoneIn(new, d)
      BY <1>1, <2>2, OwnOfOthers DEF NoneIn
    <2>5. Len(new) > 0 /\ orig[d].len + Len(new) <= MaxLen
      BY <1>1, <1>2, <1>9, <2>2
    <2> DEFINE a == r.array
               q == r.cells
               k == m + n
    <2> HIDE DEF new
    <2>6. IsAppended(d, new, r)
      BY <2>2, <2>5, AppendedIs
    <2>7. /\ Distinct(q)
          /\ \A j \in DOMAIN q :
                \/ q[j] = Nil
                \/ \E i \in 1..Len(new) : q[j] = new[i]
                \/ j \in DOMAIN Array(d) /\ q[j] = Array(d)[j]
      BY <2>2, <2>3, <2>4, <2>5, AppendedOwn
    <2>8. /\ a \in Arrays /\ q \in Seq(Addresses \cup {Nil})
          /\ k <= Len(q) /\ Len(q) <= MaxLen + 1 /\ k \in 0..MaxLen
      BY <1>1, <1>2, <2>2, <2>6, SliceAssumption DEF IsAppended
    <2>9. Becomes(d, {s}, a, k)
      <3>1. \A t \in Slices : t # d => orig[t].array # a
        BY <2>6 DEF IsAppended
      <3>2. orig' = [t \in Slices |-> IF t = d THEN [array |-> a, len |-> k]
                                     ELSE IF t = s THEN NilSlice ELSE orig[t]]
        BY <1>1, <2>1 DEF SliceInv, SliceTypeOK
      <3> QED BY <3>1, <3>2 DEF Becomes
    <2>10. OthersKeep(d, {s}, q)
      <3>1. ASSUME NEW t \in Slices, t # s, t # d, NEW i \in DOMAIN Array(t),
                   Array(t)[i] # Nil, NEW j \in DOMAIN q, q[j] = Array(t)[i]
            PROVE  FALSE
        <4>1. CASE \E x \in 1..Len(new) : q[j] = new[x]
          BY <2>2, <3>1, <4>1, OwnOfOthers
        <4>2. CASE j \in DOMAIN Array(d) /\ q[j] = Array(d)[j]
          BY <3>1, <4>2, OwnOfOthers
        <4> QED BY <2>7, <3>1, <4>1, <4>2
      <3> QED BY <1>1, <1>4, <3>1 DEF OthersKeep
    <2>11. ASSUME NEW j \in 1..k
           PROVE  value'[d][j] = IF q[j] = Nil THEN "nil" ELSE content'[q[j]]
      <3>1. CASE j <= m
        <4>1. j \in 1..m
          BY <1>2, <3>1
        <4>2. q[j] = Array(d)[j]
          BY <2>6, <4>1 DEF IsAppended
        <4>3. w[j] = IF Array(d)[j] = Nil THEN "nil" ELSE content[Array(d)[j]]
          BY <4>1, ValueOf
        <4> QED BY <1>1, <1>3, <1>4, <4>1, <4>2, <4>3
      <3>2. CASE j > m
        <4>1. j - m \in 1..n /\ m + (j - m) = j
          BY <1>2, <3>2
        <4>2. q[m + (j - m)] = new[j - m]
          BY <2>2, <2>6, <4>1 DEF IsAppended
        <4>3. z[m + (j - m)] = v[j - m]
          BY <1>3, <4>1
        <4>4. v[j - m] = IF Array(s)[j - m] = Nil THEN "nil" ELSE content[Array(s)[j - m]]
          BY <4>1, ValueOf
        <4> HIDE DEF v, w, z, m, n, k, q, a
        <4> QED BY <1>1, <1>4, <2>2, <4>1, <4>2, <4>3, <4>4
      <3>3. j <= m \/ j > m
        BY <1>2
      <3> QED BY <3>1, <3>2, <3>3
    <2>12. Len(value'[d]) = k /\ \A t \in {s} \cap Slices : value'[t] = <<>>
      BY <1>3, <1>4
    <2> HIDE DEF n, m, v, w, a, q, k
    <2>13. cells' = [cells EXCEPT ![a] = q]
      BY <2>1 DEF a, q
    <2>14. StepTo(d, {s}, a, q, k)
      BY <1>1, <1>5, <1>6, <2>7, <2>8, <2>9, <2>10, <2>11, <2>12, <2>13 DEF StepTo
    <2> QED BY <2>14, Step
  <1> QED BY <1>2, <1>7, <1>8, <1>9

\* What CopyTo makes of pointers is new, or d's own, and each of them once.
LEMMA CopiesAre ==
    ASSUME SliceInv, NEW s \in Slices, NEW d \in Slices, orig[s].len > 0
    PROVE  /\ Copies(s, d) \in Seq(Addresses \cup {Nil})
           /\ Len(Copies(s, d)) = orig[s].len /\ DOMAIN Copies(s, d) = 1..orig[s].len
           /\ Distinct(Copies(s, d))
           /\ \A j \in 1..orig[s].len :
                 /\ Copies(s, d)[j] = Nil <=> Array(s)[j] = Nil
                 /\ \/ Copies(s, d)[j] = Nil
                    \/ /\ orig[s].len <= orig[d].len
                       /\ j \in DOMAIN Array(d) /\ Copies(s, d)[j] = Array(d)[j]
                    \/ \A t \in Slices : \A k \in DOMAIN Array(t) : Array(t)[k] # Copies(s, d)[j]
  <1> DEFINE n == orig[s].len
             new == FreeElements(n)
             q == Copies(s, d)
  <1>1. n \in 0..MaxLen /\ n \in Nat /\ orig[d].len \in Nat
    BY ArrayType, SliceAssumption
  <1>2. /\ new \in [1..n -> Addresses]
        /\ \A i, j \in 1..n : new[i] = new[j] => i = j
        /\ \A j \in 1..n : new[j] # Nil
        /\ \A t \in Slices : \A i \in DOMAIN Array(t), j \in 1..n : Array(t)[i] # new[j]
    <2> HIDE DEF n
    <2> QED BY <1>1, SomeElementsAreFree
  <1>3. q = [j \in 1..n |-> CASE Pointers(s)[j] = Nil -> Nil
                             [] Pointers(s)[j] # Nil /\ n <= orig[d].len /\ Pointers(d)[j] # Nil
                                    -> Pointers(d)[j]
                             [] OTHER -> new[j]]
    BY DEF Copies
  <1> HIDE DEF q, new
  <1>4. \A j \in 1..n : Pointers(s)[j] = Array(s)[j]
    BY PointersAre
  <1>5. ASSUME n <= orig[d].len, NEW j \in 1..n
        PROVE  Pointers(d)[j] = Array(d)[j] /\ j \in DOMAIN Array(d)
               /\ Pointers(d)[j] \in Addresses \cup {Nil}
    <2>1. j \in 1..orig[d].len
      BY <1>1, <1>5
    <2> QED BY <2>1, PointersAre
  <1> HIDE DEF n
  <1>6. ASSUME NEW j \in 1..n
        PROVE  \/ q[j] = Nil /\ Array(s)[j] = Nil
               \/ /\ Array(s)[j] # Nil /\ n <= orig[d].len
                  /\ q[j] = Array(d)[j] /\ Array(d)[j] # Nil /\ j \in DOMAIN Array(d)
                  /\ q[j] \in Addresses
               \/ Array(s)[j] # Nil /\ q[j] = new[j]
    <2>1. CASE Pointers(s)[j] = Nil
      BY <1>3, <1>4, <2>1
    <2>2. CASE Pointers(s)[j] # Nil /\ n <= orig[d].len /\ Pointers(d)[j] # Nil
      <3>1. q[j] = Pointers(d)[j]
        BY <1>3, <2>2
      <3>2. Pointers(d)[j] = Array(d)[j] /\ j \in DOMAIN Array(d) /\ Pointers(d)[j] \in Addresses \cup {Nil}
        BY <1>5, <2>2
      <3> QED BY <1>4, <2>2, <3>1, <3>2
    <2>3. CASE Pointers(s)[j] # Nil /\ ~(n <= orig[d].len /\ Pointers(d)[j] # Nil)
      <3>1. q[j] = new[j]
        BY <1>3, <2>3
      <3> QED BY <1>4, <2>3, <3>1
    <2> QED BY <2>1, <2>2, <2>3
  <1>7. \A j \in 1..n : q[j] \in Addresses \cup {Nil}
    BY <1>2, <1>6
  <1>8. q \in Seq(Addresses \cup {Nil}) /\ Len(q) = n /\ DOMAIN q = 1..n
    <2>1. q = [j \in 1..n |-> q[j]]
      BY <1>3
    <2> QED BY <1>1, <1>7, <2>1
  <1>9. Distinct(q)
    <2>1. ASSUME NEW i \in 1..n, NEW j \in 1..n, q[i] = q[j], q[i] # Nil
          PROVE  i = j
      <3>1. CASE q[i] = new[i]
        <4>1. ~(j \in DOMAIN Array(d) /\ q[j] = Array(d)[j])
          <5>1. \A k \in DOMAIN Array(d) : Array(d)[k] # new[i]
            BY <1>2
          <5> QED BY <2>1, <3>1, <5>1
        <4>2. q[j] = new[j]
          BY <1>6, <2>1, <4>1
        <4> QED BY <1>2, <2>1, <3>1, <4>2
      <3>2. CASE q[i] = Array(d)[i] /\ i \in DOMAIN Array(d)
        <4>1. q[j] # new[j]
          <5>1. \A k \in DOMAIN Array(d) : Array(d)[k] # new[j]
            BY <1>2
          <5> QED BY <2>1, <3>2, <5>1
        <4>2. q[j] = Array(d)[j] /\ j \in DOMAIN Array(d)
          BY <1>6, <2>1, <4>1
        <4>3. Distinct(Array(d))
          BY OwnArrayOf
        <4> QED BY <2>1, <3>2, <4>2, <4>3 DEF Distinct
      <3> QED BY <1>6, <2>1, <3>1, <3>2
    <2> QED BY <1>8, <2>1 DEF Distinct
  <1>10. ASSUME NEW j \in 1..n
         PROVE  /\ q[j] = Nil <=> Array(s)[j] = Nil
                /\ \/ q[j] = Nil
                   \/ n <= orig[d].len /\ j \in DOMAIN Array(d) /\ q[j] = Array(d)[j]
                   \/ \A t \in Slices : \A k \in DOMAIN Array(t) : Array(t)[k] # q[j]
    <2>1. q[j] = Nil <=> Array(s)[j] = Nil
      BY <1>2, <1>6
    <2>2. CASE q[j] = new[j]
      <3>1. \A t \in Slices : \A k \in DOMAIN Array(t) : Array(t)[k] # q[j]
        BY <1>2, <2>2
      <3> QED BY <2>1, <3>1
    <2>3. CASE q[j] # new[j]
      BY <1>6, <2>1, <2>3
    <2> QED BY <2>2, <2>3
  <1> QED BY <1>8, <1>9, <1>10 DEF q, n

LEMMA CopyKeeps ==
    ASSUME SliceInv, NEW s \in Slices, NEW d \in Slices, CopyTo(s, d)
    PROVE  SliceInv'
  <1> DEFINE n == orig[s].len
             p == Copies(s, d)
             inPlace == n <= orig[d].len
             a == IF inPlace THEN orig[d].array ELSE FreeArray
             q == IF inPlace THEN Overwrite(Array(d), p) ELSE p
             source(e) == CHOOSE j \in 1..n : p[j] = e
  <1>1. n > 0 /\ n \in Nat /\ n \in 0..MaxLen /\ orig[d].len \in Nat /\ orig[d].len \in 0..MaxLen
    BY ArrayType, SliceAssumption DEF CopyTo
  <1>2. /\ cells' = [cells EXCEPT ![a] = IF inPlace THEN Overwrite(cells[a], p) ELSE p]
        /\ orig' = [orig EXCEPT ![d] = [array |-> a, len |-> n]]
        /\ content' = [e \in Addresses |->
                          IF \E j \in 1..n : p[j] = e THEN content[Pointers(s)[source(e)]]
                          ELSE content[e]]
        /\ value' = [value EXCEPT ![d] = value[s]]
    BY DEF CopyTo
  <1>3. /\ p \in Seq(Addresses \cup {Nil}) /\ Len(p) = n /\ DOMAIN p = 1..n /\ Distinct(p)
        /\ \A j \in 1..n :
              /\ p[j] = Nil <=> Array(s)[j] = Nil
              /\ \/ p[j] = Nil
                 \/ inPlace /\ j \in DOMAIN Array(d) /\ p[j] = Array(d)[j]
                 \/ \A t \in Slices : \A k \in DOMAIN Array(t) : Array(t)[k] # p[j]
    BY <1>1, CopiesAre
  <1>4. \A j \in 1..n : /\ Pointers(s)[j] = Array(s)[j] /\ j \in DOMAIN Array(s)
                        /\ Array(s)[j] \in Addresses \cup {Nil}
    BY PointersAre
  <1>5. /\ Array(d) \in Seq(Addresses \cup {Nil}) /\ Len(Array(d)) \in Nat
        /\ orig[d].len <= Len(Array(d)) /\ Len(Array(d)) <= MaxLen + 1
        /\ DOMAIN Array(d) = 1..Len(Array(d))
    BY ArrayType
  <1>6. ASSUME inPlace
        PROVE  orig[d].array # Nil /\ a = orig[d].array /\ a \in Arrays /\ cells[a] = Array(d)
    BY <1>1, <1>6, ArrayType
  <1>7. a \in Arrays /\ \A t \in Slices : t # d => orig[t].array # a
    <2>1. CASE inPlace
      BY <1>6, <2>1 DEF SliceInv, OwnArray
    <2>2. CASE ~inPlace
      BY <2>2, SomeArrayIsFree
    <2> QED BY <2>1, <2>2
  <1>8. Becomes(d, {}, a, n)
    <2> HIDE DEF a, n
    <2> QED BY <1>2, <1>7 DEF Becomes, SliceInv, SliceTypeOK
  <1>9. cells' = [cells EXCEPT ![a] = q]
    <2>1. CASE inPlace
      BY <1>2, <1>6, <2>1
    <2>2. CASE ~inPlace
      BY <1>2, <2>2
    <2> QED BY <2>1, <2>2
  <1>10. value'[d] = value[s] /\ \A t \in Slices : t # d => value'[t] = value[t]
    BY <1>2 DEF SliceInv, SliceTypeOK
  <1>11. value' \in [Slices -> Seq(Contents \cup {"nil"})]
    BY <1>2 DEF SliceInv, SliceTypeOK
  <1>12. /\ q \in Seq(Addresses \cup {Nil}) /\ n <= Len(q) /\ Len(q) <= MaxLen + 1
         /\ \A j \in 1..n : q[j] = p[j]
         /\ \A j \in DOMAIN q : j > n => j \in DOMAIN Array(d) /\ q[j] = Array(d)[j] /\ inPlace
         /\ DOMAIN q \subseteq Nat \ {0}
    <2>1. CASE inPlace
      <3>1. Len(p) <= Len(Array(d))
        <4> HIDE DEF p
        <4> QED BY <1>1, <1>3, <1>5, <2>1
      <3>2. q = Overwrite(Array(d), p)
        BY <2>1
      <3> HIDE DEF p, q
      <3>3. /\ Overwrite(Array(d), p) \in Seq(Addresses \cup {Nil})
            /\ Len(Overwrite(Array(d), p)) = Len(Array(d))
            /\ \A j \in 1..Len(p) : Overwrite(Array(d), p)[j] = p[j]
            /\ \A j \in (Len(p) + 1)..Len(Array(d)) : Overwrite(Array(d), p)[j] = Array(d)[j]
        BY <1>3, <1>5, <3>1, WriteFront
      <3>4. q \in Seq(Addresses \cup {Nil}) /\ Len(q) = Len(Array(d)) /\ DOMAIN q = DOMAIN Array(d)
        BY <1>5, <3>2, <3>3
      <3>5. \A j \in 1..n : q[j] = p[j]
        BY <1>3, <3>2, <3>3
      <3>6. ASSUME NEW j \in DOMAIN q, j > n PROVE q[j] = Array(d)[j]
        <4>1. j \in (Len(p) + 1)..Len(Array(d))
          BY <1>1, <1>3, <1>5, <3>4, <3>6
        <4> QED BY <3>2, <3>3, <4>1
      <3>7. n <= Len(q) /\ Len(q) <= MaxLen + 1
        BY <1>3, <1>5, <3>1, <3>4
      <3> QED BY <1>5, <2>1, <3>4, <3>5, <3>6, <3>7
    <2>2. CASE ~inPlace
      <3>1. q = p
        BY <2>2
      <3> HIDE DEF p, q
      <3> QED BY <1>1, <1>3, <3>1, SliceAssumption
    <2> QED BY <2>1, <2>2
  <1> HIDE DEF p, q, a
  <1>13. Distinct(q)
    <2>1. ASSUME NEW i \in DOMAIN q, NEW j \in DOMAIN q, q[i] = q[j], q[i] # Nil, i <= n, j > n
          PROVE  FALSE
      <3>1. i \in 1..n
        BY <1>1, <1>12, <2>1
      <3>2. j \in DOMAIN Array(d) /\ q[j] = Array(d)[j] /\ q[i] = p[i]
        BY <1>12, <2>1, <3>1
      <3>3. i \in DOMAIN Array(d) /\ p[i] = Array(d)[i]
        BY <1>3, <2>1, <3>1, <3>2
      <3>4. i = j
        BY <2>1, <3>2, <3>3, OwnArrayOf DEF Distinct
      <3> QED BY <1>1, <1>12, <2>1, <3>4
    <2>2. ASSUME NEW i \in DOMAIN q, NEW j \in DOMAIN q, q[i] = q[j], q[i] # Nil
          PROVE  i = j
      <3>1. i \in Nat /\ j \in Nat /\ i > 0 /\ j > 0
        BY <1>12
      <3>2. CASE i <= n /\ j <= n
        <4>1. i \in 1..n /\ j \in 1..n
          BY <1>1, <3>1, <3>2
        <4> QED BY <1>3, <1>12, <2>2, <4>1 DEF Distinct
      <3>3. CASE i > n /\ j > n
        BY <1>12, <2>2, <3>3, OwnArrayOf DEF Distinct
      <3>4. CASE i <= n /\ j > n
        BY <2>1, <2>2, <3>4
      <3>5. CASE i > n /\ j <= n
        BY <2>1, <2>2, <3>5
      <3> QED BY <1>1, <3>1, <3>2, <3>3, <3>4, <3>5
    <2> QED BY <2>2 DEF Distinct
  <1>14. ASSUME NEW j \in 1..n, p[j] # Nil
         PROVE  source(p[j]) = j /\ Array(s)[j] \in Addresses /\ p[j] \in Addresses
    <2>1. source(p[j]) \in 1..n /\ p[source(p[j])] = p[j]
      OBVIOUS
    <2>2. source(p[j]) = j
      <3> HIDE DEF source
      <3> QED BY <1>3, <1>14, <2>1 DEF Distinct
    <2>3. p[j] \in Addresses
      BY <1>3, <1>14
    <2> QED BY <1>3, <1>4, <1>14, <2>2, <2>3
  <1>15. ASSUME NEW j \in 1..n, p[j] # Nil
         PROVE  content'[p[j]] = content[Array(s)[j]]
    <2>1. source(p[j]) = j /\ p[j] \in Addresses
      BY <1>14, <1>15
    <2>2. content'[p[j]] = content[Pointers(s)[source(p[j])]]
      BY <1>2, <2>1
    <2> QED BY <1>4, <2>1, <2>2
  <1>16. \A e \in Addresses : (\A j \in 1..n : p[j] # e) => content'[e] = content[e]
    BY <1>2
  <1>17. content' \in [Addresses -> Contents]
    <2>1. content \in [Addresses -> Contents] /\ Nil \notin Addresses
      BY SliceAssumption, FS_CardinalityType DEF SliceInv, SliceTypeOK, Addresses, Nil
    <2>2. ASSUME NEW e \in Addresses PROVE content'[e] \in Contents
      <3>1. CASE \E j \in 1..n : p[j] = e
        <4>1. PICK j \in 1..n : p[j] = e
          BY <3>1
        <4>2. content'[e] = content[Array(s)[j]] /\ Array(s)[j] \in Addresses
          BY <1>14, <1>15, <2>1, <4>1
        <4> QED BY <2>1, <4>2
      <3>2. CASE \A j \in 1..n : p[j] # e
        BY <1>16, <2>1, <3>2
      <3> QED BY <3>1, <3>2
    <2>3. content' = [e \in Addresses |-> content'[e]]
      BY <1>2
    <2> QED BY <2>2, <2>3
  <1>18. OthersKeep(d, {}, q)
    <2>1. ASSUME NEW t \in Slices, t # d, NEW k \in DOMAIN Array(t), Array(t)[k] # Nil,
                 NEW j \in 1..n
          PROVE  p[j] # Array(t)[k]
      <3>1. CASE j \in DOMAIN Array(d) /\ p[j] = Array(d)[j]
        BY <2>1, <3>1, OwnOfOthers
      <3> QED BY <1>3, <2>1, <3>1
    <2>2. ASSUME NEW t \in Slices, t # d, NEW k \in DOMAIN Array(t), Array(t)[k] # Nil
          PROVE  /\ content'[Array(t)[k]] = content[Array(t)[k]]
                 /\ \A j \in DOMAIN q : q[j] # Array(t)[k]
      <3>1. content'[Array(t)[k]] = content[Array(t)[k]]
        <4>1. Array(t)[k] \in Addresses
          BY <2>2, ArrayType
        <4> QED BY <1>16, <2>1, <2>2, <4>1
      <3>2. ASSUME NEW j \in DOMAIN q PROVE q[j] # Array(t)[k]
        <4>1. CASE j <= n
          <5>1. j \in 1..n
            BY <1>1, <1>12, <4>1
          <5> QED BY <1>12, <2>1, <2>2, <5>1
        <4>2. CASE j > n
          <5>1. j \in DOMAIN Array(d) /\ q[j] = Array(d)[j]
            BY <1>12, <4>2
          <5> QED BY <2>2, <5>1, OwnOfOthers
        <4> QED BY <1>1, <1>12, <4>1, <4>2
      <3> QED BY <3>1, <3>2
    <2> QED BY <1>10, <2>2 DEF OthersKeep
  <1>19. Len(value'[d]) = n
    BY <1>10, ValueOf
  <1>20. ASSUME NEW j \in 1..n
         PROVE  value'[d][j] = IF q[j] = Nil THEN "nil" ELSE content'[q[j]]
    <2>1. value[s][j] = IF Array(s)[j] = Nil THEN "nil" ELSE content[Array(s)[j]]
      BY ValueOf
    <2> QED BY <1>3, <1>10, <1>12, <1>15, <2>1
  <1>21. StepTo(d, {}, a, q, n)
    <2> HIDE DEF n, source
    <2> QED BY <1>1, <1>7, <1>8, <1>9, <1>11, <1>12, <1>13, <1>17, <1>18, <1>19, <1>20 DEF StepTo
  <1> QED BY <1>21, Step

-----------------------------------------------------------------------------

LEMMA SliceInitInv == SliceInit => SliceInv
  <1> SUFFICES ASSUME SliceInit PROVE SliceInv
    OBVIOUS
  <1>1. \A s \in Slices : orig[s] = NilSlice /\ orig[s].array = Nil /\ orig[s].len = 0
                          /\ Array(s) = <<>> /\ value[s] = <<>>
    BY DEF SliceInit, NilSlice, Array
  <1>2. SliceTypeOK
    <2>1. NilSlice \in [array : Arrays \cup {Nil}, len : 0..MaxLen]
      BY SliceAssumption DEF NilSlice
    <2>2. <<>> \in Seq(Addresses \cup {Nil}) /\ <<>> \in Seq(Contents \cup {"nil"})
      OBVIOUS
    <2> QED BY <2>1, <2>2, SliceAssumption DEF SliceInit, SliceTypeOK
  <1>3. FrontOfArray
    BY <1>1, SliceAssumption DEF FrontOfArray
  <1>4. OwnArray /\ OwnElements
    BY <1>1 DEF OwnArray, OwnElements
  <1>5. HoldsValue
    BY <1>1 DEF HoldsValue
  <1> QED BY <1>2, <1>3, <1>4, <1>5 DEF SliceInv

LEMMA SliceNextInv == SliceInv /\ [SliceNext]_sliceVars => SliceInv'
  <1> SUFFICES ASSUME SliceInv, [SliceNext]_sliceVars PROVE SliceInv'
    OBVIOUS
  <1>1. CASE UNCHANGED sliceVars
    BY <1>1 DEF sliceVars, SliceInv, SliceTypeOK, FrontOfArray, OwnArray, OwnElements,
                HoldsValue, Array, ContentOf
  <1>2. CASE SliceNext
    <2>1. ASSUME NEW s \in Slices, NEW n \in 0..MaxLen, ResizeUp(s, n) \/ ResizeDown(s, n)
          PROVE  SliceInv'
      BY <2>1, ResizeUpKeeps, ResizeDownKeeps
    <2>2. ASSUME NEW s \in Slices, NEW c \in Contents \cup {"nil"}, AppendElement(s, c)
          PROVE  SliceInv'
      BY <2>2, AppendElementKeeps
    <2>3. ASSUME NEW s \in Slices, NEW j \in 1..MaxLen, NEW c \in Contents, SetElement(s, j, c)
          PROVE  SliceInv'
      BY <2>3, SetElementKeeps
    <2>4. ASSUME NEW s \in Slices, NEW d \in Slices,
                 MoveAndAppendTo(s, d) \/ CopyTo(s, d) \/ CopyEmpty(s, d)
          PROVE  SliceInv'
      BY <2>4, MoveKeeps, CopyKeeps, CopyEmptyKeeps
    <2> QED BY <1>2, <2>1, <2>2, <2>3, <2>4 DEF SliceNext
  <1> QED BY <1>1, <1>2

\* Slices are values (SlicesAreValues), for any number of slices, any length and any number
\* of operations: Resize, Append, MoveAndAppendTo and CopyTo of pdata's generated slices share
\* neither arrays nor elements.
THEOREM SlicesCorrect == SliceSpec => []SlicesAreValues
  <1>1. SliceInit => SliceInv
    BY SliceInitInv
  <1>2. SliceInv /\ [SliceNext]_sliceVars => SliceInv'
    BY SliceNextInv
  <1>3. SliceInv => SlicesAreValues
    BY InvGivesValues
  <1> QED BY <1>1, <1>2, <1>3, PTL DEF SliceSpec
=============================================================================
