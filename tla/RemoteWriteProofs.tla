-------------------------- MODULE RemoteWriteProofs --------------------------
(***************************************************************************)
(* Proofs about the remote write exporter, for any number of calls, any    *)
(* metrics and either client: the wait group against Shutdown, the count   *)
(* that PushMetrics returns, and the time series that samples are put in.  *)
(***************************************************************************)
EXTENDS RemoteWrite, FiniteSetTheorems, SequenceTheorems, WellFoundedInduction, TLAPS

\* The calls that the wait group counts: between wg.Add and the deferred wg.Done.
Within == {p \in Pushes : InProgress(p)}

Places == {"idle", "entered", "convert", "returned", "panicked"}
Shutdowns == {"no", "closing", "waiting", "woken", "returned", "panicked"}

Shape ==
    /\ DOMAIN push = Pushes
    /\ \A p \in Pushes :
          /\ DOMAIN push[p] = {"at", "md", "todo", "tsMap", "told"}
          /\ push[p].at \in Places
          /\ push[p].md \in Payloads \cup {<<>>}
          /\ push[p].told \in [dropped : Nat, err : BOOLEAN]
    /\ DOMAIN received = Pushes
    /\ shut \in Shutdowns

\* A map that is not the empty one has an entry, so that posting it posts something.
Mapped == \A p \in Pushes : push[p].tsMap # NoMap => DOMAIN push[p].tsMap # {}

Counted == wg = Cardinality(Within)

\* Whoever waits for the group has somebody to wait for.
Awaited == shut = "waiting" => wg > 0

IInv == Shape /\ Mapped /\ Counted /\ Awaited /\ QuietAfterShutdown /\ LossIsCounted

-----------------------------------------------------------------------------
(* Operators. *)

LEMMA FiniteWithin == IsFiniteSet(Within) /\ Cardinality(Within) \in Nat
  <1>1. Within \in SUBSET Pushes
    BY DEF Within
  <1> QED
    BY <1>1, RemoteWriteAssumption, FS_Subset, FS_CardinalityType

\* The metrics that are not handled are some of the metrics.
LEMMA NotHandledBound ==
    ASSUME NEW md \in Payloads \cup {<<>>}
    PROVE  NotHandled(md) \in Nat /\ NotHandled(md) <= Len(md) /\ Len(md) \in Nat
  <1>1. md \in Seq(Range(md))
    <2>1. CASE md \in Payloads
      BY <2>1, RemoteWriteAssumption DEF IsSeq
    <2>2. CASE md = <<>>
      BY <2>2
    <2> QED
      BY <2>1, <2>2
  <1>2. Len(md) \in Nat /\ DOMAIN md = 1 .. Len(md)
    BY <1>1
  <1>3. IsFiniteSet(1 .. Len(md)) /\ Cardinality(1 .. Len(md)) = Len(md)
    BY <1>2, FS_Interval
  <1>4. {j \in DOMAIN md : ~Handled(md[j])} \in SUBSET (1 .. Len(md))
    BY <1>2
  <1> QED
    BY <1>2, <1>3, <1>4, FS_Subset, FS_CardinalityType DEF NotHandled

\* addSample leaves an entry, whether it is a new one or not.
LEMMA AddSampleMaps ==
    ASSUME NEW tsMap, NEW s, NEW labels
    PROVE  DOMAIN addSample(tsMap, s, labels) # {}
  BY DEF addSample

-----------------------------------------------------------------------------
(* Calls enter and leave the wait group. *)

\* wg.Add.
LEMMA OneMoreWithin ==
    ASSUME Counted, NEW p \in Pushes, ~InProgress(p), InProgress(p)',
           \A q \in Pushes : q # p => (InProgress(q)' <=> InProgress(q)),
           wg' = wg + 1
    PROVE  Counted' /\ wg \in Nat
  <1>1. Within' = Within \cup {p} /\ p \notin Within
    BY DEF Within
  <1> QED
    BY <1>1, FiniteWithin, FS_AddElement DEF Counted

\* The deferred wg.Done: it was counted, so that the group does not go below zero.
LEMMA OneLessWithin ==
    ASSUME Counted, NEW p \in Pushes, InProgress(p), ~InProgress(p)',
           \A q \in Pushes : q # p => (InProgress(q)' <=> InProgress(q)),
           wg' = wg - 1
    PROVE  Counted' /\ wg \in Nat /\ wg > 0
  <1>1. Within' = Within \ {p} /\ p \in Within
    BY DEF Within
  <1>2. Cardinality(Within') = Cardinality(Within) - 1
    BY <1>1, FiniteWithin, FS_RemoveElement
  <1>3. Cardinality(Within) # 0
    BY <1>1, FiniteWithin, FS_EmptySet
  <1> QED
    BY <1>2, <1>3, FiniteWithin DEF Counted

LEMMA SameWithin ==
    ASSUME Counted, \A q \in Pushes : InProgress(q)' <=> InProgress(q), wg' = wg
    PROVE  Counted' /\ wg \in Nat
  <1>1. Within' = Within
    BY DEF Within
  <1> QED
    BY <1>1, FiniteWithin DEF Counted

-----------------------------------------------------------------------------
(* Steps. *)

\* What a call that ends has to have for the invariant: everything else follows from Done.
LEMMA EndKeeps ==
    ASSUME IInv, NEW p \in Pushes, InProgress(p), ~InProgress(p)', Done,
           DOMAIN push' = Pushes, DOMAIN received' = Pushes,
           \A q \in Pushes : q # p => push'[q] = push[q] /\ received'[q] = received[q],
           DOMAIN push'[p] = {"at", "md", "todo", "tsMap", "told"},
           push'[p].at \in Places, push'[p].at # "convert",
           push'[p].md \in Payloads \cup {<<>>},
           push'[p].told \in [dropped : Nat, err : BOOLEAN],
           push'[p].tsMap = NoMap \/ push'[p].tsMap = push[p].tsMap,
           push'[p].at = "returned" =>
               /\ push'[p].told.dropped > 0 => push'[p].told.err
               /\ received'[p] = {} => push'[p].told.dropped = Len(push'[p].md)
               /\ push'[p].told.dropped >= NotHandled(push'[p].md)
    PROVE  IInv'
  <1>1. \A q \in Pushes : q # p => (InProgress(q)' <=> InProgress(q))
    BY DEF InProgress
  <1>2. Counted' /\ wg \in Nat /\ wg > 0 /\ wg' = wg - 1
    BY <1>1, OneLessWithin DEF IInv, Done
  <1>3. shut' \in Shutdowns /\ (shut' = "waiting" => shut = "waiting" /\ wg # 1)
        /\ (shut' = "returned" => shut = "returned")
    BY DEF Done, IInv, Shape, Shutdowns
  <1>4. Shape'
    BY <1>3 DEF IInv, Shape
  <1>5. Mapped'
    BY DEF IInv, Mapped
  <1>6. Awaited'
    BY <1>2, <1>3 DEF Awaited
  <1>7. QuietAfterShutdown'
    BY <1>3 DEF IInv, QuietAfterShutdown
  <1>8. LossIsCounted'
    BY DEF IInv, LossIsCounted
  <1> QED
    BY <1>2, <1>4, <1>5, <1>6, <1>7, <1>8 DEF IInv

LEMMA InitIInv == Init => IInv
  <1> SUFFICES ASSUME Init
               PROVE  IInv
    OBVIOUS
  <1>1. Within = {}
    BY DEF Init, Within, InProgress
  <1>2. Counted
    BY <1>1, FS_EmptySet DEF Init, Counted
  <1> QED
    BY <1>2 DEF Init, IInv, Shape, Places, Shutdowns, Mapped, Awaited, QuietAfterShutdown,
                LossIsCounted, NotTold

LEMMA EnterKeeps ==
    ASSUME IInv, NEW p \in Pushes, Enter(p)
    PROVE  IInv'
  <1>1. PICK md \in Payloads : push' = [push EXCEPT ![p].at = "entered", ![p].md = md]
    BY DEF Enter
  <1>2. /\ \A q \in Pushes : q # p => push'[q] = push[q]
        /\ DOMAIN push' = Pushes
    BY <1>1 DEF IInv, Shape
  <1>3. /\ push'[p].at = "entered" /\ push'[p].md = md /\ push'[p].tsMap = push[p].tsMap
        /\ push'[p].told = push[p].told
        /\ DOMAIN push'[p] = {"at", "md", "todo", "tsMap", "told"}
    BY <1>1 DEF IInv, Shape
  <1>4. ~InProgress(p) /\ InProgress(p)' /\ \A q \in Pushes : q # p => (InProgress(q)' <=> InProgress(q))
    BY <1>2, <1>3 DEF Enter, InProgress
  <1>5. wg' = wg + 1 /\ shut' = shut /\ received' = received
    BY DEF Enter
  <1>6. Counted' /\ wg \in Nat
    BY <1>4, <1>5, OneMoreWithin DEF IInv
  <1>7. Shape' /\ Mapped'
    BY <1>2, <1>3, <1>5 DEF IInv, Shape, Mapped, Places
  <1>8. Awaited' /\ QuietAfterShutdown' /\ LossIsCounted'
    BY <1>2, <1>3, <1>5, <1>6 DEF IInv, Awaited, QuietAfterShutdown, LossIsCounted
  <1> QED
    BY <1>6, <1>7, <1>8 DEF IInv

\* A step of a call that stays in the group changes neither the group nor what was posted.
LEMMA StayKeeps ==
    ASSUME IInv, NEW p \in Pushes, InProgress(p), ~closed \/ push[p].at = "convert",
           DOMAIN push' = Pushes, \A q \in Pushes : q # p => push'[q] = push[q],
           DOMAIN push'[p] = {"at", "md", "todo", "tsMap", "told"},
           push'[p].at = "convert", push'[p].md = push[p].md, push'[p].told = push[p].told,
           DOMAIN push'[p].tsMap # {} \/ push'[p].tsMap = push[p].tsMap,
           UNCHANGED <<wg, shut, received>>
    PROVE  IInv'
  <1>1. \A q \in Pushes : InProgress(q)' <=> InProgress(q)
    BY DEF InProgress
  <1>2. Counted'
    BY <1>1, SameWithin DEF IInv
  <1>3. Shape' /\ Mapped'
    BY DEF IInv, Shape, Mapped, Places
  <1>4. Awaited' /\ QuietAfterShutdown' /\ LossIsCounted'
    BY DEF IInv, Awaited, QuietAfterShutdown, LossIsCounted, closed
  <1> QED
    BY <1>2, <1>3, <1>4 DEF IInv

LEMMA RefuseKeeps ==
    ASSUME IInv, NEW p \in Pushes, Refuse(p)
    PROVE  IInv'
  <1>1. push' = [push EXCEPT ![p].at = "returned",
                             ![p].told = [dropped |-> Len(push[p].md), err |-> TRUE]]
    BY DEF Refuse
  <1>2. DOMAIN push' = Pushes /\ \A q \in Pushes : q # p => push'[q] = push[q]
    BY <1>1 DEF IInv, Shape
  <1>3. /\ push'[p].at = "returned" /\ push'[p].md = push[p].md
        /\ push'[p].tsMap = push[p].tsMap
        /\ push'[p].told = [dropped |-> Len(push[p].md), err |-> TRUE]
        /\ DOMAIN push'[p] = {"at", "md", "todo", "tsMap", "told"}
    BY <1>1 DEF IInv, Shape
  <1>4. push[p].md \in Payloads \cup {<<>>} /\ DOMAIN received = Pushes
    BY DEF IInv, Shape
  <1>5. /\ NotHandled(push[p].md) \in Nat /\ NotHandled(push[p].md) <= Len(push[p].md)
        /\ Len(push[p].md) \in Nat
    BY <1>4, NotHandledBound
  <1>6. Done /\ received' = received /\ InProgress(p) /\ ~InProgress(p)'
    BY <1>3 DEF Refuse, InProgress
  <1>7. /\ push'[p].told \in [dropped : Nat, err : BOOLEAN] /\ push'[p].told.err
        /\ push'[p].told.dropped = Len(push'[p].md)
        /\ push'[p].told.dropped >= NotHandled(push'[p].md)
    BY <1>3, <1>5
  <1> QED
    BY <1>2, <1>3, <1>4, <1>6, <1>7, EndKeeps DEF Places

LEMMA ConvertKeeps ==
    ASSUME IInv, NEW p \in Pushes, Convert(p)
    PROVE  IInv'
  <1>1. push[p].md \in Payloads \cup {<<>>} /\ DOMAIN received = Pushes /\ received' = received
    BY DEF IInv, Shape, Convert
  <1>2. InProgress(p)
    BY DEF Convert, InProgress
  <1>3. CASE push' = [push EXCEPT ![p].at = "convert", ![p].todo = Samples(push[p].md)]
             /\ UNCHANGED <<wg, shut>>
    <2>1. DOMAIN push' = Pushes /\ \A q \in Pushes : q # p => push'[q] = push[q]
      BY <1>3 DEF IInv, Shape
    <2>2. /\ push'[p].at = "convert" /\ push'[p].md = push[p].md
          /\ push'[p].tsMap = push[p].tsMap /\ push'[p].told = push[p].told
          /\ DOMAIN push'[p] = {"at", "md", "todo", "tsMap", "told"}
      BY <1>3 DEF IInv, Shape
    <2> QED
      BY <1>1, <1>2, <1>3, <2>1, <2>2, StayKeeps DEF Convert
  <1>4. CASE push' = [push EXCEPT ![p].at = "panicked"] /\ Done
    <2>1. DOMAIN push' = Pushes /\ \A q \in Pushes : q # p => push'[q] = push[q]
      BY <1>4 DEF IInv, Shape
    <2>2. /\ push'[p].at = "panicked" /\ push'[p].md = push[p].md
          /\ push'[p].tsMap = push[p].tsMap /\ push'[p].told = push[p].told
          /\ DOMAIN push'[p] = {"at", "md", "todo", "tsMap", "told"}
      BY <1>4 DEF IInv, Shape
    <2>3. ~InProgress(p)' /\ push[p].told \in [dropped : Nat, err : BOOLEAN]
      BY <2>2 DEF InProgress, IInv, Shape
    <2> QED
      BY <1>1, <1>2, <1>4, <2>1, <2>2, <2>3, EndKeeps DEF Places
  <1> QED
    BY <1>3, <1>4 DEF Convert

LEMMA AddSampleKeeps ==
    ASSUME IInv, NEW p \in Pushes, AddSample(p)
    PROVE  IInv'
  <1> DEFINE s == Head(push[p].todo)
             named(q) == [j \in DOMAIN q |-> s.labels[q[j]]]
  <1>1. PICK q \in Sorted(s.labels) :
            push' = [push EXCEPT ![p].todo = Tail(@), ![p].tsMap = addSample(@, s, named(q))]
    BY DEF AddSample
  <1> DEFINE more == addSample(push[p].tsMap, s, named(q))
  <1>2. DOMAIN more # {}
    BY AddSampleMaps
  <1>3. push' = [push EXCEPT ![p] = [push[p] EXCEPT !.todo = Tail(push[p].todo), !.tsMap = more]]
    BY <1>1 DEF IInv, Shape
  <1> HIDE DEF more
  <1>4. DOMAIN push' = Pushes /\ \A r \in Pushes : r # p => push'[r] = push[r]
    BY <1>3 DEF IInv, Shape
  <1>5. /\ push'[p].at = push[p].at /\ push'[p].md = push[p].md
        /\ push'[p].tsMap = more /\ push'[p].told = push[p].told
        /\ DOMAIN push'[p] = {"at", "md", "todo", "tsMap", "told"}
    BY <1>3 DEF IInv, Shape
  <1>6. push[p].at = "convert" /\ InProgress(p) /\ UNCHANGED <<wg, shut, received>>
    BY DEF AddSample, InProgress
  <1> QED
    BY <1>2, <1>4, <1>5, <1>6, StayKeeps

\* A call that returns from export, in one of the ways in which it can: when it says that
\* nothing failed, it has posted the map, which is not empty.
LEMMA ReturnKeeps ==
    ASSUME IInv, NEW p \in Pushes, NEW failed \in BOOLEAN, Exporting(p),
           Return(p, failed), Done, Accept(p) \/ UNCHANGED received,
           ~failed => Accept(p) /\ push[p].tsMap # NoMap
    PROVE  IInv'
  <1> DEFINE dropped == IF failed THEN Len(push[p].md) ELSE NotHandled(push[p].md)
             told == [dropped |-> dropped, err |-> dropped # 0]
  <1>1. push' = [push EXCEPT ![p].at = "returned", ![p].tsMap = NoMap, ![p].told = told]
    BY DEF Return
  <1>2. push[p].md \in Payloads \cup {<<>>} /\ DOMAIN received = Pushes
    BY DEF IInv, Shape
  <1>3. /\ NotHandled(push[p].md) \in Nat /\ NotHandled(push[p].md) <= Len(push[p].md)
        /\ Len(push[p].md) \in Nat
    BY <1>2, NotHandledBound
  <1>4. /\ told \in [dropped : Nat, err : BOOLEAN]
        /\ told.dropped > 0 => told.err
        /\ told.dropped >= NotHandled(push[p].md)
        /\ failed => told.dropped = Len(push[p].md)
    <2>1. /\ dropped \in Nat /\ dropped >= NotHandled(push[p].md)
          /\ failed => dropped = Len(push[p].md)
      BY <1>3
    <2> HIDE DEF dropped
    <2>2. told.dropped = dropped /\ told.err = (dropped # 0)
      OBVIOUS
    <2>3. told \in [dropped : Nat, err : BOOLEAN]
      BY <2>1
    <2>4. dropped > 0 => dropped # 0
      BY <2>1
    <2> HIDE DEF told
    <2> QED
      BY <2>1, <2>2, <2>3, <2>4
  <1> HIDE DEF told
  <1>5. DOMAIN push' = Pushes /\ \A q \in Pushes : q # p => push'[q] = push[q]
    BY <1>1 DEF IInv, Shape
  <1>6. /\ push'[p].at = "returned" /\ push'[p].md = push[p].md /\ push'[p].tsMap = NoMap
        /\ push'[p].told = told
        /\ DOMAIN push'[p] = {"at", "md", "todo", "tsMap", "told"}
    BY <1>1 DEF IInv, Shape
  <1>7. DOMAIN received' = Pushes /\ \A q \in Pushes : q # p => received'[q] = received[q]
    BY <1>2 DEF Accept
  <1>8. ~failed => received'[p] # {}
    <2>1. ~failed => DOMAIN push[p].tsMap # {}
      BY DEF IInv, Mapped
    <2>2. Accept(p) => received'[p] = {push[p].tsMap[x] : x \in DOMAIN push[p].tsMap}
      BY <1>2 DEF Accept, Range
    <2> QED
      BY <2>1, <2>2
  <1>9. InProgress(p) /\ ~InProgress(p)'
    BY <1>6 DEF InProgress, Exporting
  <1> QED
    BY <1>2, <1>3, <1>4, <1>5, <1>6, <1>7, <1>8, <1>9, EndKeeps DEF Places

\* log.Fatal: everything stays as it is, except that the endpoint may have the request.
LEMMA FatalKeeps ==
    ASSUME IInv, NEW p \in Pushes, Exporting(p), Accept(p) \/ UNCHANGED received,
           UNCHANGED <<push, wg, shut>>
    PROVE  IInv'
  <1>1. DOMAIN received' = Pushes /\ \A q \in Pushes : q # p => received'[q] = received[q]
    BY DEF IInv, Shape, Accept
  <1>2. Counted'
    BY SameWithin DEF IInv, InProgress
  <1>3. Shape' /\ Mapped' /\ Awaited' /\ QuietAfterShutdown'
    BY <1>1 DEF IInv, Shape, Mapped, Awaited, QuietAfterShutdown
  <1>4. LossIsCounted'
    BY <1>1 DEF IInv, LossIsCounted, Exporting
  <1> QED
    BY <1>2, <1>3, <1>4 DEF IInv

\* Shutdown closes the channel, waits, and goes on only when the group is empty: nobody is
\* between its look at the channel and its return.
LEMMA ShutdownKeeps ==
    ASSUME IInv, CloseChan \/ Wait
    PROVE  IInv'
  <1>1. UNCHANGED <<push, wg, received>> /\ shut' \in Shutdowns
    BY DEF CloseChan, Wait, Shutdowns
  <1>2. Counted' /\ wg \in Nat
    BY <1>1, SameWithin DEF IInv, InProgress
  <1>3. shut' = "returned" => wg = 0
    BY DEF CloseChan, Wait
  <1>4. wg = 0 => \A p \in Pushes : ~InProgress(p)
    BY FiniteWithin, FS_EmptySet DEF IInv, Counted, Within
  <1>5. QuietAfterShutdown'
    BY <1>1, <1>3, <1>4 DEF QuietAfterShutdown, InProgress
  <1>6. Awaited'
    BY <1>1, <1>2 DEF CloseChan, Wait, Awaited
  <1>7. Shape' /\ Mapped' /\ LossIsCounted'
    BY <1>1 DEF IInv, Shape, Mapped, LossIsCounted
  <1> QED
    BY <1>2, <1>5, <1>6, <1>7 DEF IInv

LEMMA NextIInv == IInv /\ [Next]_vars => IInv'
  <1> SUFFICES ASSUME IInv, [Next]_vars
               PROVE  IInv'
    OBVIOUS
  <1>1. CASE CloseChan \/ Wait
    BY <1>1, ShutdownKeeps
  <1>2. ASSUME NEW p \in Pushes, Enter(p)
        PROVE  IInv'
    BY <1>2, EnterKeeps
  <1>3. ASSUME NEW p \in Pushes, Refuse(p) \/ Convert(p) \/ AddSample(p)
        PROVE  IInv'
    BY <1>3, RefuseKeeps, ConvertKeeps, AddSampleKeeps
  <1>4. ASSUME NEW p \in Pushes, ExportNothing(p) \/ SignFails(p)
        PROVE  IInv'
    <2>1. Exporting(p) /\ Return(p, TRUE) /\ Done /\ UNCHANGED received
      BY <1>4 DEF ExportNothing, SignFails
    <2> QED
      BY <2>1, ReturnKeeps
  <1>5. ASSUME NEW p \in Pushes, Answer(p)
        PROVE  IInv'
    <2>1. Exporting(p) /\ push[p].tsMap # NoMap /\ Done
      BY <1>5 DEF Answer
    <2>2. CASE Return(p, FALSE) /\ Accept(p)
      BY <2>1, <2>2, ReturnKeeps
    <2>3. CASE Return(p, TRUE) /\ (Accept(p) \/ UNCHANGED received)
      BY <2>1, <2>3, ReturnKeeps
    <2> QED
      BY <1>5, <2>2, <2>3 DEF Answer
  <1>6. ASSUME NEW p \in Pushes, NoAnswer(p)
        PROVE  IInv'
    <2>1. Exporting(p) /\ (Accept(p) \/ UNCHANGED received)
      BY <1>6 DEF NoAnswer
    <2>2. CASE Return(p, TRUE) /\ Done
      BY <2>1, <2>2, ReturnKeeps
    <2>3. CASE UNCHANGED <<push, wg, shut>>
      BY <2>1, <2>3, FatalKeeps
    <2> QED
      BY <1>6, <2>2, <2>3 DEF NoAnswer
  <1>7. CASE UNCHANGED vars
    <2>1. Counted'
      BY <1>7, SameWithin DEF IInv, InProgress, vars
    <2> QED
      BY <1>7, <2>1 DEF IInv, Shape, Mapped, Awaited, QuietAfterShutdown, LossIsCounted, vars
  <1> QED
    BY <1>1, <1>2, <1>3, <1>4, <1>5, <1>6, <1>7 DEF Next

-----------------------------------------------------------------------------
(* What follows. *)

\* Calls, the endpoint and Shutdown keep the invariant: the group counts the calls in it.
THEOREM Invariance == Spec => []IInv
  BY InitIInv, NextIInv, PTL DEF Spec

\* Shutdown against any number of calls that come and end in any way: once it has returned
\* nobody posts, and it waits only while there is a call whose end will wake it.
THEOREM ShutdownStaysQuiet == Spec => []ShutdownIsQuiet
  <1>1. IInv => ShutdownIsQuiet
    <2> SUFFICES ASSUME IInv, shut = "waiting"
                 PROVE  \E p \in Pushes : InProgress(p)
      BY DEF IInv, ShutdownIsQuiet, WaitIsAnswered
    <2>1. Cardinality(Within) > 0
      BY DEF IInv, Counted, Awaited
    <2>2. Within # {}
      BY <2>1, FS_EmptySet
    <2> QED
      BY <2>2 DEF Within
  <1> QED
    BY <1>1, Invariance, PTL

\* Whatever the metrics are and however a call ends, the metrics whose samples the endpoint
\* did not accept are in the count that PushMetrics returns, and with a count comes an
\* error.
THEOREM LossStaysCounted == Spec => []LossIsCounted
  <1>1. IInv => LossIsCounted
    BY DEF IInv
  <1> QED
    BY <1>1, Invariance, PTL

-----------------------------------------------------------------------------
(***************************************************************************)
(* The labels of samples.  Signatures of sorted labels are equal exactly   *)
(* when the labels are (SignatureRight), so that adding samples one by one *)
(* keeps the map what Grouped says of the samples added so far (MapUpTo).  *)
(***************************************************************************)

(* Functions that are defined by recursion over 0..N. *)

\* Induction over the natural numbers, for a set instead of a predicate.
LEMMA SetInduction ==
    ASSUME NEW S, 0 \in S, \A n \in Nat : n \in S => n + 1 \in S
    PROVE  Nat \subseteq S
<1> DEFINE R == OpToRel(<, Nat)
           T == Nat \ S
<1>1. IsWellFoundedOn(R, Nat)
  BY NatLessThanWellFounded
<1>2. SUFFICES ASSUME T # {} PROVE FALSE
  OBVIOUS
<1>3. PICK x \in T : \A y \in T : ~(<<y, x>> \in R)
  <2>1. T \subseteq Nat
    OBVIOUS
  <2> HIDE DEF T, R
  <2> QED BY <1>1, <1>2, <2>1, WFMin
<1>4. x \in Nat /\ x # 0
  OBVIOUS
<1>5. x - 1 \in Nat /\ x - 1 < x /\ x - 1 + 1 = x
  BY <1>4
<1>6. <<x - 1, x>> \in R
  BY <1>4, <1>5 DEF OpToRel
<1>7. x - 1 \in S
  BY <1>3, <1>5, <1>6
<1> QED BY <1>5, <1>7

\* g is what the recursion computes on 0..n, from a with G.
Recursion(g, n, S, a, G) ==
    /\ g \in [0..n -> S]
    /\ g[0] = a
    /\ \A j \in 1..n : g[j] = G[j][g[j - 1]]

\* A recursion over 0..N has a result.
LEMMA RecursionExists ==
    ASSUME NEW N \in Nat, NEW S, NEW a \in S, NEW G \in [1..N -> [S -> S]]
    PROVE  \E g : Recursion(g, N, S, a, G)
<1> DEFINE P == {n \in Nat : n <= N => \E g : Recursion(g, n, S, a, G)}
<1>1. 0 \in P
  <2>1. Recursion([j \in 0..0 |-> a], 0, S, a, G)
    BY DEF Recursion
  <2> QED BY <2>1
<1>2. ASSUME NEW n \in Nat, n \in P PROVE n + 1 \in P
  <2>1. SUFFICES ASSUME n + 1 <= N PROVE \E g : Recursion(g, n + 1, S, a, G)
    OBVIOUS
  <2>2. PICK g : Recursion(g, n, S, a, G)
    BY <1>2, <2>1
  <2> DEFINE h == [j \in 0..(n + 1) |-> IF j = n + 1 THEN G[n + 1][g[n]] ELSE g[j]]
  <2>3. n + 1 \in 1..N /\ n \in 0..n /\ g[n] \in S /\ G[n + 1] \in [S -> S]
    BY <2>1, <2>2 DEF Recursion
  <2>4. h \in [0..(n + 1) -> S]
    BY <2>2, <2>3 DEF Recursion
  <2>5. h[0] = a
    BY <2>2 DEF Recursion
  <2>6. ASSUME NEW j \in 1..(n + 1) PROVE h[j] = G[j][h[j - 1]]
    <3>1. CASE j = n + 1
      BY <3>1
    <3>2. CASE j # n + 1
      <4>1. j \in 1..n /\ j - 1 \in 0..n /\ j - 1 # n + 1 /\ j \in 0..(n + 1) /\ j - 1 \in 0..(n + 1)
        BY <3>2
      <4> QED BY <3>2, <4>1, <2>2 DEF Recursion
    <3> QED BY <3>1, <3>2
  <2>7. Recursion(h, n + 1, S, a, G)
    BY <2>4, <2>5, <2>6 DEF Recursion
  <2> QED BY <2>7
<1>3. Nat \subseteq P
  <2> HIDE DEF P
  <2> QED BY <1>1, <1>2, SetInduction
<1> QED BY <1>3

\* The values of a function with that recursion are in S.
LEMMA RecursionTyped ==
    ASSUME NEW N \in Nat, NEW S, NEW f, f[0] \in S,
           \A n \in 1..N : f[n - 1] \in S => f[n] \in S
    PROVE  \A n \in 0..N : f[n] \in S
<1> DEFINE P == {n \in Nat : n <= N => f[n] \in S}
<1>1. 0 \in P
  OBVIOUS
<1>2. ASSUME NEW n \in Nat, n \in P PROVE n + 1 \in P
  <2>1. SUFFICES ASSUME n + 1 <= N PROVE f[n + 1] \in S
    OBVIOUS
  <2>2. n + 1 \in 1..N /\ (n + 1) - 1 = n /\ f[n] \in S
    BY <1>2, <2>1
  <2> QED BY <2>2
<1>3. Nat \subseteq P
  <2> HIDE DEF P
  <2> QED BY <1>1, <1>2, SetInduction
<1> QED BY <1>3

-----------------------------------------------------------------------------
(* Texts that are put together. *)

Dash == <<"-">>

SameText(x, a, y, b) == (x \o Dash) \o a = (y \o Dash) \o b

\* What goes before and after the last "-" of a text.
LEMMA Split ==
    ASSUME NEW T, NEW W, W \subseteq T, "-" \in T, "-" \notin W,
           NEW x \in Seq(T), NEW y \in Seq(T), NEW a \in Seq(W), NEW b \in Seq(W),
           SameText(x, a, y, b)
    PROVE  x = y /\ a = b
  <1> DEFINE xx == x \o Dash
             yy == y \o Dash
             u == xx \o a
             v == yy \o b
  <1>n. Len(x) \in Nat /\ Len(y) \in Nat /\ Len(a) \in Nat /\ Len(b) \in Nat
    OBVIOUS
  <1>1. a \in Seq(T) /\ b \in Seq(T) /\ Dash \in Seq(T) /\ Len(Dash) = 1 /\ Dash[1] = "-"
    BY DEF Dash
  <1>2. /\ xx \in Seq(T) /\ Len(xx) = Len(x) + 1
        /\ \A i \in 1 .. Len(x) + 1 : xx[i] = IF i <= Len(x) THEN x[i] ELSE "-"
    <2>1. \A i \in 1 .. Len(x) + 1 : i <= Len(x) \/ i - Len(x) = 1
      BY <1>n
    <2>2. /\ x \o Dash \in Seq(T) /\ Len(x \o Dash) = Len(x) + Len(Dash)
          /\ \A i \in 1 .. Len(x) + Len(Dash) : (x \o Dash)[i] = IF i <= Len(x) THEN x[i] ELSE Dash[i - Len(x)]
      BY <1>1, ConcatProperties
    <2> QED
      BY <1>1, <2>1, <2>2
  <1>3. /\ yy \in Seq(T) /\ Len(yy) = Len(y) + 1
        /\ \A i \in 1 .. Len(y) + 1 : yy[i] = IF i <= Len(y) THEN y[i] ELSE "-"
    <2>1. \A i \in 1 .. Len(y) + 1 : i <= Len(y) \/ i - Len(y) = 1
      BY <1>n
    <2>2. /\ y \o Dash \in Seq(T) /\ Len(y \o Dash) = Len(y) + Len(Dash)
          /\ \A i \in 1 .. Len(y) + Len(Dash) : (y \o Dash)[i] = IF i <= Len(y) THEN y[i] ELSE Dash[i - Len(y)]
      BY <1>1, ConcatProperties
    <2> QED
      BY <1>1, <2>1, <2>2
  <1> HIDE DEF xx, yy
  <1>4. /\ Len(u) = Len(x) + 1 + Len(a)
        /\ \A i \in 1 .. Len(x) + 1 + Len(a) : u[i] = IF i <= Len(x) + 1 THEN xx[i] ELSE a[i - (Len(x) + 1)]
    <2>1. /\ Len(xx \o a) = Len(xx) + Len(a)
          /\ \A i \in 1 .. Len(xx) + Len(a) : (xx \o a)[i] = IF i <= Len(xx) THEN xx[i] ELSE a[i - Len(xx)]
      BY <1>1, <1>2, ConcatProperties
    <2> QED
      BY <2>1, <1>2
  <1>5. /\ Len(v) = Len(y) + 1 + Len(b)
        /\ \A i \in 1 .. Len(y) + 1 + Len(b) : v[i] = IF i <= Len(y) + 1 THEN yy[i] ELSE b[i - (Len(y) + 1)]
    <2>1. /\ Len(yy \o b) = Len(yy) + Len(b)
          /\ \A i \in 1 .. Len(yy) + Len(b) : (yy \o b)[i] = IF i <= Len(yy) THEN yy[i] ELSE b[i - Len(yy)]
      BY <1>1, <1>3, ConcatProperties
    <2> QED
      BY <2>1, <1>3
  <1>6. u = v
    BY DEF xx, yy, SameText
  <1> HIDE DEF u, v
  <1>7. Len(x) + 1 + Len(a) = Len(y) + 1 + Len(b)
    BY <1>4, <1>5, <1>6
  <1>8. \A i \in 1 .. Len(a) : a[i] \in W
    BY ElementOfSeq
  <1>9. \A i \in 1 .. Len(b) : b[i] \in W
    BY ElementOfSeq
  <1>10. Len(x) = Len(y)
    <2>1. CASE Len(x) < Len(y)
      <3>1. Len(y) + 1 \in 1 .. Len(y) + 1 + Len(b) /\ Len(y) + 1 \in 1 .. Len(x) + 1 + Len(a)
        BY <1>n, <1>7
      <3>2. v[Len(y) + 1] = "-"
        BY <1>3, <1>5, <3>1, <1>n
      <3>3. u[Len(y) + 1] = a[Len(y) + 1 - (Len(x) + 1)]
        BY <1>4, <3>1, <2>1, <1>n
      <3>4. Len(y) + 1 - (Len(x) + 1) \in 1 .. Len(a)
        BY <2>1, <1>7, <1>n
      <3> QED
        BY <3>2, <3>3, <3>4, <1>6, <1>8
    <2>2. CASE Len(y) < Len(x)
      <3>1. Len(x) + 1 \in 1 .. Len(y) + 1 + Len(b) /\ Len(x) + 1 \in 1 .. Len(x) + 1 + Len(a)
        BY <1>n, <1>7
      <3>2. u[Len(x) + 1] = "-"
        BY <1>2, <1>4, <3>1, <1>n
      <3>3. v[Len(x) + 1] = b[Len(x) + 1 - (Len(y) + 1)]
        BY <1>5, <3>1, <2>2, <1>n
      <3>4. Len(x) + 1 - (Len(y) + 1) \in 1 .. Len(b)
        BY <2>2, <1>7, <1>n
      <3> QED
        BY <3>2, <3>3, <3>4, <1>6, <1>9
    <2> QED
      BY <2>1, <2>2, <1>n
  <1>11. Len(a) = Len(b)
    BY <1>7, <1>10, <1>n
  <1>12. ASSUME NEW i \in 1 .. Len(x) PROVE x[i] = y[i]
    <2>1. i \in 1 .. Len(x) + 1 /\ i \in 1 .. Len(x) + 1 + Len(a) /\ i <= Len(x) /\ i <= Len(x) + 1
      BY <1>n
    <2> QED
      BY <2>1, <1>2, <1>3, <1>4, <1>5, <1>6, <1>10, <1>11
  <1>13. ASSUME NEW i \in 1 .. Len(a) PROVE a[i] = b[i]
    <2>1. /\ i + (Len(x) + 1) \in 1 .. Len(x) + 1 + Len(a) /\ ~(i + (Len(x) + 1) <= Len(x) + 1)
          /\ i + (Len(x) + 1) - (Len(x) + 1) = i
      BY <1>n
    <2>2. u[i + (Len(x) + 1)] = a[i]
      BY <2>1, <1>4
    <2>3. v[i + (Len(x) + 1)] = b[i]
      <3>0. i + (Len(y) + 1) \in 1 .. Len(y) + 1 + Len(b) /\ ~(i + (Len(y) + 1) <= Len(y) + 1)
        BY <2>1, <1>10, <1>11
      <3>1. v[i + (Len(y) + 1)] = b[i + (Len(y) + 1) - (Len(y) + 1)]
        BY <3>0, <1>5
      <3> QED
        BY <2>1, <3>1, <1>10
    <2> QED
      BY <2>2, <2>3, <1>6
  <1>14. x = y
    BY <1>10, <1>12, SeqEqual
  <1>15. a = b
    BY <1>11, <1>13, SeqEqual
  <1> QED
    BY <1>14, <1>15

\* The texts of labels that signatures tell apart, and such labels.
Plain == STRING \ {"-"}
PlainLabel == [name : Seq(Plain), value : Seq(Plain)]

Marked(x, l) == x \o Dash \o l.name \o Dash \o l.value

\* The loop of timeSeriesSignature.
SignatureUpTo(type, labels) ==
    LET b[j \in 0 .. Len(labels)] == IF j = 0 THEN <<type>> ELSE Marked(b[j - 1], labels[j])
    IN  b

LEMMA MarkedTyped ==
    ASSUME NEW T, Plain \subseteq T, "-" \in T, NEW x \in Seq(T), NEW l \in PlainLabel
    PROVE  Marked(x, l) \in Seq(T) /\ Len(Marked(x, l)) > Len(x) + 1
  <1> DEFINE n == l.name
             v == l.value
             x1 == x \o Dash
             x2 == x1 \o n
             x3 == x2 \o Dash
             x4 == x3 \o v
  <1>1. /\ Dash \in Seq(T) /\ Len(Dash) = 1
        /\ n \in Seq(T) /\ v \in Seq(T) /\ Len(n) \in Nat /\ Len(v) \in Nat /\ Len(x) \in Nat
    BY DEF PlainLabel, Dash
  <1>2. Marked(x, l) = x4
    BY DEF Marked
  <1> HIDE DEF n, v
  <1>3. x1 \in Seq(T) /\ Len(x1) = Len(x) + 1
    <2>1. x1 \in Seq(T) /\ Len(x1) = Len(x) + Len(Dash)
      BY <1>1, ConcatProperties
    <2> QED
      BY <2>1, <1>1
  <1> HIDE DEF x1
  <1>4. x2 \in Seq(T) /\ Len(x2) = Len(x1) + Len(n)
    BY <1>1, <1>3, ConcatProperties
  <1> HIDE DEF x2
  <1>5. x3 \in Seq(T) /\ Len(x3) = Len(x2) + 1
    <2>1. x3 \in Seq(T) /\ Len(x3) = Len(x2) + Len(Dash)
      BY <1>1, <1>4, ConcatProperties
    <2> QED
      BY <2>1, <1>1
  <1> HIDE DEF x3
  <1>6. x4 \in Seq(T) /\ Len(x4) = Len(x3) + Len(v)
    BY <1>1, <1>5, ConcatProperties
  <1> HIDE DEF x4
  <1> QED
    BY <1>1, <1>2, <1>3, <1>4, <1>5, <1>6

SameMark(x, l, y, k) == Marked(x, l) = Marked(y, k)

\* A label that was added last can be read off.
LEMMA MarkedApart ==
    ASSUME NEW T, Plain \subseteq T, "-" \in T, NEW x \in Seq(T), NEW y \in Seq(T),
           NEW l \in PlainLabel, NEW k \in PlainLabel, SameMark(x, l, y, k)
    PROVE  x = y /\ l = k
  <1> DEFINE xn == (x \o Dash) \o l.name
             yn == (y \o Dash) \o k.name
  <1>1. /\ l.name \in Seq(Plain) /\ l.value \in Seq(Plain) /\ l = [name |-> l.name, value |-> l.value]
        /\ k.name \in Seq(Plain) /\ k.value \in Seq(Plain) /\ k = [name |-> k.name, value |-> k.value]
    BY DEF PlainLabel
  <1>2. Dash \in Seq(T) /\ l.name \in Seq(T) /\ k.name \in Seq(T) /\ "-" \notin Plain
    <2>1. "-" \notin Plain
      BY DEF Plain
    <2>2. Dash \in Seq(T)
      BY DEF Dash
    <2> QED
      BY <1>1, <2>1, <2>2, SeqMonotonic
  <1>3. SameText(xn, l.value, yn, k.value)
    BY DEF Marked, SameText, SameMark
  <1>4. xn \in Seq(T) /\ yn \in Seq(T)
    <2>1. x \o Dash \in Seq(T) /\ y \o Dash \in Seq(T)
      BY <1>2, ConcatProperties
    <2> QED
      BY <1>2, <2>1, ConcatProperties
  <1>5. xn = yn /\ l.value = k.value
    <2> HIDE DEF xn, yn
    <2> QED
      BY <1>1, <1>2, <1>3, <1>4, Split
  <1>6. x = y /\ l.name = k.name
    <2>1. SameText(x, l.name, y, k.name)
      BY <1>5 DEF SameText
    <2> QED
      BY <1>1, <1>2, <2>1, Split
  <1> QED
    BY <1>1, <1>5, <1>6

LEMMA SignatureRecursion ==
    ASSUME NEW T, Plain \subseteq T, "-" \in T, NEW type \in T, NEW labels \in Seq(PlainLabel)
    PROVE  /\ SignatureUpTo(type, labels) \in [0 .. Len(labels) -> Seq(T)]
           /\ SignatureUpTo(type, labels)[0] = <<type>>
           /\ \A n \in 1 .. Len(labels) :
                 SignatureUpTo(type, labels)[n] = Marked(SignatureUpTo(type, labels)[n - 1], labels[n])
  <1> DEFINE N == Len(labels)
             S == Seq(T)
             G == [n \in 1..N |-> [x \in S |-> Marked(x, labels[n])]]
             Body(f) == [n \in 0..N |-> IF n = 0 THEN <<type>> ELSE Marked(f[n - 1], labels[n])]
  <1>0. ASSUME NEW n \in 1..N, NEW x \in S PROVE Marked(x, labels[n]) \in S
    <2>1. labels[n] \in PlainLabel
      BY ElementOfSeq
    <2> QED
      BY <2>1, MarkedTyped
  <1>1. N \in Nat /\ <<type>> \in S /\ G \in [1..N -> [S -> S]]
    <2>1. N \in Nat /\ <<type>> \in S
      OBVIOUS
    <2> HIDE DEF N, S
    <2> QED
      BY <1>0, <2>1
  <1>2. PICK g : Recursion(g, N, S, <<type>>, G)
    <2> HIDE DEF N, S, G
    <2> QED
      BY <1>1, RecursionExists
  <1>3. g = Body(g)
    <2>1. g \in [0..N -> S] /\ g[0] = <<type>>
      BY <1>2 DEF Recursion
    <2>2. ASSUME NEW n \in 1..N PROVE g[n] = Marked(g[n - 1], labels[n])
      <3>1. g[n] = G[n][g[n - 1]] /\ n - 1 \in 0..N
        BY <1>1, <1>2 DEF Recursion
      <3> QED
        BY <3>1, <2>1
    <2>3. ASSUME NEW n \in 0..N PROVE g[n] = Body(g)[n]
      <3>1. CASE n = 0
        BY <3>1, <2>1
      <3>2. CASE n # 0
        <4>1. n \in 1..N
          BY <3>2, <1>1
        <4> QED
          BY <3>2, <4>1, <2>2
      <3> QED
        BY <3>1, <3>2
    <2> QED
      BY <2>1, <2>3
  <1>4. SignatureUpTo(type, labels) = CHOOSE f : f = Body(f)
    BY DEF SignatureUpTo
  <1> DEFINE f == SignatureUpTo(type, labels)
  <1>5. f = Body(f)
    <2> HIDE DEF Body
    <2> QED
      BY <1>3, <1>4
  <1>6. ASSUME NEW n \in 1..N PROVE f[n] = Marked(f[n - 1], labels[n])
    <2>1. Body(f)[n] = Marked(f[n - 1], labels[n])
      BY <1>1
    <2> HIDE DEF Body, f
    <2> QED
      BY <2>1, <1>5
  <1>7. f[0] = <<type>>
    <2>1. Body(f)[0] = <<type>>
      BY <1>1
    <2> HIDE DEF Body, f
    <2> QED
      BY <2>1, <1>5
  <1>8. \A n \in 0..N : f[n] \in S
    <2>1. ASSUME NEW n \in 1..N, f[n - 1] \in S PROVE f[n] \in S
      <3> HIDE DEF f, N, S
      <3> QED
        BY <2>1, <1>0, <1>6
    <2> HIDE DEF f, N, S
    <2> QED
      BY <2>1, <1>1, <1>7, RecursionTyped
  <1>9. DOMAIN f = 0..N /\ f = [n \in 0..N |-> f[n]]
    <2>1. DOMAIN Body(f) = 0..N /\ Body(f) = [n \in 0..N |-> Body(f)[n]]
      OBVIOUS
    <2> HIDE DEF Body, f
    <2> QED
      BY <2>1, <1>5
  <1> HIDE DEF f, Body, S
  <1>10. f \in [0..N -> S]
    BY <1>8, <1>9
  <1> QED
    BY <1>6, <1>7, <1>10 DEF f, S

\* A signature says what the type and the labels are.
LEMMA SignatureInjective ==
    ASSUME NEW c, NEW d, NEW L \in Seq(PlainLabel), NEW M \in Seq(PlainLabel),
           timeSeriesSignature(c, L) = timeSeriesSignature(d, M)
    PROVE  c = d /\ L = M
  <1> DEFINE T == Plain \cup {"-", c, d}
             F == SignatureUpTo(c, L)
             H == SignatureUpTo(d, M)
             P == {n \in Nat : n <= Len(L) =>
                     \A m \in 0 .. Len(M) : F[n] = H[m] => n = m /\ c = d /\ \A i \in 1..n : L[i] = M[i]}
  <1>1. timeSeriesSignature(c, L) = F[Len(L)] /\ timeSeriesSignature(d, M) = H[Len(M)]
    BY DEF timeSeriesSignature, SignatureUpTo, Marked, Dash
  <1>2. Plain \subseteq T /\ "-" \in T /\ c \in T /\ d \in T
    OBVIOUS
  <1>n. Len(L) \in Nat /\ Len(M) \in Nat
    OBVIOUS
  <1> HIDE DEF T
  <1>3. /\ F \in [0 .. Len(L) -> Seq(T)] /\ F[0] = <<c>>
        /\ \A n \in 1 .. Len(L) : F[n] = Marked(F[n - 1], L[n])
    BY <1>2, SignatureRecursion
  <1>4. /\ H \in [0 .. Len(M) -> Seq(T)] /\ H[0] = <<d>>
        /\ \A n \in 1 .. Len(M) : H[n] = Marked(H[n - 1], M[n])
    BY <1>2, SignatureRecursion
  <1> HIDE DEF F, H
  <1>5. ASSUME NEW n \in 1 .. Len(L) PROVE F[n - 1] \in Seq(T) /\ L[n] \in PlainLabel /\ Len(F[n]) > 1
    <2>0. n - 1 \in 0 .. Len(L)
      BY <1>n
    <2>1. F[n - 1] \in Seq(T) /\ Len(F[n - 1]) \in Nat
      <3>1. F[n - 1] \in Seq(T)
        BY <1>3, <2>0
      <3> QED
        BY <3>1, LenProperties
    <2>2. L[n] \in PlainLabel
      BY ElementOfSeq
    <2>3. Len(F[n]) > Len(F[n - 1]) + 1 /\ F[n] \in Seq(T)
      BY <1>2, <1>3, <2>1, <2>2, MarkedTyped
    <2> QED
      BY <2>1, <2>2, <2>3
  <1>6. ASSUME NEW n \in 1 .. Len(M) PROVE H[n - 1] \in Seq(T) /\ M[n] \in PlainLabel /\ Len(H[n]) > 1
    <2>0. n - 1 \in 0 .. Len(M)
      BY <1>n
    <2>1. H[n - 1] \in Seq(T) /\ Len(H[n - 1]) \in Nat
      <3>1. H[n - 1] \in Seq(T)
        BY <1>4, <2>0
      <3> QED
        BY <3>1, LenProperties
    <2>2. M[n] \in PlainLabel
      BY ElementOfSeq
    <2>3. Len(H[n]) > Len(H[n - 1]) + 1 /\ H[n] \in Seq(T)
      BY <1>2, <1>4, <2>1, <2>2, MarkedTyped
    <2> QED
      BY <2>1, <2>2, <2>3
  <1>7. 0 \in P
    <2> SUFFICES ASSUME NEW m \in 0 .. Len(M), F[0] = H[m]
                 PROVE  0 = m /\ c = d /\ \A i \in 1..0 : L[i] = M[i]
      OBVIOUS
    <2>1. Len(F[0]) = 1
      BY <1>3
    <2>2. m = 0
      <3> SUFFICES ASSUME m # 0 PROVE FALSE
        OBVIOUS
      <3>1. m \in 1 .. Len(M)
        BY <1>n
      <3>2. Len(H[m]) > 1
        BY <1>6, <3>1
      <3> QED
        BY <2>1, <3>2
    <2>3. <<c>> = <<d>>
      BY <1>3, <1>4, <2>2
    <2>4. c = d
      BY <2>3
    <2> QED
      BY <2>2, <2>4
  <1>8. ASSUME NEW n \in Nat, n \in P PROVE n + 1 \in P
    <2> SUFFICES ASSUME n + 1 <= Len(L), NEW m \in 0 .. Len(M), F[n + 1] = H[m]
                 PROVE  n + 1 = m /\ c = d /\ \A i \in 1 .. (n + 1) : L[i] = M[i]
      OBVIOUS
    <2>1. n + 1 \in 1 .. Len(L) /\ n <= Len(L) /\ n + 1 - 1 = n
      BY <1>n
    <2>2. m \in 1 .. Len(M) /\ m - 1 \in 0 .. Len(M)
      <3>1. Len(F[n + 1]) > 1 /\ Len(H[0]) = 1
        BY <1>4, <1>5, <2>1
      <3>2. m # 0
        <4> SUFFICES ASSUME m = 0 PROVE FALSE
          OBVIOUS
        <4>1. Len(F[n + 1]) = Len(H[0])
          OBVIOUS
        <4> QED
          BY <3>1, <4>1
      <3> QED
        BY <3>2, <1>n
    <2>3. F[n] \in Seq(T) /\ L[n + 1] \in PlainLabel /\ F[n + 1] = Marked(F[n], L[n + 1])
      BY <1>3, <1>5, <2>1
    <2>4. H[m - 1] \in Seq(T) /\ M[m] \in PlainLabel /\ H[m] = Marked(H[m - 1], M[m])
      BY <1>4, <1>6, <2>2
    <2>5. F[n] = H[m - 1] /\ L[n + 1] = M[m]
      <3>1. SameMark(F[n], L[n + 1], H[m - 1], M[m])
        BY <2>3, <2>4 DEF SameMark
      <3> QED
        BY <1>2, <2>3, <2>4, <3>1, MarkedApart
    <2>6. n = m - 1 /\ c = d /\ \A i \in 1..n : L[i] = M[i]
      BY <1>8, <2>1, <2>2, <2>5
    <2>7. n + 1 = m
      BY <2>2, <2>6
    <2>8. ASSUME NEW i \in 1 .. (n + 1) PROVE L[i] = M[i]
      <3>1. i \in 1..n \/ i = n + 1
        OBVIOUS
      <3> QED
        BY <3>1, <2>5, <2>6, <2>7
    <2> QED
      BY <2>6, <2>7, <2>8
  <1>9. Nat \subseteq P
    <2> HIDE DEF P
    <2> QED
      BY <1>7, <1>8, SetInduction
  <1>10. Len(L) = Len(M) /\ c = d /\ \A i \in 1 .. Len(L) : L[i] = M[i]
    <2>1. Len(L) \in P /\ Len(L) <= Len(L) /\ Len(M) \in 0 .. Len(M)
      BY <1>9, <1>n
    <2> QED
      BY <2>1, <1>1
  <1> QED
    BY <1>10, SeqEqual

-----------------------------------------------------------------------------
(* Labels in the order of their names. *)

\* L goes through the elements of E in the order of key.
Ordered(L, E, key) ==
    /\ L \in Seq(E)
    /\ \A e \in E : \E i \in 1 .. Len(L) : L[i] = e
    /\ \A i, j \in 1 .. Len(L) : i < j => key[L[i]] < key[L[j]]

\* What is in order begins alike.
LEMMA OrderedAgree ==
    ASSUME NEW E, NEW key \in [E -> Nat], NEW L, NEW M, Ordered(L, E, key), Ordered(M, E, key)
    PROVE  Len(L) <= Len(M) /\ \A i \in 1 .. Len(L) : L[i] = M[i]
  <1> DEFINE P == {n \in Nat : n <= Len(L) => n <= Len(M) /\ \A i \in 1 .. n : L[i] = M[i]}
  <1>n. L \in Seq(E) /\ M \in Seq(E) /\ Len(L) \in Nat /\ Len(M) \in Nat
    BY DEF Ordered
  <1>1. 0 \in P
    BY <1>n
  <1>2. ASSUME NEW n \in Nat, n \in P PROVE n + 1 \in P
    <2> SUFFICES ASSUME n + 1 <= Len(L)
                 PROVE  n + 1 <= Len(M) /\ \A i \in 1 .. (n + 1) : L[i] = M[i]
      OBVIOUS
    <2>1. n <= Len(M) /\ \A i \in 1 .. n : L[i] = M[i]
      BY <1>2, <1>n
    <2>2. n + 1 \in 1 .. Len(L) /\ L[n + 1] \in E
      BY <1>n, ElementOfSeq
    <2>3. PICK j \in 1 .. Len(M) : M[j] = L[n + 1]
      BY <2>2 DEF Ordered
    <2>4. \A i \in 1 .. Len(L) : key[L[i]] \in Nat
      BY <1>n, ElementOfSeq
    <2>5. \A i \in 1 .. Len(M) : key[M[i]] \in Nat
      BY <1>n, ElementOfSeq
    <2>6. j > n
      <3> SUFFICES ASSUME j <= n PROVE FALSE
        BY <1>n
      <3>1. j \in 1 .. n /\ j \in 1 .. Len(L) /\ j < n + 1
        BY <1>n
      <3>2. L[j] = L[n + 1]
        BY <2>1, <2>3, <3>1
      <3>3. key[L[j]] < key[L[n + 1]]
        BY <2>2, <3>1 DEF Ordered
      <3> QED
        BY <2>4, <2>2, <3>2, <3>3
    <2>7. n + 1 \in 1 .. Len(M) /\ n + 1 <= j
      BY <1>n, <2>6
    <2>8. M[n + 1] \in E
      BY <1>n, <2>7, ElementOfSeq
    <2>9. PICK k \in 1 .. Len(L) : L[k] = M[n + 1]
      BY <2>8 DEF Ordered
    <2>10. k > n
      <3> SUFFICES ASSUME k <= n PROVE FALSE
        BY <1>n
      <3>1. k \in 1 .. n /\ k \in 1 .. Len(M) /\ k < n + 1
        BY <1>n, <2>1
      <3>2. M[k] = M[n + 1]
        BY <2>1, <2>9, <3>1
      <3>3. key[M[k]] < key[M[n + 1]]
        BY <2>7, <3>1 DEF Ordered
      <3> QED
        BY <2>5, <2>7, <3>2, <3>3
    <2>11. key[M[n + 1]] <= key[L[n + 1]]
      <3>1. CASE j = n + 1
        BY <3>1, <2>3, <2>5, <2>7
      <3>2. CASE j > n + 1
        <4>1. key[M[n + 1]] < key[M[j]]
          BY <3>2, <2>7 DEF Ordered
        <4> QED
          BY <4>1, <2>3, <2>5, <2>7
      <3> QED
        BY <3>1, <3>2, <2>7
    <2>12. k = n + 1
      <3> SUFFICES ASSUME k > n + 1 PROVE FALSE
        BY <2>10
      <3>1. key[L[n + 1]] < key[L[k]]
        BY <2>2 DEF Ordered
      <3> QED
        BY <3>1, <2>2, <2>4, <2>9, <2>11
    <2>13. L[n + 1] = M[n + 1]
      BY <2>9, <2>12
    <2>14. ASSUME NEW i \in 1 .. (n + 1) PROVE L[i] = M[i]
      <3>1. i \in 1 .. n \/ i = n + 1
        OBVIOUS
      <3> QED
        BY <3>1, <2>1, <2>13
    <2> QED
      BY <2>7, <2>14
  <1>3. Nat \subseteq P
    <2> HIDE DEF P
    <2> QED
      BY <1>1, <1>2, SetInduction
  <1>4. Len(L) \in P /\ Len(L) <= Len(L)
    BY <1>3, <1>n
  <1> QED
    BY <1>4

\* There is one way to put a set in order.
LEMMA OrderedOnce ==
    ASSUME NEW E, NEW key \in [E -> Nat], NEW L, NEW M, Ordered(L, E, key), Ordered(M, E, key)
    PROVE  L = M
  <1>1. L \in Seq(E) /\ M \in Seq(E) /\ Len(L) \in Nat /\ Len(M) \in Nat
    BY DEF Ordered
  <1>2. Len(L) <= Len(M) /\ \A i \in 1 .. Len(L) : L[i] = M[i]
    BY OrderedAgree
  <1>3. Len(M) <= Len(L)
    BY OrderedAgree
  <1> QED
    BY <1>1, <1>2, <1>3, SeqEqual

\* The label set of a sample, as ToldApart has it.
PlainSet(l) ==
    /\ IsFiniteSet(DOMAIN l)
    /\ \A k \in DOMAIN l : l[k] \in PlainLabel /\ l[k].name \in Range(NameOrder)
    /\ \A j, k \in DOMAIN l : l[j].name = l[k].name => j = k

Listed(l, q) == [j \in DOMAIN q |-> l[q[j]]]

RankOf(E) == [e \in E |-> Rank(e.name)]

LEMMA RankInjective ==
    ASSUME NEW m \in Range(NameOrder), NEW n \in Range(NameOrder)
    PROVE  Rank(m) \in Nat /\ (Rank(m) = Rank(n) => m = n)
  <1>1. DOMAIN NameOrder \subseteq Nat
    BY RemoteWriteAssumption DEF IsSeq
  <1>2. ASSUME NEW x \in Range(NameOrder)
        PROVE  Rank(x) \in DOMAIN NameOrder /\ NameOrder[Rank(x)] = x
    BY DEF Rank, Range
  <1> QED
    BY <1>1, <1>2

\* Sorting leaves every label.
LEMMA SortedAll ==
    ASSUME NEW l, IsFiniteSet(DOMAIN l), NEW q \in Sorted(l)
    PROVE  Range(Listed(l, q)) = Range(l)
  <1> DEFINE n == Cardinality(DOMAIN l)
  <1>1. n \in Nat
    BY FS_CardinalityType
  <1>2. q \in [1 .. n -> DOMAIN l] /\ \A i, j \in 1 .. n : i # j => q[i] # q[j]
    BY DEF Sorted, SetToSeqs
  <1>3. q \in Injection(1 .. n, DOMAIN l)
    BY <1>2 DEF Injection, IsInjective
  <1>4. Cardinality(1 .. n) = n
    BY <1>1, FS_Interval
  <1>5. q \in Surjection(1 .. n, DOMAIN l)
    BY <1>3, <1>4, FS_Injection
  <1>6. DOMAIN q = 1 .. n /\ \A k \in DOMAIN l : \E i \in 1 .. n : q[i] = k
    BY <1>2, <1>5 DEF Surjection
  <1> HIDE DEF n
  <1>7. \A e \in Range(l) : e \in Range(Listed(l, q))
    BY <1>6 DEF Range, Listed
  <1>8. \A e \in Range(Listed(l, q)) : e \in Range(l)
    BY <1>2, <1>6 DEF Range, Listed
  <1> QED
    BY <1>7, <1>8

\* What sorting leaves is in order.
LEMMA SortedOrdered ==
    ASSUME NEW l, PlainSet(l), NEW q \in Sorted(l)
    PROVE  /\ Listed(l, q) \in Seq(PlainLabel)
           /\ Range(Listed(l, q)) = Range(l)
           /\ Ordered(Listed(l, q), Range(l), RankOf(Range(l)))
  <1> DEFINE n == Cardinality(DOMAIN l)
             L == Listed(l, q)
             E == Range(l)
             key == RankOf(E)
  <1>1. n \in Nat
    BY FS_CardinalityType DEF PlainSet
  <1>2. /\ q \in [1 .. n -> DOMAIN l]
        /\ \A i, j \in 1 .. n : i # j => q[i] # q[j]
        /\ \A j \in DOMAIN q : j > 1 => Rank(l[q[j - 1]].name) <= Rank(l[q[j]].name)
    BY DEF Sorted, SetToSeqs
  <1>3. \A k \in DOMAIN l : \E i \in 1 .. n : q[i] = k
    <2>1. q \in Injection(1 .. n, DOMAIN l)
      BY <1>2 DEF Injection, IsInjective
    <2>2. Cardinality(1 .. n) = n
      BY <1>1, FS_Interval
    <2>3. IsFiniteSet(DOMAIN l)
      BY DEF PlainSet
    <2>4. q \in Surjection(1 .. n, DOMAIN l)
      BY <2>1, <2>2, <2>3, FS_Injection
    <2> QED
      BY <2>4 DEF Surjection
  <1>4. DOMAIN L = 1 .. n /\ \A i \in 1 .. n : L[i] = l[q[i]] /\ q[i] \in DOMAIN l
    BY <1>2 DEF Listed
  <1>5. L \in [1 .. n -> PlainLabel] /\ L \in [1 .. n -> E]
    <2>1. \A i \in 1 .. n : L[i] \in PlainLabel /\ L[i] \in E
      BY <1>4 DEF PlainSet, Range
    <2>2. L = [i \in 1 .. n |-> L[i]]
      BY <1>2 DEF Listed
    <2> HIDE DEF L, E
    <2> QED
      BY <2>1, <2>2
  <1>6. L \in Seq(PlainLabel) /\ L \in Seq(E) /\ Len(L) = n
    <2> HIDE DEF L, E, n
    <2>1. L \in Seq(PlainLabel) /\ L \in Seq(E)
      BY <1>1, <1>5, SeqDef
    <2> QED
      BY <1>1, <1>4, <2>1, LenProperties
  <1>7. ASSUME NEW e \in E PROVE \E i \in 1 .. n : L[i] = e
    <2>1. PICK k \in DOMAIN l : l[k] = e
      BY DEF Range
    <2> QED
      BY <1>3, <1>4, <2>1
  <1>8. Range(L) = E
    <2>1. \A i \in 1 .. n : L[i] \in E
      BY <1>4 DEF Range
    <2> HIDE DEF L, E
    <2> QED
      BY <1>4, <1>7, <2>1 DEF Range
  <1>9. \A i \in 1 .. n : key[L[i]] = Rank(l[q[i]].name) /\ key[L[i]] \in Nat
    <2>1. \A i \in 1 .. n : L[i] \in E /\ L[i].name \in Range(NameOrder)
      BY <1>4 DEF PlainSet, Range
    <2>2. \A i \in 1 .. n : key[L[i]] = Rank(L[i].name)
      BY <2>1 DEF RankOf
    <2> QED
      BY <1>4, <2>1, <2>2, RankInjective
  <1>10. ASSUME NEW i \in 1 .. n, NEW j \in 1 .. n, i # j PROVE key[L[i]] # key[L[j]]
    <2>1. q[i] # q[j] /\ q[i] \in DOMAIN l /\ q[j] \in DOMAIN l
      BY <1>2, <1>10
    <2>2. l[q[i]].name # l[q[j]].name
      BY <2>1 DEF PlainSet
    <2>3. Rank(l[q[i]].name) # Rank(l[q[j]].name)
      BY <2>1, <2>2, RankInjective DEF PlainSet
    <2> QED
      BY <1>9, <2>3
  <1>11. ASSUME NEW i \in 1 .. n, i > 1 PROVE i - 1 \in 1 .. n /\ key[L[i - 1]] < key[L[i]]
    <2>1. i - 1 \in 1 .. n /\ i - 1 # i
      BY <1>1, <1>11
    <2>2. Rank(l[q[i - 1]].name) <= Rank(l[q[i]].name)
      BY <1>2, <1>11
    <2> QED
      BY <1>9, <1>10, <2>1, <2>2
  <1> HIDE DEF L, key, E, n
  <1>12. ASSUME NEW i \in 1 .. n, NEW j \in 1 .. n, i < j PROVE key[L[i]] < key[L[j]]
    <2> DEFINE P == {d \in Nat : i + 1 + d <= n => key[L[i]] < key[L[i + 1 + d]]}
    <2>1. 0 \in P
      <3> SUFFICES ASSUME i + 1 <= n PROVE key[L[i]] < key[L[i + 1]]
        OBVIOUS
      <3>1. i + 1 \in 1 .. n /\ i + 1 > 1 /\ i + 1 - 1 = i
        BY <1>1
      <3> QED
        BY <3>1, <1>11
    <2>2. ASSUME NEW d \in Nat, d \in P PROVE d + 1 \in P
      <3> SUFFICES ASSUME i + 1 + (d + 1) <= n PROVE key[L[i]] < key[L[i + 1 + (d + 1)]]
        OBVIOUS
      <3>1. /\ i + 1 + (d + 1) \in 1 .. n /\ i + 1 + (d + 1) > 1
            /\ i + 1 + (d + 1) - 1 = i + 1 + d /\ i + 1 + d <= n /\ i + 1 + d \in 1 .. n
        BY <1>1
      <3>2. key[L[i]] < key[L[i + 1 + d]]
        BY <2>2, <3>1
      <3>3. key[L[i + 1 + d]] < key[L[i + 1 + (d + 1)]]
        BY <1>11, <3>1
      <3> QED
        BY <1>9, <3>1, <3>2, <3>3
    <2>3. Nat \subseteq P
      <3> HIDE DEF P
      <3> QED
        BY <2>1, <2>2, SetInduction
    <2>4. j - i - 1 \in P /\ i + 1 + (j - i - 1) = j /\ j <= n
      <3>1. j - i - 1 \in Nat /\ i + 1 + (j - i - 1) = j /\ j <= n
        BY <1>1, <1>12
      <3> HIDE DEF P
      <3> QED
        BY <2>3, <3>1
    <2> QED
      BY <2>4
  <1>13. Ordered(L, E, key)
    BY <1>6, <1>7, <1>12 DEF Ordered
  <1> QED
    BY <1>6, <1>8, <1>13 DEF L, E, key

\* The signature of sorted labels says which labels they are, whatever order they came in.
LEMMA SignatureRight ==
    ASSUME NEW s, NEW t, PlainSet(s.labels), PlainSet(t.labels),
           NEW q \in Sorted(s.labels), NEW r \in Sorted(t.labels)
    PROVE  timeSeriesSignature(s.type, Listed(s.labels, q)) = timeSeriesSignature(t.type, Listed(t.labels, r))
             <=> Alike(s, t)
  <1> DEFINE L == Listed(s.labels, q)
             M == Listed(t.labels, r)
  <1>1. /\ L \in Seq(PlainLabel) /\ Range(L) = Range(s.labels)
        /\ Ordered(L, Range(s.labels), RankOf(Range(s.labels)))
    BY SortedOrdered
  <1>2. /\ M \in Seq(PlainLabel) /\ Range(M) = Range(t.labels)
        /\ Ordered(M, Range(t.labels), RankOf(Range(t.labels)))
    BY SortedOrdered
  <1>3. RankOf(Range(s.labels)) \in [Range(s.labels) -> Nat]
    <2>1. \A e \in Range(s.labels) : Rank(e.name) \in Nat
      BY RankInjective DEF PlainSet, Range
    <2> QED
      BY <2>1 DEF RankOf
  <1> HIDE DEF L, M
  <1>4. ASSUME timeSeriesSignature(s.type, L) = timeSeriesSignature(t.type, M) PROVE Alike(s, t)
    <2>1. s.type = t.type /\ L = M
      BY <1>1, <1>2, <1>4, SignatureInjective
    <2> QED
      BY <1>1, <1>2, <2>1 DEF Alike
  <1>5. ASSUME Alike(s, t) PROVE timeSeriesSignature(s.type, L) = timeSeriesSignature(t.type, M)
    <2>1. s.type = t.type /\ Range(s.labels) = Range(t.labels)
      BY <1>5 DEF Alike
    <2>2. Ordered(M, Range(s.labels), RankOf(Range(s.labels)))
      BY <1>2, <2>1
    <2>3. L = M
      BY <1>1, <1>3, <2>2, OrderedOnce
    <2> QED
      BY <2>1, <2>3
  <1> QED
    BY <1>4, <1>5 DEF L, M

-----------------------------------------------------------------------------
(* Samples. *)

\* A sequence of samples with finitely many labels each.
SampleSeq(x) == IsSeq(x) /\ \A s \in Range(x) : IsFiniteSet(DOMAIN s.labels)

LEMMA IsSeqIntro ==
    ASSUME NEW S, NEW x \in Seq(S)
    PROVE  IsSeq(x) /\ Range(x) \subseteq S
  <1>1. Len(x) \in Nat /\ DOMAIN x = 1 .. Len(x) /\ x \in [1 .. Len(x) -> S]
    BY LenProperties
  <1>2. \A i \in 1 .. Len(x) : x[i] \in S /\ x[i] \in Range(x)
    BY <1>1 DEF Range
  <1>3. x \in [1 .. Len(x) -> Range(x)]
    BY <1>1, <1>2
  <1>4. x \in Seq(Range(x))
    BY <1>1, <1>3, SeqDef
  <1> QED
    BY <1>1, <1>2, <1>4 DEF IsSeq, Range

LEMMA ConcatSamples ==
    ASSUME NEW x, NEW y, SampleSeq(x), SampleSeq(y)
    PROVE  SampleSeq(x \o y)
  <1> DEFINE S == Range(x) \cup Range(y)
  <1>1. x \in Seq(S) /\ y \in Seq(S)
    BY SeqMonotonic DEF SampleSeq, IsSeq
  <1> HIDE DEF S
  <1>2. x \o y \in Seq(S)
    BY <1>1, ConcatProperties
  <1>3. IsSeq(x \o y) /\ Range(x \o y) \subseteq S
    BY <1>2, IsSeqIntro
  <1> QED
    BY <1>3 DEF S, SampleSeq

LEMMA FlattenTyped ==
    ASSUME NEW S, NEW ss \in Seq(Seq(S))
    PROVE  FlattenSeq(ss) \in Seq(S)
  <1> DEFINE N == Len(ss)
             U == Seq(S)
             G == [n \in 1..N |-> [x \in U |-> x \o ss[n]]]
             Body(f) == [i \in 1..N |-> IF i = 1 THEN ss[i] ELSE f[i - 1] \o ss[i]]
             flatten == CHOOSE f : f = Body(f)
  <1>1. N \in Nat /\ <<>> \in U
    OBVIOUS
  <1>2. CASE N = 0
    <2>1. ss = <<>>
      BY <1>2
    <2>2. FlattenSeq(ss) = ss
      BY <1>2 DEF FlattenSeq
    <2> QED
      BY <1>1, <2>1, <2>2
  <1>3. CASE N # 0
    <2>1. FlattenSeq(ss) = flatten[N]
      BY <1>3 DEF FlattenSeq
    <2>2. \A n \in 1..N : ss[n] \in U
      BY ElementOfSeq
    <2>3. ASSUME NEW n \in 1..N, NEW x \in U PROVE x \o ss[n] \in U
      <3>1. ss[n] \in U
        BY <2>2
      <3> QED
        BY <3>1, ConcatProperties
    <2>4. G \in [1..N -> [U -> U]]
      <3> HIDE DEF U, N
      <3> QED
        BY <2>3
    <2>5. PICK g : Recursion(g, N, U, <<>>, G)
      <3> HIDE DEF N, U, G
      <3> QED
        BY <1>1, <2>4, RecursionExists
    <2> DEFINE h == [i \in 1..N |-> g[i]]
    <2>6. ASSUME NEW n \in 1..N PROVE g[n] = g[n - 1] \o ss[n] /\ g[n - 1] \in U
      <3>0. n - 1 \in 0..N
        BY <1>1
      <3>1. g[n] = G[n][g[n - 1]] /\ g[n - 1] \in U
        BY <2>5, <3>0 DEF Recursion
      <3> QED
        BY <3>1
    <2>7. g[0] = <<>>
      BY <2>5 DEF Recursion
    <2>8. h = Body(h)
      <3>1. ASSUME NEW n \in 1..N PROVE g[n] = IF n = 1 THEN ss[n] ELSE h[n - 1] \o ss[n]
        <4>1. CASE n = 1
          <5>1. g[1] = <<>> \o ss[1] /\ ss[1] \in Seq(S)
            <6>1. 1 \in 1..N /\ 1 - 1 = 0
              BY <4>1
            <6>2. g[1] = g[1 - 1] \o ss[1]
              BY <6>1, <2>6
            <6> QED
              BY <6>1, <6>2, <2>2, <2>7
          <5> QED
            BY <4>1, <5>1, ConcatEmptySeq
        <4>2. CASE n # 1
          <5>1. n - 1 \in 1..N
            BY <4>2, <1>1
          <5> QED
            BY <4>2, <5>1, <2>6
        <4> QED
          BY <4>1, <4>2
      <3> HIDE DEF N
      <3> QED
        BY <3>1
    <2>9. flatten = Body(flatten)
      <3> HIDE DEF Body, h
      <3> QED
        BY <2>8
    <2>10. ASSUME NEW n \in 1..N PROVE flatten[n] = IF n = 1 THEN ss[n] ELSE flatten[n - 1] \o ss[n]
      <3>1. Body(flatten)[n] = IF n = 1 THEN ss[n] ELSE flatten[n - 1] \o ss[n]
        OBVIOUS
      <3> HIDE DEF Body, flatten
      <3> QED
        BY <2>9, <3>1
    <2> HIDE DEF flatten
    <2> DEFINE F == [n \in 0..N |-> IF n = 0 THEN <<>> ELSE flatten[n]]
    <2>11. ASSUME NEW n \in 1..N, F[n - 1] \in U PROVE F[n] \in U
      <3>0. n \in 0..N /\ n # 0 /\ n - 1 \in 0..N
        BY <1>1
      <3>1. F[n] = flatten[n]
        BY <3>0
      <3>2. CASE n = 1
        BY <3>1, <3>2, <2>2, <2>10
      <3>3. CASE n # 1
        <4>1. F[n - 1] = flatten[n - 1] /\ flatten[n] = flatten[n - 1] \o ss[n]
          <5>1. n - 1 # 0
            BY <3>0, <3>3
          <5>2. F[n - 1] = flatten[n - 1]
            BY <3>0, <5>1
          <5> QED
            BY <3>3, <5>2, <2>10
        <4> QED
          BY <4>1, <3>1, <2>3, <2>11
      <3> QED
        BY <3>2, <3>3
    <2>12. F[0] \in U
      BY <1>1
    <2>13. \A n \in 0..N : F[n] \in U
      <3> HIDE DEF F, U, N
      <3> QED
        BY <1>1, <2>11, <2>12, RecursionTyped
    <2>14. F[N] = flatten[N]
      BY <1>1, <1>3
    <2> QED
      BY <2>1, <2>13, <2>14, <1>1
  <1> QED
    BY <1>2, <1>3

LEMMA FlattenSamples ==
    ASSUME NEW ss, IsSeq(ss), \A j \in DOMAIN ss : SampleSeq(ss[j])
    PROVE  SampleSeq(FlattenSeq(ss))
  <1> DEFINE S == UNION {Range(ss[j]) : j \in DOMAIN ss}
  <1>1. Len(ss) \in Nat /\ DOMAIN ss = 1 .. Len(ss) /\ ss = [j \in 1 .. Len(ss) |-> ss[j]]
    BY LenProperties DEF IsSeq
  <1>2. ASSUME NEW j \in DOMAIN ss PROVE ss[j] \in Seq(S)
    <2>1. ss[j] \in Seq(Range(ss[j])) /\ Range(ss[j]) \subseteq S
      BY DEF SampleSeq, IsSeq
    <2> HIDE DEF S
    <2> QED
      BY <2>1, SeqMonotonic
  <1>3. \A s \in S : IsFiniteSet(DOMAIN s.labels)
    BY DEF SampleSeq
  <1> HIDE DEF S
  <1>4. ss \in [1 .. Len(ss) -> Seq(S)]
    BY <1>1, <1>2
  <1>5. ss \in Seq(Seq(S))
    BY <1>1, <1>4, SeqDef
  <1>6. FlattenSeq(ss) \in Seq(S)
    BY <1>5, FlattenTyped
  <1> QED
    BY <1>3, <1>6, IsSeqIntro DEF SampleSeq

LEMMA LabelSetFinite ==
    ASSUME NEW labels, NEW extras, IsSeq(labels), IsSeq(extras)
    PROVE  IsFiniteSet(DOMAIN createLabelSet(labels, extras))
  <1> DEFINE all == labels \o extras
             S == Range(labels) \cup Range(extras)
             n == Len(all)
             K == {all[j][1] : j \in DOMAIN all}
             f == [j \in 1..n |-> all[j][1]]
  <1>1. labels \in Seq(S) /\ extras \in Seq(S)
    BY SeqMonotonic DEF IsSeq
  <1>2. all \in Seq(S)
    <2> HIDE DEF S
    <2> QED
      BY <1>1, ConcatProperties
  <1>3. n \in Nat /\ DOMAIN all = 1..n
    <2> HIDE DEF S, all
    <2> QED
      BY <1>2, LenProperties
  <1>4. DOMAIN createLabelSet(labels, extras) = K
    BY DEF createLabelSet
  <1> HIDE DEF all
  <1>5. f \in Surjection(1..n, K)
    <2> HIDE DEF n
    <2> QED
      BY <1>3 DEF Surjection
  <1>6. IsFiniteSet(1..n)
    BY <1>3, FS_Interval
  <1> QED
    BY <1>4, <1>5, <1>6, FS_Surjection

LEMMA PointSamplesTyped ==
    ASSUME NEW m, NEW pt, IsSeq(pt.labels), IsSeq(pt.buckets), Handled(m)
    PROVE  SampleSeq(PointSamples(m, pt))
  <1> DEFINE name == getPromMetricName(m)
             Sample(extras, v) ==
                 [type |-> m.type, labels |-> createLabelSet(pt.labels, extras), value |-> v]
             Named(suffix) == <<NameStr, name \o suffix>>
             sum == Sample(<<Named(<<"_", "sum">>)>>, pt.sum)
             count == Sample(<<Named(<<"_", "count">>)>>, pt.count)
             bucket == Named(<<"_", "bucket">>)
             scalar == <<Sample(<<Named(<<>>)>>, pt.sum)>>
             ofBuckets == [j \in DOMAIN pt.buckets |-> Sample(<<bucket, <<Le, pt.bounds[j]>>>>, pt.buckets[j])]
             ofRest == <<Sample(<<bucket, <<Le, <<"+Inf">>>>>>, FoldLeft(+, 0, pt.buckets))>>
             ofQuantiles == [j \in DOMAIN pt.buckets |->
                                Sample(<<Named(<<>>), <<Quantile, pt.bounds[j]>>>>, pt.buckets[j])]
             n == Len(pt.buckets)
  <1>1. /\ m.type \in {"gauge", "monotonic"} => PointSamples(m, pt) = scalar
        /\ m.type = "histogram" => PointSamples(m, pt) = <<sum, count>> \o ofBuckets \o ofRest
        /\ m.type = "summary" => PointSamples(m, pt) = <<sum, count>> \o ofQuantiles
    BY DEF PointSamples
  <1>2. m.type \in {"gauge", "monotonic", "histogram", "summary"}
    BY DEF Handled, validateMetrics
  <1>3. ASSUME NEW a, NEW v PROVE IsFiniteSet(DOMAIN Sample(<<a>>, v).labels)
    <2>1. <<a>> \in Seq({a})
      OBVIOUS
    <2>2. IsFiniteSet(DOMAIN createLabelSet(pt.labels, <<a>>))
      BY <2>1, IsSeqIntro, LabelSetFinite
    <2> QED
      BY <2>2
  <1>4. ASSUME NEW a, NEW b, NEW v PROVE IsFiniteSet(DOMAIN Sample(<<a, b>>, v).labels)
    <2>1. <<a, b>> \in Seq({a, b})
      OBVIOUS
    <2>2. IsFiniteSet(DOMAIN createLabelSet(pt.labels, <<a, b>>))
      BY <2>1, IsSeqIntro, LabelSetFinite
    <2> QED
      BY <2>2
  <1>5. n \in Nat /\ DOMAIN pt.buckets = 1..n
    BY LenProperties DEF IsSeq
  <1>6. IsFiniteSet(DOMAIN sum.labels) /\ IsFiniteSet(DOMAIN count.labels)
    <2> HIDE DEF Sample, Named
    <2> QED
      BY <1>3
  <1>7. /\ \A i \in 1..n : IsFiniteSet(DOMAIN ofBuckets[i].labels) /\ IsFiniteSet(DOMAIN ofQuantiles[i].labels)
        /\ DOMAIN ofBuckets = 1..n /\ DOMAIN ofQuantiles = 1..n
    <2> HIDE DEF Sample, Named, n
    <2>1. ASSUME NEW i \in 1..n
          PROVE  IsFiniteSet(DOMAIN ofBuckets[i].labels) /\ IsFiniteSet(DOMAIN ofQuantiles[i].labels)
      BY <1>4, <1>5
    <2> QED
      BY <1>5, <2>1
  <1>8. SampleSeq(<<sum, count>>) /\ SampleSeq(scalar) /\ SampleSeq(ofRest)
    <2>0. ASSUME NEW a, IsFiniteSet(DOMAIN a.labels) PROVE SampleSeq(<<a>>)
      <3>1. <<a>> \in Seq({a})
        OBVIOUS
      <3>2. IsSeq(<<a>>) /\ Range(<<a>>) \subseteq {a}
        BY <3>1, IsSeqIntro
      <3> QED
        BY <2>0, <3>2 DEF SampleSeq
    <2>1. ASSUME NEW a, NEW b, IsFiniteSet(DOMAIN a.labels), IsFiniteSet(DOMAIN b.labels)
          PROVE  SampleSeq(<<a, b>>)
      <3>1. <<a, b>> \in Seq({a, b})
        OBVIOUS
      <3>2. IsSeq(<<a, b>>) /\ Range(<<a, b>>) \subseteq {a, b}
        BY <3>1, IsSeqIntro
      <3> QED
        BY <2>1, <3>2 DEF SampleSeq
    <2> HIDE DEF Sample, sum, count, Named
    <2> QED
      BY <1>3, <1>4, <1>6, <2>0, <2>1
  <1>9. SampleSeq(ofBuckets) /\ SampleSeq(ofQuantiles)
    <2>1. ofBuckets = [i \in 1..n |-> ofBuckets[i]] /\ ofQuantiles = [i \in 1..n |-> ofQuantiles[i]]
      BY <1>5
    <2> HIDE DEF n, ofBuckets, ofQuantiles
    <2>2. ofBuckets \in [1..n -> Range(ofBuckets)] /\ ofQuantiles \in [1..n -> Range(ofQuantiles)]
      BY <1>7, <2>1 DEF Range
    <2>3. ofBuckets \in Seq(Range(ofBuckets)) /\ ofQuantiles \in Seq(Range(ofQuantiles))
      BY <1>5, <2>2, SeqDef
    <2> QED
      BY <1>7, <2>3 DEF SampleSeq, IsSeq, Range
  <1> HIDE DEF ofBuckets, ofQuantiles, ofRest, scalar, sum, count
  <1> QED
    BY <1>1, <1>2, <1>8, <1>9, ConcatSamples

\* The samples of metrics are a sequence, each with finitely many labels.
LEMMA SamplesTyped ==
    ASSUME NEW md \in Payloads
    PROVE  SampleSeq(Samples(md))
  <1>1. IsSeq(md) /\ \A m \in Range(md) :
            IsSeq(m.points) /\ \A pt \in Range(m.points) : IsSeq(pt.labels) /\ IsSeq(pt.buckets)
    BY RemoteWriteAssumption
  <1>0. SampleSeq(<<>>)
    <2>1. Range(<<>>) = {}
      BY DEF Range
    <2>2. <<>> \in Seq(Range(<<>>))
      OBVIOUS
    <2> QED
      BY <2>1, <2>2 DEF SampleSeq, IsSeq
  <1>2. ASSUME NEW s, NEW x, IsSeq(s), x = [j \in DOMAIN s |-> x[j]] PROVE IsSeq(x) /\ DOMAIN x = DOMAIN s
    <2>1. DOMAIN x = DOMAIN s
      BY <1>2
    <2>2. Len(s) \in Nat /\ DOMAIN s = 1 .. Len(s)
      BY <1>2, LenProperties DEF IsSeq
    <2>3. x \in [1 .. Len(s) -> Range(x)]
      BY <1>2, <2>1, <2>2 DEF Range
    <2> QED
      BY <2>1, <2>2, <2>3, SeqDef DEF IsSeq
  <1>3. ASSUME NEW m \in Range(md), Handled(m) PROVE SampleSeq(MetricSamples(m))
    <2> DEFINE x == [j \in DOMAIN m.points |-> PointSamples(m, m.points[j])]
    <2>1. IsSeq(x) /\ DOMAIN x = DOMAIN m.points
      <3>1. x = [j \in DOMAIN m.points |-> x[j]]
        OBVIOUS
      <3> HIDE DEF x
      <3> QED
        BY <1>1, <1>2, <3>1
    <2>2. ASSUME NEW j \in DOMAIN m.points PROVE SampleSeq(x[j])
      <3>1. m.points[j] \in Range(m.points)
        BY DEF Range
      <3>2. SampleSeq(PointSamples(m, m.points[j]))
        BY <1>1, <1>3, <3>1, PointSamplesTyped
      <3> QED
        BY <3>2
    <2>3. MetricSamples(m) = FlattenSeq(x)
      BY DEF MetricSamples
    <2> HIDE DEF x
    <2> QED
      BY <2>1, <2>2, <2>3, FlattenSamples
  <1> DEFINE y == [j \in DOMAIN md |-> IF Handled(md[j]) THEN MetricSamples(md[j]) ELSE <<>>]
  <1>4. IsSeq(y) /\ DOMAIN y = DOMAIN md
    <2>1. y = [j \in DOMAIN md |-> y[j]]
      OBVIOUS
    <2> HIDE DEF y
    <2> QED
      BY <1>1, <1>2, <2>1
  <1>5. ASSUME NEW j \in DOMAIN md PROVE SampleSeq(y[j])
    <2>1. md[j] \in Range(md)
      BY DEF Range
    <2>2. CASE Handled(md[j])
      <3>1. y[j] = MetricSamples(md[j])
        BY <2>2
      <3> QED
        BY <1>3, <2>1, <2>2, <3>1
    <2>3. CASE ~Handled(md[j])
      BY <1>0, <2>3
    <2> QED
      BY <2>2, <2>3
  <1>6. Samples(md) = FlattenSeq(y)
    BY DEF Samples
  <1> HIDE DEF y
  <1> QED
    BY <1>4, <1>5, <1>6, FlattenSamples

-----------------------------------------------------------------------------
(* The map, sample by sample. *)

LEMMA ValuesRecursion ==
    ASSUME NEW all, IsSeq(all), NEW I
    PROVE  /\ ValuesUpTo(all, I)[0] = <<>>
           /\ \A n \in 1 .. Len(all) : ValuesUpTo(all, I)[n] =
                 IF n \in I THEN Append(ValuesUpTo(all, I)[n - 1], all[n].value)
                 ELSE ValuesUpTo(all, I)[n - 1]
  <1> DEFINE N == Len(all)
             V == {all[j].value : j \in 1..N}
             S == Seq(V)
             G == [n \in 1..N |-> [x \in S |-> IF n \in I THEN Append(x, all[n].value) ELSE x]]
             Body(f) == [n \in 0..N |->
                 IF n = 0 THEN <<>>
                 ELSE IF n \in I THEN Append(f[n - 1], all[n].value) ELSE f[n - 1]]
  <1>0. ASSUME NEW n \in 1..N, NEW x \in S
        PROVE  (IF n \in I THEN Append(x, all[n].value) ELSE x) \in S
    <2>1. all[n].value \in V
      OBVIOUS
    <2> HIDE DEF V
    <2>2. Append(x, all[n].value) \in S
      BY <2>1, AppendProperties
    <2>3. CASE n \in I
      BY <2>2, <2>3
    <2>4. CASE n \notin I
      BY <2>4
    <2> QED
      BY <2>3, <2>4
  <1>1. N \in Nat /\ <<>> \in S /\ G \in [1..N -> [S -> S]]
    <2>1. N \in Nat /\ <<>> \in S
      BY DEF IsSeq
    <2> HIDE DEF N, S
    <2> QED
      BY <1>0, <2>1
  <1>2. PICK g : Recursion(g, N, S, <<>>, G)
    <2> HIDE DEF N, S, G
    <2> QED
      BY <1>1, RecursionExists
  <1>3. g = Body(g)
    <2>1. g \in [0..N -> S] /\ g[0] = <<>>
      BY <1>2 DEF Recursion
    <2>2. ASSUME NEW n \in 1..N
          PROVE  g[n] = IF n \in I THEN Append(g[n - 1], all[n].value) ELSE g[n - 1]
      <3>0. n - 1 \in 0..N
        BY <1>1
      <3>1. g[n] = G[n][g[n - 1]] /\ g[n - 1] \in S
        BY <1>2, <2>1, <3>0 DEF Recursion
      <3> QED
        BY <3>1, <2>1
    <2>3. ASSUME NEW n \in 0..N PROVE g[n] = Body(g)[n]
      <3>1. CASE n = 0
        BY <3>1, <2>1
      <3>2. CASE n # 0
        <4>1. n \in 1..N
          BY <3>2, <1>1
        <4> QED
          BY <3>2, <4>1, <2>2
      <3> QED
        BY <3>1, <3>2
    <2> QED
      BY <2>1, <2>3
  <1>4. ValuesUpTo(all, I) = CHOOSE f : f = Body(f)
    BY DEF ValuesUpTo
  <1> DEFINE f == ValuesUpTo(all, I)
  <1>5. f = Body(f)
    <2> HIDE DEF Body
    <2> QED
      BY <1>3, <1>4
  <1>6. ASSUME NEW n \in 1..N
        PROVE  f[n] = IF n \in I THEN Append(f[n - 1], all[n].value) ELSE f[n - 1]
    <2>1. Body(f)[n] = IF n \in I THEN Append(f[n - 1], all[n].value) ELSE f[n - 1]
      BY <1>1
    <2> HIDE DEF Body, f
    <2> QED
      BY <2>1, <1>5
  <1>7. f[0] = <<>>
    <2>1. Body(f)[0] = <<>>
      BY <1>1
    <2> HIDE DEF Body, f
    <2> QED
      BY <2>1, <1>5
  <1> QED
    BY <1>6, <1>7

\* The values of those of the first n samples that are like s.
ValuesLike(all, s) == ValuesUpTo(all, Like(all, s))

LEMMA LikeRecursion ==
    ASSUME NEW all, IsSeq(all), NEW s
    PROVE  /\ ValuesLike(all, s)[0] = <<>>
           /\ \A n \in 1 .. Len(all) : ValuesLike(all, s)[n] =
                 IF Alike(all[n], s) THEN Append(ValuesLike(all, s)[n - 1], all[n].value)
                 ELSE ValuesLike(all, s)[n - 1]
  <1>1. DOMAIN all = 1 .. Len(all)
    BY LenProperties DEF IsSeq
  <1>2. \A n \in 1 .. Len(all) : n \in Like(all, s) <=> Alike(all[n], s)
    BY <1>1 DEF Like
  <1> QED
    BY <1>2, ValuesRecursion DEF ValuesLike

\* The values of the first n samples depend on the places up to n.
LEMMA SameValues ==
    ASSUME NEW all, IsSeq(all), NEW I, NEW J, NEW n \in 0 .. Len(all),
           \A k \in 1..n : k \in I <=> k \in J
    PROVE  ValuesUpTo(all, I)[n] = ValuesUpTo(all, J)[n]
  <1> DEFINE P == {m \in Nat : m <= n => ValuesUpTo(all, I)[m] = ValuesUpTo(all, J)[m]}
  <1>0. Len(all) \in Nat
    BY LenProperties DEF IsSeq
  <1>1. 0 \in P
    BY ValuesRecursion
  <1>2. ASSUME NEW m \in Nat, m \in P PROVE m + 1 \in P
    <2> SUFFICES ASSUME m + 1 <= n PROVE ValuesUpTo(all, I)[m + 1] = ValuesUpTo(all, J)[m + 1]
      OBVIOUS
    <2>1. m + 1 \in 1 .. Len(all) /\ m + 1 \in 1..n /\ m + 1 - 1 = m /\ m <= n
      BY <1>0
    <2>2. ValuesUpTo(all, I)[m] = ValuesUpTo(all, J)[m]
      BY <1>2, <2>1
    <2>3. ValuesUpTo(all, I)[m + 1] =
              IF m + 1 \in I THEN Append(ValuesUpTo(all, I)[m], all[m + 1].value) ELSE ValuesUpTo(all, I)[m]
      BY <2>1, ValuesRecursion
    <2>4. ValuesUpTo(all, J)[m + 1] =
              IF m + 1 \in J THEN Append(ValuesUpTo(all, J)[m], all[m + 1].value) ELSE ValuesUpTo(all, J)[m]
      BY <2>1, ValuesRecursion
    <2> QED
      BY <2>1, <2>2, <2>3, <2>4
  <1>3. Nat \subseteq P
    <2> HIDE DEF P
    <2> QED
      BY <1>1, <1>2, SetInduction
  <1> QED
    BY <1>0, <1>3

\* x is a signature of s, for one of the orders that sorting can leave.
Signs(x, s) == \E q \in Sorted(s.labels) : x = timeSeriesSignature(s.type, Listed(s.labels, q))

\* The entry of a sample, when the first n samples have been added.
EntryOf(ts, all, s, n) ==
    /\ DOMAIN ts = {"labels", "samples"}
    /\ Range(ts.labels) = Range(s.labels)
    /\ ts.samples = ValuesLike(all, s)[n]

\* What the map is when the first n samples have been added.
MapUpTo(tsMap, all, n) ==
    /\ \A x \in DOMAIN tsMap : \E i \in 1..n : Signs(x, all[i])
    /\ \A i \in 1..n : \E x \in DOMAIN tsMap : Signs(x, all[i])
    /\ \A i \in 1 .. Len(all) : \A x :
          Signs(x, all[i]) => IF x \in DOMAIN tsMap THEN EntryOf(tsMap[x], all, all[i], n)
                              ELSE ValuesLike(all, all[i])[n] = <<>>

\* Samples that signatures tell apart.
Apart(all) == IsSeq(all) /\ \A i \in 1 .. Len(all) : PlainSet(all[i].labels)

LEMMA SignsRight ==
    ASSUME NEW s, NEW t, PlainSet(s.labels), PlainSet(t.labels), NEW x, NEW y, Signs(x, s), Signs(y, t)
    PROVE  x = y <=> Alike(s, t)
  <1>1. PICK q \in Sorted(s.labels) : x = timeSeriesSignature(s.type, Listed(s.labels, q))
    BY DEF Signs
  <1>2. PICK r \in Sorted(t.labels) : y = timeSeriesSignature(t.type, Listed(t.labels, r))
    BY DEF Signs
  <1> QED
    BY <1>1, <1>2, SignatureRight

LEMMA NothingMapped ==
    ASSUME NEW all, Apart(all)
    PROVE  MapUpTo(NoMap, all, 0)
  <1>1. DOMAIN NoMap = {}
    BY DEF NoMap
  <1>2. \A s : ValuesLike(all, s)[0] = <<>>
    BY LikeRecursion DEF Apart
  <1> QED
    BY <1>1, <1>2 DEF MapUpTo

LEMMA OneMoreMapped ==
    ASSUME NEW all, Apart(all), NEW n \in Nat, n + 1 <= Len(all), NEW tsMap, MapUpTo(tsMap, all, n),
           NEW q \in Sorted(all[n + 1].labels)
    PROVE  MapUpTo(addSample(tsMap, all[n + 1], Listed(all[n + 1].labels, q)), all, n + 1)
  <1> DEFINE s == all[n + 1]
             L == Listed(s.labels, q)
             sig == timeSeriesSignature(s.type, L)
             more == addSample(tsMap, s, L)
  <1>1. Len(all) \in Nat /\ n + 1 \in 1 .. Len(all) /\ n + 1 - 1 = n
    BY DEF Apart, IsSeq
  <1>2. PlainSet(s.labels) /\ Range(L) = Range(s.labels)
    <2>1. PlainSet(s.labels)
      BY <1>1 DEF Apart
    <2> QED
      BY <2>1, SortedOrdered
  <1>3. Signs(sig, s)
    BY DEF Signs
  <1>4. /\ DOMAIN more = DOMAIN tsMap \cup {sig}
        /\ \A x \in DOMAIN tsMap : x # sig => more[x] = tsMap[x]
        /\ sig \in DOMAIN tsMap => more[sig] = [tsMap[sig] EXCEPT !.samples = Append(@, s.value)]
        /\ sig \notin DOMAIN tsMap => more[sig] = [labels |-> L, samples |-> <<s.value>>]
    <2> HIDE DEF L
    <2> QED
      BY DEF addSample
  <1> HIDE DEF L, sig, more, s
  <1>5. \A x \in DOMAIN more : \E i \in 1 .. (n + 1) : Signs(x, all[i])
    <2>1. Signs(sig, all[n + 1]) /\ n + 1 \in 1 .. (n + 1)
      BY <1>3 DEF s
    <2>2. ASSUME NEW x \in DOMAIN tsMap PROVE \E i \in 1 .. (n + 1) : Signs(x, all[i])
      <3>1. PICK i \in 1..n : Signs(x, all[i])
        BY DEF MapUpTo
      <3>2. i \in 1 .. (n + 1)
        OBVIOUS
      <3> QED
        BY <3>1, <3>2
    <2> QED
      BY <1>4, <2>1, <2>2
  <1>6. ASSUME NEW i \in 1 .. (n + 1) PROVE \E x \in DOMAIN more : Signs(x, all[i])
    <2>1. CASE i = n + 1
      BY <1>3, <1>4, <2>1 DEF s
    <2>2. CASE i \in 1..n
      BY <1>4, <2>2 DEF MapUpTo
    <2> QED
      BY <2>1, <2>2
  <1>7. ASSUME NEW i \in 1 .. Len(all), NEW x, Signs(x, all[i])
        PROVE  IF x \in DOMAIN more THEN EntryOf(more[x], all, all[i], n + 1)
               ELSE ValuesLike(all, all[i])[n + 1] = <<>>
    <2>1. x = sig <=> Alike(s, all[i])
      <3>1. PlainSet(all[i].labels)
        BY DEF Apart
      <3>2. sig = x <=> Alike(s, all[i])
        BY <1>2, <1>3, <1>7, <3>1, SignsRight
      <3> QED
        BY <3>2
    <2>2. ValuesLike(all, all[i])[n + 1] =
              IF Alike(s, all[i]) THEN Append(ValuesLike(all, all[i])[n], s.value) ELSE ValuesLike(all, all[i])[n]
      BY <1>1, LikeRecursion DEF s, Apart
    <2>3. IF x \in DOMAIN tsMap THEN EntryOf(tsMap[x], all, all[i], n) ELSE ValuesLike(all, all[i])[n] = <<>>
      BY <1>7 DEF MapUpTo
    <2>4. CASE x # sig
      BY <1>4, <2>1, <2>2, <2>3, <2>4 DEF EntryOf
    <2>5. CASE x = sig /\ sig \in DOMAIN tsMap
      <3>1. /\ DOMAIN tsMap[sig] = {"labels", "samples"} /\ Range(tsMap[sig].labels) = Range(all[i].labels)
            /\ tsMap[sig].samples = ValuesLike(all, all[i])[n]
        BY <2>3, <2>5 DEF EntryOf
      <3>2. /\ more[sig].labels = tsMap[sig].labels /\ more[sig].samples = Append(tsMap[sig].samples, s.value)
            /\ DOMAIN more[sig] = {"labels", "samples"}
        BY <1>4, <2>5, <3>1
      <3> QED
        BY <1>4, <2>1, <2>2, <2>5, <3>1, <3>2 DEF EntryOf
    <2>6. CASE x = sig /\ sig \notin DOMAIN tsMap
      <3>1. ValuesLike(all, all[i])[n] = <<>> /\ Range(s.labels) = Range(all[i].labels)
        BY <2>1, <2>3, <2>6 DEF Alike
      <3>2. /\ more[sig].labels = L /\ more[sig].samples = <<s.value>>
            /\ DOMAIN more[sig] = {"labels", "samples"}
        BY <1>4, <2>6
      <3>3. Append(<<>>, s.value) = <<s.value>>
        OBVIOUS
      <3> QED
        BY <1>2, <1>4, <2>1, <2>2, <2>6, <3>1, <3>2, <3>3 DEF EntryOf
    <2> QED
      BY <2>4, <2>5, <2>6
  <1> QED
    BY <1>5, <1>6, <1>7 DEF MapUpTo, s, L, more

\* The whole map is what the samples are by their labels.
LEMMA AllMapped ==
    ASSUME NEW md, Apart(Samples(md)), NEW tsMap, MapUpTo(tsMap, Samples(md), Len(Samples(md)))
    PROVE  {[labels |-> Range(ts.labels), samples |-> ts.samples] : ts \in Range(tsMap)} = Grouped(md)
  <1> DEFINE all == Samples(md)
             N == Len(all)
             Seen(ts) == [labels |-> Range(ts.labels), samples |-> ts.samples]
             Meant(s) == [labels |-> Range(s.labels), samples |-> ValuesLike(all, s)[N]]
  <1>1. N \in Nat /\ DOMAIN all = 1..N
    BY LenProperties DEF Apart, IsSeq
  <1>2. Grouped(md) = {Meant(s) : s \in Range(all)}
    BY DEF Grouped, ValuesLike
  <1>3. ASSUME NEW i \in 1..N, NEW x \in DOMAIN tsMap, Signs(x, all[i]) PROVE Seen(tsMap[x]) = Meant(all[i])
    BY <1>3 DEF MapUpTo, EntryOf
  <1>4. ASSUME NEW x \in DOMAIN tsMap PROVE \E i \in 1..N : Signs(x, all[i])
    BY DEF MapUpTo
  <1>5. ASSUME NEW i \in 1..N PROVE \E x \in DOMAIN tsMap : Signs(x, all[i])
    BY DEF MapUpTo
  <1> HIDE DEF Seen, Meant, all, N
  <1>6. ASSUME NEW ts \in Range(tsMap) PROVE Seen(ts) \in Grouped(md)
    <2>1. PICK x \in DOMAIN tsMap : ts = tsMap[x]
      BY DEF Range
    <2>2. PICK i \in 1..N : Signs(x, all[i])
      BY <1>4
    <2>3. all[i] \in Range(all)
      BY <1>1 DEF Range
    <2> QED
      BY <1>2, <1>3, <2>1, <2>2, <2>3
  <1>7. ASSUME NEW s \in Range(all) PROVE \E ts \in Range(tsMap) : Meant(s) = Seen(ts)
    <2>1. PICK i \in 1..N : s = all[i]
      BY <1>1 DEF Range
    <2>2. PICK x \in DOMAIN tsMap : Signs(x, all[i])
      BY <1>5
    <2>3. tsMap[x] \in Range(tsMap)
      BY DEF Range
    <2> QED
      BY <1>3, <2>1, <2>2, <2>3
  <1>8. {Seen(ts) : ts \in Range(tsMap)} = Grouped(md)
    BY <1>2, <1>6, <1>7
  <1> QED
    BY <1>8 DEF Seen

-----------------------------------------------------------------------------
(* The map for samples that signatures need not tell apart. *)

SignaturesOf(all) == UNION {Signatures(all[j]) : j \in 1 .. Len(all)}

LEMMA SignedRecursion ==
    ASSUME NEW all, IsSeq(all)
    PROVE  /\ SignedUpTo(all)[0] = {<<>>}
           /\ \A n \in 1 .. Len(all) :
                 SignedUpTo(all)[n] = {Append(y, x) : y \in SignedUpTo(all)[n - 1], x \in Signatures(all[n])}
  <1> DEFINE N == Len(all)
             S == SUBSET Seq(SignaturesOf(all))
             More(X, n) == {Append(y, x) : y \in X, x \in Signatures(all[n])}
             G == [n \in 1..N |-> [X \in S |-> More(X, n)]]
             Body(f) == [n \in 0..N |-> IF n = 0 THEN {<<>>} ELSE More(f[n - 1], n)]
  <1>0. ASSUME NEW n \in 1..N, NEW X \in S PROVE More(X, n) \in S
    <2>1. \A x \in Signatures(all[n]) : x \in SignaturesOf(all)
      BY DEF SignaturesOf
    <2>2. ASSUME NEW y \in X, NEW x \in Signatures(all[n]) PROVE Append(y, x) \in Seq(SignaturesOf(all))
      <3>1. y \in Seq(SignaturesOf(all)) /\ x \in SignaturesOf(all)
        BY <2>1
      <3> QED
        BY <3>1, AppendProperties
    <2> QED
      BY <2>2
  <1>1. N \in Nat /\ {<<>>} \in S /\ G \in [1..N -> [S -> S]]
    <2>1. N \in Nat /\ {<<>>} \in S
      BY DEF IsSeq
    <2> HIDE DEF N, S, More
    <2> QED
      BY <1>0, <2>1
  <1>2. PICK g : Recursion(g, N, S, {<<>>}, G)
    <2> HIDE DEF N, S, G
    <2> QED
      BY <1>1, RecursionExists
  <1>3. g = Body(g)
    <2> HIDE DEF More
    <2>1. g \in [0..N -> S] /\ g[0] = {<<>>}
      BY <1>2 DEF Recursion
    <2>2. ASSUME NEW n \in 1..N PROVE g[n] = More(g[n - 1], n)
      <3>0. n - 1 \in 0..N
        BY <1>1
      <3>1. g[n] = G[n][g[n - 1]] /\ g[n - 1] \in S
        BY <1>2, <2>1, <3>0 DEF Recursion
      <3> QED
        BY <3>1
    <2>3. ASSUME NEW n \in 0..N PROVE g[n] = Body(g)[n]
      <3>1. CASE n = 0
        BY <3>1, <2>1
      <3>2. CASE n # 0
        <4>1. n \in 1..N
          BY <3>2, <1>1
        <4> QED
          BY <3>2, <4>1, <2>2
      <3> QED
        BY <3>1, <3>2
    <2> QED
      BY <2>1, <2>3
  <1>4. SignedUpTo(all) = CHOOSE f : f = Body(f)
    BY DEF SignedUpTo
  <1> DEFINE f == SignedUpTo(all)
  <1>5. f = Body(f)
    <2> HIDE DEF Body
    <2> QED
      BY <1>3, <1>4
  <1>6. ASSUME NEW n \in 1..N PROVE f[n] = More(f[n - 1], n)
    <2> HIDE DEF More
    <2>1. Body(f)[n] = More(f[n - 1], n)
      BY <1>1
    <2> HIDE DEF Body, f
    <2> QED
      BY <2>1, <1>5
  <1>7. f[0] = {<<>>}
    <2> HIDE DEF More
    <2>1. Body(f)[0] = {<<>>}
      BY <1>1
    <2> HIDE DEF Body, f
    <2> QED
      BY <2>1, <1>5
  <1> QED
    BY <1>6, <1>7

LEMMA NoValues ==
    ASSUME NEW all, IsSeq(all), NEW I, NEW n \in 0 .. Len(all), \A k \in 1..n : k \notin I
    PROVE  ValuesUpTo(all, I)[n] = <<>>
  <1> DEFINE P == {m \in Nat : m <= n => ValuesUpTo(all, I)[m] = <<>>}
  <1>0. Len(all) \in Nat
    BY LenProperties DEF IsSeq
  <1>1. 0 \in P
    BY ValuesRecursion
  <1>2. ASSUME NEW m \in Nat, m \in P PROVE m + 1 \in P
    <2> SUFFICES ASSUME m + 1 <= n PROVE ValuesUpTo(all, I)[m + 1] = <<>>
      OBVIOUS
    <2>1. m + 1 \in 1 .. Len(all) /\ m + 1 \in 1..n /\ m + 1 - 1 = m /\ m <= n
      BY <1>0
    <2>2. ValuesUpTo(all, I)[m] = <<>>
      BY <1>2, <2>1
    <2> QED
      BY <2>1, <2>2, ValuesRecursion
  <1>3. Nat \subseteq P
    <2> HIDE DEF P
    <2> QED
      BY <1>1, <1>2, SetInduction
  <1> QED
    BY <1>0, <1>3

\* f are signatures of the first n samples.
Signing(f, all, n) ==
    f \in SignedUpTo(all)[n] /\ f \in Seq(SignaturesOf(all)) /\ Len(f) = n

SignedEntry(ts, all, f, i, n) ==
    /\ DOMAIN ts = {"labels", "samples"}
    /\ Range(ts.labels) = Range(all[i].labels)
    /\ ts.samples = ValuesUpTo(all, SignedLike(f, i))[n]

\* What the map is when the first n samples have been added with these signatures.
MapSigned(tsMap, all, f, n) ==
    /\ \A x \in DOMAIN tsMap : \E i \in 1..n : First(f, i) /\ f[i] = x
    /\ \A i \in 1..n : f[i] \in DOMAIN tsMap
    /\ \A i \in 1..n : First(f, i) => SignedEntry(tsMap[f[i]], all, f, i, n)

LEMMA NothingSigned ==
    ASSUME NEW all, IsSeq(all)
    PROVE  Signing(<<>>, all, 0) /\ MapSigned(NoMap, all, <<>>, 0)
  <1>1. <<>> \in SignedUpTo(all)[0]
    BY SignedRecursion
  <1>2. DOMAIN NoMap = {}
    BY DEF NoMap
  <1> QED
    BY <1>1, <1>2 DEF Signing, MapSigned

LEMMA OneMoreSigned ==
    ASSUME NEW all, SampleSeq(all), NEW n \in Nat, n + 1 <= Len(all), NEW f, Signing(f, all, n),
           NEW tsMap, MapSigned(tsMap, all, f, n), NEW q \in Sorted(all[n + 1].labels)
    PROVE  \E g : /\ Signing(g, all, n + 1)
                  /\ MapSigned(addSample(tsMap, all[n + 1], Listed(all[n + 1].labels, q)), all, g, n + 1)
  <1> DEFINE s == all[n + 1]
             L == Listed(s.labels, q)
             sig == timeSeriesSignature(s.type, L)
             more == addSample(tsMap, s, L)
             g == Append(f, sig)
  <1>1. /\ IsSeq(all) /\ Len(all) \in Nat /\ n + 1 \in 1 .. Len(all) /\ n + 1 - 1 = n /\ n \in 0 .. Len(all)
        /\ DOMAIN all = 1 .. Len(all)
    <2>1. IsSeq(all)
      BY DEF SampleSeq
    <2>2. Len(all) \in Nat /\ DOMAIN all = 1 .. Len(all)
      BY <2>1, LenProperties DEF IsSeq
    <2> QED
      BY <2>1, <2>2
  <1>2. Range(L) = Range(s.labels)
    <2>1. s \in Range(all)
      BY <1>1 DEF Range
    <2>2. IsFiniteSet(DOMAIN s.labels)
      BY <2>1 DEF SampleSeq
    <2> QED
      BY <2>2, SortedAll
  <1>3. sig \in Signatures(s) /\ sig \in SignaturesOf(all)
    <2>1. sig \in Signatures(s)
      BY DEF Signatures, Listed
    <2> QED
      BY <1>1, <2>1 DEF SignaturesOf
  <1>4. /\ DOMAIN more = DOMAIN tsMap \cup {sig}
        /\ \A x \in DOMAIN tsMap : x # sig => more[x] = tsMap[x]
        /\ sig \in DOMAIN tsMap => more[sig] = [tsMap[sig] EXCEPT !.samples = Append(@, s.value)]
        /\ sig \notin DOMAIN tsMap => more[sig] = [labels |-> L, samples |-> <<s.value>>]
    <2> HIDE DEF L
    <2> QED
      BY DEF addSample
  <1>5. g \in SignedUpTo(all)[n + 1]
    <2>1. SignedUpTo(all)[n + 1] = {Append(y, x) : y \in SignedUpTo(all)[n], x \in Signatures(s)}
      BY <1>1, SignedRecursion
    <2> QED
      BY <1>3, <2>1 DEF Signing
  <1> HIDE DEF L, sig, more, s
  <1>6. /\ g \in Seq(SignaturesOf(all)) /\ Len(g) = n + 1 /\ DOMAIN g = 1 .. (n + 1) /\ DOMAIN f = 1..n
        /\ g[n + 1] = sig /\ \A i \in 1..n : g[i] = f[i]
    <2>1. f \in Seq(SignaturesOf(all)) /\ Len(f) = n
      BY DEF Signing
    <2>2. g \in Seq(SignaturesOf(all)) /\ Len(g) = n + 1 /\ g[n + 1] = sig /\ \A i \in 1..n : g[i] = f[i]
      BY <1>3, <2>1, AppendProperties
    <2> QED
      BY <2>1, <2>2, LenProperties
  <1>7. Signing(g, all, n + 1)
    BY <1>5, <1>6 DEF Signing
  <1> HIDE DEF g
  <1>8. ASSUME NEW i \in 1..n PROVE First(g, i) <=> First(f, i)
    <2>1. \A k \in 1 .. (i - 1) : g[k] = f[k]
      BY <1>6
    <2> QED
      BY <1>6, <2>1 DEF First
  <1>9. First(g, n + 1) <=> sig \notin DOMAIN tsMap
    <2>1. First(g, n + 1) <=> \A k \in 1..n : f[k] # sig
      BY <1>1, <1>6 DEF First
    <2> QED
      BY <2>1 DEF MapSigned
  <1>10. ASSUME NEW i \in 1..n
         PROVE  ValuesUpTo(all, SignedLike(g, i))[n + 1] =
                    IF g[i] = sig THEN Append(ValuesUpTo(all, SignedLike(f, i))[n], s.value)
                    ELSE ValuesUpTo(all, SignedLike(f, i))[n]
    <2>1. \A k \in 1..n : k \in SignedLike(g, i) <=> k \in SignedLike(f, i)
      BY <1>6 DEF SignedLike
    <2>2. ValuesUpTo(all, SignedLike(g, i))[n] = ValuesUpTo(all, SignedLike(f, i))[n]
      BY <1>1, <2>1, SameValues
    <2>3. n + 1 \in SignedLike(g, i) <=> g[i] = sig
      BY <1>6 DEF SignedLike
    <2>4. ValuesUpTo(all, SignedLike(g, i))[n + 1] =
              IF n + 1 \in SignedLike(g, i) THEN Append(ValuesUpTo(all, SignedLike(g, i))[n], s.value)
              ELSE ValuesUpTo(all, SignedLike(g, i))[n]
      BY <1>1, ValuesRecursion DEF s
    <2> QED
      BY <2>2, <2>3, <2>4
  <1>11. ASSUME First(g, n + 1) PROVE ValuesUpTo(all, SignedLike(g, n + 1))[n + 1] = <<s.value>>
    <2>1. \A k \in 1..n : k \notin SignedLike(g, n + 1)
      BY <1>1, <1>11 DEF First, SignedLike
    <2>2. ValuesUpTo(all, SignedLike(g, n + 1))[n] = <<>>
      BY <1>1, <2>1, NoValues
    <2>3. n + 1 \in SignedLike(g, n + 1)
      BY <1>6 DEF SignedLike
    <2>4. ValuesUpTo(all, SignedLike(g, n + 1))[n + 1] =
              IF n + 1 \in SignedLike(g, n + 1) THEN Append(ValuesUpTo(all, SignedLike(g, n + 1))[n], s.value)
              ELSE ValuesUpTo(all, SignedLike(g, n + 1))[n]
      BY <1>1, ValuesRecursion DEF s
    <2>5. Append(<<>>, s.value) = <<s.value>>
      OBVIOUS
    <2> QED
      BY <2>2, <2>3, <2>4, <2>5
  <1>12. ASSUME NEW x \in DOMAIN more PROVE \E i \in 1 .. (n + 1) : First(g, i) /\ g[i] = x
    <2>1. CASE x \in DOMAIN tsMap
      <3>1. PICK i \in 1..n : First(f, i) /\ f[i] = x
        BY <2>1 DEF MapSigned
      <3>2. i \in 1 .. (n + 1) /\ First(g, i) /\ g[i] = x
        BY <1>6, <1>8, <3>1
      <3> QED
        BY <3>2
    <2>2. CASE x \notin DOMAIN tsMap
      <3>1. x = sig /\ First(g, n + 1) /\ g[n + 1] = x /\ n + 1 \in 1 .. (n + 1)
        BY <1>4, <1>6, <1>9, <2>2
      <3> QED
        BY <3>1
    <2> QED
      BY <2>1, <2>2
  <1>13. ASSUME NEW i \in 1 .. (n + 1) PROVE g[i] \in DOMAIN more
    <2>1. CASE i = n + 1
      BY <1>4, <1>6, <2>1
    <2>2. CASE i \in 1..n
      BY <1>4, <1>6, <2>2 DEF MapSigned
    <2> QED
      BY <2>1, <2>2
  <1>14. ASSUME NEW i \in 1 .. (n + 1), First(g, i) PROVE SignedEntry(more[g[i]], all, g, i, n + 1)
    <2>1. CASE i = n + 1
      <3>1. sig \notin DOMAIN tsMap /\ g[i] = sig
        BY <1>6, <1>9, <1>14, <2>1
      <3>2. more[g[i]].labels = L /\ more[g[i]].samples = <<s.value>> /\ DOMAIN more[g[i]] = {"labels", "samples"}
        BY <1>4, <3>1
      <3>3. ValuesUpTo(all, SignedLike(g, i))[n + 1] = <<s.value>>
        BY <1>11, <1>14, <2>1
      <3> QED
        BY <1>2, <2>1, <3>2, <3>3 DEF SignedEntry, s
    <2>2. CASE i \in 1..n
      <3>1. /\ f[i] \in DOMAIN tsMap /\ g[i] = f[i]
            /\ SignedEntry(tsMap[g[i]], all, f, i, n)
        BY <1>6, <1>8, <1>14, <2>2 DEF MapSigned
      <3>2. /\ DOMAIN tsMap[g[i]] = {"labels", "samples"} /\ Range(tsMap[g[i]].labels) = Range(all[i].labels)
            /\ tsMap[g[i]].samples = ValuesUpTo(all, SignedLike(f, i))[n]
        BY <3>1 DEF SignedEntry
      <3>3. CASE g[i] # sig
        BY <1>4, <1>10, <2>2, <3>1, <3>2, <3>3 DEF SignedEntry
      <3>4. CASE g[i] = sig
        <4>1. more[g[i]] = [tsMap[g[i]] EXCEPT !.samples = Append(@, s.value)]
          BY <1>4, <3>1, <3>4
        <4>2. /\ more[g[i]].labels = tsMap[g[i]].labels /\ DOMAIN more[g[i]] = {"labels", "samples"}
              /\ more[g[i]].samples = Append(tsMap[g[i]].samples, s.value)
          BY <3>2, <4>1
        <4> QED
          BY <1>10, <2>2, <3>2, <3>4, <4>2 DEF SignedEntry
      <3> QED
        BY <3>3, <3>4
    <2> QED
      BY <2>1, <2>2
  <1>15. MapSigned(more, all, g, n + 1)
    BY <1>12, <1>13, <1>14 DEF MapSigned
  <1> QED
    BY <1>7, <1>15 DEF more, L, s

LEMMA AllSigned ==
    ASSUME NEW all, IsSeq(all), NEW f, NEW tsMap, MapSigned(tsMap, all, f, Len(all))
    PROVE  SeenAs(Range(tsMap)) = BySignature(all, f)
  <1> DEFINE N == Len(all)
             See(ts) == [labels |-> Range(ts.labels), samples |-> ts.samples]
             Meant(i) == [labels |-> Range(all[i].labels), samples |-> ValuesUpTo(all, SignedLike(f, i))[N]]
             D == {j \in DOMAIN all : First(f, j)}
  <1>1. DOMAIN all = 1..N
    BY LenProperties DEF IsSeq
  <1>2. BySignature(all, f) = {Meant(i) : i \in D}
    BY DEF BySignature
  <1>3. ASSUME NEW i \in D PROVE f[i] \in DOMAIN tsMap /\ See(tsMap[f[i]]) = Meant(i)
    BY <1>1 DEF MapSigned, SignedEntry
  <1>4. ASSUME NEW x \in DOMAIN tsMap PROVE \E i \in D : f[i] = x
    BY <1>1 DEF MapSigned
  <1> HIDE DEF See, Meant, D, N
  <1>5. ASSUME NEW ts \in Range(tsMap) PROVE See(ts) \in BySignature(all, f)
    <2>1. PICK x \in DOMAIN tsMap : ts = tsMap[x]
      BY DEF Range
    <2>2. PICK i \in D : f[i] = x
      BY <1>4
    <2> QED
      BY <1>2, <1>3, <2>1, <2>2
  <1>6. ASSUME NEW i \in D PROVE \E ts \in Range(tsMap) : Meant(i) = See(ts)
    <2>1. tsMap[f[i]] \in Range(tsMap)
      BY <1>3 DEF Range
    <2> QED
      BY <1>3, <2>1
  <1>7. {See(ts) : ts \in Range(tsMap)} = BySignature(all, f)
    BY <1>2, <1>5, <1>6
  <1> QED
    BY <1>7 DEF See, SeenAs

-----------------------------------------------------------------------------
(* Calls. *)

\* How far a call that converts has come with the samples of its metrics.
Halfway(c) ==
    /\ ~Panics(c.md)
    /\ \E n \in 0 .. Len(Samples(c.md)) :
          /\ c.todo = SubSeq(Samples(c.md), n + 1, Len(Samples(c.md)))
          /\ ToldApart(c.md) => MapUpTo(c.tsMap, Samples(c.md), n)
          /\ \E f : Signing(f, Samples(c.md), n) /\ MapSigned(c.tsMap, Samples(c.md), f, n)

\* What UnderItsSignature says of one call.
RightSeries(md, accepted) ==
    /\ \E f \in SignedUpTo(Samples(md))[Len(Samples(md))] : SeenAs(accepted) = BySignature(Samples(md), f)
    /\ ToldApart(md) => SeenAs(accepted) = Grouped(md)

RightCall(c, accepted) ==
    /\ c.at \in {"idle", "entered"} => c.tsMap = NoMap /\ accepted = {}
    /\ c.at # "idle" => c.md \in Payloads
    /\ c.at = "convert" => Halfway(c)
    /\ accepted # {} => RightSeries(c.md, accepted)

LabelsInv == \A p \in Pushes : RightCall(push[p], received[p])

LEMMA PayloadSamples ==
    ASSUME NEW md \in Payloads, ~Panics(md)
    PROVE  SampleSeq(Samples(md)) /\ IsSeq(Samples(md)) /\ Samples(md) \in Seq(Range(Samples(md)))
  BY SamplesTyped DEF SampleSeq, IsSeq

LEMMA PayloadApart ==
    ASSUME NEW md \in Payloads, ~Panics(md), ToldApart(md)
    PROVE  Apart(Samples(md)) /\ Samples(md) \in Seq(Range(Samples(md)))
  <1> DEFINE all == Samples(md)
  <1>1. SampleSeq(all) /\ ToldApart(md)
    BY SamplesTyped
  <1>2. IsSeq(all) /\ all \in Seq(Range(all)) /\ DOMAIN all = 1 .. Len(all)
    BY <1>1, LenProperties DEF SampleSeq, IsSeq
  <1>3. ASSUME NEW i \in 1 .. Len(all) PROVE PlainSet(all[i].labels)
    <2> DEFINE l == all[i].labels
    <2>1. all[i] \in Range(all)
      BY <1>2 DEF Range
    <2>2. IsFiniteSet(DOMAIN l)
      BY <1>1, <2>1 DEF SampleSeq
    <2>3. /\ \A e \in Range(l) : e \in [name : Seq(Plain) \cap Range(NameOrder), value : Seq(Plain)]
          /\ \A j, k \in DOMAIN l : l[j].name = l[k].name => j = k
      BY <1>1, <2>1 DEF ToldApart, Plain
    <2> HIDE DEF l
    <2>4. ASSUME NEW k \in DOMAIN l PROVE l[k] \in PlainLabel /\ l[k].name \in Range(NameOrder)
      <3>1. l[k] \in [name : Seq(Plain) \cap Range(NameOrder), value : Seq(Plain)]
        BY <2>3 DEF Range
      <3> QED
        BY <3>1 DEF PlainLabel
    <2> QED
      BY <2>2, <2>3, <2>4 DEF PlainSet, l
  <1> QED
    BY <1>2, <1>3 DEF Apart

\* Conversion begins with all the samples and no map.
LEMMA BeginsHalfway ==
    ASSUME NEW c, c.md \in Payloads, ~Panics(c.md), c.tsMap = NoMap, c.todo = Samples(c.md)
    PROVE  Halfway(c)
  <1> DEFINE all == Samples(c.md)
  <1>1. IsSeq(all) /\ all \in Seq(Range(all))
    BY PayloadSamples
  <1>2. Len(all) \in Nat /\ 0 \in 0 .. Len(all) /\ 0 + 1 = 1
    BY <1>1
  <1>3. SubSeq(all, 1, Len(all)) = all
    BY <1>1, SubSeqFull
  <1>4. ToldApart(c.md) => MapUpTo(NoMap, all, 0)
    <2> SUFFICES ASSUME ToldApart(c.md) PROVE MapUpTo(NoMap, all, 0)
      OBVIOUS
    <2>1. Apart(all)
      BY PayloadApart
    <2> QED
      BY <2>1, NothingMapped
  <1>5. Signing(<<>>, all, 0) /\ MapSigned(NoMap, all, <<>>, 0)
    BY <1>1, NothingSigned
  <1> HIDE DEF all
  <1>6. /\ c.todo = SubSeq(all, 0 + 1, Len(all))
        /\ ToldApart(c.md) => MapUpTo(c.tsMap, all, 0)
        /\ Signing(<<>>, all, 0) /\ MapSigned(c.tsMap, all, <<>>, 0)
    BY <1>2, <1>3, <1>4, <1>5 DEF all
  <1> QED
    BY <1>2, <1>6 DEF Halfway, all

LEMMA GoesOnHalfway ==
    ASSUME NEW c, c.md \in Payloads, Halfway(c), c.todo # <<>>,
           NEW q \in Sorted(Head(c.todo).labels), NEW d, d.md = c.md, d.todo = Tail(c.todo),
           d.tsMap = addSample(c.tsMap, Head(c.todo), Listed(Head(c.todo).labels, q))
    PROVE  Halfway(d)
  <1> DEFINE all == Samples(c.md)
             N == Len(all)
  <1>1. SampleSeq(all) /\ all \in Seq(Range(all)) /\ ~Panics(c.md)
    BY PayloadSamples DEF Halfway
  <1>2. N \in Nat
    BY <1>1, LenProperties
  <1>3. PICK n \in 0..N : /\ c.todo = SubSeq(all, n + 1, N)
                          /\ ToldApart(c.md) => MapUpTo(c.tsMap, all, n)
                          /\ \E f : Signing(f, all, n) /\ MapSigned(c.tsMap, all, f, n)
    BY DEF Halfway
  <1>4. PICK f : Signing(f, all, n) /\ MapSigned(c.tsMap, all, f, n)
    BY <1>3
  <1>5. ToldApart(c.md) => Apart(all)
    BY <1>1, PayloadApart
  <1> HIDE DEF all
  <1>6. n + 1 <= N
    <2> SUFFICES ASSUME N < n + 1 PROVE FALSE
      BY <1>2
    <2> QED
      BY <1>2, <1>3, SubSeqEmpty
  <1>7. n \in Nat /\ n + 1 \in 1..N /\ N \in (n + 1)..N /\ n + 1 \in 0..N /\ n + 1 + 1 = (n + 1) + 1
    BY <1>2, <1>6
  <1>8. Head(c.todo) = all[n + 1] /\ Tail(c.todo) = SubSeq(all, (n + 1) + 1, N)
    BY <1>1, <1>3, <1>7, HeadTailOfSubSeq
  <1>9. ToldApart(d.md) => MapUpTo(d.tsMap, all, n + 1)
    BY <1>3, <1>5, <1>6, <1>7, <1>8, OneMoreMapped
  <1>10. \E g : Signing(g, all, n + 1) /\ MapSigned(d.tsMap, all, g, n + 1)
    BY <1>1, <1>4, <1>6, <1>7, <1>8, OneMoreSigned
  <1>11. d.todo = SubSeq(all, (n + 1) + 1, N)
    BY <1>8
  <1> QED
    BY <1>1, <1>7, <1>9, <1>10, <1>11 DEF Halfway, all

\* When nothing is left to add, the map holds what signatures bring together.
LEMMA EndsHalfway ==
    ASSUME NEW c, c.md \in Payloads, Halfway(c), c.todo = <<>>
    PROVE  RightSeries(c.md, Range(c.tsMap))
  <1> DEFINE all == Samples(c.md)
             N == Len(all)
  <1>1. SampleSeq(all) /\ IsSeq(all) /\ all \in Seq(Range(all)) /\ ~Panics(c.md)
    BY PayloadSamples DEF Halfway
  <1>2. N \in Nat
    BY <1>1, LenProperties
  <1>3. PICK n \in 0..N : /\ c.todo = SubSeq(all, n + 1, N)
                          /\ ToldApart(c.md) => MapUpTo(c.tsMap, all, n)
                          /\ \E f : Signing(f, all, n) /\ MapSigned(c.tsMap, all, f, n)
    BY DEF Halfway
  <1>4. n = N
    <2> SUFFICES ASSUME n # N PROVE FALSE
      OBVIOUS
    <2> HIDE DEF all
    <2>1. n + 1 \in Int /\ N \in Int /\ n + 1 <= N /\ N - (n + 1) + 1 # 0
      BY <1>2
    <2>2. \A i \in (n + 1)..N : all[i] \in Range(all)
      <3>1. \A i \in (n + 1)..N : i \in 1 .. Len(all)
        BY <1>2
      <3> QED
        BY <1>1, <3>1, ElementOfSeq
    <2>3. Len(SubSeq(all, n + 1, N)) = N - (n + 1) + 1
      BY <2>1, <2>2, SubSeqProperties
    <2>4. Len(<<>>) = 0
      OBVIOUS
    <2> QED
      BY <1>3, <2>1, <2>3, <2>4
  <1>5. PICK f : Signing(f, all, N) /\ MapSigned(c.tsMap, all, f, N)
    BY <1>3, <1>4
  <1>6. f \in SignedUpTo(all)[N] /\ SeenAs(Range(c.tsMap)) = BySignature(all, f)
    BY <1>1, <1>5, AllSigned DEF Signing
  <1>7. ToldApart(c.md) => SeenAs(Range(c.tsMap)) = Grouped(c.md)
    <2> SUFFICES ASSUME ToldApart(c.md) PROVE SeenAs(Range(c.tsMap)) = Grouped(c.md)
      OBVIOUS
    <2>1. Apart(all)
      BY <1>1, PayloadApart
    <2>2. MapUpTo(c.tsMap, all, N)
      BY <1>3, <1>4
    <2> QED
      BY <2>1, <2>2, AllMapped DEF SeenAs
  <1> QED
    BY <1>6, <1>7 DEF RightSeries

\* A call that ends has been right about what it posted.
LEMMA EndsRight ==
    ASSUME NEW c, NEW accepted, RightCall(c, accepted),
           NEW d, d.md = c.md, d.at \in {"returned", "panicked"}, c.at # "idle",
           NEW after, after = accepted \/ (after = Range(c.tsMap) /\ c.at = "convert" /\ c.todo = <<>>)
    PROVE  RightCall(d, after)
  <1>1. c.md \in Payloads
    BY DEF RightCall
  <1>2. after # {} => RightSeries(c.md, after)
    <2>1. CASE after = accepted
      BY <2>1 DEF RightCall
    <2>2. CASE after = Range(c.tsMap) /\ c.at = "convert" /\ c.todo = <<>>
      <3>1. Halfway(c)
        BY <2>2 DEF RightCall
      <3> QED
        BY <1>1, <2>2, <3>1, EndsHalfway
    <2> QED
      BY <2>1, <2>2
  <1> QED
    BY <1>1, <1>2 DEF RightCall

\* A step of one call leaves the others as they are.
LEMMA OneCall ==
    ASSUME LabelsInv, NEW p \in Pushes, \A r \in Pushes : r # p => push'[r] = push[r] /\ received'[r] = received[r],
           RightCall(push'[p], received'[p])
    PROVE  LabelsInv'
  <1>1. ASSUME NEW r \in Pushes PROVE RightCall(push'[r], received'[r])
    <2>1. CASE r = p
      BY <2>1
    <2>2. CASE r # p
      BY <2>2 DEF LabelsInv
    <2> QED
      BY <2>1, <2>2
  <1> QED
    BY <1>1 DEF LabelsInv

LEMMA InitLabels == Init => LabelsInv
  <1> SUFFICES ASSUME Init, NEW p \in Pushes PROVE RightCall(push[p], received[p])
    BY DEF LabelsInv
  <1>1. push[p].at = "idle" /\ push[p].tsMap = NoMap /\ received[p] = {}
    BY DEF Init
  <1> QED
    BY <1>1 DEF RightCall

LEMMA EnterLabels ==
    ASSUME Shape, LabelsInv, NEW p \in Pushes, Enter(p)
    PROVE  LabelsInv'
  <1>1. PICK md \in Payloads : push' = [push EXCEPT ![p].at = "entered", ![p].md = md]
    BY DEF Enter
  <1>2. /\ \A r \in Pushes : r # p => push'[r] = push[r]
        /\ push'[p].at = "entered" /\ push'[p].md = md /\ push'[p].tsMap = push[p].tsMap
    BY <1>1 DEF Shape
  <1>3. push[p].at = "idle" /\ received' = received /\ RightCall(push[p], received[p])
    BY DEF Enter, LabelsInv
  <1>4. RightCall(push'[p], received'[p])
    BY <1>2, <1>3 DEF RightCall
  <1> QED
    BY <1>2, <1>3, <1>4, OneCall

LEMMA RefuseLabels ==
    ASSUME Shape, LabelsInv, NEW p \in Pushes, Refuse(p)
    PROVE  LabelsInv'
  <1>1. push' = [push EXCEPT ![p].at = "returned",
                             ![p].told = [dropped |-> Len(push[p].md), err |-> TRUE]]
    BY DEF Refuse
  <1>2. /\ \A r \in Pushes : r # p => push'[r] = push[r]
        /\ push'[p].at = "returned" /\ push'[p].md = push[p].md
    BY <1>1 DEF Shape
  <1>3. push[p].at # "idle" /\ received' = received /\ RightCall(push[p], received[p])
    BY DEF Refuse, LabelsInv
  <1>4. RightCall(push'[p], received'[p])
    BY <1>2, <1>3, EndsRight
  <1> QED
    BY <1>2, <1>3, <1>4, OneCall

LEMMA ConvertLabels ==
    ASSUME Shape, LabelsInv, NEW p \in Pushes, Convert(p)
    PROVE  LabelsInv'
  <1>1. /\ push[p].at = "entered" /\ received' = received /\ RightCall(push[p], received[p])
        /\ push[p].md \in Payloads /\ push[p].tsMap = NoMap /\ received[p] = {}
    BY DEF Convert, LabelsInv, RightCall
  <1>2. CASE ~Panics(push[p].md)
             /\ push' = [push EXCEPT ![p].at = "convert", ![p].todo = Samples(push[p].md)]
    <2>1. /\ \A r \in Pushes : r # p => push'[r] = push[r]
          /\ push'[p].at = "convert" /\ push'[p].md = push[p].md
          /\ push'[p].tsMap = push[p].tsMap /\ push'[p].todo = Samples(push[p].md)
      BY <1>2 DEF Shape
    <2>2. Halfway(push'[p])
      BY <1>1, <1>2, <2>1, BeginsHalfway
    <2>3. RightCall(push'[p], received'[p])
      BY <1>1, <2>1, <2>2 DEF RightCall
    <2> QED
      BY <1>1, <2>1, <2>3, OneCall
  <1>3. CASE push' = [push EXCEPT ![p].at = "panicked"]
    <2>1. /\ \A r \in Pushes : r # p => push'[r] = push[r]
          /\ push'[p].at = "panicked" /\ push'[p].md = push[p].md
      BY <1>3 DEF Shape
    <2>2. RightCall(push'[p], received'[p])
      BY <1>1, <2>1, EndsRight
    <2> QED
      BY <1>1, <2>1, <2>2, OneCall
  <1> QED
    BY <1>2, <1>3 DEF Convert

LEMMA AddSampleLabels ==
    ASSUME Shape, LabelsInv, NEW p \in Pushes, AddSample(p)
    PROVE  LabelsInv'
  <1> DEFINE c == push[p]
             s == Head(c.todo)
  <1>1. PICK q \in Sorted(s.labels) :
            push' = [push EXCEPT ![p].todo = Tail(@), ![p].tsMap = addSample(@, s, Listed(s.labels, q))]
    BY DEF AddSample, Listed
  <1>2. c.at = "convert" /\ c.todo # <<>> /\ received' = received /\ RightCall(c, received[p])
    BY DEF AddSample, LabelsInv
  <1> DEFINE more == addSample(c.tsMap, s, Listed(s.labels, q))
  <1>3. push' = [push EXCEPT ![p] = [push[p] EXCEPT !.todo = Tail(push[p].todo), !.tsMap = more]]
    BY <1>1 DEF Shape
  <1> HIDE DEF more
  <1>4. /\ \A r \in Pushes : r # p => push'[r] = push[r]
        /\ push'[p].at = c.at /\ push'[p].md = c.md /\ push'[p].todo = Tail(c.todo)
        /\ push'[p].tsMap = more
    BY <1>3 DEF Shape
  <1>5. c.md \in Payloads /\ Halfway(c)
    BY <1>2 DEF RightCall
  <1> HIDE DEF c
  <1>6. Halfway(push'[p])
    BY <1>2, <1>4, <1>5, GoesOnHalfway DEF more
  <1>7. RightCall(push'[p], received'[p])
    BY <1>2, <1>4, <1>5, <1>6 DEF RightCall
  <1> QED
    BY <1>2, <1>4, <1>7, OneCall

LEMMA ReturnLabels ==
    ASSUME Shape, LabelsInv, NEW p \in Pushes, NEW failed \in BOOLEAN, Exporting(p),
           Return(p, failed), Accept(p) \/ UNCHANGED received
    PROVE  LabelsInv'
  <1> DEFINE dropped == IF failed THEN Len(push[p].md) ELSE NotHandled(push[p].md)
             told == [dropped |-> dropped, err |-> dropped # 0]
  <1>1. push' = [push EXCEPT ![p].at = "returned", ![p].tsMap = NoMap, ![p].told = told]
    BY DEF Return
  <1> HIDE DEF told
  <1>2. /\ \A r \in Pushes : r # p => push'[r] = push[r]
        /\ push'[p].at = "returned" /\ push'[p].md = push[p].md
    BY <1>1 DEF Shape
  <1>3. push[p].at = "convert" /\ push[p].todo = <<>> /\ RightCall(push[p], received[p])
    BY DEF Exporting, LabelsInv
  <1>4. /\ \A r \in Pushes : r # p => received'[r] = received[r]
        /\ received'[p] = received[p] \/ received'[p] = Range(push[p].tsMap)
    BY DEF Accept, Shape
  <1>5. RightCall(push'[p], received'[p])
    BY <1>2, <1>3, <1>4, EndsRight
  <1> QED
    BY <1>2, <1>4, <1>5, OneCall

LEMMA FatalLabels ==
    ASSUME Shape, LabelsInv, NEW p \in Pushes, Exporting(p), Accept(p) \/ UNCHANGED received,
           UNCHANGED push
    PROVE  LabelsInv'
  <1>1. push[p].at = "convert" /\ push[p].todo = <<>> /\ RightCall(push[p], received[p])
    BY DEF Exporting, LabelsInv
  <1>2. push[p].md \in Payloads /\ Halfway(push[p])
    BY <1>1 DEF RightCall
  <1>3. RightSeries(push[p].md, Range(push[p].tsMap))
    BY <1>1, <1>2, EndsHalfway
  <1>4. /\ \A r \in Pushes : r # p => received'[r] = received[r]
        /\ received'[p] = received[p] \/ received'[p] = Range(push[p].tsMap)
    BY DEF Accept, Shape
  <1>5. RightCall(push'[p], received'[p])
    BY <1>1, <1>3, <1>4 DEF RightCall
  <1> QED
    BY <1>4, <1>5, OneCall

LEMMA NextLabels == IInv /\ LabelsInv /\ [Next]_vars => LabelsInv'
  <1> SUFFICES ASSUME IInv, LabelsInv, [Next]_vars
               PROVE  LabelsInv'
    OBVIOUS
  <1>0. Shape
    BY DEF IInv
  <1>1. CASE CloseChan \/ Wait \/ UNCHANGED vars
    <2>1. UNCHANGED <<push, received>>
      BY <1>1 DEF CloseChan, Wait, vars
    <2> QED
      BY <2>1 DEF LabelsInv
  <1>2. ASSUME NEW p \in Pushes, Enter(p) \/ Refuse(p) \/ Convert(p) \/ AddSample(p)
        PROVE  LabelsInv'
    BY <1>0, <1>2, EnterLabels, RefuseLabels, ConvertLabels, AddSampleLabels
  <1>3. ASSUME NEW p \in Pushes, ExportNothing(p) \/ SignFails(p)
        PROVE  LabelsInv'
    <2>1. Exporting(p) /\ Return(p, TRUE) /\ UNCHANGED received
      BY <1>3 DEF ExportNothing, SignFails
    <2> QED
      BY <1>0, <2>1, ReturnLabels
  <1>4. ASSUME NEW p \in Pushes, Answer(p)
        PROVE  LabelsInv'
    <2>1. Exporting(p) /\ (Accept(p) \/ UNCHANGED received) /\ (Return(p, FALSE) \/ Return(p, TRUE))
      BY <1>4 DEF Answer
    <2> QED
      BY <1>0, <2>1, ReturnLabels
  <1>5. ASSUME NEW p \in Pushes, NoAnswer(p)
        PROVE  LabelsInv'
    <2>1. Exporting(p) /\ (Accept(p) \/ UNCHANGED received)
      BY <1>5 DEF NoAnswer
    <2>2. CASE Return(p, TRUE)
      BY <1>0, <2>1, <2>2, ReturnLabels
    <2>3. CASE UNCHANGED push
      BY <1>0, <2>1, <2>3, FatalLabels
    <2> QED
      BY <1>5, <2>2, <2>3 DEF NoAnswer
  <1> QED
    BY <1>1, <1>2, <1>3, <1>4, <1>5 DEF Next

\* For any metrics, with any texts and any number of labels and points: what the endpoint
\* accepts of a call is every sample, once and in order, in the time series of its signature,
\* although the labels come from a map in any order and are sorted, joined into a signature
\* and looked up by it.  And where no text has a "-" in it and keys stay apart when they are
\* sanitized, signatures are injective: that is the time series of its type and labels.
THEOREM SamplesUnderTheirLabels == Spec => []UnderItsSignature
  <1>1. LabelsInv => UnderItsSignature
    BY DEF LabelsInv, RightCall, UnderItsSignature, RightSeries
  <1>2. Init => IInv /\ LabelsInv
    BY InitIInv, InitLabels
  <1>3. IInv /\ LabelsInv /\ [Next]_vars => IInv' /\ LabelsInv'
    BY NextIInv, NextLabels
  <1> QED
    BY <1>1, <1>2, <1>3, PTL DEF Spec
=============================================================================
