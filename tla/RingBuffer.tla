----------------------------- MODULE RingBuffer -----------------------------
(***************************************************************************)
(* processor/groupbytraceprocessor/ring_buffer.go: the bounded buffer of   *)
(* the trace IDs in flight, as operators on a record                       *)
(*                                                                         *)
(*    index      position of the last ID placed, -1 when there is none     *)
(*    ids        the slice: position -> ID, or NoTrace where it is nil     *)
(*    idToIndex  the map: ID -> position, or Absent where it has no entry  *)
(***************************************************************************)
EXTENDS Integers

CONSTANTS Traces,      \* trace IDs
          NumTraces,   \* Config.NumTraces: size of the ring
          NoTrace      \* the nil pdata.TraceID

\* size = 0 would make put divide by zero.
ASSUME RingAssumption == NumTraces \in Nat \ {0} /\ NoTrace \notin Traces

Positions == 0 .. NumTraces - 1
Absent == -1

NewRingBuffer ==
    [index     |-> -1,
     ids       |-> [p \in Positions |-> NoTrace],
     idToIndex |-> [t \in Traces |-> Absent]]

Contains(ring, t) == ring.idToIndex[t] # Absent

\* Mutant: the entry of the slice is cleared, the entry of the map stays.
DeleteSliceOnly(ring, t) ==
    IF Contains(ring, t)
    THEN [ring EXCEPT !.ids[ring.idToIndex[t]] = NoTrace]
    ELSE ring

Delete(ring, t) ==
    IF Contains(ring, t)
    THEN [ring EXCEPT !.idToIndex[t] = Absent,
                      !.ids[ring.idToIndex[t]] = NoTrace]
    ELSE ring

NextIndex(ring) == (ring.index + 1) % NumTraces

\* What put returns: the ID that has to make room, or NoTrace.
Evicted(ring) == ring.ids[NextIndex(ring)]

Put(ring, t) ==
    LET cleared == IF Evicted(ring) # NoTrace THEN Delete(ring, Evicted(ring)) ELSE ring
    IN  [cleared EXCEPT !.index = NextIndex(ring),
                        !.ids[NextIndex(ring)] = t,
                        !.idToIndex[t] = NextIndex(ring)]

RingType ==
    [index     : Positions \cup {-1},
     ids       : [Positions -> Traces \cup {NoTrace}],
     idToIndex : [Traces -> Positions \cup {Absent}]]

\* The map and the slice are inverse to each other: contains answers for
\* exactly the IDs that occupy a position, and no ID occupies two.
Consistent(ring) ==
    /\ \A t \in Traces : Contains(ring, t) => ring.ids[ring.idToIndex[t]] = t
    /\ \A p \in Positions : ring.ids[p] # NoTrace => ring.idToIndex[ring.ids[p]] = p
=============================================================================
