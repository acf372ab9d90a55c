--------------------------- MODULE ComponentProofs ---------------------------
(***************************************************************************)
(* Proofs about components that stand alone: the offsets of the Kafka      *)
(* receiver, for any set of partitions and any number of messages, starts, *)
(* rebalances and crashes; the filter processor, for any data, patterns    *)
(* and cache size; the actions on attributes, for any list of actions and  *)
(* any attributes; the streams of OpenCensus, for any calls, payloads and  *)
(* number of workers; the receiver for Fluent Forward, for any             *)
(* connections, events and length of its channel; and the subprocess of    *)
(* fluent bit, however often it ends.                                      *)
(***************************************************************************)
EXTENDS KafkaReceiver, FilterProcessor, AttributeActions, OpenCensusReceiver, FluentForward,
        FluentBit, SequenceTheorems, FiniteSetTheorems, WellFoundedInduction, TLAPS

(***************************************************************************)
(* The Kafka receiver.                                                     *)
(***************************************************************************)

Claims == [at : {"range", "handle", "ended"}, offset : Nat]

TypeOK ==
    /\ loop \in {"down", "join", "session", "ending", "returned", "panicked"}
    /\ claim \in [Partitions -> Claims]
    /\ marked \in [Partitions -> Nat]
    /\ committed \in [Partitions -> Nat]
    /\ delivered \in [Partitions -> [Offsets -> Nat]]
    /\ failed \in [Partitions -> SUBSET Offsets]
    /\ inHand \in [Partitions -> SUBSET Offsets]
    /\ dirty \in Nat

\* What became of a message that was marked.
Accounted(p, o) ==
    \/ delivered[p][o] > 0
    \/ o \in failed[p] \cup inHand[p]
    \/ claim[p].at = "handle" /\ claim[p].offset = o

\* Claims run in a session only; the marked offset is that of the message to be taken
\* next, or the one behind the message in hand.
ClaimsFollowMarks ==
    /\ loop \in {"down", "join", "returned", "panicked"} =>
          \A p \in Partitions : claim[p].at = "ended"
    /\ \A p \in Partitions : claim[p].at = "range" => marked[p] = claim[p].offset
    /\ \A p \in Partitions : claim[p].at = "handle" =>
          claim[p].offset \in Offsets /\ marked[p] = claim[p].offset + 1

\* Whatever could be committed is accounted for.
MarkedAccounted ==
    \A p \in Partitions, o \in Offsets :
        (o < marked[p] \/ o < committed[p]) => Accounted(p, o)

\* A message that this process may still pass on was passed on by crashed ones only.
NextIsNew ==
    \A p \in Partitions, o \in Offsets :
        /\ (loop \in {"session", "ending"} /\ o >= marked[p]) => delivered[p][o] <= dirty
        /\ (claim[p].at = "handle" /\ o = claim[p].offset) => delivered[p][o] <= dirty
        /\ (loop \notin {"session", "ending"} /\ o >= committed[p]) => delivered[p][o] <= dirty

IInv == TypeOK /\ ClaimsFollowMarks /\ MarkedAccounted

OnceInv == TypeOK /\ ClaimsFollowMarks /\ NextIsNew /\ RepeatedOnlyAfterCrash

-----------------------------------------------------------------------------

\* Every step of the loop, of the claims and of the environment keeps the types.
LEMMA TypeStep ==
    ASSUME MaxOffset \in Nat, TypeOK, ClaimsFollowMarks, [Next]_vars
    PROVE  TypeOK'
<1> USE DEF TypeOK, Claims
<1>1. CASE Start
  BY <1>1 DEF Start
<1>2. CASE Setup
  BY <1>2 DEF Setup, history
<1>3. CASE Rebalance
  BY <1>3 DEF Rebalance, history
<1>4. CASE SessionEnds
  BY <1>4 DEF SessionEnds, history
<1>5. CASE Shutdown
  BY <1>5 DEF Shutdown, history
<1>6. CASE JoinFails
  BY <1>6 DEF JoinFails, history
<1>7. CASE Crash
  BY <1>7 DEF Crash, NoClaim, ClaimsFollowMarks
<1>8. ASSUME NEW p \in Partitions, MarkMessage(p) PROVE TypeOK'
  BY <1>8 DEF MarkMessage, history
<1>9. ASSUME NEW p \in Partitions, Consume(p) PROVE TypeOK'
  <2>1. claim[p].offset \in Offsets
    BY <1>9 DEF Consume, ClaimsFollowMarks
  <2> QED BY <1>9, <2>1 DEF Consume
<1>10. ASSUME NEW p \in Partitions, ConsumeFails(p) PROVE TypeOK'
  <2>1. claim[p].offset \in Offsets
    BY <1>10 DEF ConsumeFails, ClaimsFollowMarks
  <2> QED BY <1>10, <2>1 DEF ConsumeFails
<1>11. ASSUME NEW p \in Partitions, RangeEnds(p) PROVE TypeOK'
  BY <1>11 DEF RangeEnds, history
<1>12. ASSUME NEW p \in Partitions, AutoCommit(p) PROVE TypeOK'
  BY <1>12 DEF AutoCommit, history
<1>13. CASE UNCHANGED vars
  BY <1>13 DEF vars
<1> QED
  BY <1>1, <1>2, <1>3, <1>4, <1>5, <1>6, <1>7, <1>8, <1>9, <1>10, <1>11, <1>12, <1>13
     DEF Next

\* A claim runs only in a session, and marks what it takes.
LEMMA ClaimsStep ==
    ASSUME MaxOffset \in Nat, TypeOK, ClaimsFollowMarks, [Next]_vars
    PROVE  ClaimsFollowMarks'
<1> USE DEF TypeOK, Claims, ClaimsFollowMarks, Offsets
<1>1. CASE Start
  BY <1>1 DEF Start
<1>2. CASE Setup
  BY <1>2 DEF Setup, history
<1>3. CASE Rebalance
  BY <1>3 DEF Rebalance, history
<1>4. CASE SessionEnds
  BY <1>4 DEF SessionEnds, history
<1>5. CASE Shutdown
  BY <1>5 DEF Shutdown, history
<1>6. CASE JoinFails
  BY <1>6 DEF JoinFails, history
<1>7. CASE Crash
  BY <1>7 DEF Crash, NoClaim
<1>8. ASSUME NEW p \in Partitions, MarkMessage(p) PROVE ClaimsFollowMarks'
  BY <1>8 DEF MarkMessage, history
<1>9. ASSUME NEW p \in Partitions, Consume(p) PROVE ClaimsFollowMarks'
  BY <1>9 DEF Consume
<1>10. ASSUME NEW p \in Partitions, ConsumeFails(p) PROVE ClaimsFollowMarks'
  BY <1>10 DEF ConsumeFails
<1>11. ASSUME NEW p \in Partitions, RangeEnds(p) PROVE ClaimsFollowMarks'
  BY <1>11 DEF RangeEnds, history
<1>12. ASSUME NEW p \in Partitions, AutoCommit(p) PROVE ClaimsFollowMarks'
  BY <1>12 DEF AutoCommit, history
<1>13. CASE UNCHANGED vars
  BY <1>13 DEF vars
<1> QED
  BY <1>1, <1>2, <1>3, <1>4, <1>5, <1>6, <1>7, <1>8,
     <1>9, <1>10, <1>11, <1>12, <1>13
     DEF Next

\* Marking, handling, failing and crashing keep account of every marked message.
LEMMA MarkedStep ==
    ASSUME MaxOffset \in Nat, TypeOK, ClaimsFollowMarks,
           MarkedAccounted, [Next]_vars
    PROVE  MarkedAccounted'
<1> USE DEF TypeOK, Claims, ClaimsFollowMarks, MarkedAccounted, Accounted, Offsets
<1>1. CASE Start
  BY <1>1 DEF Start
<1>2. CASE Setup
  BY <1>2 DEF Setup, history
<1>3. CASE Rebalance
  BY <1>3 DEF Rebalance, history
<1>4. CASE SessionEnds
  BY <1>4 DEF SessionEnds, history
<1>5. CASE Shutdown
  BY <1>5 DEF Shutdown, history
<1>6. CASE JoinFails
  BY <1>6 DEF JoinFails, history
<1>7. CASE Crash
  BY <1>7 DEF Crash, NoClaim
<1>8. ASSUME NEW p \in Partitions, MarkMessage(p) PROVE MarkedAccounted'
  BY <1>8 DEF MarkMessage, history
<1>9. ASSUME NEW p \in Partitions, Consume(p) PROVE MarkedAccounted'
  BY <1>9 DEF Consume
<1>10. ASSUME NEW p \in Partitions, ConsumeFails(p) PROVE MarkedAccounted'
  BY <1>10 DEF ConsumeFails
<1>11. ASSUME NEW p \in Partitions, RangeEnds(p) PROVE MarkedAccounted'
  BY <1>11 DEF RangeEnds, history
<1>12. ASSUME NEW p \in Partitions, AutoCommit(p) PROVE MarkedAccounted'
  BY <1>12 DEF AutoCommit, history
<1>13. CASE UNCHANGED vars
  BY <1>13 DEF vars
<1> QED
  BY <1>1, <1>2, <1>3, <1>4, <1>5, <1>6, <1>7, <1>8,
     <1>9, <1>10, <1>11, <1>12, <1>13
     DEF Next

\* Only a process that dies in a session leaves behind messages that it passed on and
\* that the next one passes on again.
LEMMA NewStep ==
    ASSUME MaxOffset \in Nat, TypeOK, ClaimsFollowMarks, NextIsNew,
           RepeatedOnlyAfterCrash, [Next]_vars
    PROVE  (NextIsNew /\ RepeatedOnlyAfterCrash)'
<1> USE DEF TypeOK, Claims, ClaimsFollowMarks, NextIsNew, RepeatedOnlyAfterCrash, Offsets
<1>1. CASE Start
  BY <1>1 DEF Start
<1>2. CASE Setup
  <2>1. UNCHANGED <<committed, delivered, dirty>> /\ loop = "join"
    BY <1>2 DEF Setup, history
  <2>2. \A q \in Partitions : claim'[q].at # "handle"
    BY <1>2 DEF Setup
  <2>3. loop' = "session" => marked' = committed
    BY <1>2 DEF Setup
  <2>4. loop' # "ending"
    BY <1>2 DEF Setup
  <2> QED BY <2>1, <2>2, <2>3, <2>4
<1>3. CASE Rebalance
  BY <1>3 DEF Rebalance, history
<1>4. CASE SessionEnds
  BY <1>4 DEF SessionEnds, history
<1>5. CASE Shutdown
  BY <1>5 DEF Shutdown, history
<1>6. CASE JoinFails
  BY <1>6 DEF JoinFails, history
<1>7. CASE Crash
  BY <1>7 DEF Crash, NoClaim
<1>8. ASSUME NEW p \in Partitions, MarkMessage(p) PROVE (NextIsNew /\ RepeatedOnlyAfterCrash)'
  <2>1. UNCHANGED <<loop, committed, delivered, dirty>> /\ loop \in {"session", "ending"}
    BY <1>8 DEF MarkMessage, history
  <2>2. /\ marked'[p] = claim[p].offset + 1 /\ marked[p] = claim[p].offset
        /\ \A q \in Partitions \ {p} : marked'[q] = marked[q] /\ claim'[q] = claim[q]
    BY <1>8 DEF MarkMessage
  <2>3. claim'[p].offset = claim[p].offset
    BY <1>8 DEF MarkMessage
  <2>5. SUFFICES ASSUME NEW q \in Partitions, NEW o \in Offsets
        PROVE  /\ (loop' \in {"session", "ending"} /\ o >= marked'[q]) => delivered'[q][o] <= dirty'
               /\ (claim'[q].at = "handle" /\ o = claim'[q].offset) => delivered'[q][o] <= dirty'
               /\ (loop' \notin {"session", "ending"} /\ o >= committed'[q]) =>
                     delivered'[q][o] <= dirty'
               /\ delivered'[q][o] <= 1 + dirty'
    BY Zenon DEF NextIsNew, RepeatedOnlyAfterCrash
  <2>6. delivered[q][o] \in Nat /\ dirty \in Nat /\ o \in Nat
    OBVIOUS
  <2>7. CASE q # p
    BY <2>1, <2>2, <2>7
  <2>8. CASE q = p
    BY <2>1, <2>2, <2>3, <2>6, <2>8
  <2> QED BY <2>7, <2>8
<1>9. ASSUME NEW p \in Partitions, Consume(p) PROVE (NextIsNew /\ RepeatedOnlyAfterCrash)'
  <2> DEFINE off == claim[p].offset
  <2>1. UNCHANGED <<loop, committed, marked, dirty>> /\ off \in Offsets
    BY <1>9 DEF Consume
  <2>2. claim'[p].at = "range" /\ marked[p] = off + 1 /\ loop \in {"session", "ending"}
    BY <1>9 DEF Consume
  <2>3. \A q \in Partitions \ {p} : claim'[q] = claim[q] /\ delivered'[q] = delivered[q]
    BY <1>9 DEF Consume
  <2>4. /\ delivered'[p][off] = delivered[p][off] + 1 /\ delivered[p][off] <= dirty
        /\ \A o \in Offsets \ {off} : delivered'[p][o] = delivered[p][o]
    BY <1>9, <2>1 DEF Consume
  <2>5. SUFFICES ASSUME NEW q \in Partitions, NEW o \in Offsets
        PROVE  /\ (loop' \in {"session", "ending"} /\ o >= marked'[q]) => delivered'[q][o] <= dirty'
               /\ (claim'[q].at = "handle" /\ o = claim'[q].offset) => delivered'[q][o] <= dirty'
               /\ (loop' \notin {"session", "ending"} /\ o >= committed'[q]) =>
                     delivered'[q][o] <= dirty'
               /\ delivered'[q][o] <= 1 + dirty'
    BY Zenon DEF NextIsNew, RepeatedOnlyAfterCrash
  <2>6. delivered[q][o] \in Nat /\ dirty \in Nat /\ o \in Nat
    OBVIOUS
  <2>7. CASE q # p
    BY <2>1, <2>3, <2>7
  <2>8. CASE q = p
    <3>1. delivered'[p][o] = IF o = off THEN delivered[p][off] + 1 ELSE delivered[p][o]
      BY <2>4
    <3>2. off \in Nat /\ (o >= marked'[p] => o # off) /\ committed'[p] = committed[p]
      BY <2>1, <2>2
    <3>3. (o >= marked[p] => delivered[p][o] <= dirty) /\ delivered[p][o] <= 1 + dirty
      BY <2>2
    <3> QED BY <2>1, <2>2, <2>4, <2>6, <2>8, <3>1, <3>2, <3>3
  <2> QED BY <2>7, <2>8
<1>10. ASSUME NEW p \in Partitions, ConsumeFails(p) PROVE (NextIsNew /\ RepeatedOnlyAfterCrash)'
  BY <1>10 DEF ConsumeFails
<1>11. ASSUME NEW p \in Partitions, RangeEnds(p) PROVE (NextIsNew /\ RepeatedOnlyAfterCrash)'
  BY <1>11 DEF RangeEnds, history
<1>12. ASSUME NEW p \in Partitions, AutoCommit(p) PROVE (NextIsNew /\ RepeatedOnlyAfterCrash)'
  BY <1>12 DEF AutoCommit, history
<1>13. CASE UNCHANGED vars
  BY <1>13 DEF vars
<1> QED
  BY <1>1, <1>2, <1>3, <1>4, <1>5, <1>6, <1>7, <1>8,
     <1>9, <1>10, <1>11, <1>12, <1>13
     DEF Next

\* The committed offset skips a message only when its handling failed or when it was in
\* hand as the process died: marking before handling costs one message, and no more.
THEOREM SkipsOnlyInHand ==
    ASSUME MaxOffset \in Nat PROVE Spec => []SkippedOnlyInHand
<1>1. Init => IInv
  BY DEF Init, IInv, TypeOK, Claims, NoClaim, ClaimsFollowMarks, MarkedAccounted, Offsets
<1>2. IInv /\ [Next]_vars => IInv'
  BY TypeStep, ClaimsStep, MarkedStep DEF IInv
<1>3. IInv => SkippedOnlyInHand
  BY DEF IInv, MarkedAccounted, Accounted, SkippedOnlyInHand
<1> QED
  BY <1>1, <1>2, <1>3, PTL DEF Spec

\* Sessions that end and begin again repeat no message: only processes that died in a
\* session, before SessionEnds committed their offsets, make a message be repeated.
THEOREM RepeatsOnlyAfterCrash ==
    ASSUME MaxOffset \in Nat PROVE Spec => []RepeatedOnlyAfterCrash
<1>1. Init => OnceInv
  BY DEF Init, OnceInv, TypeOK, Claims, NoClaim, ClaimsFollowMarks, NextIsNew,
         RepeatedOnlyAfterCrash, Offsets
<1>2. OnceInv /\ [Next]_vars => OnceInv'
  BY TypeStep, ClaimsStep, NewStep DEF OnceInv
<1>3. OnceInv => RepeatedOnlyAfterCrash
  BY DEF OnceInv
<1> QED
  BY <1>1, <1>2, <1>3, PTL DEF Spec

\* Whatever the number of partitions and messages and the order of sessions, crashes and
\* commits, the offsets skip and repeat only what was in hand.
THEOREM OffsetsStayRight ==
    ASSUME MaxOffset \in Nat PROVE Spec => []OffsetsRight
<1>1. SkippedOnlyInHand /\ RepeatedOnlyAfterCrash => OffsetsRight
  BY DEF OffsetsRight
<1> QED
  BY <1>1, SkipsOnlyInHand, RepeatsOnlyAfterCrash, PTL

(***************************************************************************)
(* Functions that are defined by recursion over 0..N.                      *)
(***************************************************************************)

\* Induction over the natural numbers, for a set instead of a predicate.
LEMMA SetInduction ==
    ASSUME NEW S, 0 \in S, \A n \in Nat : n \in S => n + 1 \in S
    PROVE  Nat \subseteq S
<1> DEFINE R == OpToRel(<, Nat)
           T == Nat \ S
<1>1. IsWellFoundedOn(R, Nat)
  BY NatLessThanWellFounded
<1>2. SUFFICES ASSUME T # {} PROVE FALSE
  OBVIOUS
<1>3. PICK x \in T : \A y \in T : ~(<<y, x>> \in R)
  <2>1. T \subseteq Nat
    OBVIOUS
  <2> HIDE DEF T, R
  <2> QED BY <1>1, <1>2, <2>1, WFMin
<1>4. x \in Nat /\ x # 0
  OBVIOUS
<1>5. x - 1 \in Nat /\ x - 1 < x /\ x - 1 + 1 = x
  BY <1>4
<1>6. <<x - 1, x>> \in R
  BY <1>4, <1>5 DEF OpToRel
<1>7. x - 1 \in S
  BY <1>3, <1>5, <1>6
<1> QED BY <1>5, <1>7

\* g is what the recursion computes on 0..n, from a with G.
Recursion(g, n, S, a, G) ==
    /\ g \in [0..n -> S]
    /\ g[0] = a
    /\ \A j \in 1..n : g[j] = G[j][g[j - 1]]

\* A recursion over 0..N has a result.
LEMMA RecursionExists ==
    ASSUME NEW N \in Nat, NEW S, NEW a \in S, NEW G \in [1..N -> [S -> S]]
    PROVE  \E g : Recursion(g, N, S, a, G)
<1> DEFINE P == {n \in Nat : n <= N => \E g : Recursion(g, n, S, a, G)}
<1>1. 0 \in P
  <2>1. Recursion([j \in 0..0 |-> a], 0, S, a, G)
    BY DEF Recursion
  <2> QED BY <2>1
<1>2. ASSUME NEW n \in Nat, n \in P PROVE n + 1 \in P
  <2>1. SUFFICES ASSUME n + 1 <= N PROVE \E g : Recursion(g, n + 1, S, a, G)
    OBVIOUS
  <2>2. PICK g : Recursion(g, n, S, a, G)
    BY <1>2, <2>1
  <2> DEFINE h == [j \in 0..(n + 1) |-> IF j = n + 1 THEN G[n + 1][g[n]] ELSE g[j]]
  <2>3. n + 1 \in 1..N /\ n \in 0..n /\ g[n] \in S /\ G[n + 1] \in [S -> S]
    BY <2>1, <2>2 DEF Recursion
  <2>4. h \in [0..(n + 1) -> S]
    BY <2>2, <2>3 DEF Recursion
  <2>5. h[0] = a
    BY <2>2 DEF Recursion
  <2>6. ASSUME NEW j \in 1..(n + 1) PROVE h[j] = G[j][h[j - 1]]
    <3>1. CASE j = n + 1
      BY <3>1
    <3>2. CASE j # n + 1
      <4>1. j \in 1..n /\ j - 1 \in 0..n /\ j - 1 # n + 1 /\ j \in 0..(n + 1) /\ j - 1 \in 0..(n + 1)
        BY <3>2
      <4> QED BY <3>2, <4>1, <2>2 DEF Recursion
    <3> QED BY <3>1, <3>2
  <2>7. Recursion(h, n + 1, S, a, G)
    BY <2>4, <2>5, <2>6 DEF Recursion
  <2> QED BY <2>7
<1>3. Nat \subseteq P
  <2> HIDE DEF P
  <2> QED BY <1>1, <1>2, SetInduction
<1> QED BY <1>3

\* The values of a function with that recursion are in S.
LEMMA RecursionTyped ==
    ASSUME NEW N \in Nat, NEW S, NEW f, f[0] \in S,
           \A n \in 1..N : f[n - 1] \in S => f[n] \in S
    PROVE  \A n \in 0..N : f[n] \in S
<1> DEFINE P == {n \in Nat : n <= N => f[n] \in S}
<1>1. 0 \in P
  OBVIOUS
<1>2. ASSUME NEW n \in Nat, n \in P PROVE n + 1 \in P
  <2>1. SUFFICES ASSUME n + 1 <= N PROVE f[n + 1] \in S
    OBVIOUS
  <2>2. n + 1 \in 1..N /\ (n + 1) - 1 = n /\ f[n] \in S
    BY <1>2, <2>1
  <2> QED BY <2>2
<1>3. Nat \subseteq P
  <2> HIDE DEF P
  <2> QED BY <1>1, <1>2, SetInduction
<1> QED BY <1>3

(***************************************************************************)
(* The filter processor.                                                   *)
(***************************************************************************)

\* What the recursion of KeptUpTo computes.
LEMMA KeptRecursion ==
    ASSUME NEW p, NEW metrics \in Seq(STRING)
    PROVE  /\ KeptUpTo(p, metrics) \in [0..Len(metrics) -> Seq(STRING)]
           /\ KeptUpTo(p, metrics)[0] = <<>>
           /\ \A n \in 1..Len(metrics) : KeptUpTo(p, metrics)[n] =
                IF Wanted(p, metrics[n]) THEN Append(KeptUpTo(p, metrics)[n - 1], metrics[n])
                ELSE KeptUpTo(p, metrics)[n - 1]
<1> DEFINE N == Len(metrics)
           S == Seq(STRING)
           G == [n \in 1..N |-> [q \in S |-> IF Wanted(p, metrics[n]) THEN Append(q, metrics[n]) ELSE q]]
           Body(f) == [n \in 0..N |->
                IF n = 0 THEN <<>>
                ELSE IF Wanted(p, metrics[n]) THEN Append(f[n - 1], metrics[n]) ELSE f[n - 1]]
<1>0. ASSUME NEW n \in 1..N, NEW q \in S
      PROVE  (IF Wanted(p, metrics[n]) THEN Append(q, metrics[n]) ELSE q) \in S
  <2>1. metrics[n] \in STRING
    OBVIOUS
  <2>2. Append(q, metrics[n]) \in S
    BY <2>1
  <2>3. CASE Wanted(p, metrics[n])
    BY <2>2, <2>3
  <2>4. CASE ~Wanted(p, metrics[n])
    BY <2>4
  <2> QED BY <2>3, <2>4
<1>1. N \in Nat /\ <<>> \in S /\ G \in [1..N -> [S -> S]]
  <2>1. N \in Nat /\ <<>> \in S
    OBVIOUS
  <2> HIDE DEF N, S
  <2> QED BY <1>0, <2>1
<1>2. PICK g : Recursion(g, N, S, <<>>, G)
  <2> HIDE DEF N, S, G
  <2> QED BY <1>1, RecursionExists
<1>3. g = Body(g)
  <2>1. g \in [0..N -> S] /\ g[0] = <<>>
    BY <1>2 DEF Recursion
  <2>2. ASSUME NEW n \in 1..N
        PROVE g[n] = IF Wanted(p, metrics[n]) THEN Append(g[n - 1], metrics[n]) ELSE g[n - 1]
    <3>1. g[n] = G[n][g[n - 1]] /\ n - 1 \in 0..N
      BY <1>2 DEF Recursion
    <3> QED BY <3>1, <2>1
  <2>3. ASSUME NEW n \in 0..N PROVE g[n] = Body(g)[n]
    <3>1. CASE n = 0
      BY <3>1, <2>1
    <3>2. CASE n # 0
      <4>1. n \in 1..N
        BY <3>2, <1>1
      <4> QED BY <3>2, <4>1, <2>2
    <3> QED BY <3>1, <3>2
  <2> QED BY <2>1, <2>3
<1>4. KeptUpTo(p, metrics) = CHOOSE f : f = Body(f)
  BY DEF KeptUpTo
<1> DEFINE f == KeptUpTo(p, metrics)
<1>5. f = Body(f)
  <2> HIDE DEF Body
  <2> QED BY <1>3, <1>4
<1>6. ASSUME NEW n \in 1..N
      PROVE  f[n] = IF Wanted(p, metrics[n]) THEN Append(f[n - 1], metrics[n]) ELSE f[n - 1]
  <2>1. Body(f)[n] = IF Wanted(p, metrics[n]) THEN Append(f[n - 1], metrics[n]) ELSE f[n - 1]
    BY <1>1
  <2> HIDE DEF Body, f
  <2> QED BY <2>1, <1>5
<1>7. f[0] = <<>>
  <2>1. Body(f)[0] = <<>>
    BY <1>1
  <2> HIDE DEF Body, f
  <2> QED BY <2>1, <1>5
<1>8. \A n \in 0..N : f[n] \in S
  <2>1. ASSUME NEW n \in 1..N, f[n - 1] \in S PROVE f[n] \in S
    <3> HIDE DEF f, N, S
    <3>1. f[n] = IF Wanted(p, metrics[n]) THEN Append(f[n - 1], metrics[n]) ELSE f[n - 1]
      BY <1>6
    <3> QED BY <3>1, <2>1, <1>0
  <2> HIDE DEF f, N, S
  <2> QED BY <2>1, <1>1, <1>7, RecursionTyped
<1>9. f = [n \in 0..N |-> f[n]]
  <2> HIDE DEF f
  <2> QED BY <1>5
<1> HIDE DEF f, Body, G
<1>10. f \in [0..N -> S]
  BY <1>8, <1>9
<1> QED BY <1>6, <1>7, <1>10 DEF f

-----------------------------------------------------------------------------
(* The caches. *)

Entries == [name : STRING, match : BOOLEAN]

\* A cache gives the answers of its matcher.
RightCache(m, c) ==
    /\ c \in Seq(Entries)
    /\ \A n \in DOMAIN c : c[n].match = (c[n].name \in m.names)
    /\ CacheSize > 0 => Len(c) <= CacheSize

\* A match, from the cache or not, is that of the pattern.
LEMMA MatchRight ==
    ASSUME NEW m \in Matchers, NEW c, RightCache(m, c), NEW name \in STRING
    PROVE  Matches(m, c, name) = (name \in m.names)
<1>1. CASE Cached(c, name)
  <2>1. Entry(c, name) \in DOMAIN c /\ c[Entry(c, name)].name = name
    BY <1>1 DEF Cached, Entry
  <2> QED BY <1>1, <2>1 DEF Matches, RightCache
<1>2. CASE ~Cached(c, name)
  BY <1>2 DEF Matches
<1> QED BY <1>1, <1>2

\* The cache of a matcher stays right, and within its size.
LEMMA AfterMatchRight ==
    ASSUME FilterAssumption, NEW m \in Matchers, NEW c, RightCache(m, c), NEW name \in STRING
    PROVE  RightCache(m, AfterMatch(m, c, name))
<1> DEFINE Good == {e \in Entries : e.match = (e.name \in m.names)}
           first == <<[name |-> name, match |-> Matches(m, c, name)]>>
           new == first \o Without(c, name)
<1>1. c \in Seq(Good)
  BY DEF RightCache
<1>2. Without(c, name) \in Seq(Good)
  <2>1. CASE Cached(c, name)
    <3>1. Entry(c, name) \in DOMAIN c
      BY <2>1 DEF Cached, Entry
    <3>2. Entry(c, name) \in 1..Len(c)
      BY <1>1, <3>1
    <3> HIDE DEF Good
    <3> DEFINE e == Entry(c, name)
    <3>8. Len(c) \in Nat
      BY <1>1
    <3>7. e \in 1..Len(c)
      BY <3>2
    <3> HIDE DEF e
    <3>6. e \in Int /\ 1 <= e /\ e <= Len(c) /\ Len(c) \in Nat
      BY <3>7, <3>8
    <3>3. SubSeq(c, 1, e - 1) \in Seq(Good)
      <4>1. \A n \in 1..(e - 1) : c[n] \in Good
        BY <1>1, <3>6
      <4> QED BY <4>1, <3>6, SubSeqProperties, 1 \in Int, e - 1 \in Int
    <3>4. SubSeq(c, e + 1, Len(c)) \in Seq(Good)
      <4>1. \A n \in (e + 1)..Len(c) : c[n] \in Good
        BY <1>1, <3>6
      <4> QED BY <4>1, <3>6, SubSeqProperties, e + 1 \in Int, Len(c) \in Int
    <3>5. SubSeq(c, 1, e - 1) \o SubSeq(c, e + 1, Len(c)) \in Seq(Good)
      BY <3>3, <3>4, ConcatProperties
    <3> QED BY <2>1, <3>5 DEF Without, e
  <2>2. CASE ~Cached(c, name)
    BY <1>1, <2>2 DEF Without
  <2> QED BY <2>1, <2>2
<1>3. first \in Seq(Good)
  <2>1. Matches(m, c, name) = (name \in m.names)
    BY MatchRight
  <2>2. [name |-> name, match |-> Matches(m, c, name)] \in Good
    BY <2>1 DEF Entries
  <2> HIDE DEF Good
  <2> QED BY <2>2
<1>4. new \in Seq(Good)
  <2> HIDE DEF Good, first
  <2> QED BY <1>2, <1>3, ConcatProperties
<1> HIDE DEF new
<1> DEFINE r == IF CacheSize > 0 /\ Len(new) > CacheSize THEN SubSeq(new, 1, CacheSize) ELSE new
<1>5. r \in Seq(Good) /\ (CacheSize > 0 => Len(r) <= CacheSize)
  <2>0. CacheSize \in Nat
    BY DEF FilterAssumption
  <2> HIDE DEF Good
  <2>1. CASE CacheSize > 0 /\ Len(new) > CacheSize
    <3>1. SubSeq(new, 1, CacheSize) \in Seq(Good) /\ Len(SubSeq(new, 1, CacheSize)) = CacheSize
      BY <1>4, <2>0, <2>1
    <3> QED BY <2>1, <3>1, <2>0
  <2>2. CASE ~(CacheSize > 0 /\ Len(new) > CacheSize)
    <3>1. Len(new) \in Nat
      BY <1>4
    <3> QED BY <1>4, <2>2, <2>0, <3>1
  <2> QED BY <2>1, <2>2
<1>6. AfterMatch(m, c, name) = r
  BY DEF AfterMatch, new
<1> HIDE DEF r
<1>7. r \in Seq(Entries) /\ \A n \in DOMAIN r : r[n].match = (r[n].name \in m.names)
  BY <1>5
<1> QED BY <1>5, <1>6, <1>7 DEF RightCache

-----------------------------------------------------------------------------
(* The invariant. *)

FilterTypeOK ==
    /\ input \in Seq(Seq(STRING)) /\ mds \in Seq(Seq(STRING))
    /\ at \in 0..Pipelines
    /\ nthData \in Nat /\ nthMetric \in Nat
    /\ found \in BOOLEAN
    /\ cache \in [1..Pipelines -> [include : Seq(Entries), exclude : Seq(Entries)]]
    /\ out \in [1..Pipelines -> [done : {"no", "skip", "yes"}, data : Seq(Seq(STRING))]]

RightCaches ==
    \A p \in 1..Pipelines :
        RightCache(Include[p], cache[p].include) /\ RightCache(Exclude[p], cache[p].exclude)

\* Where ProcessMetrics is: the MetricsData before nthData have been filtered, and of that
\* one the metrics before nthMetric.
Halfway ==
    /\ at > 0 /\ Filters(at)
    /\ Len(mds) = Len(input) /\ nthData <= Len(input) + 1
    /\ \A n \in DOMAIN input : mds[n] = IF n < nthData THEN Kept(at, input[n]) ELSE input[n]
    /\ IF nthData <= Len(input)
       THEN /\ nthMetric \in 1..(Len(input[nthData]) + 1)
            /\ keep = KeptUpTo(at, input[nthData])[nthMetric - 1]
       ELSE keep = <<>>
    /\ found <=> \/ keep # <<>>
                 \/ \E n \in DOMAIN input : n < nthData /\ Kept(at, input[n]) # <<>>

FilterInv ==
    /\ FilterTypeOK
    /\ RightCaches
    /\ object = input
    /\ nthData > 0 => Halfway
    /\ \A p \in 1..Pipelines : out[p].done # "no" => RightResult(p)

\* ShouldKeepMetric is what the filters say, with whatever is cached.
LEMMA KeepRight ==
    ASSUME FilterAssumption, RightCaches, NEW p \in 1..Pipelines, NEW name \in STRING
    PROVE  ShouldKeepMetric(p, name) = Wanted(p, name)
<1>1. Include[p] \in Matchers /\ Exclude[p] \in Matchers
  BY DEF FilterAssumption
<1>2. Matches(Include[p], cache[p].include, name) = (name \in Include[p].names)
  BY <1>1, MatchRight DEF RightCaches
<1>3. Matches(Exclude[p], cache[p].exclude, name) = (name \in Exclude[p].names)
  BY <1>1, MatchRight DEF RightCaches
<1> QED BY <1>2, <1>3 DEF ShouldKeepMetric, Wanted

\* The caches stay right.
LEMMA CachesStayRight ==
    ASSUME FilterAssumption, FilterTypeOK, RightCaches, NEW p \in 1..Pipelines, NEW name \in STRING,
           cache' = [cache EXCEPT ![p] = CachesAfter(p, name)]
    PROVE  /\ cache' \in [1..Pipelines -> [include : Seq(Entries), exclude : Seq(Entries)]]
           /\ RightCaches'
<1> DEFINE i == CachesAfter(p, name).include
           e == CachesAfter(p, name).exclude
<1>1. Include[p] \in Matchers /\ Exclude[p] \in Matchers
  BY DEF FilterAssumption
<1>2. RightCache(Include[p], cache[p].include) /\ RightCache(Exclude[p], cache[p].exclude)
  BY DEF RightCaches
<1>3. RightCache(Include[p], AfterMatch(Include[p], cache[p].include, name))
  BY <1>1, <1>2, AfterMatchRight
<1>4. RightCache(Exclude[p], AfterMatch(Exclude[p], cache[p].exclude, name))
  BY <1>1, <1>2, AfterMatchRight
<1>5. RightCache(Include[p], i) /\ RightCache(Exclude[p], e) /\ CachesAfter(p, name) = [include |-> i, exclude |-> e]
  BY <1>2, <1>3, <1>4 DEF CachesAfter
<1>6. i \in Seq(Entries) /\ e \in Seq(Entries)
  BY <1>5 DEF RightCache
<1> HIDE DEF i, e
<1>7. cache' = [cache EXCEPT ![p] = [include |-> i, exclude |-> e]]
  BY <1>5
<1>8. cache' \in [1..Pipelines -> [include : Seq(Entries), exclude : Seq(Entries)]]
  BY <1>6, <1>7 DEF FilterTypeOK
<1>9. ASSUME NEW q \in 1..Pipelines
      PROVE  RightCache(Include[q], cache'[q].include) /\ RightCache(Exclude[q], cache'[q].exclude)
  <2>1. CASE q = p
    <3>1. cache'[q] = [include |-> i, exclude |-> e]
      BY <1>7, <2>1 DEF FilterTypeOK
    <3> QED BY <3>1, <2>1, <1>5
  <2>2. CASE q # p
    <3>1. cache'[q] = cache[q]
      BY <1>7, <2>2 DEF FilterTypeOK
    <3> QED BY <3>1 DEF RightCaches
  <2> QED BY <2>1, <2>2
<1>10. RightCaches'
  BY <1>9 DEF RightCaches, RightCache
<1> QED BY <1>8, <1>10

\* Results that are there stay right while what was received stays.
LEMMA ResultsStay ==
    ASSUME FilterInv, input' = input, out' = out
    PROVE  \A p \in 1..Pipelines : out'[p].done # "no" => RightResult(p)'
BY DEF FilterInv, RightResult, Filters

\* The result of pipeline p is added to those of the others.
LEMMA ResultAdded ==
    ASSUME FilterInv, input' = input, NEW p \in 1..Pipelines, NEW r,
           r \in [done : {"no", "skip", "yes"}, data : Seq(Seq(STRING))],
           out' = [out EXCEPT ![p] = r],
           IF ~Filters(p) THEN r = [done |-> "yes", data |-> input]
           ELSE IF \A n \in DOMAIN input : Kept(p, input[n]) = <<>> THEN r.done = "skip"
           ELSE r = [done |-> "yes", data |-> [n \in DOMAIN input |-> Kept(p, input[n])]]
    PROVE  /\ out' \in [1..Pipelines -> [done : {"no", "skip", "yes"}, data : Seq(Seq(STRING))]]
           /\ \A q \in 1..Pipelines : out'[q].done # "no" => RightResult(q)'
<1>1. out \in [1..Pipelines -> [done : {"no", "skip", "yes"}, data : Seq(Seq(STRING))]]
  BY DEF FilterInv, FilterTypeOK
<1>2. out' \in [1..Pipelines -> [done : {"no", "skip", "yes"}, data : Seq(Seq(STRING))]]
  BY <1>1
<1>3. ASSUME NEW q \in 1..Pipelines, out'[q].done # "no" PROVE RightResult(q)'
  <2>1. CASE q = p
    <3>1. out'[p] = r
      BY <1>1
    <3> QED BY <3>1, <2>1 DEF RightResult, Filters
  <2>2. CASE q # p
    <3>1. out'[q] = out[q]
      BY <1>1, <2>2
    <3>2. RightResult(q)
      BY <1>3, <3>1 DEF FilterInv
    <3> QED BY <3>1, <3>2 DEF RightResult, Filters
  <2> QED BY <2>1, <2>2
<1> QED BY <1>2, <1>3

\* The connector goes on to a pipeline, or is done.
LEMMA GoesOn ==
    ASSUME FilterAssumption, at \in 1..Pipelines, CallNext(at)
    PROVE  at' \in 0..Pipelines
BY DEF FilterAssumption, CallNext

\* Data is received.
LEMMA ReceiveKeeps ==
    ASSUME FilterAssumption, FilterInv, NEW x \in Inputs, Receive(x)
    PROVE  FilterInv'
<1>1. x \in Seq(Seq(STRING)) /\ 1 \in 0..Pipelines
  BY DEF FilterAssumption
<1>2. out' \in [1..Pipelines -> [done : {"no", "skip", "yes"}, data : Seq(Seq(STRING))]]
  BY DEF Receive, NoCall
<1>3. FilterTypeOK'
  BY <1>1, <1>2 DEF FilterInv, FilterTypeOK, Receive
<1>4. RightCaches'
  BY DEF FilterInv, RightCaches, Receive
<1>5. \A p \in 1..Pipelines : out'[p].done = "no"
  BY DEF Receive, NoCall
<1>6. object' = input' /\ ~(nthData' > 0)
  BY DEF Receive
<1> QED BY <1>3, <1>4, <1>5, <1>6 DEF FilterInv

\* A pipeline without filter passes on what was received.
LEMMA PassOnKeeps ==
    ASSUME FilterAssumption, FilterInv, PassOn
    PROVE  FilterInv'
<1> DEFINE r == [done |-> "yes", data |-> object]
<1>1. at \in 1..Pipelines /\ ~Filters(at) /\ input' = input /\ out' = [out EXCEPT ![at] = r]
  BY DEF FilterInv, FilterTypeOK, PassOn, FilterAssumption
<1>2. r = [done |-> "yes", data |-> input] /\ r \in [done : {"no", "skip", "yes"}, data : Seq(Seq(STRING))]
  BY DEF FilterInv, FilterTypeOK
<1> HIDE DEF r
<1>3. /\ out' \in [1..Pipelines -> [done : {"no", "skip", "yes"}, data : Seq(Seq(STRING))]]
      /\ \A q \in 1..Pipelines : out'[q].done # "no" => RightResult(q)'
  BY <1>1, <1>2, ResultAdded
<1>4. at' \in 0..Pipelines
  BY <1>1, GoesOn DEF PassOn
<1>5. FilterTypeOK'
  BY <1>3, <1>4 DEF FilterInv, FilterTypeOK, PassOn
<1>6. RightCaches'
  BY DEF FilterInv, RightCaches, PassOn
<1>7. object' = input' /\ ~(nthData' > 0)
  BY DEF PassOn, FilterInv
<1> QED BY <1>3, <1>5, <1>6, <1>7 DEF FilterInv

\* ProcessMetrics begins, on data that is as received.
LEMMA BeginProcessKeeps ==
    ASSUME FilterAssumption, FilterInv, BeginProcess
    PROVE  FilterInv'
<1>1. at \in 1..Pipelines /\ Filters(at) /\ input' = input /\ out' = out /\ mds' = input
  BY DEF FilterInv, FilterTypeOK, BeginProcess, FilterAssumption
<1>2. FilterTypeOK'
  BY DEF FilterInv, FilterTypeOK, BeginProcess
<1>3. RightCaches'
  BY DEF FilterInv, RightCaches, BeginProcess
<1>4. Halfway'
  <2>1. input \in Seq(Seq(STRING)) /\ Len(input) \in Nat
    BY DEF FilterInv, FilterTypeOK
  <2>2. CASE 1 <= Len(input)
    <3>1. input[1] \in Seq(STRING)
      BY <2>1, <2>2
    <3>2. KeptUpTo(at, input[1])[0] = <<>> /\ 1 \in 1..(Len(input[1]) + 1)
      BY <3>1, KeptRecursion
    <3> QED BY <1>1, <2>1, <2>2, <3>2 DEF Halfway, BeginProcess, Filters
  <2>3. CASE ~(1 <= Len(input))
    BY <1>1, <2>1, <2>3 DEF Halfway, BeginProcess, Filters
  <2> QED BY <2>2, <2>3
<1>5. \A p \in 1..Pipelines : out'[p].done # "no" => RightResult(p)'
  BY <1>1, ResultsStay
<1>6. object' = input'
  BY DEF BeginProcess, FilterInv
<1> QED BY <1>2, <1>3, <1>4, <1>5, <1>6 DEF FilterInv

\* In the loops ProcessMetrics is halfway, at a MetricsData that is still as received.
LEMMA InTheLoop ==
    ASSUME FilterInv, at > 0, nthData \in DOMAIN mds
    PROVE  /\ Halfway
           /\ at \in 1..Pipelines
           /\ nthData \in DOMAIN input /\ nthData \in 1..Len(input)
           /\ mds[nthData] = input[nthData] /\ input[nthData] \in Seq(STRING)
<1>1. Halfway /\ nthData \in Nat /\ nthData > 0
  BY DEF FilterInv, FilterTypeOK
<1>2. nthData \in DOMAIN input /\ nthData \in 1..Len(input)
  BY <1>1 DEF FilterInv, FilterTypeOK, Halfway
<1>3. mds[nthData] = input[nthData]
  <2>1. ~(nthData < nthData)
    BY <1>1
  <2> QED BY <1>1, <1>2, <2>1 DEF Halfway
<1>4. input[nthData] \in Seq(STRING)
  <2> DEFINE S == Seq(STRING)
  <2>1. input \in Seq(S)
    BY DEF FilterInv, FilterTypeOK
  <2> HIDE DEF S
  <2>2. input[nthData] \in S
    BY <2>1, <1>2
  <2> QED BY <2>2 DEF S
<1> QED BY <1>1, <1>2, <1>3, <1>4 DEF FilterInv, FilterTypeOK

\* A metric is looked at, and kept if the filters want it.
LEMMA LookAtMetricKeeps ==
    ASSUME FilterAssumption, FilterInv, LookAtMetric
    PROVE  FilterInv'
<1> DEFINE name == mds[nthData][nthMetric]
           metrics == input[nthData]
<1>1. /\ Halfway /\ at \in 1..Pipelines
      /\ nthData \in DOMAIN input /\ nthData \in 1..Len(input)
      /\ mds[nthData] = metrics /\ metrics \in Seq(STRING)
  BY InTheLoop DEF LookAtMetric
<1>2. nthMetric \in 1..Len(metrics) /\ name = metrics[nthMetric] /\ name \in STRING
  BY <1>1 DEF LookAtMetric
<1>3. ShouldKeepMetric(at, name) = Wanted(at, name)
  BY <1>1, <1>2, KeepRight DEF FilterInv
<1>4. /\ cache' \in [1..Pipelines -> [include : Seq(Entries), exclude : Seq(Entries)]]
      /\ RightCaches'
  BY <1>1, <1>2, CachesStayRight DEF FilterInv, LookAtMetric
<1>5. /\ input' = input /\ object' = object /\ at' = at /\ mds' = mds /\ nthData' = nthData
      /\ out' = out /\ nthMetric' = nthMetric + 1
      /\ keep' = IF Wanted(at, name) THEN Append(keep, name) ELSE keep
      /\ found' = (found \/ Wanted(at, name))
  BY <1>3 DEF LookAtMetric
<1>6. FilterTypeOK'
  <2>1. found' \in BOOLEAN /\ nthMetric' \in Nat
    <3> HIDE DEF name
    <3> QED BY <1>5 DEF FilterInv, FilterTypeOK
  <2> QED BY <1>4, <1>5, <2>1 DEF FilterInv, FilterTypeOK
<1>7. keep = KeptUpTo(at, metrics)[nthMetric - 1] /\ keep \in Seq(STRING)
  <2>1. keep = KeptUpTo(at, metrics)[nthMetric - 1]
    BY <1>1 DEF Halfway
  <2>2. nthMetric - 1 \in 0..Len(metrics)
    BY <1>1, <1>2
  <2> HIDE DEF metrics
  <2> QED BY <2>1, <2>2, <1>1, KeptRecursion
<1>8. keep' = KeptUpTo(at, metrics)[nthMetric]
  <2> HIDE DEF metrics, name
  <2> QED BY <1>1, <1>2, <1>5, <1>7, KeptRecursion
<1>9. keep' # <<>> <=> (keep # <<>> \/ Wanted(at, name))
  <2> HIDE DEF name
  <2>1. CASE Wanted(at, name)
    <3>1. Append(keep, name) # <<>>
      BY <1>2, <1>7, AppendProperties
    <3> QED BY <2>1, <3>1, <1>5
  <2>2. CASE ~Wanted(at, name)
    BY <2>2, <1>5
  <2> QED BY <2>1, <2>2
<1>10. Halfway'
  <2>1. nthMetric + 1 \in 1..(Len(metrics) + 1) /\ (nthMetric + 1) - 1 = nthMetric
    BY <1>1, <1>2
  <2>2. found' <=> \/ keep' # <<>>
                   \/ \E n \in DOMAIN input : n < nthData /\ Kept(at, input[n]) # <<>>
    <3> HIDE DEF name
    <3> QED BY <1>1, <1>5, <1>9 DEF Halfway
  <2>3. nthMetric' \in 1..(Len(input'[nthData']) + 1) /\ keep' = KeptUpTo(at', input'[nthData'])[nthMetric' - 1]
    BY <1>5, <1>8, <2>1
  <2>4. nthData <= Len(input)
    BY <1>1 DEF FilterInv, FilterTypeOK
  <2>5. /\ at > 0 /\ Filters(at)
        /\ Len(mds) = Len(input) /\ nthData <= Len(input) + 1
        /\ \A n \in DOMAIN input : mds[n] = IF n < nthData THEN Kept(at, input[n]) ELSE input[n]
    BY <1>1 DEF Halfway
  <2> HIDE DEF name, metrics
  <2> QED BY <1>5, <2>2, <2>3, <2>4, <2>5 DEF Halfway, Filters
<1>11. \A p \in 1..Pipelines : out'[p].done # "no" => RightResult(p)'
  BY <1>5, ResultsStay
<1> QED BY <1>4, <1>5, <1>6, <1>10, <1>11 DEF FilterInv

\* The metrics that are kept replace those of the MetricsData.
LEMMA NextMetricsDataKeeps ==
    ASSUME FilterAssumption, ~OpenCensus, FilterInv, NextMetricsData
    PROVE  FilterInv'
<1> DEFINE metrics == input[nthData]
<1>1. /\ Halfway /\ at \in 1..Pipelines
      /\ nthData \in DOMAIN input /\ nthData \in 1..Len(input)
      /\ mds[nthData] = metrics /\ metrics \in Seq(STRING)
  BY InTheLoop DEF NextMetricsData
<1>2. /\ input' = input /\ object' = object /\ at' = at /\ out' = out /\ cache' = cache
      /\ found' = found /\ nthData' = nthData + 1 /\ nthMetric' = 1 /\ keep' = <<>>
      /\ mds' = [mds EXCEPT ![nthData] = keep]
  BY DEF NextMetricsData
<1>3. keep = Kept(at, metrics) /\ keep \in Seq(STRING)
  <2>1. nthMetric - 1 = Len(metrics)
    <3>1. nthMetric > Len(metrics) /\ Len(metrics) \in Nat /\ nthMetric \in Nat
      BY <1>1 DEF NextMetricsData, FilterInv, FilterTypeOK
    <3>2. nthData <= Len(input)
      BY <1>1 DEF FilterInv, FilterTypeOK
    <3>3. nthMetric \in 1..(Len(metrics) + 1)
      BY <1>1, <3>2 DEF Halfway
    <3> HIDE DEF metrics
    <3> QED BY <3>1, <3>3
  <2>2. keep = KeptUpTo(at, metrics)[nthMetric - 1]
    BY <1>1 DEF Halfway
  <2> HIDE DEF metrics
  <2>3. Len(metrics) \in 0..Len(metrics)
    BY <1>1
  <2> QED BY <1>1, <2>1, <2>2, <2>3, KeptRecursion DEF Kept
<1> HIDE DEF metrics
<1>4. mds \in Seq(Seq(STRING)) /\ input \in Seq(Seq(STRING)) /\ Len(mds) = Len(input)
  BY <1>1 DEF FilterInv, FilterTypeOK, Halfway
<1>5. mds' \in Seq(Seq(STRING)) /\ Len(mds') = Len(input)
  <2> DEFINE S == Seq(STRING)
  <2>1. mds \in Seq(S) /\ keep \in S /\ nthData \in 1..Len(mds)
    BY <1>1, <1>3, <1>4
  <2> HIDE DEF S
  <2>2. mds' \in Seq(S) /\ Len(mds') = Len(mds)
    BY <2>1, <1>2
  <2> QED BY <2>2, <1>4 DEF S
<1>6. FilterTypeOK'
  BY <1>2, <1>5 DEF FilterInv, FilterTypeOK
<1>7. RightCaches'
  BY <1>2 DEF FilterInv, RightCaches
<1>8. ASSUME NEW n \in DOMAIN input
      PROVE  mds'[n] = IF n < nthData + 1 THEN Kept(at, input[n]) ELSE input[n]
  <2>0. n \in Nat /\ nthData \in Nat /\ n \in DOMAIN mds
    BY <1>1, <1>4
  <2>1. CASE n = nthData
    <3>1. mds'[n] = keep
      BY <1>2, <2>0, <2>1
    <3> QED BY <3>1, <2>1, <2>0, <1>3 DEF metrics
  <2>2. CASE n # nthData
    <3>1. mds'[n] = mds[n]
      BY <1>2, <2>0, <2>2
    <3>2. mds[n] = IF n < nthData THEN Kept(at, input[n]) ELSE input[n]
      BY <1>1 DEF Halfway
    <3>3. n < nthData + 1 <=> n < nthData
      BY <2>0, <2>2
    <3> QED BY <3>1, <3>2, <3>3
  <2> QED BY <2>1, <2>2
<1>9. found <=> \E n \in DOMAIN input : n < nthData + 1 /\ Kept(at, input[n]) # <<>>
  <2>1. found <=> \/ Kept(at, input[nthData]) # <<>>
                  \/ \E n \in DOMAIN input : n < nthData /\ Kept(at, input[n]) # <<>>
    BY <1>1, <1>3 DEF Halfway, metrics
  <2>2. \A n \in DOMAIN input : n < nthData + 1 <=> (n < nthData \/ n = nthData)
    BY <1>1, <1>4
  <2> QED BY <2>1, <2>2, <1>1
<1>10. IF nthData + 1 <= Len(input)
       THEN /\ 1 \in 1..(Len(input[nthData + 1]) + 1)
            /\ <<>> = KeptUpTo(at, input[nthData + 1])[0]
       ELSE TRUE
  <2>1. CASE nthData + 1 <= Len(input)
    <3>1. input[nthData + 1] \in Seq(STRING)
      BY <2>1, <1>1, <1>4
    <3> QED BY <3>1, KeptRecursion, <2>1
  <2>2. CASE ~(nthData + 1 <= Len(input))
    BY <2>2
  <2> QED BY <2>1, <2>2
<1>11. Halfway'
  <2>1. Len(input) \in Nat /\ nthData + 1 <= Len(input) + 1
    BY <1>1, <1>4
  <2>2. at > 0 /\ Filters(at)
    BY <1>1 DEF Halfway
  <2> QED BY <1>2, <1>5, <1>8, <1>9, <1>10, <2>1, <2>2 DEF Halfway, Filters
<1>12. \A p \in 1..Pipelines : out'[p].done # "no" => RightResult(p)'
  BY <1>2, ResultsStay
<1> QED BY <1>2, <1>6, <1>7, <1>11, <1>12 DEF FilterInv

\* All MetricsData are filtered, and the result is right.
LEMMA EndProcessKeeps ==
    ASSUME FilterAssumption, FilterInv, EndProcess
    PROVE  FilterInv'
<1> DEFINE r == IF found THEN [done |-> "yes", data |-> mds] ELSE [done |-> "skip", data |-> <<>>]
<1>1. /\ at \in 1..Pipelines /\ Filters(at) /\ input' = input /\ object' = object /\ cache' = cache
      /\ out' = [out EXCEPT ![at] = r] /\ nthData' = 0
  BY DEF FilterInv, FilterTypeOK, EndProcess, FilterAssumption
<1>2. mds \in Seq(Seq(STRING)) /\ input \in Seq(Seq(STRING)) /\ found \in BOOLEAN
  BY DEF FilterInv, FilterTypeOK
<1>3. Halfway
  BY <1>2 DEF FilterInv, EndProcess
<1>4. /\ Len(mds) = Len(input) /\ keep = <<>>
      /\ \A n \in DOMAIN input : n < nthData
  BY <1>2, <1>3 DEF Halfway, EndProcess
<1>5. found <=> \E n \in DOMAIN input : Kept(at, input[n]) # <<>>
  BY <1>3, <1>4 DEF Halfway
<1>6. mds = [n \in DOMAIN input |-> Kept(at, input[n])]
  <2>1. \A n \in DOMAIN input : mds[n] = Kept(at, input[n])
    BY <1>3, <1>4 DEF Halfway
  <2>2. DOMAIN mds = DOMAIN input /\ mds = [n \in DOMAIN mds |-> mds[n]]
    BY <1>2, <1>4
  <2> QED BY <2>1, <2>2
<1>7. r \in [done : {"no", "skip", "yes"}, data : Seq(Seq(STRING))]
  BY <1>2
<1>8. IF \A n \in DOMAIN input : Kept(at, input[n]) = <<>> THEN r.done = "skip"
      ELSE r = [done |-> "yes", data |-> [n \in DOMAIN input |-> Kept(at, input[n])]]
  <2>1. CASE found
    BY <2>1, <1>5, <1>6
  <2>2. CASE ~found
    BY <2>2, <1>5
  <2> QED BY <2>1, <2>2
<1> HIDE DEF r
<1>9. /\ out' \in [1..Pipelines -> [done : {"no", "skip", "yes"}, data : Seq(Seq(STRING))]]
      /\ \A q \in 1..Pipelines : out'[q].done # "no" => RightResult(q)'
  BY <1>1, <1>7, <1>8, ResultAdded
<1>10. at' \in 0..Pipelines
  BY <1>1, GoesOn DEF EndProcess
<1>11. FilterTypeOK'
  BY <1>9, <1>10 DEF FilterInv, FilterTypeOK, EndProcess
<1>12. RightCaches'
  BY <1>1 DEF FilterInv, RightCaches
<1>13. object' = input' /\ ~(nthData' > 0)
  BY <1>1 DEF FilterInv
<1> QED BY <1>9, <1>11, <1>12, <1>13 DEF FilterInv

\* filterprocessor: whatever the caches hold, each pipeline passes on the metrics that its
\* filters name, in order, or skips the data if there are none, and no cache exceeds its
\* size: for any data, pipelines and patterns, on data that is converted.
THEOREM FiltersCorrect ==
    ASSUME ~OpenCensus
    PROVE  FilterSpec => []FilteredRight
<1> USE FilterAssumption
<1>1. FilterInit => FilterInv
  <2> SUFFICES ASSUME FilterInit PROVE FilterInv
    OBVIOUS
  <2>1. FilterTypeOK
    <3>1. 0 \in 0..Pipelines
      BY DEF FilterAssumption
    <3>2. cache \in [1..Pipelines -> [include : Seq(Entries), exclude : Seq(Entries)]]
      BY DEF FilterInit
    <3>3. out \in [1..Pipelines -> [done : {"no", "skip", "yes"}, data : Seq(Seq(STRING))]]
      BY DEF FilterInit, NoCall
    <3>4. input \in Seq(Seq(STRING)) /\ mds \in Seq(Seq(STRING))
      BY DEF FilterInit
    <3> QED BY <3>1, <3>2, <3>3, <3>4 DEF FilterInit, FilterTypeOK
  <2>2. RightCaches
    <3>1. CacheSize \in Nat
      BY DEF FilterAssumption
    <3>2. ASSUME NEW m PROVE RightCache(m, <<>>)
      BY <3>1 DEF RightCache
    <3> QED BY <3>2 DEF FilterInit, RightCaches
  <2>3. \A p \in 1..Pipelines : out[p].done = "no"
    BY DEF FilterInit, NoCall
  <2> QED BY <2>1, <2>2, <2>3 DEF FilterInit, FilterInv
<1>2. FilterInv /\ [FilterNext]_filterVars => FilterInv'
  <2> SUFFICES ASSUME FilterInv, [FilterNext]_filterVars PROVE FilterInv'
    OBVIOUS
  <2>1. ASSUME NEW x \in Inputs, Receive(x) PROVE FilterInv'
    BY <2>1, ReceiveKeeps
  <2>2. CASE PassOn
    BY <2>2, PassOnKeeps
  <2>3. CASE BeginProcess
    BY <2>3, BeginProcessKeeps
  <2>4. CASE LookAtMetric
    BY <2>4, LookAtMetricKeeps
  <2>5. CASE NextMetricsData
    BY <2>5, NextMetricsDataKeeps
  <2>6. CASE EndProcess
    BY <2>6, EndProcessKeeps
  <2>7. CASE UNCHANGED filterVars
    <3>1. \A p \in 1..Pipelines : out'[p].done # "no" => RightResult(p)'
      BY <2>7, ResultsStay DEF filterVars
    <3> QED BY <2>7, <3>1 DEF FilterInv, FilterTypeOK, RightCaches, Halfway, Filters, filterVars
  <2> QED BY <2>1, <2>2, <2>3, <2>4, <2>5, <2>6, <2>7 DEF FilterNext
<1>3. FilterInv => FilteredRight
  BY DEF FilterInv, FilteredRight, RightCaches, RightCache
<1> QED BY <1>1, <1>2, <1>3, PTL DEF FilterSpec

(***************************************************************************)
(* Actions on attributes.                                                  *)
(***************************************************************************)

(* AttributeMaps. *)

\* Sequences of attributes without a key twice.
AttrMaps ==
    {am \in Seq([key : Keys, ref : Nat]) : \A i, j \in DOMAIN am : am[i].key = am[j].key => i = j}

\* Position finds a key that is there.
LEMMA PositionFound ==
    ASSUME NEW am \in AttrMaps, NEW k, Has(am, k)
    PROVE  Position(am, k) \in DOMAIN am /\ am[Position(am, k)].key = k
<1>1. PICK i \in DOMAIN am : am[i].key = k
  BY DEF Has
<1>2. i \in 1..Len(am) /\ DOMAIN am = 1..Len(am)
  BY DEF AttrMaps
<1>3. \A j \in 1..(i - 1) : j \in DOMAIN am /\ j # i
  BY <1>2
<1>4. \A j \in 1..(i - 1) : am[j].key # k
  BY <1>1, <1>3 DEF AttrMaps
<1> QED BY <1>1, <1>4 DEF Position

\* u is am with the attribute of key k added or changed.
IsUpserted(u, am, k, ref) ==
    /\ u \in AttrMaps
    /\ {u[i].key : i \in DOMAIN u} = {am[i].key : i \in DOMAIN am} \cup {k}
    /\ \A i \in DOMAIN u :
          IF u[i].key = k THEN u[i].ref = ref ELSE i \in DOMAIN am /\ u[i] = am[i]

\* Upsert adds or changes the attribute of its key, and leaves the others as they are.
LEMMA Upserted ==
    ASSUME NEW am \in AttrMaps, NEW k \in Keys, NEW ref \in Nat
    PROVE  IsUpserted(Upsert(am, k, ref), am, k, ref)
<1> DEFINE E == [key : Keys, ref : Nat]
           e == [key |-> k, ref |-> ref]
           u == Upsert(am, k, ref)
<1>1. am \in Seq(E) /\ e \in E /\ DOMAIN am = 1..Len(am) /\ Len(am) \in Nat
  BY DEF AttrMaps
<1>2. e.key = k /\ e.ref = ref
  OBVIOUS
<1> HIDE DEF E, e
<1>3. CASE Has(am, k)
  <2> DEFINE p == Position(am, k)
  <2>1. p \in 1..Len(am) /\ am[p].key = k
    BY <1>1, <1>3, PositionFound
  <2>2. u = [am EXCEPT ![p] = e]
    BY <1>3 DEF Upsert, Update, e
  <2> HIDE DEF p, u
  <2>3. u \in Seq(E) /\ DOMAIN u = DOMAIN am /\ u[p] = e /\ \A i \in DOMAIN am : i # p => u[i] = am[i]
    BY <2>1, <2>2, <1>1
  <2>4. \A i \in DOMAIN am : u[i].key = am[i].key
    BY <2>3, <2>1, <1>2
  <2>5. \A i, j \in DOMAIN u : u[i].key = u[j].key => i = j
    BY <2>4, <2>3 DEF AttrMaps
  <2>6. {u[i].key : i \in DOMAIN u} = {am[i].key : i \in DOMAIN am} \cup {k}
    BY <2>4, <2>3, <2>1, <1>1
  <2>7. \A i \in DOMAIN u : IF u[i].key = k THEN u[i].ref = ref ELSE i \in DOMAIN am /\ u[i] = am[i]
    <3>1. \A i \in DOMAIN am : am[i].key = k => i = p
      BY <2>1, <1>1 DEF AttrMaps
    <3> QED BY <3>1, <2>3, <2>4, <1>2
  <2>8. u \in AttrMaps
    BY <2>3, <2>5 DEF AttrMaps, E
  <2> QED BY <2>6, <2>7, <2>8 DEF u, IsUpserted
<1>4. CASE ~Has(am, k)
  <2>2. u = Append(am, e)
    BY <1>4 DEF Upsert, Insert, e
  <2> HIDE DEF u
  <2>1. /\ u \in Seq(E) /\ DOMAIN u = 1..(Len(am) + 1) /\ u[Len(am) + 1] = e
        /\ \A i \in 1..Len(am) : u[i] = am[i]
    BY <2>2, <1>1, AppendProperties
  <2>3. \A i \in DOMAIN am : am[i].key # k
    BY <1>4 DEF Has
  <2>4. \A i \in DOMAIN u : i \in DOMAIN am \/ i = Len(am) + 1
    BY <2>1, <1>1
  <2>5. \A i, j \in DOMAIN u : u[i].key = u[j].key => i = j
    BY <2>1, <2>3, <2>4, <1>1, <1>2 DEF AttrMaps
  <2>6. {u[i].key : i \in DOMAIN u} = {am[i].key : i \in DOMAIN am} \cup {k}
    <3>1. DOMAIN u = DOMAIN am \cup {Len(am) + 1}
      BY <2>1, <1>1
    <3> QED BY <2>1, <3>1, <1>1, <1>2
  <2>7. \A i \in DOMAIN u : IF u[i].key = k THEN u[i].ref = ref ELSE i \in DOMAIN am /\ u[i] = am[i]
    BY <2>1, <2>3, <2>4, <1>1, <1>2
  <2>8. u \in AttrMaps
    BY <2>1, <2>5 DEF AttrMaps, E
  <2> QED BY <2>6, <2>7, <2>8 DEF u, IsUpserted
<1> QED BY <1>3, <1>4

\* Delete removes the attribute of its key, and no other.
LEMMA Deleted ==
    ASSUME NEW am \in AttrMaps, NEW k \in Keys
    PROVE  /\ Delete(am, k) \in AttrMaps
           /\ {Delete(am, k)[i].key : i \in DOMAIN Delete(am, k)} = {am[i].key : i \in DOMAIN am} \ {k}
           /\ \A i \in DOMAIN Delete(am, k) : \E j \in DOMAIN am : Delete(am, k)[i] = am[j]
<1> DEFINE E == [key : Keys, ref : Nat]
           u == Delete(am, k)
<1>1. am \in Seq(E) /\ DOMAIN am = 1..Len(am) /\ Len(am) \in Nat
  BY DEF AttrMaps
<1> HIDE DEF E
<1>2. CASE Has(am, k)
  <2> DEFINE p == Position(am, k)
             L == Len(am)
             w == [am EXCEPT ![p] = am[L]]
  <2>1. p \in 1..L /\ am[p].key = k
    BY <1>1, <1>2, PositionFound
  <2>2. u = SubSeq(w, 1, L - 1)
    BY <1>2 DEF Delete
  <2>0. L \in Nat /\ DOMAIN am = 1..L
    BY <1>1
  <2> HIDE DEF p, u, L
  <2>3. \A i \in 1..L : w[i] = IF i = p THEN am[L] ELSE am[i]
    BY <2>0, <2>1
  <2>4. \A i \in 1..L : am[i] \in E
    BY <1>1, <2>0
  <2>5. L \in 1..L
    BY <2>0, <2>1
  <2>6. \A i \in 1..(L - 1) : w[i] \in E
    BY <2>0, <2>3, <2>4, <2>5
  <2> HIDE DEF w
  <2>7. /\ u \in Seq(E) /\ Len(u) = L - 1
        /\ \A i \in 1..(L - 1) : u[i] = w[i]
    <3>1. 1 \in Int /\ L - 1 \in Int
      BY <2>0
    <3>2. /\ SubSeq(w, 1, L - 1) \in Seq(E)
          /\ Len(SubSeq(w, 1, L - 1)) = IF 1 <= L - 1 THEN L - 1 - 1 + 1 ELSE 0
          /\ \A i \in 1..(L - 1 - 1 + 1) : SubSeq(w, 1, L - 1)[i] = w[1 + i - 1]
      BY <2>6, <3>1, SubSeqProperties
    <3> QED BY <3>2, <2>2, <2>0, <2>5
  <2>8. DOMAIN u = 1..(L - 1) /\ \A i \in 1..(L - 1) : u[i] = IF i = p THEN am[L] ELSE am[i]
    BY <2>7, <2>3, <2>0
  <2> DEFINE from(i) == IF i = p THEN L ELSE i
  <2>9. /\ \A i \in 1..(L - 1) : from(i) \in 1..L /\ from(i) # p /\ u[i] = am[from(i)]
        /\ \A i, j \in 1..(L - 1) : from(i) = from(j) => i = j
        /\ \A j \in 1..L : j # p => \E i \in 1..(L - 1) : from(i) = j
    <3>1. \A i \in 1..(L - 1) : i \in 1..L /\ i # L
      BY <2>0
    <3>2. ASSUME NEW j \in 1..L, j # p PROVE \E i \in 1..(L - 1) : from(i) = j
      <4>1. CASE j = L
        BY <4>1, <3>2, <2>1, <2>0
      <4>2. CASE j # L
        BY <4>2, <3>2, <2>0
      <4> QED BY <4>1, <4>2
    <3> QED BY <2>8, <3>1, <3>2, <2>5, <2>1
  <2> HIDE DEF from
  <2>10. \A i, j \in 1..L : am[i].key = am[j].key => i = j
    BY <2>0 DEF AttrMaps
  <2>11. u \in AttrMaps
    <3>1. \A i, j \in DOMAIN u : u[i].key = u[j].key => i = j
      BY <2>8, <2>9, <2>10
    <3> QED BY <3>1, <2>7 DEF AttrMaps, E
  <2>12. {u[i].key : i \in DOMAIN u} = {am[i].key : i \in DOMAIN am} \ {k}
    <3>1. \A j \in 1..L : j # p <=> am[j].key # k
      BY <2>1, <2>10
    <3>2. \A i \in DOMAIN u : u[i].key \in {am[j].key : j \in DOMAIN am} \ {k}
      BY <2>8, <2>9, <3>1, <2>0
    <3>3. ASSUME NEW j \in DOMAIN am, am[j].key # k PROVE am[j].key \in {u[i].key : i \in DOMAIN u}
      <4>1. PICK i \in 1..(L - 1) : from(i) = j
        BY <2>9, <3>1, <3>3, <2>0
      <4> QED BY <4>1, <2>9, <2>8
    <3> QED BY <3>2, <3>3
  <2>13. \A i \in DOMAIN u : \E j \in DOMAIN am : u[i] = am[j]
    BY <2>8, <2>9, <2>0
  <2> QED BY <2>11, <2>12, <2>13 DEF u
<1>3. CASE ~Has(am, k)
  <2>1. u = am
    BY <1>3 DEF Delete
  <2> HIDE DEF u
  <2>2. \A i \in DOMAIN am : am[i].key # k
    BY <1>3 DEF Has
  <2> QED BY <2>1, <2>2 DEF u
<1> QED BY <1>2, <1>3

-----------------------------------------------------------------------------
(* AttributeMaps and the functions that they stand for. *)

\* am refers to values of h, and stands for f.
Holds(am, h, f) ==
    /\ am \in AttrMaps
    /\ \A i \in DOMAIN am : am[i].ref \in 1..Len(h)
    /\ Represents(am, h, f)

\* g is h with further values.
Longer(h, g) ==
    /\ h \in Seq(Values) /\ g \in Seq(Values)
    /\ Len(h) <= Len(g)
    /\ \A r \in 1..Len(h) : g[r] = h[r]

\* Further values do not matter.
LEMMA HoldsLonger ==
    ASSUME NEW am, NEW h, NEW g, NEW f, Holds(am, h, f), Longer(h, g)
    PROVE  Holds(am, g, f)
<1>1. Len(h) \in Nat /\ Len(g) \in Nat /\ Len(h) <= Len(g)
  BY DEF Longer
<1>2. \A i \in DOMAIN am : am[i].ref \in 1..Len(g) /\ g[am[i].ref] = h[am[i].ref]
  <2>1. \A r \in 1..Len(h) : r \in 1..Len(g)
    BY <1>1
  <2> QED BY <2>1 DEF Holds, Longer
<1> QED BY <1>2 DEF Holds, Represents

\* Nor does it matter how the function is written.
LEMMA HoldsSame ==
    ASSUME NEW am, NEW h, NEW f, NEW g, Holds(am, h, f),
           DOMAIN g = DOMAIN f, \A x \in DOMAIN f : g[x] = f[x]
    PROVE  Holds(am, h, g)
<1>1. \A i \in DOMAIN am : am[i].key \in DOMAIN f
  BY DEF Holds, Represents
<1> QED BY <1>1 DEF Holds, Represents

\* Get returns the value of the function.
LEMMA HoldsGet ==
    ASSUME NEW am, NEW h, NEW f, Holds(am, h, f), NEW k
    PROVE  /\ Has(am, k) <=> k \in DOMAIN f
           /\ Has(am, k) => Get(am, k) \in 1..Len(h) /\ h[Get(am, k)] = f[k]
<1>1. Has(am, k) <=> k \in DOMAIN f
  BY DEF Holds, Represents, Has
<1>2. ASSUME Has(am, k) PROVE Get(am, k) \in 1..Len(h) /\ h[Get(am, k)] = f[k]
  <2>1. Position(am, k) \in DOMAIN am /\ am[Position(am, k)].key = k
    BY <1>2, PositionFound DEF Holds
  <2> QED BY <2>1 DEF Get, Holds, Represents
<1> QED BY <1>1, <1>2

\* Upsert sets the value of a key.
LEMMA HoldsUpsert ==
    ASSUME NEW am, NEW h, NEW f, Holds(am, h, f), NEW k \in Keys,
           Len(h) \in Nat, NEW ref \in 1..Len(h)
    PROVE  Holds(Upsert(am, k, ref), h, With(f, k, h[ref]))
<1> DEFINE u == Upsert(am, k, ref)
           g == With(f, k, h[ref])
<1>1. am \in AttrMaps /\ ref \in Nat
  BY DEF Holds
<1>2. IsUpserted(u, am, k, ref)
  BY <1>1, Upserted
<1>3. DOMAIN g = DOMAIN f \cup {k} /\ g[k] = h[ref] /\ \A x \in DOMAIN f : x # k => g[x] = f[x]
  BY DEF With
<1> HIDE DEF u, g
<1>4. {u[i].key : i \in DOMAIN u} = DOMAIN g
  BY <1>2, <1>3 DEF Holds, Represents, IsUpserted
<1>5. \A i \in DOMAIN am : am[i].key \in DOMAIN f
  BY DEF Holds, Represents
<1>6. \A i \in DOMAIN u : u[i].ref \in 1..Len(h) /\ h[u[i].ref] = g[u[i].key]
  <2> TAKE i \in DOMAIN u
  <2>1. CASE u[i].key = k
    BY <2>1, <1>2, <1>3 DEF IsUpserted
  <2>2. CASE u[i].key # k
    <3>1. i \in DOMAIN am /\ u[i] = am[i]
      BY <2>2, <1>2 DEF IsUpserted
    <3>2. am[i].ref \in 1..Len(h) /\ h[am[i].ref] = f[am[i].key]
      BY <3>1 DEF Holds, Represents
    <3>3. g[am[i].key] = f[am[i].key]
      BY <2>2, <3>1, <1>3, <1>5
    <3> QED BY <3>1, <3>2, <3>3
  <2> QED BY <2>1, <2>2
<1>7. \A i, j \in DOMAIN u : u[i].key = u[j].key => i = j
  BY <1>2 DEF AttrMaps, IsUpserted
<1>8. Holds(u, h, g)
  BY <1>2, <1>4, <1>6, <1>7 DEF Holds, Represents, IsUpserted
<1> QED BY <1>8 DEF u, g

\* Delete takes a key away.
LEMMA HoldsDelete ==
    ASSUME NEW am, NEW h, NEW f, Holds(am, h, f), NEW k \in Keys
    PROVE  Holds(Delete(am, k), h, Less(f, k))
<1> DEFINE u == Delete(am, k)
           g == Less(f, k)
<1>1. am \in AttrMaps
  BY DEF Holds
<1>2. /\ u \in AttrMaps
      /\ {u[i].key : i \in DOMAIN u} = {am[i].key : i \in DOMAIN am} \ {k}
      /\ \A i \in DOMAIN u : \E j \in DOMAIN am : u[i] = am[j]
  BY <1>1, Deleted
<1>3. DOMAIN g = DOMAIN f \ {k} /\ \A x \in DOMAIN g : g[x] = f[x]
  BY DEF Less
<1> HIDE DEF u, g
<1>4. {u[i].key : i \in DOMAIN u} = DOMAIN g
  BY <1>2, <1>3 DEF Holds, Represents
<1>5. \A i \in DOMAIN u : u[i].ref \in 1..Len(h) /\ h[u[i].ref] = g[u[i].key]
  <2> TAKE i \in DOMAIN u
  <2>1. PICK j \in DOMAIN am : u[i] = am[j]
    BY <1>2
  <2>2. am[j].ref \in 1..Len(h) /\ h[am[j].ref] = f[am[j].key]
    BY DEF Holds, Represents
  <2>3. u[i].key \in DOMAIN g
    BY <1>4
  <2> QED BY <2>1, <2>2, <2>3, <1>3
<1>6. \A i, j \in DOMAIN u : u[i].key = u[j].key => i = j
  BY <1>2 DEF AttrMaps
<1>7. Holds(u, h, g)
  BY <1>2, <1>4, <1>5, <1>6 DEF Holds, Represents
<1> QED BY <1>7 DEF u, g

-----------------------------------------------------------------------------
(* The groups of a pattern. *)

\* What the recursion of UpsertedUpTo computes.
LEMMA UpsertRecursion ==
    ASSUME NEW am \in AttrMaps, NEW names \in Seq(Keys), NEW base \in Nat
    PROVE  /\ UpsertedUpTo(am, names, base)[0] = am
           /\ \A n \in 1..Len(names) : UpsertedUpTo(am, names, base)[n] =
                Upsert(UpsertedUpTo(am, names, base)[n - 1], names[n], base + n)
<1> DEFINE N == Len(names)
           G == [n \in 1..N |-> [q \in AttrMaps |-> Upsert(q, names[n], base + n)]]
           Body(f) == [n \in 0..N |-> IF n = 0 THEN am ELSE Upsert(f[n - 1], names[n], base + n)]
<1>1. N \in Nat /\ \A n \in 1..N : names[n] \in Keys /\ base + n \in Nat
  OBVIOUS
<1>2. G \in [1..N -> [AttrMaps -> AttrMaps]]
  <2> HIDE DEF N
  <2>1. ASSUME NEW n \in 1..N, NEW q \in AttrMaps PROVE Upsert(q, names[n], base + n) \in AttrMaps
    BY <1>1, Upserted DEF IsUpserted
  <2> QED BY <2>1
<1> HIDE DEF N
<1>3. PICK g : Recursion(g, N, AttrMaps, am, G)
  <2> HIDE DEF G
  <2> QED BY <1>1, <1>2, RecursionExists
<1>4. g = Body(g)
  <2>1. g \in [0..N -> AttrMaps] /\ g[0] = am
    BY <1>3 DEF Recursion
  <2>2. ASSUME NEW n \in 1..N PROVE g[n] = Upsert(g[n - 1], names[n], base + n)
    <3>1. g[n] = G[n][g[n - 1]] /\ n - 1 \in 0..N
      BY <1>1, <1>3 DEF Recursion
    <3> QED BY <3>1, <2>1
  <2>3. ASSUME NEW n \in 0..N PROVE g[n] = Body(g)[n]
    <3>1. CASE n = 0
      BY <3>1, <2>1
    <3>2. CASE n # 0
      <4>1. n \in 1..N
        BY <3>2, <1>1
      <4> QED BY <3>2, <4>1, <2>2
    <3> QED BY <3>1, <3>2
  <2> QED BY <2>1, <2>3
<1>5. UpsertedUpTo(am, names, base) = CHOOSE f : f = Body(f)
  BY DEF UpsertedUpTo, N
<1> DEFINE f == UpsertedUpTo(am, names, base)
<1>6. f = Body(f)
  <2> HIDE DEF Body
  <2> QED BY <1>4, <1>5
<1>7. Body(f)[0] = am /\ \A n \in 1..N : Body(f)[n] = Upsert(f[n - 1], names[n], base + n)
  <2> HIDE DEF f
  <2> QED BY <1>1
<1> HIDE DEF Body, f
<1>8. f[0] = am /\ \A n \in 1..N : f[n] = Upsert(f[n - 1], names[n], base + n)
  BY <1>6, <1>7
<1> QED BY <1>8 DEF f, N

\* One more group is one more key set.
LEMMA OneMoreGroup ==
    ASSUME NEW f, NEW v, NEW names, NEW n \in Nat \ {0}, NEW x
    PROVE  /\ DOMAIN WithGroups(f, v, names, n) = DOMAIN With(WithGroups(f, v, names, n - 1), names[n], Group(v, n))
           /\ x \in DOMAIN WithGroups(f, v, names, n) =>
                WithGroups(f, v, names, n)[x] = With(WithGroups(f, v, names, n - 1), names[n], Group(v, n))[x]
<1> DEFINE m == n - 1
           a == WithGroups(f, v, names, m)
           last(k) == CHOOSE i \in 1..k : names[i] = x /\ \A j \in (i + 1)..k : names[j] # x
<1>1. m \in Nat /\ n = m + 1 /\ n \in 1..n
  OBVIOUS
<1>2. 1..n = 1..m \cup {n}
  BY <1>1
<1>3. DOMAIN a = DOMAIN f \cup {names[i] : i \in 1..m}
  BY DEF WithGroups
<1>4. DOMAIN WithGroups(f, v, names, n) = DOMAIN f \cup {names[i] : i \in 1..n}
  BY DEF WithGroups
<1>5. DOMAIN With(a, names[n], Group(v, n)) = DOMAIN a \cup {names[n]}
  BY DEF With
<1>6. DOMAIN WithGroups(f, v, names, n) = DOMAIN With(a, names[n], Group(v, n))
  BY <1>2, <1>3, <1>4, <1>5
<1>7. ASSUME x \in DOMAIN WithGroups(f, v, names, n)
      PROVE  WithGroups(f, v, names, n)[x] = With(a, names[n], Group(v, n))[x]
  <2>1. WithGroups(f, v, names, n)[x] = IF \E i \in 1..n : names[i] = x THEN Group(v, last(n)) ELSE f[x]
    BY <1>7, <1>4 DEF WithGroups
  <2>2. CASE names[n] = x
    <3>1. \A i \in 1..n : (names[i] = x /\ \A j \in (i + 1)..n : names[j] # x) <=> i = n
      BY <2>2, <1>1
    <3>2. last(n) = n
      BY <3>1, <1>1
    <3>3. With(a, names[n], Group(v, n))[x] = Group(v, n)
      BY <2>2 DEF With
    <3> HIDE DEF last
    <3> QED BY <2>1, <2>2, <3>2, <3>3, <1>1
  <2>3. CASE names[n] # x
    <3>1. x \in DOMAIN a
      BY <2>3, <1>7, <1>5, <1>6
    <3>2. With(a, names[n], Group(v, n))[x] = a[x]
      BY <2>3, <3>1 DEF With
    <3>3. a[x] = IF \E i \in 1..m : names[i] = x THEN Group(v, last(m)) ELSE f[x]
      BY <3>1, <1>3 DEF WithGroups
    <3>4. (\E i \in 1..m : names[i] = x) <=> (\E i \in 1..n : names[i] = x)
      BY <2>3, <1>2
    <3>5. \A i : (i \in 1..m /\ names[i] = x /\ \A j \in (i + 1)..m : names[j] # x)
             <=> (i \in 1..n /\ names[i] = x /\ \A j \in (i + 1)..n : names[j] # x)
      <4>1. \A i \in 1..m : \A j : j \in (i + 1)..n <=> (j \in (i + 1)..m \/ j = n)
        BY <1>1
      <4> QED BY <4>1, <2>3, <1>2
    <3>6. last(m) = last(n)
      BY <3>5
    <3> HIDE DEF last
    <3> QED BY <2>1, <3>2, <3>3, <3>4, <3>6
  <2> QED BY <2>2, <2>3
<1> QED BY <1>6, <1>7

\* extractAttributes sets the keys of the groups.
LEMMA HoldsExtracted ==
    ASSUME NEW am, NEW h, NEW g, NEW f, NEW v, NEW names \in Seq(Keys), Holds(am, h, f), Longer(h, g),
           Len(g) = Len(h) + Len(names), \A n \in 1..Len(names) : g[Len(h) + n] = Group(v, n)
    PROVE  Holds(Extracted(am, names, Len(h)), g, WithGroups(f, v, names, Len(names)))
<1> DEFINE base == Len(h)
           N == Len(names)
           u == UpsertedUpTo(am, names, base)
           P == {n \in Nat : n <= N => Holds(u[n], g, WithGroups(f, v, names, n))}
<1>1. base \in Nat /\ N \in Nat /\ am \in AttrMaps /\ Len(g) = base + N
  BY DEF Longer, Holds
<1>2. u[0] = am /\ \A n \in 1..N : u[n] = Upsert(u[n - 1], names[n], base + n)
  BY <1>1, UpsertRecursion
<1>3. \A n \in 1..N : names[n] \in Keys
  OBVIOUS
<1>4. \A n \in 1..N : g[base + n] = Group(v, n)
  OBVIOUS
<1> HIDE DEF base, N, u
<1>5. 0 \in P
  <2>1. Holds(am, g, f)
    BY HoldsLonger
  <2>2. DOMAIN WithGroups(f, v, names, 0) = DOMAIN f
        /\ \A x \in DOMAIN f : WithGroups(f, v, names, 0)[x] = f[x]
    <3>1. 1..0 = {}
      OBVIOUS
    <3>2. {names[i] : i \in 1..0} = {} /\ \A x : ~\E i \in 1..0 : names[i] = x
      BY <3>1
    <3> QED BY <3>2 DEF WithGroups
  <2>3. Holds(am, g, WithGroups(f, v, names, 0))
    BY <2>1, <2>2, HoldsSame
  <2> QED BY <2>3, <1>2
<1>6. ASSUME NEW n \in Nat, n \in P PROVE n + 1 \in P
  <2>1. SUFFICES ASSUME n + 1 <= N PROVE Holds(u[n + 1], g, WithGroups(f, v, names, n + 1))
    OBVIOUS
  <2> DEFINE m == n + 1
             before == WithGroups(f, v, names, n)
  <2>2. m \in 1..N /\ m - 1 = n /\ m \in Nat \ {0} /\ n <= N
    BY <2>1, <1>1
  <2>3. Holds(u[n], g, before)
    BY <1>6, <2>2
  <2>4. u[m] = Upsert(u[n], names[m], base + m)
    BY <2>2, <1>2
  <2> HIDE DEF m, before
  <2>5. base + m \in 1..Len(g) /\ Len(g) \in Nat
    BY <2>2, <1>1
  <2>6. Holds(u[m], g, With(before, names[m], Group(v, m)))
    BY <2>2, <2>3, <2>4, <2>5, <1>3, <1>4, HoldsUpsert
  <2>7. /\ DOMAIN WithGroups(f, v, names, m) = DOMAIN With(before, names[m], Group(v, m))
        /\ \A x \in DOMAIN With(before, names[m], Group(v, m)) :
              WithGroups(f, v, names, m)[x] = With(before, names[m], Group(v, m))[x]
    <3>1. DOMAIN WithGroups(f, v, names, m) = DOMAIN With(before, names[m], Group(v, m))
      BY <2>2, OneMoreGroup DEF before
    <3>2. ASSUME NEW x \in DOMAIN With(before, names[m], Group(v, m))
          PROVE  WithGroups(f, v, names, m)[x] = With(before, names[m], Group(v, m))[x]
      BY <2>2, <3>1, OneMoreGroup DEF before
    <3> QED BY <3>1, <3>2
  <2>8. Holds(u[m], g, WithGroups(f, v, names, m))
    BY <2>6, <2>7, HoldsSame
  <2> QED BY <2>8 DEF m
<1>7. Nat \subseteq P
  <2> HIDE DEF P
  <2> QED BY <1>5, <1>6, SetInduction
<1>8. Holds(u[N], g, WithGroups(f, v, names, N))
  BY <1>1, <1>7
<1> QED BY <1>8 DEF Extracted, u, N, base

-----------------------------------------------------------------------------
(* What the actions mean. *)

Maps == UNION {[D -> Values] : D \in SUBSET Keys}

\* Maps from some of the keys to values.
LEMMA MapElim ==
    ASSUME NEW f \in Maps
    PROVE  DOMAIN f \subseteq Keys /\ f \in [DOMAIN f -> Values] /\ \A x \in DOMAIN f : f[x] \in Values
BY DEF Maps

\* A function from some of the keys to values is one of them.
LEMMA MapIntro ==
    ASSUME NEW D, D \subseteq Keys, NEW f \in [D -> Values]
    PROVE  f \in Maps
BY DEF Maps

\* The values that actions set are values.
LEMMA ValuesTyped ==
    ASSUME AttributeAssumption, NEW v \in Values
    PROVE  /\ Hashed(v) \in Values /\ Hashed(v) = HashMeans(v)
           /\ \A matches \in Seq(Bytes) : \A i \in 1..Len(matches) : Group(matches, i) \in Values
<1>1. v.type \in Types /\ v.val \in Bytes /\ NoBytes \in Bytes /\ Sha1 \in [Bytes -> Bytes]
  BY DEF Values, AttributeAssumption
<1>2. \A s \in Bytes : String(s) \in Values
  BY DEF Values, Types, String
<1>3. BytesOf(v) \in Bytes
  BY <1>1 DEF BytesOf
<1>4. Hashed(v) \in Values
  <2>1. CASE BytesOf(v) # NoBytes
    BY <2>1, <1>1, <1>2, <1>3 DEF Hashed
  <2>2. CASE BytesOf(v) = NoBytes
    BY <2>2, <1>1, <1>2 DEF Hashed
  <2> QED BY <2>1, <2>2
<1>5. Hashed(v) = HashMeans(v)
  <2>1. CASE v.type \in {"map", "null"}
    BY <2>1 DEF Hashed, HashMeans, BytesOf, String
  <2>2. CASE v.type \in {"string", "number"}
    BY <2>2 DEF Hashed, HashMeans, BytesOf, String
  <2> QED BY <1>1, <2>1, <2>2 DEF Types
<1>6. ASSUME NEW matches \in Seq(Bytes), NEW i \in 1..Len(matches) PROVE Group(matches, i) \in Values
  BY <1>2 DEF Group
<1> QED BY <1>4, <1>5, <1>6

\* Setting keys keeps a map from keys to values.
LEMMA WithTyped ==
    ASSUME NEW f \in Maps, NEW k \in Keys, NEW v \in Values
    PROVE  With(f, k, v) \in Maps
<1>1. DOMAIN f \cup {k} \subseteq Keys
  BY MapElim
<1>2. With(f, k, v) \in [DOMAIN f \cup {k} -> Values]
  BY MapElim DEF With
<1> QED BY <1>1, <1>2, MapIntro

\* So does setting the keys of groups; the last group of a name exists.
LEMMA GroupsTyped ==
    ASSUME NEW f \in Maps, NEW v, NEW names \in Seq(Keys), \A i \in 1..Len(names) : Group(v, i) \in Values
    PROVE  WithGroups(f, v, names, Len(names)) \in Maps
<1> DEFINE N == Len(names)
           D == DOMAIN f \cup {names[i] : i \in 1..N}
           last(x) == CHOOSE i \in 1..N : names[i] = x /\ \A j \in (i + 1)..N : names[j] # x
<1>1. N \in Nat /\ \A i \in 1..N : Group(v, i) \in Values
  OBVIOUS
<1>2. D \subseteq Keys
  BY MapElim
<1>3. ASSUME NEW x, \E i \in 1..N : names[i] = x
      PROVE  last(x) \in 1..N
  <2> DEFINE T == {i \in 1..N : names[i] = x}
  <2>1. \E i \in T : \A j \in T : j <= i
    <3> DEFINE P == {n \in Nat : (\E i \in T : i >= N - n) => \E i \in T : \A j \in T : j <= i}
    <3>1. 0 \in P
      BY <1>1
    <3>2. ASSUME NEW n \in Nat, n \in P PROVE n + 1 \in P
      <4>1. SUFFICES ASSUME \E i \in T : i >= N - (n + 1), ~\E i \in T : i >= N - n
                     PROVE  \E i \in T : \A j \in T : j <= i
        BY <3>2
      <4>2. PICK i \in T : i >= N - (n + 1)
        BY <4>1
      <4>3. \A j \in T : j <= i
        BY <4>1, <4>2, <1>1
      <4> QED BY <4>3
    <3>3. Nat \subseteq P
      <4> HIDE DEF P
      <4> QED BY <3>1, <3>2, SetInduction
    <3>4. N \in P
      BY <3>3, <1>1
    <3>5. \E i \in T : i >= N - N
      BY <1>1, <1>3
    <3> QED BY <3>4, <3>5
  <2>2. PICK i \in T : \A j \in T : j <= i
    BY <2>1
  <2>3. \A j \in (i + 1)..N : names[j] # x
    BY <2>2, <1>1
  <2>4. last(x) \in 1..N
    BY <2>2, <2>3
  <2> HIDE DEF last
  <2> QED BY <2>4, <1>1
<1>4. ASSUME NEW x \in D
      PROVE  (IF \E i \in 1..N : names[i] = x THEN Group(v, last(x)) ELSE f[x]) \in Values
  <2>1. CASE \E i \in 1..N : names[i] = x
    <3>1. last(x) \in 1..N
      BY <2>1, <1>3
    <3> HIDE DEF last
    <3> QED BY <2>1, <3>1, <1>1
  <2>2. CASE ~\E i \in 1..N : names[i] = x
    <3>1. x \in DOMAIN f
      BY <2>2
    <3> QED BY <2>2, <3>1, MapElim
  <2> QED BY <2>1, <2>2
<1>5. WithGroups(f, v, names, N) = [x \in D |-> IF \E i \in 1..N : names[i] = x THEN Group(v, last(x)) ELSE f[x]]
  BY DEF WithGroups
<1> HIDE DEF D, last
<1>6. WithGroups(f, v, names, N) \in [D -> Values]
  BY <1>4, <1>5
<1> QED BY <1>2, <1>6, MapIntro DEF N

\* There is a string for every group of a pattern that matches.
GroupsMatched(a) == \A s \in Bytes : Len(a.submatches[s]) \in {0, Len(a.names)}

\* What the groups match are values.
LEMMA MatchesTyped ==
    ASSUME AttributeAssumption, NEW a \in Actions, GroupsMatched(a), NEW v \in Values, MatchesPattern(a, v)
    PROVE  \A i \in 1..Len(a.names) : Group(a.submatches[v.val], i) \in Values
<1> DEFINE m == a.submatches[v.val]
<1>1. v.val \in Bytes /\ m # <<>>
  BY DEF Values, MatchesPattern
<1>2. m \in Seq(Bytes) /\ Len(m) \in {0, Len(a.names)}
  BY <1>1 DEF Actions, GroupsMatched
<1> HIDE DEF m
<1>3. Len(m) # 0
  BY <1>1, <1>2, EmptySeq
<1>4. \A i \in 1..Len(m) : Group(m, i) \in Values
  BY <1>2, ValuesTyped
<1> QED BY <1>2, <1>3, <1>4 DEF m

\* What an action makes of a map is a map.
LEMMA MeaningTyped ==
    ASSUME AttributeAssumption, NEW a \in Actions, GroupsMatched(a), NEW f \in Maps
    PROVE  Meaning(a, f) \in Maps
<1> DEFINE value == IF a.const > 0 THEN Configured[a.const] ELSE f[a.from]
           given == a.const > 0 \/ a.from \in DOMAIN f
<1>1. /\ a.action \in Kinds /\ a.key \in Keys /\ a.const \in 0..Len(Configured)
      /\ a.from \in Keys /\ a.names \in Seq(Keys)
  BY DEF Actions
<1>2. given => value \in Values
  <2>1. CASE a.const > 0
    <3>1. a.const \in 1..Len(Configured) /\ Configured \in Seq(Values)
      BY <2>1, <1>1 DEF AttributeAssumption
    <3> QED BY <2>1, <3>1
  <2>2. CASE ~(a.const > 0)
    BY <2>2, MapElim
  <2> QED BY <2>1, <2>2
<1>3. given => With(f, a.key, value) \in Maps
  <2> HIDE DEF value, given
  <2> QED BY <1>1, <1>2, WithTyped
<1>4. a.key \in DOMAIN f => With(f, a.key, HashMeans(f[a.key])) \in Maps
  <2> SUFFICES ASSUME a.key \in DOMAIN f PROVE With(f, a.key, HashMeans(f[a.key])) \in Maps
    OBVIOUS
  <2>1. f[a.key] \in Values
    BY MapElim
  <2>2. HashMeans(f[a.key]) \in Values
    BY <2>1, ValuesTyped
  <2> QED BY <1>1, <2>2, WithTyped
<1>5. Less(f, a.key) \in Maps
  <2>1. DOMAIN f \ {a.key} \subseteq Keys
    BY MapElim
  <2>2. Less(f, a.key) \in [DOMAIN f \ {a.key} -> Values]
    BY MapElim DEF Less
  <2> QED BY <2>1, <2>2, MapIntro
<1>6. a.key \in DOMAIN f /\ MatchesPattern(a, f[a.key])
        => WithGroups(f, a.submatches[f[a.key].val], a.names, Len(a.names)) \in Maps
  <2> SUFFICES ASSUME a.key \in DOMAIN f, MatchesPattern(a, f[a.key])
               PROVE  WithGroups(f, a.submatches[f[a.key].val], a.names, Len(a.names)) \in Maps
    OBVIOUS
  <2>1. f[a.key] \in Values
    BY MapElim
  <2>2. \A i \in 1..Len(a.names) : Group(a.submatches[f[a.key].val], i) \in Values
    BY <2>1, MatchesTyped
  <2> QED BY <1>1, <2>2, GroupsTyped
<1> HIDE DEF value, given
<1>7. CASE a.action = "delete"
  BY <1>7, <1>5 DEF Meaning
<1>8. CASE a.action = "insert"
  BY <1>8, <1>3 DEF Meaning, value, given
<1>9. CASE a.action = "update"
  BY <1>9, <1>3 DEF Meaning, value, given
<1>10. CASE a.action = "upsert"
  BY <1>10, <1>3 DEF Meaning, value, given
<1>11. CASE a.action = "hash"
  BY <1>11, <1>4 DEF Meaning
<1>12. CASE a.action = "extract"
  BY <1>12, <1>6 DEF Meaning
<1> QED BY <1>1, <1>7, <1>8, <1>9, <1>10, <1>11, <1>12 DEF Kinds

\* What the recursion of MeantUpTo computes.
LEMMA MeantRecursion ==
    ASSUME AttributeAssumption, NEW list \in Lists, NEW c \in Contents
    PROVE  /\ MeantUpTo(list, c)[0] = AsMap(c)
           /\ \A n \in 1..Len(list) : MeantUpTo(list, c)[n] = Meaning(list[n], MeantUpTo(list, c)[n - 1])
<1> DEFINE N == Len(list)
           G == [n \in 1..N |-> [q \in Maps |-> Meaning(list[n], q)]]
           Body(f) == [n \in 0..N |-> IF n = 0 THEN AsMap(c) ELSE Meaning(list[n], f[n - 1])]
<1>1. /\ N \in Nat /\ list \in Seq(Actions) /\ DOMAIN list = 1..N
      /\ \A n \in 1..N : list[n] \in Actions
  BY DEF AttributeAssumption
<1>2. \A n \in 1..N : GroupsMatched(list[n])
  BY <1>1 DEF AttributeAssumption, GroupsMatched
<1> HIDE DEF N
<1>3. G \in [1..N -> [Maps -> Maps]]
  <2>1. ASSUME NEW n \in 1..N, NEW q \in Maps PROVE Meaning(list[n], q) \in Maps
    BY <1>1, <1>2, MeaningTyped
  <2> QED BY <2>1
<1>4. AsMap(c) \in Maps
  <2>1. c \in Seq([key : Keys, value : Values])
    BY DEF AttributeAssumption
  <2>2. \A i \in DOMAIN c : c[i].key \in Keys /\ c[i].value \in Values
    <3> DEFINE E == [key : Keys, value : Values]
    <3>1. c \in Seq(E)
      BY <2>1
    <3> HIDE DEF E
    <3>2. \A i \in DOMAIN c : c[i] \in E
      BY <3>1
    <3> QED BY <3>2 DEF E
  <2> DEFINE D == {c[i].key : i \in DOMAIN c}
  <2>3. D \subseteq Keys
    BY <2>2
  <2>4. \A x \in D : c[CHOOSE i \in DOMAIN c : c[i].key = x].value \in Values
    <3> TAKE x \in D
    <3> DEFINE ii == CHOOSE i \in DOMAIN c : c[i].key = x
    <3>1. ii \in DOMAIN c
      OBVIOUS
    <3> HIDE DEF ii
    <3>2. c[ii].value \in Values
      BY <3>1, <2>2
    <3> QED BY <3>2 DEF ii
  <2>5. AsMap(c) \in [D -> Values]
    BY <2>4 DEF AsMap
  <2> HIDE DEF D
  <2> QED BY <2>3, <2>5, MapIntro
<1>5. PICK g : Recursion(g, N, Maps, AsMap(c), G)
  <2> HIDE DEF G
  <2> QED BY <1>1, <1>3, <1>4, RecursionExists
<1>6. g = Body(g)
  <2>1. g \in [0..N -> Maps] /\ g[0] = AsMap(c)
    BY <1>5 DEF Recursion
  <2>2. ASSUME NEW n \in 1..N PROVE g[n] = Meaning(list[n], g[n - 1])
    <3>1. g[n] = G[n][g[n - 1]] /\ n - 1 \in 0..N
      <4> HIDE DEF G
      <4> QED BY <1>1, <1>5 DEF Recursion
    <3> QED BY <3>1, <2>1
  <2>3. ASSUME NEW n \in 0..N PROVE g[n] = Body(g)[n]
    <3>1. CASE n = 0
      BY <3>1, <2>1
    <3>2. CASE n # 0
      <4>1. n \in 1..N
        BY <3>2, <1>1
      <4> QED BY <3>2, <4>1, <2>2
    <3> QED BY <3>1, <3>2
  <2> QED BY <2>1, <2>3
<1>7. MeantUpTo(list, c) = CHOOSE f : f = Body(f)
  BY DEF MeantUpTo, N
<1> DEFINE f == MeantUpTo(list, c)
<1>8. f = Body(f)
  <2> HIDE DEF Body
  <2> QED BY <1>6, <1>7
<1>9. Body(f)[0] = AsMap(c) /\ \A n \in 1..N : Body(f)[n] = Meaning(list[n], f[n - 1])
  <2> HIDE DEF f
  <2> QED BY <1>1
<1> HIDE DEF Body, f
<1>10. f[0] = AsMap(c) /\ \A n \in 1..N : f[n] = Meaning(list[n], f[n - 1])
  BY <1>8, <1>9
<1> QED BY <1>10 DEF f, N

-----------------------------------------------------------------------------
(* The invariant. *)

AttributeTypeOK ==
    /\ actions \in Lists
    /\ heap \in Seq(Values)
    /\ spans \in [1..2 -> AttrMaps]
    /\ arrived \in [1..2 -> Contents]
    /\ nilValues \in [1..2 -> SUBSET Keys]
    /\ nthSpan \in Nat \ {0} /\ nthAction \in 1..(Len(actions) + 1)

\* The attributes f have a null value for all keys of a set.
AreNull(keys, f) == \A x \in keys : x \in DOMAIN f /\ f[x].type = "null"

PanicExplained ==
    panicked => /\ Current.action \in {"update", "upsert"}
                /\ AreNull({Current.key}, Expected(nthSpan))

\* Values stay what they are, those of the configuration too, spans have their meaning, and
\* a value that is nil is a null that no action has set.
AttributeInv ==
    /\ AttributeTypeOK
    /\ Longer(Configured, heap)
    /\ \A k \in 1..2 : Holds(spans[k], heap, Expected(k))
    /\ \A k \in 1..2 : AreNull(nilValues[k], Expected(k))
    /\ PanicExplained

\* The lists of actions.
LEMMA ListTyped ==
    ASSUME AttributeAssumption, NEW list \in Lists
    PROVE  /\ list \in Seq(Actions) /\ Len(list) \in Nat /\ DOMAIN list = 1..Len(list)
           /\ \A n \in 1..Len(list) : list[n] \in Actions /\ GroupsMatched(list[n])
<1>1. list \in Seq(Actions) /\ Len(list) \in Nat /\ DOMAIN list = 1..Len(list)
  BY DEF AttributeAssumption
<1> QED BY <1>1 DEF AttributeAssumption, GroupsMatched

\* What a value is set to: the value of the configuration, or of another attribute.
LEMMA SourceRight ==
    ASSUME AttributeAssumption, NEW a \in Actions, NEW am, NEW h, NEW f, Holds(am, h, f), Longer(Configured, h)
    PROVE  /\ (a.const > 0 \/ Has(am, a.from)) <=> (a.const > 0 \/ a.from \in DOMAIN f)
           /\ (a.const > 0 \/ Has(am, a.from)) =>
                 LET ref == IF a.const > 0 THEN a.const ELSE Get(am, a.from)
                 IN  ref \in 1..Len(h) /\ h[ref] = IF a.const > 0 THEN Configured[a.const] ELSE f[a.from]
<1>1. a.const \in 0..Len(Configured) /\ Len(Configured) \in Nat /\ Len(h) \in Nat /\ Len(Configured) <= Len(h)
  BY DEF Actions, AttributeAssumption, Longer
<1>2. CASE a.const > 0
  <2>1. a.const \in 1..Len(Configured) /\ a.const \in 1..Len(h)
    BY <1>1, <1>2
  <2> QED BY <1>2, <2>1 DEF Longer
<1>3. CASE ~(a.const > 0)
  BY <1>3, HoldsGet
<1> QED BY <1>2, <1>3

\* A step that makes of the span at hand what the current action means.
MeaningfulStep ==
    /\ nthSpan \in 1..2 /\ nthSpan \notin skip /\ nthAction \in 1..Len(actions)
    /\ \E am, h, changed :
          /\ Step(am, h, changed)
          /\ Longer(heap, h)
          /\ Holds(am, h, Meaning(Current, Expected(nthSpan)))
          /\ AreNull(nilValues[nthSpan] \ changed, Meaning(Current, Expected(nthSpan)))

\* What is known when an action is processed.
LEMMA AtAction ==
    ASSUME AttributeAssumption, AttributeInv, NEW kind, Active(kind)
    PROVE  /\ nthSpan \in 1..2 /\ nthSpan \notin skip /\ nthAction \in 1..Len(actions)
           /\ Current \in Actions /\ Current.action = kind /\ GroupsMatched(Current)
           /\ Holds(Attrs, heap, Expected(nthSpan)) /\ AreNull(nilValues[nthSpan], Expected(nthSpan))
           /\ Longer(Configured, heap) /\ Longer(heap, heap) /\ Len(heap) \in Nat
<1>1. nthSpan \in 1..2 /\ nthSpan \notin skip /\ nthAction \in DOMAIN actions /\ Current.action = kind
  BY DEF AttributeInv, AttributeTypeOK, Active
<1>2. actions \in Lists
  BY DEF AttributeInv, AttributeTypeOK
<1>3. nthAction \in 1..Len(actions) /\ Current \in Actions /\ GroupsMatched(Current)
  BY <1>1, <1>2, ListTyped DEF Current
<1>4. Longer(heap, heap) /\ Len(heap) \in Nat
  BY DEF AttributeInv, AttributeTypeOK, Longer
<1> QED BY <1>1, <1>3, <1>4 DEF AttributeInv, Attrs

\* One value is added to the others.
LEMMA OneMoreValue ==
    ASSUME NEW h \in Seq(Values), NEW v \in Values
    PROVE  /\ Longer(h, Append(h, v)) /\ Len(Append(h, v)) = Len(h) + 1
           /\ Append(h, v)[Len(h) + 1] = v
<1>1. /\ Append(h, v) \in Seq(Values) /\ Len(Append(h, v)) = Len(h) + 1
      /\ \A i \in 1..Len(h) : Append(h, v)[i] = h[i]
      /\ Append(h, v)[Len(h) + 1] = v
  BY AppendProperties
<1>2. Len(h) \in Nat
  OBVIOUS
<1> QED BY <1>1, <1>2 DEF Longer

\* Setting and removing other keys leaves what is null.
LEMMA NullStays ==
    ASSUME NEW keys, NEW f, AreNull(keys, f), NEW k, NEW v
    PROVE  /\ AreNull(keys \ {k}, With(f, k, v)) /\ AreNull(keys \ {k}, Less(f, k))
           /\ k \notin keys => AreNull(keys, With(f, k, v))
           /\ AreNull(keys \ {}, f)
BY DEF AreNull, With, Less

\* So does setting the keys of groups.
LEMMA NullStaysBesideGroups ==
    ASSUME NEW keys, NEW f, AreNull(keys, f), NEW m, NEW names, NEW n
    PROVE  AreNull(keys \ {names[i] : i \in 1..n}, WithGroups(f, m, names, n))
<1> SUFFICES ASSUME NEW x \in keys, \A i \in 1..n : names[i] # x
             PROVE  /\ x \in DOMAIN WithGroups(f, m, names, n)
                    /\ WithGroups(f, m, names, n)[x].type = "null"
  BY DEF AreNull
<1>1. x \in DOMAIN f /\ f[x].type = "null"
  BY DEF AreNull
<1>2. DOMAIN WithGroups(f, m, names, n) = DOMAIN f \cup {names[i] : i \in 1..n}
  BY DEF WithGroups
<1>3. WithGroups(f, m, names, n)[x] = f[x]
  BY <1>1 DEF WithGroups
<1> QED BY <1>1, <1>2, <1>3

\* How such a step is shown.
LEMMA IsMeaningful ==
    ASSUME nthSpan \in 1..2, nthSpan \notin skip, nthAction \in 1..Len(actions),
           NEW am, NEW h, NEW changed, NEW f, f = Meaning(Current, Expected(nthSpan)),
           Step(am, h, changed), Longer(heap, h), Holds(am, h, f), AreNull(nilValues[nthSpan] \ changed, f)
    PROVE  MeaningfulStep
BY Zenon DEF MeaningfulStep

\* delete takes the key away.
LEMMA DeleteObeys ==
    ASSUME AttributeAssumption, AttributeInv, ProcessDelete
    PROVE  MeaningfulStep
<1> DEFINE f == Expected(nthSpan)
<1>1. /\ nthSpan \in 1..2 /\ nthSpan \notin skip /\ nthAction \in 1..Len(actions)
      /\ Current \in Actions /\ Current.action = "delete"
      /\ Holds(Attrs, heap, f) /\ AreNull(nilValues[nthSpan], f) /\ Longer(heap, heap)
  BY AtAction DEF ProcessDelete
<1> HIDE DEF f
<1>2. Current.key \in Keys
  BY <1>1 DEF Actions
<1>3. Meaning(Current, f) = Less(f, Current.key)
  BY <1>1 DEF Meaning
<1>4. Holds(Delete(Attrs, Current.key), heap, Meaning(Current, f))
  <2>1. Holds(Delete(Attrs, Current.key), heap, Less(f, Current.key))
    BY <1>1, <1>2, HoldsDelete
  <2> QED BY <2>1, <1>3
<1>5. Step(Delete(Attrs, Current.key), heap, {Current.key})
  BY DEF ProcessDelete
<1>6. AreNull(nilValues[nthSpan] \ {Current.key}, Meaning(Current, f))
  BY <1>1, <1>3, NullStays
<1> QED BY <1>1, <1>4, <1>5, <1>6, IsMeaningful DEF f

\* insert, update and upsert set the key if there is a source, and if it is absent,
\* present, or in any case.
LEMMA SetObeys ==
    ASSUME AttributeAssumption, AttributeInv, ProcessInsert \/ ProcessUpdate \/ ProcessUpsert
    PROVE  MeaningfulStep
<1> DEFINE f == Expected(nthSpan)
           value == IF Current.const > 0 THEN Configured[Current.const] ELSE f[Current.from]
           given == Current.const > 0 \/ Current.from \in DOMAIN f
<1>1. PICK kind \in {"insert", "update", "upsert"} : Active(kind)
  BY DEF ProcessInsert, ProcessUpdate, ProcessUpsert
<1>2. /\ nthSpan \in 1..2 /\ nthSpan \notin skip /\ nthAction \in 1..Len(actions)
      /\ Current \in Actions /\ Current.action = kind
      /\ Holds(Attrs, heap, f) /\ AreNull(nilValues[nthSpan], f) /\ Longer(Configured, heap) /\ Longer(heap, heap) /\ Len(heap) \in Nat
  BY <1>1, AtAction
<1> HIDE DEF f
<1>3. Current.key \in Keys
  BY <1>2 DEF Actions
<1>4. (Found <=> given) /\ (Found => Source \in 1..Len(heap) /\ heap[Source] = value)
  <2>1. Current \in Actions /\ Holds(Attrs, heap, f) /\ Longer(Configured, heap)
    BY <1>2
  <2> QED BY <2>1, SourceRight DEF Found, Source
<1>5. Has(Attrs, Current.key) <=> Current.key \in DOMAIN f
  BY <1>2, HoldsGet
<1>6. Found => Holds(Upsert(Attrs, Current.key, Source), heap, With(f, Current.key, value))
  <2> HIDE DEF value
  <2> QED BY <1>2, <1>3, <1>4, HoldsUpsert
<1> HIDE DEF value, given
<1>10. ASSUME ~(Found /\ Has(Attrs, Current.key)) \/ Current.key \notin nilValues[nthSpan], Found
       PROVE  AreNull(nilValues[nthSpan] \ {}, With(f, Current.key, value))
  <2>1. Current.key \notin nilValues[nthSpan]
    BY <1>2, <1>5, <1>10 DEF AreNull
  <2>2. AreNull(nilValues[nthSpan], With(f, Current.key, value))
    BY <1>2, <2>1, NullStays
  <2> QED BY <2>2, NullStays
<1>11. AreNull(nilValues[nthSpan] \ {}, f)
  BY <1>2, NullStays
<1>7. CASE ProcessInsert
  <2>1. Step(IF Found THEN Insert(Attrs, Current.key, Source) ELSE Attrs, heap, {}) /\ Current.action = "insert"
    BY <1>7 DEF ProcessInsert, Active
  <2>2. Meaning(Current, f) = IF given /\ Current.key \notin DOMAIN f THEN With(f, Current.key, value) ELSE f
    BY <2>1 DEF Meaning, value, given
  <2>3. CASE Found /\ ~Has(Attrs, Current.key)
    <3>1. Insert(Attrs, Current.key, Source) = Upsert(Attrs, Current.key, Source)
      BY <2>3 DEF Upsert
    <3>2. Step(Upsert(Attrs, Current.key, Source), heap, {})
      BY <2>1, <2>3, <3>1
    <3>3. Meaning(Current, f) = With(f, Current.key, value)
      BY <2>2, <2>3, <1>4, <1>5
    <3>4. AreNull(nilValues[nthSpan] \ {}, With(f, Current.key, value))
      BY <1>10, <2>3
    <3> QED BY <1>2, <1>6, <2>3, <3>2, <3>3, <3>4, IsMeaningful DEF f
  <2>4. CASE ~(Found /\ ~Has(Attrs, Current.key))
    <3>1. Step(Attrs, heap, {})
      BY <2>1, <2>4 DEF Insert
    <3>2. Meaning(Current, f) = f
      BY <2>2, <2>4, <1>4, <1>5
    <3> QED BY <1>2, <1>11, <3>1, <3>2, IsMeaningful DEF f
  <2> QED BY <2>3, <2>4
<1>8. CASE ProcessUpdate
  <2>1. Step(IF Found THEN Update(Attrs, Current.key, Source) ELSE Attrs, heap, {}) /\ Current.action = "update"
    BY <1>8 DEF ProcessUpdate, Active
  <2>2. Meaning(Current, f) = IF given /\ Current.key \in DOMAIN f THEN With(f, Current.key, value) ELSE f
    BY <2>1 DEF Meaning, value, given
  <2>3. CASE Found /\ Has(Attrs, Current.key)
    <3>1. Update(Attrs, Current.key, Source) = Upsert(Attrs, Current.key, Source)
      BY <2>3 DEF Upsert
    <3>2. Step(Upsert(Attrs, Current.key, Source), heap, {})
      BY <2>1, <2>3, <3>1
    <3>3. Meaning(Current, f) = With(f, Current.key, value)
      BY <2>2, <2>3, <1>4, <1>5
    <3>4. AreNull(nilValues[nthSpan] \ {}, With(f, Current.key, value))
      BY <1>10, <2>3, <1>8 DEF ProcessUpdate, ProcessUpsert, CopiesToNil
    <3> QED BY <1>2, <1>6, <2>3, <3>2, <3>3, <3>4, IsMeaningful DEF f
  <2>4. CASE ~(Found /\ Has(Attrs, Current.key))
    <3>1. Step(Attrs, heap, {})
      BY <2>1, <2>4 DEF Update
    <3>2. Meaning(Current, f) = f
      BY <2>2, <2>4, <1>4, <1>5
    <3> QED BY <1>2, <1>11, <3>1, <3>2, IsMeaningful DEF f
  <2> QED BY <2>3, <2>4
<1>9. CASE ProcessUpsert
  <2>1. Step(IF Found THEN Upsert(Attrs, Current.key, Source) ELSE Attrs, heap, {}) /\ Current.action = "upsert"
    BY <1>9 DEF ProcessUpsert, Active
  <2>2. Meaning(Current, f) = IF given THEN With(f, Current.key, value) ELSE f
    BY <2>1 DEF Meaning, value, given
  <2>3. CASE Found
    <3>1. Step(Upsert(Attrs, Current.key, Source), heap, {})
      BY <2>1, <2>3
    <3>2. Meaning(Current, f) = With(f, Current.key, value)
      BY <2>2, <2>3, <1>4
    <3>4. AreNull(nilValues[nthSpan] \ {}, With(f, Current.key, value))
      BY <1>10, <2>3, <1>9 DEF ProcessUpdate, ProcessUpsert, CopiesToNil
    <3> QED BY <1>2, <1>6, <2>3, <3>1, <3>2, <3>4, IsMeaningful DEF f
  <2>4. CASE ~Found
    <3>1. Step(Attrs, heap, {})
      BY <2>1, <2>4
    <3>2. Meaning(Current, f) = f
      BY <2>2, <2>4, <1>4
    <3> QED BY <1>2, <1>11, <3>1, <3>2, IsMeaningful DEF f
  <2> QED BY <2>3, <2>4
<1> QED BY <1>7, <1>8, <1>9

\* hash replaces the reference, so that those who share the value keep theirs.
LEMMA HashObeys ==
    ASSUME AttributeAssumption, AttributeInv, ProcessHash
    PROVE  MeaningfulStep
<1> DEFINE f == Expected(nthSpan)
<1>1. /\ nthSpan \in 1..2 /\ nthSpan \notin skip /\ nthAction \in 1..Len(actions)
      /\ Current \in Actions /\ Current.action = "hash"
      /\ Holds(Attrs, heap, f) /\ AreNull(nilValues[nthSpan], f) /\ Longer(heap, heap) /\ Len(heap) \in Nat
  BY AtAction DEF ProcessHash
<1> HIDE DEF f
<1>2. Current.key \in Keys /\ heap \in Seq(Values)
  BY <1>1 DEF Actions, AttributeInv, AttributeTypeOK
<1>3. Meaning(Current, f) = IF Current.key \in DOMAIN f THEN With(f, Current.key, HashMeans(f[Current.key])) ELSE f
  BY <1>1 DEF Meaning
<1>4. Has(Attrs, Current.key) <=> Current.key \in DOMAIN f
  BY <1>1, HoldsGet
<1>5. CASE Has(Attrs, Current.key)
  <2> DEFINE old == heap[Get(Attrs, Current.key)]
             h == Append(heap, Hashed(old))
             ref == Len(heap) + 1
  <2>1. Get(Attrs, Current.key) \in 1..Len(heap) /\ old = f[Current.key]
    BY <1>1, <1>5, HoldsGet
  <2>2. old \in Values
    BY <2>1, <1>2
  <2>3. Hashed(old) \in Values /\ Hashed(old) = HashMeans(f[Current.key])
    BY <2>1, <2>2, ValuesTyped
  <2>4. Longer(heap, h) /\ Len(h) = ref /\ h[ref] = Hashed(old)
    BY <2>3, <1>2, OneMoreValue
  <2>5. Step(Update(Attrs, Current.key, ref), h, {Current.key})
    BY <1>5 DEF ProcessHash
  <2>6. Update(Attrs, Current.key, ref) = Upsert(Attrs, Current.key, ref)
    BY <1>5 DEF Upsert
  <2>7. ref \in 1..Len(h) /\ Len(h) \in Nat
    BY <2>4, <1>1
  <2> HIDE DEF old, h, ref
  <2>8. Holds(Attrs, h, f)
    BY <1>1, <2>4, HoldsLonger
  <2>9. Holds(Upsert(Attrs, Current.key, ref), h, With(f, Current.key, h[ref]))
    BY <1>2, <2>7, <2>8, HoldsUpsert
  <2>10. Meaning(Current, f) = With(f, Current.key, h[ref])
    <3>1. Meaning(Current, f) = With(f, Current.key, HashMeans(f[Current.key]))
      BY <1>3, <1>4, <1>5
    <3>2. h[ref] = HashMeans(f[Current.key])
      BY <2>3, <2>4
    <3> QED BY <3>1, <3>2
  <2>11. AreNull(nilValues[nthSpan] \ {Current.key}, Meaning(Current, f))
    <3>1. AreNull(nilValues[nthSpan] \ {Current.key}, With(f, Current.key, h[ref]))
      <4>1. AreNull(nilValues[nthSpan], f)
        BY <1>1
      <4> QED BY <4>1, NullStays
    <3> QED BY <2>10, <3>1
  <2> QED BY <1>1, <2>4, <2>5, <2>6, <2>9, <2>10, <2>11, IsMeaningful DEF f
<1>6. CASE ~Has(Attrs, Current.key)
  <2>1. Step(Attrs, heap, {})
    BY <1>6 DEF ProcessHash
  <2>2. Meaning(Current, f) = f
    BY <1>3, <1>4, <1>6
  <2>3. AreNull(nilValues[nthSpan] \ {}, f)
    BY <1>1, NullStays
  <2> QED BY <1>1, <2>1, <2>2, <2>3, IsMeaningful DEF f
<1> QED BY <1>5, <1>6

\* extract sets the keys of the groups if the pattern matches.
LEMMA ExtractObeys ==
    ASSUME AttributeAssumption, AttributeInv, ProcessExtract
    PROVE  MeaningfulStep
<1> DEFINE f == Expected(nthSpan)
           names == Current.names
           N == Len(names)
           old == heap[Get(Attrs, Current.key)]
           matches == Current.submatches[old.val]
<1>1. /\ nthSpan \in 1..2 /\ nthSpan \notin skip /\ nthAction \in 1..Len(actions)
      /\ Current \in Actions /\ Current.action = "extract" /\ GroupsMatched(Current)
      /\ Holds(Attrs, heap, f) /\ AreNull(nilValues[nthSpan], f) /\ Longer(heap, heap) /\ Len(heap) \in Nat
  BY AtAction DEF ProcessExtract
<1> HIDE DEF f
<1>2. /\ Current.key \in Keys /\ heap \in Seq(Values) /\ names \in Seq(Keys) /\ N \in Nat
  BY <1>1 DEF Actions, AttributeInv, AttributeTypeOK
<1>3. Meaning(Current, f) = IF Current.key \in DOMAIN f /\ MatchesPattern(Current, f[Current.key])
                            THEN WithGroups(f, Current.submatches[f[Current.key].val], names, N) ELSE f
  BY <1>1 DEF Meaning
<1>4. /\ Has(Attrs, Current.key) <=> Current.key \in DOMAIN f
      /\ Has(Attrs, Current.key) => Get(Attrs, Current.key) \in 1..Len(heap) /\ old = f[Current.key]
  BY <1>1, HoldsGet
<1>5. CASE Has(Attrs, Current.key) /\ MatchesPattern(Current, old)
  <2> DEFINE groups == [i \in 1..N |-> Group(matches, i)]
             h == heap \o groups
  <2>1. old \in Values /\ old = f[Current.key]
    BY <1>2, <1>4, <1>5
  <2>2. Step(Extracted(Attrs, names, Len(heap)), h, {names[i] : i \in 1..N})
    BY <1>5 DEF ProcessExtract
  <2>3. Current.submatches[f[Current.key].val] = matches
    BY <2>1
  <2>4. \A i \in 1..N : Group(matches, i) \in Values
    BY <1>1, <1>5, <2>1, MatchesTyped
  <2> HIDE DEF old, names, N, matches
  <2>5. groups \in Seq(Values) /\ Len(groups) = N
    BY <2>4, <1>2
  <2>6. \A i \in 1..N : groups[i] = Group(matches, i)
    OBVIOUS
  <2> HIDE DEF groups
  <2>7. /\ h \in Seq(Values) /\ Len(h) = Len(heap) + N
        /\ \A i \in 1..(Len(heap) + N) : h[i] = IF i <= Len(heap) THEN heap[i] ELSE groups[i - Len(heap)]
    BY <1>2, <2>5, ConcatProperties
  <2> HIDE DEF h
  <2>8. Longer(heap, h)
    BY <1>1, <1>2, <2>7 DEF Longer
  <2>9. ASSUME NEW n \in 1..N PROVE h[Len(heap) + n] = Group(matches, n)
    <3>1. Len(heap) + n \in 1..(Len(heap) + N) /\ ~(Len(heap) + n <= Len(heap)) /\ Len(heap) + n - Len(heap) = n
      BY <1>1, <1>2
    <3> QED BY <3>1, <2>6, <2>7
  <2>10. Holds(Extracted(Attrs, names, Len(heap)), h, WithGroups(f, matches, names, Len(names)))
    BY <1>1, <1>2, <2>7, <2>8, <2>9, HoldsExtracted DEF N
  <2>11. Meaning(Current, f) = WithGroups(f, matches, names, Len(names))
    BY <1>3, <1>4, <1>5, <2>1, <2>3 DEF N
  <2>12. AreNull(nilValues[nthSpan] \ {names[i] : i \in 1..N}, Meaning(Current, f))
    BY <1>1, <2>11, NullStaysBesideGroups DEF N
  <2> QED BY <1>1, <2>2, <2>8, <2>10, <2>11, <2>12, IsMeaningful DEF f
<1>6. CASE ~(Has(Attrs, Current.key) /\ MatchesPattern(Current, old))
  <2>1. Step(Attrs, heap, {})
    BY <1>6 DEF ProcessExtract
  <2>2. Meaning(Current, f) = f
    BY <1>3, <1>4, <1>6
  <2>3. AreNull(nilValues[nthSpan] \ {}, f)
    BY <1>1, NullStays
  <2> QED BY <1>1, <2>1, <2>2, <2>3, IsMeaningful DEF f
<1> QED BY <1>5, <1>6

\* A step that means what the action means keeps the invariant.
LEMMA ActionKeeps ==
    ASSUME AttributeAssumption, AttributeInv, ProcessAction
    PROVE  AttributeInv'
<1>1. MeaningfulStep
  BY DeleteObeys, SetObeys, HashObeys, ExtractObeys DEF ProcessAction
<1>2. PICK am, h, changed :
        /\ Step(am, h, changed) /\ Longer(heap, h)
        /\ Holds(am, h, Meaning(Current, Expected(nthSpan)))
        /\ AreNull(nilValues[nthSpan] \ changed, Meaning(Current, Expected(nthSpan)))
  BY <1>1 DEF MeaningfulStep
<1>3. /\ nthSpan \in 1..2 /\ nthSpan \notin skip /\ nthAction \in 1..Len(actions)
      /\ nthAction' = nthAction + 1 /\ actions' = actions /\ arrived' = arrived /\ skip' = skip
      /\ nthSpan' = nthSpan /\ panicked' = panicked
  BY <1>1 DEF MeaningfulStep, ProcessAction
<1>4. /\ heap' = h /\ spans' = [spans EXCEPT ![nthSpan] = am]
      /\ nilValues' = [nilValues EXCEPT ![nthSpan] = @ \ changed]
  BY <1>2 DEF Step
<1>0. ~panicked
  BY DEF ProcessAction, ProcessDelete, ProcessInsert, ProcessUpdate, ProcessUpsert, ProcessHash,
         ProcessExtract, Active
<1>5. actions \in Lists /\ arrived \in [1..2 -> Contents] /\ spans \in [1..2 -> AttrMaps] /\ Len(actions) \in Nat
  BY ListTyped DEF AttributeInv, AttributeTypeOK
<1>6. AttributeTypeOK'
  <2>1. am \in AttrMaps /\ h \in Seq(Values)
    BY <1>2 DEF Holds, Longer
  <2>2. spans' \in [1..2 -> AttrMaps]
    BY <1>4, <1>5, <2>1
  <2>3. nthAction' \in 1..(Len(actions') + 1)
    BY <1>3, <1>5
  <2>4. nilValues' \in [1..2 -> SUBSET Keys] /\ nthSpan' \in Nat \ {0}
    BY <1>3, <1>4 DEF AttributeInv, AttributeTypeOK
  <2> QED BY <1>3, <1>4, <1>5, <2>1, <2>2, <2>3, <2>4 DEF AttributeTypeOK
<1>7. Longer(Configured, heap')
  <2>1. Longer(Configured, heap) /\ Len(Configured) \in Nat /\ Len(heap) \in Nat /\ Len(h) \in Nat
    <3>1. Longer(Configured, heap) /\ Longer(heap, h)
      BY <1>2 DEF AttributeInv
    <3>2. Configured \in Seq(Values) /\ heap \in Seq(Values) /\ h \in Seq(Values)
      BY <3>1 DEF Longer
    <3> QED BY <3>1, <3>2, LenProperties
  <2>2. \A r \in 1..Len(Configured) : r \in 1..Len(heap)
    BY <2>1 DEF Longer
  <2> QED BY <1>2, <1>4, <2>1, <2>2 DEF Longer
<1>8. ASSUME NEW k \in 1..2
      PROVE  Holds(spans'[k], heap', Expected(k)') /\ AreNull(nilValues'[k], Expected(k)')
  <2>1. arrived[k] \in Contents
    BY <1>5
  <2>2. CASE k = nthSpan
    <3>1. Expected(k)' = MeantUpTo(actions, arrived[k])[nthAction]
      <4>1. Done(k)' = nthAction
        BY <1>3, <2>2 DEF Done
      <4> QED BY <4>1, <1>3 DEF Expected
    <3>2. Expected(k) = MeantUpTo(actions, arrived[k])[nthAction - 1]
      <4>1. Done(k) = nthAction - 1
        BY <1>3, <2>2 DEF Done
      <4> QED BY <4>1 DEF Expected
    <3>3. Expected(k)' = Meaning(actions[nthAction], Expected(k))
      <4>1. \A n \in 1..Len(actions) :
              MeantUpTo(actions, arrived[k])[n] = Meaning(actions[n], MeantUpTo(actions, arrived[k])[n - 1])
        BY <1>5, <2>1, MeantRecursion
      <4> QED BY <1>3, <3>1, <3>2, <4>1
    <3>4. spans'[k] = am /\ nilValues'[k] = nilValues[nthSpan] \ changed
      BY <1>4, <1>5, <2>2 DEF AttributeInv, AttributeTypeOK
    <3> QED BY <1>2, <1>4, <2>2, <3>3, <3>4 DEF Current
  <2>3. CASE k # nthSpan
    <3>1. Done(k)' = Done(k)
      BY <1>3, <2>3 DEF Done
    <3>2. Expected(k)' = Expected(k)
      BY <3>1, <1>3 DEF Expected
    <3>3. spans'[k] = spans[k] /\ nilValues'[k] = nilValues[k]
      BY <1>4, <1>5, <2>3 DEF AttributeInv, AttributeTypeOK
    <3>4. Holds(spans[k], h, Expected(k)) /\ AreNull(nilValues[k], Expected(k))
      BY <1>2, HoldsLonger DEF AttributeInv
    <3> QED BY <1>4, <3>2, <3>3, <3>4
  <2> QED BY <2>2, <2>3
<1>9. PanicExplained'
  BY <1>0, <1>3 DEF PanicExplained
<1>10. /\ \A k \in 1..2 : Holds(spans'[k], heap', Expected(k)')
       /\ \A k \in 1..2 : AreNull(nilValues'[k], Expected(k)')
  BY <1>8
<1> QED BY <1>6, <1>7, <1>9, <1>10 DEF AttributeInv

\* The next span: nothing has been done to it yet.
LEMMA NextSpanKeeps ==
    ASSUME AttributeAssumption, AttributeInv, NextSpan
    PROVE  AttributeInv'
<1>1. /\ nthSpan \in 1..2 /\ (nthSpan \in skip \/ nthAction > Len(actions))
      /\ nthSpan' = nthSpan + 1 /\ nthAction' = 1
      /\ actions' = actions /\ heap' = heap /\ spans' = spans /\ arrived' = arrived /\ skip' = skip
      /\ nilValues' = nilValues /\ ~panicked /\ panicked' = panicked
  BY DEF NextSpan, AttributeInv, AttributeTypeOK
<1>2. actions \in Lists /\ Len(actions) \in Nat /\ nthAction \in 1..(Len(actions) + 1)
  BY ListTyped DEF AttributeInv, AttributeTypeOK
<1>3. AttributeTypeOK'
  BY <1>1, <1>2 DEF AttributeInv, AttributeTypeOK
<1>4. \A k \in 1..2 : Done(k)' = Done(k)
  BY <1>1, <1>2 DEF Done
<1>5. \A k \in 1..2 : Expected(k)' = Expected(k)
  BY <1>1, <1>4 DEF Expected
<1>6. PanicExplained'
  BY <1>1 DEF PanicExplained
<1>7. /\ \A k \in 1..2 : Holds(spans'[k], heap', Expected(k)')
      /\ \A k \in 1..2 : AreNull(nilValues'[k], Expected(k)')
  BY <1>1, <1>5 DEF AttributeInv
<1>8. Longer(Configured, heap')
  BY <1>1 DEF AttributeInv
<1> QED BY <1>3, <1>6, <1>7, <1>8 DEF AttributeInv

\* Copying to a nil value: it is one of those that are null.
LEMMA PanicKeeps ==
    ASSUME AttributeAssumption, AttributeInv, CopyPanics
    PROVE  AttributeInv'
<1>1. PICK kind \in {"update", "upsert"} : Active(kind)
  BY DEF CopyPanics
<1>2. nthSpan \in 1..2 /\ Current.action = kind /\ AreNull(nilValues[nthSpan], Expected(nthSpan))
  BY <1>1, AtAction
<1>3. AreNull({Current.key}, Expected(nthSpan))
  BY <1>2 DEF AreNull, CopyPanics, CopiesToNil
<1>4. UNCHANGED <<actions, heap, spans, arrived, skip, nilValues, nthSpan, nthAction>>
  BY DEF CopyPanics
<1>5. Current' = Current /\ \A k : Expected(k)' = Expected(k)
  BY <1>4 DEF Current, Expected, Done
<1>6. Expected(nthSpan)' = Expected(nthSpan)
  BY <1>4 DEF Expected, Done
<1>7. PanicExplained'
  BY <1>1, <1>2, <1>3, <1>5, <1>6 DEF PanicExplained
<1>8. AttributeTypeOK'
  BY <1>4 DEF AttributeInv, AttributeTypeOK
<1>9. /\ \A k \in 1..2 : Holds(spans'[k], heap', Expected(k)')
      /\ \A k \in 1..2 : AreNull(nilValues'[k], Expected(k)')
      /\ Longer(Configured, heap')
  BY <1>4, <1>5 DEF AttributeInv
<1> QED BY <1>7, <1>8, <1>9 DEF AttributeInv

\* What a span arrives with.
LEMMA ContentTyped ==
    ASSUME AttributeAssumption, NEW c \in Contents
    PROVE  /\ Len(c) \in Nat /\ DOMAIN c = 1..Len(c)
           /\ \A i \in 1..Len(c) : c[i].key \in Keys /\ c[i].value \in Values
           /\ \A i, j \in 1..Len(c) : c[i].key = c[j].key => i = j
<1> DEFINE E == [key : Keys, value : Values]
<1>1. c \in Seq(E)
  BY DEF AttributeAssumption
<1>2. \A i, j \in DOMAIN c : c[i].key = c[j].key => i = j
  BY DEF AttributeAssumption
<1> HIDE DEF E
<1>3. Len(c) \in Nat /\ DOMAIN c = 1..Len(c) /\ \A i \in 1..Len(c) : c[i] \in E
  BY <1>1
<1>4. \A i \in 1..Len(c) : c[i].key \in Keys /\ c[i].value \in Values
  BY <1>3 DEF E
<1> QED BY <1>2, <1>3, <1>4

\* r is p followed by q.
IsJoined(r, p, q) ==
    /\ r \in Seq(Values) /\ Len(r) = Len(p) + Len(q)
    /\ \A i \in 1..Len(p) : r[i] = p[i]
    /\ \A i \in 1..Len(q) : r[Len(p) + i] = q[i]

\* What concatenation of values is.
LEMMA Joined ==
    ASSUME NEW p \in Seq(Values), NEW q \in Seq(Values)
    PROVE  IsJoined(p \o q, p, q)
<1> DEFINE r == p \o q
<1>1. /\ r \in Seq(Values) /\ Len(r) = Len(p) + Len(q)
      /\ \A i \in 1..Len(p) + Len(q) : r[i] = IF i <= Len(p) THEN p[i] ELSE q[i - Len(p)]
  BY ConcatProperties
<1>2. Len(p) \in Nat /\ Len(q) \in Nat
  OBVIOUS
<1> HIDE DEF r
<1>3. ASSUME NEW i \in 1..Len(p) PROVE r[i] = p[i]
  <2>1. i \in 1..Len(p) + Len(q) /\ i <= Len(p)
    BY <1>2
  <2> QED BY <1>1, <2>1
<1>4. ASSUME NEW i \in 1..Len(q) PROVE r[Len(p) + i] = q[i]
  <2>1. Len(p) + i \in 1..Len(p) + Len(q) /\ ~(Len(p) + i <= Len(p)) /\ Len(p) + i - Len(p) = i
    BY <1>2
  <2> QED BY <1>1, <2>1
<1>5. IsJoined(r, p, q)
  BY <1>1, <1>3, <1>4 DEF IsJoined
<1> QED BY <1>5 DEF r

\* The values that a span arrives with, anywhere in the heap.
LEMMA ReferencesHold ==
    ASSUME AttributeAssumption, NEW c \in Contents, NEW h \in Seq(Values), NEW first \in Nat,
           first + Len(c) <= Len(h), \A i \in 1..Len(c) : h[first + i] = c[i].value
    PROVE  Holds(References(c, first), h, AsMap(c))
<1> DEFINE am == References(c, first)
           f == AsMap(c)
<1>1. /\ Len(c) \in Nat /\ DOMAIN c = 1..Len(c)
      /\ \A i, j \in DOMAIN c : c[i].key = c[j].key => i = j
  BY ContentTyped
<1>2. \A i \in 1..Len(c) : c[i].key \in Keys
  BY ContentTyped
<1>3. am = [i \in 1..Len(c) |-> [key |-> c[i].key, ref |-> first + i]]
  BY DEF References
<1>4. DOMAIN am = 1..Len(c) /\ \A i \in 1..Len(c) : am[i] = [key |-> c[i].key, ref |-> first + i]
  BY <1>3
<1>5. \A i \in 1..Len(c) : am[i].key = c[i].key /\ am[i].ref = first + i
  BY <1>4
<1>6. am \in AttrMaps
  <2>1. am \in Seq([key : Keys, ref : Nat])
    BY <1>1, <1>2, <1>3
  <2>2. \A i, j \in DOMAIN am : am[i].key = am[j].key => i = j
    BY <1>1, <1>4, <1>5
  <2> QED BY <2>1, <2>2 DEF AttrMaps
<1>7. \A i \in 1..Len(c) : f[c[i].key] = c[i].value
  <2> TAKE i \in 1..Len(c)
  <2> DEFINE ii == CHOOSE j \in DOMAIN c : c[j].key = c[i].key
  <2>1. ii \in DOMAIN c /\ c[ii].key = c[i].key
    BY <1>1
  <2>2. ii = i
    <3> HIDE DEF ii
    <3> QED BY <2>1, <1>1
  <2>3. f[c[i].key] = c[ii].value
    BY <1>1 DEF AsMap
  <2> HIDE DEF ii
  <2> QED BY <2>2, <2>3
<1>8. DOMAIN f = {c[i].key : i \in DOMAIN c}
  BY DEF AsMap
<1> HIDE DEF am, f
<1>9. {am[i].key : i \in DOMAIN am} = DOMAIN f
  <2>1. DOMAIN am = DOMAIN c /\ \A i \in DOMAIN c : am[i].key = c[i].key
    BY <1>1, <1>4, <1>5
  <2>2. ASSUME NEW x \in {am[i].key : i \in DOMAIN am} PROVE x \in DOMAIN f
    <3>1. PICK i \in DOMAIN am : x = am[i].key
      OBVIOUS
    <3> QED BY <3>1, <2>1, <1>8
  <2>3. ASSUME NEW x \in DOMAIN f PROVE x \in {am[i].key : i \in DOMAIN am}
    <3>1. PICK i \in DOMAIN c : x = c[i].key
      BY <1>8
    <3> QED BY <3>1, <2>1
  <2> QED BY <2>2, <2>3
<1>10. \A i \in DOMAIN am : am[i].ref \in 1..Len(h) /\ h[am[i].ref] = f[am[i].key]
  <2> TAKE i \in DOMAIN am
  <2>1. i \in 1..Len(c) /\ am[i].ref = first + i /\ am[i].key = c[i].key
    BY <1>4, <1>5
  <2>2. first + i \in 1..Len(h)
    BY <2>1, <1>1
  <2> QED BY <2>1, <2>2, <1>7
<1>11. Holds(am, h, f)
  BY <1>6, <1>9, <1>10 DEF Holds, Represents, AttrMaps
<1> QED BY <1>11 DEF am, f

\* Values of attributes, in sequence.
LEMMA ValuesOfTyped ==
    ASSUME AttributeAssumption, NEW c \in Contents
    PROVE  ValuesOf(c) \in Seq(Values) /\ Len(ValuesOf(c)) = Len(c) /\ Len(c) \in Nat
           /\ \A i \in 1..Len(c) : ValuesOf(c)[i] = c[i].value
<1>1. Len(c) \in Nat
  BY ContentTyped
<1>3. \A i \in 1..Len(c) : c[i].value \in Values
  BY ContentTyped
<1>4. ValuesOf(c) = [i \in 1..Len(c) |-> c[i].value]
  BY DEF ValuesOf
<1> QED BY <1>1, <1>3, <1>4

\* Keys that arrive with a null value.
LEMMA NullKeysNull ==
    ASSUME AttributeAssumption, NEW c \in Contents
    PROVE  AreNull(NullKeys(c), AsMap(c))
<1>1. \A i, j \in DOMAIN c : c[i].key = c[j].key => i = j
  BY ContentTyped
<1> SUFFICES ASSUME NEW x \in NullKeys(c)
             PROVE  x \in DOMAIN AsMap(c) /\ AsMap(c)[x].type = "null"
  BY DEF AreNull
<1>2. PICK i \in DOMAIN c : c[i].key = x /\ c[i].value.type = "null"
  BY DEF NullKeys
<1> DEFINE ii == CHOOSE j \in DOMAIN c : c[j].key = x
<1>3. ii \in DOMAIN c /\ c[ii].key = x
  BY <1>2
<1>4. DOMAIN AsMap(c) = {c[j].key : j \in DOMAIN c} /\ x \in DOMAIN AsMap(c)
  BY <1>2 DEF AsMap
<1>5. AsMap(c)[x] = c[ii].value
  BY <1>4 DEF AsMap
<1> HIDE DEF ii
<1>6. ii = i
  BY <1>1, <1>2, <1>3
<1> QED BY <1>2, <1>4, <1>5, <1>6

\* Spans arrive with the attributes they stand for.
LEMMA AttributeInitHolds ==
    ASSUME AttributeAssumption, AttributeInit
    PROVE  AttributeInv
<1> DEFINE c1 == arrived[1]
           c2 == arrived[2]
           L == Len(Configured)
           h1 == Configured \o ValuesOf(c1)
<1>1. c1 \in Contents /\ c2 \in Contents /\ actions \in Lists /\ Configured \in Seq(Values) /\ L \in Nat
  BY DEF AttributeInit, AttributeAssumption
<1>2. heap = h1 \o ValuesOf(c2) /\ spans = <<References(c1, L), References(c2, L + Len(c1))>>
  BY DEF AttributeInit
<1> HIDE DEF c1, c2
<1>3. /\ ValuesOf(c1) \in Seq(Values) /\ Len(ValuesOf(c1)) = Len(c1) /\ Len(c1) \in Nat
      /\ \A i \in 1..Len(c1) : ValuesOf(c1)[i] = c1[i].value
  BY <1>1, ValuesOfTyped
<1>4. /\ ValuesOf(c2) \in Seq(Values) /\ Len(ValuesOf(c2)) = Len(c2) /\ Len(c2) \in Nat
      /\ \A i \in 1..Len(c2) : ValuesOf(c2)[i] = c2[i].value
  BY <1>1, ValuesOfTyped
<1>5. IsJoined(h1, Configured, ValuesOf(c1))
  BY <1>1, <1>3, Joined
<1> HIDE DEF h1
<1>6. IsJoined(heap, h1, ValuesOf(c2))
  BY <1>2, <1>4, <1>5, Joined DEF IsJoined
<1> HIDE DEF L
<1>7. /\ Len(h1) = L + Len(c1) /\ heap \in Seq(Values) /\ Len(heap) = (L + Len(c1)) + Len(c2)
      /\ \A i \in 1..(L + Len(c1)) : heap[i] = h1[i]
  BY <1>3, <1>4, <1>5, <1>6 DEF IsJoined, L
<1>8. Longer(Configured, heap)
  <2>1. ASSUME NEW i \in 1..L PROVE heap[i] = Configured[i]
    <3>1. i \in 1..(L + Len(c1))
      BY <1>1, <1>3
    <3>2. h1[i] = Configured[i]
      BY <1>5 DEF IsJoined, L
    <3> QED BY <3>1, <3>2, <1>7
  <2>2. L <= Len(heap)
    BY <1>1, <1>3, <1>4, <1>7
  <2> QED BY <1>1, <1>7, <2>1, <2>2 DEF Longer, L
<1>9. ASSUME NEW i \in 1..Len(c1) PROVE heap[L + i] = c1[i].value
  <2>1. L + i \in 1..(L + Len(c1))
    BY <1>1, <1>3
  <2>2. h1[L + i] = ValuesOf(c1)[i]
    BY <1>3, <1>5 DEF IsJoined, L
  <2> QED BY <2>1, <2>2, <1>3, <1>7
<1>10. ASSUME NEW i \in 1..Len(c2) PROVE heap[(L + Len(c1)) + i] = c2[i].value
  <2>1. heap[Len(h1) + i] = ValuesOf(c2)[i]
    BY <1>4, <1>6 DEF IsJoined
  <2> QED BY <2>1, <1>4, <1>7
<1>11. Holds(References(c1, L), heap, AsMap(c1))
  <2>1. L + Len(c1) <= Len(heap)
    BY <1>1, <1>3, <1>4, <1>7
  <2> QED BY <2>1, <1>1, <1>7, <1>9, ReferencesHold
<1>12. Holds(References(c2, L + Len(c1)), heap, AsMap(c2))
  <2>1. L + Len(c1) \in Nat /\ (L + Len(c1)) + Len(c2) <= Len(heap)
    BY <1>1, <1>3, <1>4, <1>7
  <2> QED BY <2>1, <1>1, <1>7, <1>10, ReferencesHold
<1>13. \A k \in 1..2 : Expected(k) = AsMap(arrived[k])
  <2> TAKE k \in 1..2
  <2>1. Done(k) = 0
    BY DEF Done, AttributeInit
  <2>2. arrived[k] \in Contents
    BY DEF AttributeInit
  <2>3. MeantUpTo(actions, arrived[k])[0] = AsMap(arrived[k])
    BY <1>1, <2>2, MeantRecursion
  <2> QED BY <2>1, <2>3 DEF Expected
<1>14. \A k \in 1..2 : Holds(spans[k], heap, Expected(k))
  <2>1. spans[1] = References(c1, L) /\ spans[2] = References(c2, L + Len(c1))
    BY <1>2
  <2>2. Expected(1) = AsMap(c1) /\ Expected(2) = AsMap(c2)
    BY <1>13 DEF c1, c2
  <2>3. Holds(spans[1], heap, Expected(1)) /\ Holds(spans[2], heap, Expected(2))
    BY <1>11, <1>12, <2>1, <2>2
  <2>4. \A k \in 1..2 : k = 1 \/ k = 2
    OBVIOUS
  <2> QED BY <2>3, <2>4
<1>15. AttributeTypeOK
  <2>1. References(c1, L) \in AttrMaps /\ References(c2, L + Len(c1)) \in AttrMaps
    BY <1>11, <1>12 DEF Holds
  <2>2. spans \in [1..2 -> AttrMaps]
    BY <1>2, <2>1
  <2>3. Len(actions) \in Nat
    BY <1>1, ListTyped
  <2>4. nthAction \in 1..(Len(actions) + 1) /\ nthSpan \in Nat \ {0}
    BY <2>3 DEF AttributeInit
  <2> QED BY <1>1, <1>7, <2>2, <2>4 DEF AttributeTypeOK, AttributeInit
<1>16. ASSUME NEW k \in 1..2 PROVE AreNull(nilValues[k], Expected(k))
  <2>1. nilValues[k] \subseteq NullKeys(arrived[k]) /\ arrived[k] \in Contents
    BY DEF AttributeInit
  <2>2. AreNull(NullKeys(arrived[k]), AsMap(arrived[k]))
    BY <2>1, NullKeysNull
  <2> QED BY <1>13, <2>1, <2>2 DEF AreNull
<1>17. PanicExplained
  BY DEF AttributeInit, PanicExplained
<1> QED BY <1>8, <1>14, <1>15, <1>16, <1>17 DEF AttributeInv

\* processorhelper: after every action every span has the attributes that the actions mean
\* for a map from keys to values, and no key twice, although entries change places and
\* values are shared with other attributes, other spans and the configuration; and only
\* updating a value that is null panics: for any lists of actions, any patterns and any
\* attributes without a key twice, null and nil values included.
THEOREM ActionsCorrect == AttributeSpec => []ActionsApplied
<1> USE AttributeAssumption
<1>1. AttributeInit => AttributeInv
  BY AttributeInitHolds
<1>2. AttributeInv /\ [AttributeNext]_attributeVars => AttributeInv'
  <2> SUFFICES ASSUME AttributeInv, [AttributeNext]_attributeVars PROVE AttributeInv'
    OBVIOUS
  <2>1. CASE ProcessAction
    BY <2>1, ActionKeeps
  <2>2. CASE NextSpan
    BY <2>2, NextSpanKeeps
  <2>3. CASE CopyPanics
    BY <2>3, PanicKeeps
  <2>4. CASE UNCHANGED attributeVars
    <3>1. Current' = Current /\ \A k : Expected(k)' = Expected(k)
      BY <2>4 DEF attributeVars, Current, Expected, Done
    <3>2. Expected(nthSpan)' = Expected(nthSpan)
      BY <2>4 DEF attributeVars, Expected, Done
    <3>3. PanicExplained'
      BY <2>4, <3>1, <3>2 DEF AttributeInv, PanicExplained, attributeVars
    <3> QED BY <2>4, <3>1, <3>3 DEF AttributeInv, AttributeTypeOK, attributeVars
  <2> QED BY <2>1, <2>2, <2>3, <2>4 DEF AttributeNext
<1>3. AttributeInv => ActionsApplied
  <2> SUFFICES ASSUME AttributeInv PROVE ActionsApplied
    OBVIOUS
  <2>1. DOMAIN spans = 1..2
    BY DEF AttributeInv, AttributeTypeOK
  <2>2. \A k \in DOMAIN spans : Represents(spans[k], heap, Expected(k))
    BY <2>1 DEF AttributeInv, Holds
  <2>3. panicked => /\ Current.action \in {"update", "upsert"}
                    /\ Current.key \in DOMAIN Expected(nthSpan)
                    /\ Expected(nthSpan)[Current.key].type = "null"
    BY DEF AttributeInv, PanicExplained, AreNull
  <2> QED BY <2>2, <2>3 DEF ActionsApplied
<1> QED BY <1>1, <1>2, <1>3, PTL DEF AttributeSpec

(***************************************************************************)
(* The OpenCensus exporter and receiver.  StreamInv: a stream is in one    *)
(* place; the clients are counted; the messages of a call are the last of  *)
(* its stream; every message has its own node and resource and is on its   *)
(* stream once; what was passed on was read before.                        *)
(***************************************************************************)

SentMessages == [push : Pushes, number : Nat, node : Names, resource : Names, spans : Nat]
Received == [push : Pushes, number : Nat, node : Names, resource : Names]
PushStates == {"idle", "take", "open", "send", "failed", "ok", "error", "stopped"}

PushRecords == [at : PushStates, client : Pushes \cup {Nil}, sent : Nat]
HandlerRecords ==
    [at : {"first", "process", "returned"}, node : Names, resource : Names, read : Nat]
StopRecords == [at : {"no", "drain", "closed", "returned"}, taken : Nat]

StreamTypeOK ==
    /\ clients \in Seq(Pushes \cup {Nil})
    /\ push \in [Pushes -> PushRecords]
    /\ open \in SUBSET Pushes
    /\ stop \in StopRecords
    /\ sentOn \in [Pushes -> Seq(SentMessages)]
    /\ handler \in [Pushes -> HandlerRecords]
    /\ passedOn \in [Pushes -> Seq(Received)]

\* A call that has not opened a stream.
Before(p) == push[p].at \in {"idle", "take", "open", "stopped"}

\* A stream is in one place, the channel or a call that sends on it; a call that has not
\* opened its stream has left no trace.
SendersHaveOne == \A p \in Pushes : push[p].at = "send" <=> push[p].client # Nil
OncePooled == \A i, j \in DOMAIN clients : clients[i] = clients[j] /\ i # j => clients[i] = Nil
NotInUse ==
    \A i \in DOMAIN clients, p \in Pushes : clients[i] = push[p].client => clients[i] = Nil
OneUser ==
    \A p, q \in Pushes : push[p].client = push[q].client /\ p # q => push[p].client = Nil
NothingBefore ==
    \A p \in Pushes : Before(p) =>
        /\ sentOn[p] = <<>> /\ push[p].sent = 0
        /\ \A i \in DOMAIN clients : clients[i] # p
        /\ \A q \in Pushes : push[q].client # p
StreamInOnePlace == SendersHaveOne /\ OncePooled /\ NotInUse /\ OneUser /\ NothingBefore

\* The streams that shutdown took from the channel and that are still open.
Holders == {p \in Pushes : Holding(p)}
Drained ==
    {s \in open : /\ \A i \in DOMAIN clients : clients[i] # s
                  /\ \A p \in Pushes : push[p].client # s}

PoolInv ==
    /\ IsFiniteSet(Holders)
    /\ Len(clients) + Cardinality(Holders) + stop.taken = NumWorkers
    /\ IsFiniteSet(Drained) /\ Cardinality(Drained) <= stop.taken
    /\ closed => stop.taken = NumWorkers

\* The messages of a call that is sending are the last ones of its stream.
Last(p) ==
    LET s == push[p].client
        n == Len(sentOn[s]) - push[p].sent
    IN  /\ n \in Nat
        /\ \A k \in 1..push[p].sent : sentOn[s][n + k].push = p /\ sentOn[s][n + k].number = k

SendsInv ==
    /\ \A p \in Pushes : push[p].sent <= Len(Payload[p])
    /\ \A p \in Pushes : push[p].at = "send" => Last(p)
    /\ SentTogether

\* A message on a stream is one of its call's, with its node and resource, and on it once.
SentRight(s, i) ==
    LET m == sentOn[s][i]
    IN  /\ m.number \in 1..push[m.push].sent
        /\ m.node = OrEmpty(Payload[m.push][m.number].node)
        /\ m.resource = OrEmpty(Payload[m.push][m.number].resource)
        /\ \A j \in 1..(i - 1) : sentOn[s][j].push = m.push => sentOn[s][j].number # m.number

SentInv == \A s \in Pushes : \A i \in DOMAIN sentOn[s] : SentRight(s, i)

\* What is passed on was read from the stream.
ReadBefore(s, r) ==
    \E j \in 1..handler[s].read : sentOn[s][j].push = r.push /\ sentOn[s][j].number = r.number

HandlerInv ==
    /\ \A s \in Pushes : handler[s].read <= Len(sentOn[s])
    /\ \A s \in Pushes : \A i \in DOMAIN passedOn[s] : ReadBefore(s, passedOn[s][i])
    /\ OwnResource

StreamInv == StreamTypeOK /\ StreamInOnePlace /\ PoolInv /\ SendsInv /\ SentInv /\ HandlerInv

\* The fields of the records of calls, handlers, shutdown and messages.
LEMMA Fields ==
    /\ \A r \in PushRecords : r.at \in PushStates /\ r.client \in Pushes \cup {Nil} /\ r.sent \in Nat
    /\ \A r \in HandlerRecords : r.node \in Names /\ r.resource \in Names /\ r.read \in Nat
    /\ \A r \in StopRecords : r.at \in {"no", "drain", "closed", "returned"} /\ r.taken \in Nat
    /\ \A m \in Messages : m.node \in Names /\ m.resource \in Names /\ m.spans \in Nat
    /\ \A m \in SentMessages : /\ m.push \in Pushes /\ m.number \in Nat
                               /\ m.node \in Names /\ m.resource \in Names /\ m.spans \in Nat
BY DEF PushRecords, HandlerRecords, StopRecords, Messages, SentMessages

\* What a call sends next is a message of its payload, with an empty node or resource
\* in place of nil.
LEMMA FilledTyped ==
    ASSUME StreamTypeOK, NEW p \in Pushes, More(p)
    PROVE  /\ NextMessage(p) \in Messages
           /\ Filled(NextMessage(p), p) \in SentMessages
<1>1. push[p].sent + 1 \in 1..Len(Payload[p]) /\ Payload[p] \in Seq(Messages)
  <2>1. push[p].sent \in Nat
    BY Fields DEF StreamTypeOK
  <2>2. Payload[p] \in Seq(Messages)
    BY OpenCensusAssumption
  <2> QED BY <2>1, <2>2, LenProperties DEF More
<1>2. NextMessage(p) \in Messages
  BY <1>1, ElementOfSeq DEF NextMessage
<1>3. push[p].sent + 1 \in Nat
  BY <1>1
<1>4. Empty \in Names
  BY OpenCensusAssumption
<1> DEFINE m == NextMessage(p)
           e == [push |-> p, number |-> push[p].sent + 1,
                 node |-> IF m.node = Nil THEN Empty ELSE m.node,
                 resource |-> IF m.resource = Nil THEN Empty ELSE m.resource,
                 spans |-> m.spans]
<1>5. m.node \in Names /\ m.resource \in Names /\ m.spans \in Nat
  BY <1>2, Fields
<1>6. Filled(m, p) = e
  BY DEF Filled
<1> HIDE DEF m
<1>7. e \in SentMessages
  BY <1>3, <1>4, <1>5 DEF SentMessages
<1> QED BY <1>2, <1>6, <1>7 DEF m

\* A call that moves on stays a call.
LEMMA PushTyped ==
    ASSUME StreamTypeOK, NEW p \in Pushes, NEW a \in PushStates, NEW c \in Pushes \cup {Nil},
           PushAt(p, a, c)
    PROVE  /\ push' \in [Pushes -> PushRecords]
<1>1. push[p].sent \in Nat
  BY Fields DEF StreamTypeOK
<1>2. [at |-> a, client |-> c, sent |-> push[p].sent] \in PushRecords
  BY <1>1 DEF PushRecords
<1> QED BY <1>2 DEF StreamTypeOK, PushAt

\* PushAt changes the state and the client of one call and nothing else.
LEMMA PushMoved ==
    ASSUME StreamTypeOK, NEW p \in Pushes, NEW a, NEW c, PushAt(p, a, c)
    PROVE  /\ push'[p].at = a /\ push'[p].client = c /\ push'[p].sent = push[p].sent
           /\ \A q \in Pushes \ {p} : push'[q] = push[q]
<1>1. push'[p] = [at |-> a, client |-> c, sent |-> push[p].sent]
  BY DEF StreamTypeOK, PushAt
<1>2. \A q \in Pushes \ {p} : push'[q] = push[q]
  BY DEF StreamTypeOK, PushAt
<1> QED BY <1>1, <1>2

\* The types of the streams stay.
LEMMA StreamTypes ==
    ASSUME StreamTypeOK, [ReceiverNext]_streamVars
    PROVE  StreamTypeOK'
<1> USE DEF StreamTypeOK
<1>1. ASSUME NEW p \in Pushes, Call(p), UNCHANGED receiverVars PROVE StreamTypeOK'
  <2>1. PushAt(p, "take", Nil)
    BY <1>1 DEF Call
  <2> QED BY <1>1, <2>1, PushTyped DEF Call, receiverVars, PushStates
<1>2. ASSUME NEW p \in Pushes, Take(p), UNCHANGED receiverVars PROVE StreamTypeOK'
  <2>1. CASE clients # <<>> /\ clients' = Tail(clients)
                /\ PushAt(p, IF Head(clients) = Nil THEN "open" ELSE "send", Head(clients))
    <3>1. Head(clients) \in Pushes \cup {Nil} /\ Tail(clients) \in Seq(Pushes \cup {Nil})
      BY <2>1, HeadTailProperties
    <3>2. (IF Head(clients) = Nil THEN "open" ELSE "send") \in PushStates
      BY DEF PushStates
    <3> QED BY <1>2, <2>1, <3>1, <3>2, PushTyped DEF Take, receiverVars, PushStates
  <2>2. CASE clients' = clients /\ PushAt(p, "stopped", Nil)
    BY <1>2, <2>2, PushTyped DEF Take, receiverVars, PushStates
  <2> QED BY <1>2, <2>1, <2>2 DEF Take
<1>3. ASSUME NEW p \in Pushes, OpenStream(p), UNCHANGED receiverVars PROVE StreamTypeOK'
  <2>1. PushAt(p, "send", p) \/ PushAt(p, "failed", Nil)
    BY <1>3 DEF OpenStream
  <2> QED BY <1>3, <2>1, PushTyped DEF OpenStream, receiverVars, PushStates
<1>4. ASSUME NEW p \in Pushes, SendSucceeds(p), UNCHANGED receiverVars PROVE StreamTypeOK'
  <2>1. Filled(NextMessage(p), p) \in SentMessages
    BY <1>4, FilledTyped DEF SendSucceeds
  <2>2. sentOn' \in [Pushes -> Seq(SentMessages)]
    BY <1>4, <2>1 DEF SendSucceeds
  <2>3. push' \in [Pushes -> PushRecords]
    <3>1. push[p] \in PushRecords
      OBVIOUS
    <3>2. push[p].sent + 1 \in Nat
      BY <3>1, Fields
    <3>3. [push[p] EXCEPT !.sent = @ + 1] \in PushRecords
      BY <3>1, <3>2 DEF PushRecords
    <3>4. push' = [push EXCEPT ![p] = [push[p] EXCEPT !.sent = @ + 1]]
      BY <1>4 DEF SendSucceeds
    <3> QED BY <3>3, <3>4
  <2> QED BY <1>4, <2>2, <2>3 DEF SendSucceeds, receiverVars
<1>5. ASSUME NEW p \in Pushes, SendFails(p), UNCHANGED receiverVars PROVE StreamTypeOK'
  <2>1. PushAt(p, "failed", Nil)
    BY <1>5 DEF SendFails
  <2> QED BY <1>5, <2>1, PushTyped DEF SendFails, receiverVars, PushStates
<1>6. ASSUME NEW p \in Pushes, PutBack(p), UNCHANGED receiverVars PROVE StreamTypeOK'
  <2>1. PushAt(p, "error", Nil) \/ PushAt(p, "ok", Nil)
    BY <1>6 DEF PutBack
  <2>2. push[p].client \in Pushes \cup {Nil}
    BY Fields
  <2>3. clients' \in Seq(Pushes \cup {Nil})
    BY <1>6, <2>2, AppendProperties DEF PutBack
  <2> QED BY <1>6, <2>1, <2>3, PushTyped DEF PutBack, receiverVars, PushStates
<1>7. CASE BeginShutdown /\ UNCHANGED receiverVars
  <2>1. stop' \in StopRecords
    BY <1>7 DEF BeginShutdown, StopRecords
  <2> QED BY <1>7, <2>1 DEF BeginShutdown, receiverVars
<1>8. CASE Drain /\ UNCHANGED receiverVars
  <2>1. stop' \in StopRecords
    <3>1. stop.taken + 1 \in Nat
      BY Fields
    <3> QED BY <1>8, <3>1 DEF Drain, StopRecords
  <2>2. clients' \in Seq(Pushes \cup {Nil})
    BY <1>8, HeadTailProperties DEF Drain
  <2> QED BY <1>8, <2>1, <2>2 DEF Drain, receiverVars
<1>9. CASE CloseChannel /\ UNCHANGED receiverVars
  <2>1. stop' \in StopRecords
    BY <1>9 DEF CloseChannel, StopRecords
  <2> QED BY <1>9, <2>1 DEF CloseChannel, receiverVars
<1>10. CASE CloseConnection /\ UNCHANGED receiverVars
  <2>1. stop' \in StopRecords
    BY <1>10 DEF CloseConnection, StopRecords
  <2> QED BY <1>10, <2>1 DEF CloseConnection, receiverVars
<1>11. ASSUME NEW s \in Pushes, CheckFirst(s) PROVE StreamTypeOK'
  <2> DEFINE a == IF sentOn[s][1].node = Nil THEN "returned" ELSE "process"
  <2>1. [handler[s] EXCEPT !.at = a] \in HandlerRecords
    BY DEF HandlerRecords
  <2>2. handler' = [handler EXCEPT ![s] = [handler[s] EXCEPT !.at = a]]
    BY <1>11 DEF CheckFirst
  <2> HIDE DEF a
  <2>3. handler' \in [Pushes -> HandlerRecords]
    BY <2>1, <2>2
  <2> QED BY <1>11, <2>3 DEF CheckFirst, clientVars
<1>12. ASSUME NEW s \in Pushes, Process(s) PROVE StreamTypeOK'
  <2> DEFINE m == sentOn[s][handler[s].read + 1]
             l == Latest(s, m)
  <2>1. m \in SentMessages
    <3>1. handler[s].read + 1 \in 1..Len(sentOn[s])
      <4>1. handler[s].read \in Nat /\ Len(sentOn[s]) \in Nat
        BY Fields, LenProperties
      <4> QED BY <1>12, <4>1 DEF Process, Unread
    <3> QED BY <3>1, ElementOfSeq
  <2>2. l \in [node : Names, resource : Names]
    <3>1. handler[s] \in HandlerRecords
      OBVIOUS
    <3> QED BY <2>1, <3>1, Fields DEF Latest
  <2>3. [push |-> m.push, number |-> m.number, node |-> l.node, resource |-> l.resource] \in Received
    BY <2>1, <2>2 DEF SentMessages, Received
  <2> HIDE DEF m, l
  <2>4. handler' \in [Pushes -> HandlerRecords]
    <3>1. handler[s].read + 1 \in Nat
      BY Fields
    <3>2. \A a \in {"process", "returned"} :
             [at |-> a, node |-> l.node, resource |-> l.resource, read |-> handler[s].read + 1]
                \in HandlerRecords
      BY <2>2, <3>1 DEF HandlerRecords
    <3>3. \E a \in {"process", "returned"} :
             handler' = [handler EXCEPT ![s] = [at |-> a, node |-> l.node, resource |-> l.resource,
                                                read |-> handler[s].read + 1]]
      BY <1>12 DEF Process, m, l
    <3> QED BY <3>2, <3>3
  <2>5. passedOn' \in [Pushes -> Seq(Received)]
    <3> DEFINE e == [push |-> m.push, number |-> m.number, node |-> l.node, resource |-> l.resource]
    <3>1. passedOn' = passedOn \/ passedOn' = [passedOn EXCEPT ![s] = Append(passedOn[s], e)]
      BY <1>12 DEF Process, m, l
    <3>2. Append(passedOn[s], e) \in Seq(Received)
      BY <2>3, AppendProperties
    <3> QED BY <3>1, <3>2
  <2> QED BY <1>12, <2>4, <2>5 DEF Process, clientVars
<1>13. ASSUME NEW s \in Pushes, StreamEnds(s) PROVE StreamTypeOK'
  <2>1. [handler[s] EXCEPT !.at = "returned"] \in HandlerRecords
    BY DEF HandlerRecords
  <2>2. handler' = [handler EXCEPT ![s] = [handler[s] EXCEPT !.at = "returned"]]
    BY <1>13 DEF StreamEnds
  <2>3. handler' \in [Pushes -> HandlerRecords]
    BY <2>1, <2>2
  <2> QED BY <1>13, <2>3 DEF StreamEnds, clientVars
<1>14. CASE UNCHANGED streamVars
  BY <1>14 DEF streamVars
<1> QED BY <1>1, <1>2, <1>3, <1>4, <1>5, <1>6, <1>7, <1>8, <1>9, <1>10, <1>11, <1>12, <1>13, <1>14
        DEF ReceiverNext, ClientNext, PushStep, ShutdownStep

\* The channel gives its first client, or is given one.
LEMMA FirstTaken ==
    ASSUME StreamTypeOK, clients # <<>>, clients' = Tail(clients)
    PROVE  /\ 1 \in DOMAIN clients /\ Head(clients) = clients[1]
           /\ clients[1] \in Pushes \cup {Nil}
           /\ \A i \in DOMAIN clients' : i + 1 \in DOMAIN clients /\ i # 0 /\ clients'[i] = clients[i + 1]
           /\ \A i \in DOMAIN clients : i # 1 => i - 1 \in DOMAIN clients' /\ clients'[i - 1] = clients[i]
           /\ DOMAIN clients \subseteq Nat /\ DOMAIN clients' \subseteq Nat
           /\ Len(clients') = Len(clients) - 1 /\ Len(clients) \in Nat
<1>1. clients \in Seq(Pushes \cup {Nil})
  BY DEF StreamTypeOK
<1>2. Len(clients) \in Nat \ {0} /\ DOMAIN clients = 1..Len(clients)
  BY <1>1, LenProperties, EmptySeq
<1>3. /\ Tail(clients) \in Seq(Pushes \cup {Nil}) /\ Len(Tail(clients)) = Len(clients) - 1
      /\ \A i \in 1..Len(Tail(clients)) : Tail(clients)[i] = clients[i + 1]
  BY <1>1, HeadTailProperties
<1>4. DOMAIN Tail(clients) = 1..(Len(clients) - 1)
  BY <1>3, LenProperties
<1>5. Head(clients) = clients[1]
  BY <1>1
<1>6. clients[1] \in Pushes \cup {Nil}
  BY <1>1, <1>2, ElementOfSeq
<1> QED BY <1>2, <1>3, <1>4, <1>5, <1>6

\* The client that is put back into the channel.
LEMMA LastAdded ==
    ASSUME StreamTypeOK, NEW c \in Pushes \cup {Nil}, clients' = Append(clients, c)
    PROVE  LET n == Len(clients) + 1
           IN  /\ n \in DOMAIN clients' /\ clients'[n] = c
               /\ n \notin DOMAIN clients
               /\ DOMAIN clients' = DOMAIN clients \cup {n}
               /\ \A i \in DOMAIN clients : clients'[i] = clients[i]
               /\ Len(clients') = Len(clients) + 1 /\ Len(clients) \in Nat
<1>1. clients \in Seq(Pushes \cup {Nil})
  BY DEF StreamTypeOK
<1>2. Len(clients) \in Nat /\ DOMAIN clients = 1..Len(clients)
  BY <1>1, LenProperties
<1>3. /\ Append(clients, c) \in Seq(Pushes \cup {Nil})
      /\ Len(Append(clients, c)) = Len(clients) + 1
      /\ \A i \in 1..Len(clients) : Append(clients, c)[i] = clients[i]
      /\ Append(clients, c)[Len(clients) + 1] = c
  BY <1>1, AppendProperties
<1>4. DOMAIN clients' = 1..(Len(clients) + 1)
  BY <1>3, LenProperties
<1> QED BY <1>2, <1>3, <1>4

\* A stream stays in one place.
LEMMA PlacesStay ==
    ASSUME StreamTypeOK, StreamInOnePlace, ReceiverNext
    PROVE  StreamInOnePlace'
<1> USE DEF StreamInOnePlace
<1>0. push \in [Pushes -> PushRecords] /\ Nil \notin Pushes
  BY OpenCensusAssumption DEF StreamTypeOK
<1>1. ASSUME NEW p \in Pushes, Call(p) PROVE StreamInOnePlace'
  <2>1. PushAt(p, "take", Nil) /\ push[p].at = "idle" /\ UNCHANGED <<clients, sentOn>>
    BY <1>1 DEF Call
  <2>2. /\ push'[p].at = "take" /\ push'[p].client = Nil /\ push'[p].sent = push[p].sent
        /\ \A q \in Pushes \ {p} : push'[q] = push[q]
    BY <2>1, PushMoved
  <2>3. push[p].client = Nil
    BY <2>1 DEF SendersHaveOne
  <2>4. \A q \in Pushes : push'[q].client = push[q].client
    BY <2>2, <2>3
  <2>5. SendersHaveOne' /\ OncePooled' /\ NotInUse' /\ OneUser'
    BY <2>1, <2>2, <2>3, <2>4 DEF SendersHaveOne, OncePooled, NotInUse, OneUser
  <2>6. NothingBefore'
    BY <2>1, <2>2, <2>4 DEF NothingBefore, Before
  <2> QED BY <2>5, <2>6
<1>2. ASSUME NEW p \in Pushes, Take(p) PROVE StreamInOnePlace'
  <2>1. CASE clients # <<>> /\ clients' = Tail(clients)
                /\ PushAt(p, IF Head(clients) = Nil THEN "open" ELSE "send", Head(clients))
    <3> DEFINE h == clients[1]
    <3>1. /\ 1 \in DOMAIN clients /\ Head(clients) = h /\ h \in Pushes \cup {Nil}
          /\ \A i \in DOMAIN clients' : i + 1 \in DOMAIN clients /\ i # 0 /\ clients'[i] = clients[i + 1]
          /\ DOMAIN clients' \subseteq Nat
      BY <2>1, FirstTaken
    <3>2. /\ push'[p].at = IF h = Nil THEN "open" ELSE "send"
          /\ push'[p].client = h /\ push'[p].sent = push[p].sent
          /\ \A q \in Pushes \ {p} : push'[q] = push[q]
      BY <2>1, <3>1, PushMoved
    <3>3. push[p].at = "take" /\ sentOn' = sentOn
      BY <1>2 DEF Take
    <3>4. \A i \in DOMAIN clients' : clients'[i] = h => h = Nil
      BY <3>1 DEF OncePooled
    <3>5. \A q \in Pushes : push[q].client = h => h = Nil
      BY <3>1 DEF NotInUse
    <3> HIDE DEF h
    <3>6. SendersHaveOne'
      BY <3>2 DEF SendersHaveOne
    <3>7. OncePooled'
      BY <3>1 DEF OncePooled
    <3>8. NotInUse'
      <4> SUFFICES ASSUME NEW i \in DOMAIN clients', NEW q \in Pushes, clients'[i] = push'[q].client
                   PROVE  clients'[i] = Nil
        BY DEF NotInUse
      <4> QED BY <3>1, <3>2, <3>4 DEF NotInUse
    <3>9. OneUser'
      BY <3>2, <3>5 DEF OneUser
    <3>10. NothingBefore'
      <4>1. \A q \in Pushes : Before(q)' => Before(q)
        BY <3>2, <3>3 DEF Before
      <4>2. \A q \in Pushes : Before(q) => h # q
        BY <3>1 DEF NothingBefore, h
      <4>3. ASSUME NEW q \in Pushes, Before(q)' PROVE \A r \in Pushes : push'[r].client # q
        BY <4>1, <4>2, <4>3, <3>2 DEF NothingBefore
      <4>4. ASSUME NEW q \in Pushes, Before(q)' PROVE \A i \in DOMAIN clients' : clients'[i] # q
        BY <4>1, <4>4, <3>1 DEF NothingBefore
      <4> QED BY <4>1, <4>3, <4>4, <3>2, <3>3 DEF NothingBefore
    <3> QED BY <3>6, <3>7, <3>8, <3>9, <3>10
  <2>2. CASE clients' = clients /\ PushAt(p, "stopped", Nil)
    <3>1. /\ push'[p].at = "stopped" /\ push'[p].client = Nil /\ push'[p].sent = push[p].sent
          /\ \A q \in Pushes \ {p} : push'[q] = push[q]
      BY <2>2, PushMoved
    <3>2. push[p].at = "take" /\ sentOn' = sentOn
      BY <1>2 DEF Take
    <3>3. push[p].client = Nil
      BY <3>2 DEF SendersHaveOne
    <3>4. \A q \in Pushes : push'[q].client = push[q].client
      BY <3>1, <3>3
    <3>5. SendersHaveOne' /\ OncePooled' /\ NotInUse' /\ OneUser'
      BY <2>2, <3>1, <3>2, <3>3, <3>4 DEF SendersHaveOne, OncePooled, NotInUse, OneUser
    <3>6. NothingBefore'
      BY <2>2, <3>1, <3>2, <3>4 DEF NothingBefore, Before
    <3> QED BY <3>5, <3>6
  <2> QED BY <1>2, <2>1, <2>2 DEF Take
<1>3. ASSUME NEW p \in Pushes, OpenStream(p) PROVE StreamInOnePlace'
  <2>0. push[p].at = "open" /\ clients' = clients /\ sentOn' = sentOn
    BY <1>3 DEF OpenStream
  <2>1. Before(p) /\ push[p].client = Nil
    BY <2>0 DEF Before, SendersHaveOne
  <2>2. CASE PushAt(p, "send", p)
    <3>1. /\ push'[p].at = "send" /\ push'[p].client = p /\ push'[p].sent = push[p].sent
          /\ \A q \in Pushes \ {p} : push'[q] = push[q]
      BY <2>2, PushMoved
    <3>2. SendersHaveOne' /\ OncePooled'
      BY <1>0, <2>0, <3>1 DEF SendersHaveOne, OncePooled
    <3>3. NotInUse' /\ OneUser'
      BY <2>0, <2>1, <3>1 DEF NotInUse, OneUser, NothingBefore
    <3>4. NothingBefore'
      BY <2>0, <2>1, <3>1 DEF NothingBefore, Before
    <3> QED BY <3>2, <3>3, <3>4
  <2>3. CASE PushAt(p, "failed", Nil)
    <3>1. /\ push'[p].at = "failed" /\ push'[p].client = Nil /\ push'[p].sent = push[p].sent
          /\ \A q \in Pushes \ {p} : push'[q] = push[q]
      BY <2>3, PushMoved
    <3>2. \A q \in Pushes : push'[q].client = push[q].client
      BY <2>1, <3>1
    <3>3. SendersHaveOne' /\ OncePooled' /\ NotInUse' /\ OneUser'
      BY <2>0, <2>1, <3>1, <3>2 DEF SendersHaveOne, OncePooled, NotInUse, OneUser
    <3>4. NothingBefore'
      BY <2>0, <3>1, <3>2 DEF NothingBefore, Before
    <3> QED BY <3>3, <3>4
  <2> QED BY <1>3, <2>2, <2>3 DEF OpenStream
<1>4. ASSUME NEW p \in Pushes, SendSucceeds(p) PROVE StreamInOnePlace'
  <2> DEFINE c == push[p].client
  <2>1. /\ push[p].at = "send" /\ clients' = clients
        /\ push' = [push EXCEPT ![p].sent = @ + 1]
        /\ \A s \in Pushes \ {c} : sentOn'[s] = sentOn[s]
    BY <1>4 DEF SendSucceeds, StreamTypeOK
  <2>2. \A q \in Pushes : push'[q].at = push[q].at /\ push'[q].client = push[q].client
    BY <1>0, <2>1 DEF PushRecords
  <2>3. \A q \in Pushes \ {p} : push'[q] = push[q]
    BY <1>0, <2>1
  <2>4. SendersHaveOne' /\ OncePooled' /\ NotInUse' /\ OneUser'
    BY <2>1, <2>2 DEF SendersHaveOne, OncePooled, NotInUse, OneUser
  <2>5. NothingBefore'
    BY <2>1, <2>2, <2>3 DEF NothingBefore, Before
  <2> QED BY <2>4, <2>5
<1>5. ASSUME NEW p \in Pushes, SendFails(p) PROVE StreamInOnePlace'
  <2>1. push[p].at = "send" /\ clients' = clients /\ sentOn' = sentOn /\ PushAt(p, "failed", Nil)
    BY <1>5 DEF SendFails
  <2>2. /\ push'[p].at = "failed" /\ push'[p].client = Nil
        /\ \A q \in Pushes \ {p} : push'[q] = push[q]
    BY <2>1, PushMoved
  <2>3. SendersHaveOne' /\ OncePooled'
    BY <2>1, <2>2 DEF SendersHaveOne, OncePooled
  <2>4. NotInUse' /\ OneUser'
    BY <2>1, <2>2 DEF NotInUse, OneUser
  <2>5. NothingBefore'
    BY <1>0, <2>1, <2>2 DEF NothingBefore, Before
  <2> QED BY <2>3, <2>4, <2>5
<1>6. ASSUME NEW p \in Pushes, PutBack(p) PROVE StreamInOnePlace'
  <2> DEFINE c == push[p].client
             n == Len(clients) + 1
  <2>1. /\ push[p].at \in {"failed", "send"} /\ clients' = Append(clients, c) /\ sentOn' = sentOn
        /\ PushAt(p, "error", Nil) \/ PushAt(p, "ok", Nil)
    BY <1>6 DEF PutBack
  <2>2. /\ push'[p].at \in {"error", "ok"} /\ push'[p].client = Nil
        /\ \A q \in Pushes \ {p} : push'[q] = push[q]
    BY <2>1, PushMoved
  <2>3. c \in Pushes \cup {Nil}
    BY <1>0, Fields
  <2>4. /\ clients'[n] = c /\ DOMAIN clients' = DOMAIN clients \cup {n}
        /\ n \notin DOMAIN clients
        /\ \A i \in DOMAIN clients : clients'[i] = clients[i]
    BY <2>1, <2>3, LastAdded
  <2>5. \A i \in DOMAIN clients : clients[i] = c => c = Nil
    BY DEF NotInUse
  <2>6. \A q \in Pushes \ {p} : push[q].client = c => c = Nil
    BY DEF OneUser
  <2>7. \A q \in Pushes : Before(q) => c # q
    BY DEF NothingBefore
  <2> HIDE DEF c, n
  <2>8. SendersHaveOne'
    BY <2>2 DEF SendersHaveOne
  <2>9. OncePooled'
    BY <2>4, <2>5 DEF OncePooled
  <2>10. NotInUse'
    BY <2>2, <2>4, <2>6 DEF NotInUse
  <2>11. OneUser'
    BY <2>2 DEF OneUser
  <2>12. NothingBefore'
    <3>1. \A q \in Pushes : Before(q)' => Before(q)
      BY <2>2 DEF Before
    <3> QED BY <1>0, <2>1, <2>2, <2>4, <2>7, <3>1 DEF NothingBefore, Before
  <2> QED BY <2>8, <2>9, <2>10, <2>11, <2>12
<1>7. CASE UNCHANGED <<clients, push, sentOn>>
  BY <1>7 DEF SendersHaveOne, OncePooled, NotInUse, OneUser, NothingBefore, Before
<1>8. CASE Drain
  <2>1. clients # <<>> /\ clients' = Tail(clients) /\ UNCHANGED <<push, sentOn>>
    BY <1>8 DEF Drain
  <2>2. \A i \in DOMAIN clients' : i + 1 \in DOMAIN clients /\ i # 0 /\ clients'[i] = clients[i + 1]
    BY <2>1, FirstTaken
  <2>3. DOMAIN clients' \subseteq Nat
    BY <2>1, FirstTaken
  <2>4. SendersHaveOne' /\ OneUser'
    BY <2>1 DEF SendersHaveOne, OneUser
  <2>5. OncePooled'
    BY <2>2, <2>3 DEF OncePooled
  <2>6. NotInUse'
    BY <2>1, <2>2 DEF NotInUse
  <2>7. NothingBefore'
    BY <2>1, <2>2 DEF NothingBefore, Before
  <2> QED BY <2>4, <2>5, <2>6, <2>7
<1> QED
  BY <1>1, <1>2, <1>3, <1>4, <1>5, <1>6, <1>7, <1>8
  DEF ReceiverNext, ClientNext, PushStep, ShutdownStep, BeginShutdown, CloseChannel, CloseConnection,
      CheckFirst, Process, StreamEnds, clientVars

\* A part of a finite set is finite and no larger.
LEMMA Fewer ==
    ASSUME NEW S, NEW T, IsFiniteSet(S), T \subseteq S
    PROVE  IsFiniteSet(T) /\ Cardinality(S) \in Nat /\ Cardinality(T) \in Nat
           /\ Cardinality(T) <= Cardinality(S)
<1>1. T \in SUBSET S
  OBVIOUS
<1> QED BY <1>1, FS_Subset, FS_CardinalityType

\* The clients that are counted stay as many.
LEMMA PoolStays ==
    ASSUME StreamTypeOK, StreamInOnePlace, PoolInv, ReceiverNext
    PROVE  PoolInv'
<1> USE DEF PoolInv
<1>0. /\ push \in [Pushes -> PushRecords] /\ Nil \notin Pushes /\ open \subseteq Pushes
      /\ NumWorkers \in Nat /\ Len(clients) \in Nat /\ stop.taken \in Nat /\ stop \in StopRecords
      /\ Cardinality(Holders) \in Nat
  BY OpenCensusAssumption, Fields, LenProperties, FS_CardinalityType DEF StreamTypeOK
<1>a. ASSUME Holders' = Holders, Drained' \subseteq Drained, clients' = clients, stop' = stop
      PROVE  PoolInv'
  BY <1>a, <1>0, Fewer DEF closed
<1>1. ASSUME NEW p \in Pushes, Call(p) PROVE PoolInv'
  <2>1. PushAt(p, "take", Nil) /\ push[p].at = "idle" /\ UNCHANGED <<clients, stop, open>>
    BY <1>1 DEF Call
  <2>2. /\ push'[p].at = "take" /\ push'[p].client = Nil
        /\ \A q \in Pushes \ {p} : push'[q] = push[q]
    BY <2>1, PushMoved
  <2>3. push[p].client = Nil
    BY <2>1 DEF StreamInOnePlace, SendersHaveOne
  <2>4. Holders' = Holders
    BY <2>1, <2>2 DEF Holders, Holding
  <2>5. Drained' \subseteq Drained
    BY <2>1, <2>2, <2>3 DEF Drained
  <2> QED BY <1>a, <2>1, <2>4, <2>5
<1>2. ASSUME NEW p \in Pushes, Take(p) PROVE PoolInv'
  <2>0. push[p].at = "take" /\ push[p].client = Nil /\ UNCHANGED <<open, stop>>
    BY <1>2 DEF Take, StreamInOnePlace, SendersHaveOne
  <2>1. CASE clients # <<>> /\ clients' = Tail(clients)
                /\ PushAt(p, IF Head(clients) = Nil THEN "open" ELSE "send", Head(clients))
    <3> DEFINE h == clients[1]
    <3>1. /\ Head(clients) = h /\ Len(clients') = Len(clients) - 1
          /\ \A i \in DOMAIN clients : i # 1 => i - 1 \in DOMAIN clients' /\ clients'[i - 1] = clients[i]
      BY <2>1, FirstTaken
    <3>2. /\ push'[p].at = IF h = Nil THEN "open" ELSE "send"
          /\ push'[p].client = h
          /\ \A q \in Pushes \ {p} : push'[q] = push[q]
      BY <2>1, <3>1, PushMoved
    <3>3. Holders' = Holders \cup {p} /\ p \notin Holders
      BY <2>0, <3>2 DEF Holders, Holding
    <3>4. IsFiniteSet(Holders') /\ Cardinality(Holders') = Cardinality(Holders) + 1
      BY <3>3, FS_AddElement
    <3>5. Drained' \subseteq Drained
      <4> SUFFICES ASSUME NEW s \in Drained' PROVE s \in Drained
        OBVIOUS
      <4>1. /\ s \in open /\ \A i \in DOMAIN clients' : clients'[i] # s
            /\ \A q \in Pushes : push'[q].client # s
        BY <2>0 DEF Drained
      <4>2. s # h
        BY <4>1, <3>2
      <4>3. \A i \in DOMAIN clients : clients[i] # s
        BY <4>1, <4>2, <3>1
      <4>4. \A q \in Pushes : push[q].client # s
        BY <4>1, <2>0, <3>2, <1>0
      <4> QED BY <4>1, <4>3, <4>4 DEF Drained
    <3>6. IsFiniteSet(Drained') /\ Cardinality(Drained') <= stop.taken
      <4>1. IsFiniteSet(Drained)
        OBVIOUS
      <4> QED BY <1>0, <3>5, <4>1, Fewer
    <3>7. closed' = closed
      BY <2>0 DEF closed
    <3> QED BY <1>0, <2>0, <3>1, <3>4, <3>6, <3>7
  <2>2. CASE clients' = clients /\ PushAt(p, "stopped", Nil)
    <3>1. /\ push'[p].at = "stopped" /\ push'[p].client = Nil
          /\ \A q \in Pushes \ {p} : push'[q] = push[q]
      BY <2>2, PushMoved
    <3>2. Holders' = Holders
      BY <2>0, <3>1 DEF Holders, Holding
    <3>3. Drained' \subseteq Drained
      BY <2>0, <2>2, <3>1 DEF Drained
    <3> QED BY <1>a, <2>0, <2>2, <3>2, <3>3
  <2> QED BY <1>2, <2>1, <2>2 DEF Take
<1>3. ASSUME NEW p \in Pushes, OpenStream(p) PROVE PoolInv'
  <2>0. push[p].at = "open" /\ push[p].client = Nil /\ clients' = clients /\ stop' = stop
    BY <1>3 DEF OpenStream, StreamInOnePlace, SendersHaveOne
  <2>1. CASE open' = open \cup {p} /\ PushAt(p, "send", p)
    <3>1. /\ push'[p].at = "send" /\ push'[p].client = p
          /\ \A q \in Pushes \ {p} : push'[q] = push[q]
      BY <2>1, PushMoved
    <3>2. Holders' = Holders
      BY <2>0, <3>1 DEF Holders, Holding
    <3>3. Drained' \subseteq Drained
      BY <1>0, <2>0, <2>1, <3>1 DEF Drained
    <3> QED BY <1>a, <2>0, <3>2, <3>3
  <2>2. CASE open' = open /\ PushAt(p, "failed", Nil)
    <3>1. /\ push'[p].at = "failed" /\ push'[p].client = Nil
          /\ \A q \in Pushes \ {p} : push'[q] = push[q]
      BY <2>2, PushMoved
    <3>2. Holders' = Holders
      BY <2>0, <3>1 DEF Holders, Holding
    <3>3. Drained' \subseteq Drained
      BY <2>0, <2>2, <3>1 DEF Drained
    <3> QED BY <1>a, <2>0, <3>2, <3>3
  <2> QED BY <1>3, <2>1, <2>2 DEF OpenStream
<1>4. ASSUME NEW p \in Pushes, SendSucceeds(p) PROVE PoolInv'
  <2>1. UNCHANGED <<clients, open, stop>> /\ push' = [push EXCEPT ![p].sent = @ + 1]
    BY <1>4 DEF SendSucceeds
  <2>2. \A q \in Pushes : push'[q].at = push[q].at /\ push'[q].client = push[q].client
    BY <1>0, <2>1 DEF PushRecords
  <2>3. Holders' = Holders
    BY <2>2 DEF Holders, Holding
  <2>4. Drained' \subseteq Drained
    BY <2>1, <2>2 DEF Drained
  <2> QED BY <1>a, <2>1, <2>3, <2>4
<1>5. ASSUME NEW p \in Pushes, SendFails(p) PROVE PoolInv'
  <2>1. /\ push[p].at = "send" /\ open' = open \ {push[p].client} /\ UNCHANGED <<clients, stop>>
        /\ PushAt(p, "failed", Nil)
    BY <1>5 DEF SendFails
  <2>2. /\ push'[p].at = "failed" /\ push'[p].client = Nil
        /\ \A q \in Pushes \ {p} : push'[q] = push[q]
    BY <2>1, PushMoved
  <2>3. Holders' = Holders
    BY <2>1, <2>2 DEF Holders, Holding
  <2>4. Drained' \subseteq Drained
    BY <2>1, <2>2 DEF Drained
  <2> QED BY <1>a, <2>1, <2>3, <2>4
<1>6. ASSUME NEW p \in Pushes, PutBack(p) PROVE PoolInv'
  <2> DEFINE c == push[p].client
             n == Len(clients) + 1
  <2>1. /\ push[p].at \in {"failed", "send"} /\ clients' = Append(clients, c)
        /\ UNCHANGED <<open, stop>>
        /\ PushAt(p, "error", Nil) \/ PushAt(p, "ok", Nil)
    BY <1>6 DEF PutBack
  <2>2. /\ push'[p].at \in {"error", "ok"}
        /\ \A q \in Pushes \ {p} : push'[q] = push[q]
    BY <2>1, PushMoved
  <2>3. c \in Pushes \cup {Nil}
    BY <1>0, Fields
  <2>4. /\ clients'[n] = c /\ n \in DOMAIN clients' /\ DOMAIN clients' = DOMAIN clients \cup {n}
        /\ \A i \in DOMAIN clients : clients'[i] = clients[i]
        /\ Len(clients') = Len(clients) + 1
    BY <2>1, <2>3, LastAdded
  <2>5. Holders' = Holders \ {p} /\ p \in Holders
    BY <2>1, <2>2 DEF Holders, Holding
  <2>6. IsFiniteSet(Holders') /\ Cardinality(Holders') = Cardinality(Holders) - 1
    BY <2>5, FS_RemoveElement
  <2>7. Drained' \subseteq Drained
    BY <2>1, <2>2, <2>4 DEF Drained
  <2>8. IsFiniteSet(Drained') /\ Cardinality(Drained') <= stop.taken
    <3>1. IsFiniteSet(Drained)
      OBVIOUS
    <3> QED BY <1>0, <2>7, <3>1, Fewer
  <2>9. closed' = closed
    BY <2>1 DEF closed
  <2> QED BY <1>0, <2>1, <2>4, <2>6, <2>8, <2>9
<1>7. CASE BeginShutdown \/ CloseChannel
  <2>1. /\ UNCHANGED <<clients, push, open>> /\ stop'.taken = stop.taken
        /\ closed' => stop.taken = NumWorkers
    BY <1>0, <1>7 DEF BeginShutdown, CloseChannel, StopRecords, closed
  <2>2. Holders' = Holders /\ Drained' = Drained
    BY <2>1 DEF Holders, Holding, Drained
  <2> QED BY <1>0, <2>1, <2>2
<1>8. CASE Drain
  <2>1. clients # <<>> /\ clients' = Tail(clients) /\ UNCHANGED <<push, open>>
    BY <1>8 DEF Drain
  <2>2. stop'.taken = stop.taken + 1 /\ ~closed'
    BY <1>0, <1>8 DEF Drain, StopRecords, closed
  <2>3. /\ Len(clients') = Len(clients) - 1
        /\ \A i \in DOMAIN clients : i # 1 => i - 1 \in DOMAIN clients' /\ clients'[i - 1] = clients[i]
    BY <2>1, FirstTaken
  <2>4. Holders' = Holders
    BY <2>1 DEF Holders, Holding
  <2>5. Drained' \subseteq Drained \cup {clients[1]}
    <3> SUFFICES ASSUME NEW s \in Drained', s # clients[1] PROVE s \in Drained
      OBVIOUS
    <3>1. /\ s \in open /\ \A i \in DOMAIN clients' : clients'[i] # s
          /\ \A q \in Pushes : push[q].client # s
      BY <2>1 DEF Drained
    <3>2. \A i \in DOMAIN clients : clients[i] # s
      BY <2>3, <3>1
    <3> QED BY <3>1, <3>2 DEF Drained
  <2>6. IsFiniteSet(Drained \cup {clients[1]})
        /\ Cardinality(Drained \cup {clients[1]}) <= Cardinality(Drained) + 1
        /\ Cardinality(Drained) \in Nat
    <3>1. IsFiniteSet(Drained)
      OBVIOUS
    <3>2. Cardinality(Drained) \in Nat
      BY <3>1, FS_CardinalityType
    <3>3. IsFiniteSet(Drained \cup {clients[1]}) /\ Cardinality(Drained \cup {clients[1]}) =
             IF clients[1] \in Drained THEN Cardinality(Drained) ELSE Cardinality(Drained) + 1
      BY <3>1, FS_AddElement
    <3> QED BY <3>2, <3>3
  <2>7. /\ IsFiniteSet(Drained') /\ Cardinality(Drained') \in Nat
        /\ Cardinality(Drained \cup {clients[1]}) \in Nat
        /\ Cardinality(Drained') <= Cardinality(Drained \cup {clients[1]})
    BY <2>5, <2>6, Fewer
  <2>8. Cardinality(Drained') <= stop'.taken
    BY <1>0, <2>2, <2>6, <2>7
  <2> QED BY <1>0, <2>2, <2>3, <2>4, <2>7, <2>8
<1>9. CASE CloseConnection
  <2>1. /\ UNCHANGED <<clients, push>> /\ open' = {} /\ stop'.taken = stop.taken /\ closed
    BY <1>0, <1>9 DEF CloseConnection, StopRecords, closed
  <2>2. Holders' = Holders /\ Drained' = {}
    BY <2>1 DEF Holders, Holding, Drained
  <2> QED BY <1>0, <2>1, <2>2, FS_EmptySet
<1>10. CASE UNCHANGED clientVars
  <2>1. Holders' = Holders /\ Drained' = Drained
    BY <1>10 DEF Holders, Holding, Drained, clientVars
  <2> QED BY <1>a, <1>10, <2>1 DEF clientVars
<1> QED
  BY <1>1, <1>2, <1>3, <1>4, <1>5, <1>6, <1>7, <1>8, <1>9, <1>10
  DEF ReceiverNext, ClientNext, PushStep, ShutdownStep, CheckFirst, Process, StreamEnds

\* The pool keeps its size: the clients in the channel and with calls are counted, and a
\* stream that is open is one of them or one that shutdown has taken.
LEMMA PoolHolds ==
    ASSUME StreamTypeOK, StreamInOnePlace, PoolInv
    PROVE  PoolConstant
<1>0. /\ push \in [Pushes -> PushRecords] /\ Nil \notin Pushes /\ open \subseteq Pushes
      /\ NumWorkers \in Nat /\ Len(clients) \in Nat /\ stop.taken \in Nat
      /\ DOMAIN clients = 1..Len(clients)
      /\ clients \in [1..Len(clients) -> Pushes \cup {Nil}]
  BY OpenCensusAssumption, Fields, LenProperties DEF StreamTypeOK
<1>1. Cardinality(Holders) \in Nat /\ Len(clients) + Cardinality(Holders) + stop.taken = NumWorkers
  BY FS_CardinalityType DEF PoolInv
<1>2. closed => \A p \in Pushes : ~Holding(p)
  <2> SUFFICES ASSUME closed PROVE Holders = {}
    BY DEF Holders
  <2>1. Cardinality(Holders) = 0
    BY <1>0, <1>1 DEF PoolInv
  <2> QED BY <2>1, FS_EmptySet DEF PoolInv
<1> DEFINE Pooled == {clients[i] : i \in 1..Len(clients)}
           Used == {push[p].client : p \in Holders}
           f == [p \in Holders |-> push[p].client]
<1>3. IsFiniteSet(Pooled) /\ Cardinality(Pooled) <= Len(clients) /\ Cardinality(Pooled) \in Nat
  <2>1. IsFiniteSet(1..Len(clients)) /\ Cardinality(1..Len(clients)) = Len(clients)
    <3>1. 1 \in Int /\ Len(clients) \in Int
      BY <1>0
    <3>2. IsFiniteSet(1..Len(clients)) /\ Cardinality(1..Len(clients)) =
             IF 1 > Len(clients) THEN 0 ELSE Len(clients) - 1 + 1
      BY <3>1, FS_Interval
    <3> QED BY <1>0, <3>2
  <2>2. clients \in Surjection(1..Len(clients), Pooled)
    BY <1>0 DEF Surjection
  <2> QED BY <2>1, <2>2, FS_Surjection, FS_CardinalityType
<1>4. IsFiniteSet(Used) /\ Cardinality(Used) <= Cardinality(Holders) /\ Cardinality(Used) \in Nat
  <2>1. f \in Surjection(Holders, Used)
    BY DEF Surjection
  <2> QED BY <2>1, FS_Surjection, FS_CardinalityType DEF PoolInv
<1>5. open \subseteq (Pooled \cup Used) \cup Drained
  <2> SUFFICES ASSUME NEW s \in open, s \notin Pooled, s \notin Used PROVE s \in Drained
    OBVIOUS
  <2>1. \A i \in DOMAIN clients : clients[i] # s
    BY <1>0
  <2>2. ASSUME NEW p \in Pushes, push[p].client = s PROVE FALSE
    <3>1. push[p].at = "send"
      BY <1>0, <2>2 DEF StreamInOnePlace, SendersHaveOne
    <3>2. p \in Holders
      BY <3>1 DEF Holders, Holding
    <3> QED BY <2>2, <3>2
  <2> QED BY <2>1, <2>2 DEF Drained
<1> HIDE DEF Pooled, Used, f
<1>6. /\ IsFiniteSet(Pooled \cup Used)
      /\ Cardinality(Pooled \cup Used) <= Cardinality(Pooled) + Cardinality(Used)
      /\ Cardinality(Pooled \cup Used) \in Nat
  <2>1. IsFiniteSet(Pooled \cup Used) /\ Cardinality(Pooled \cup Used) =
            Cardinality(Pooled) + Cardinality(Used) - Cardinality(Pooled \cap Used)
    BY <1>3, <1>4, FS_Union
  <2>2. Cardinality(Pooled \cap Used) \in Nat
    BY <1>3, Fewer
  <2>3. Cardinality(Pooled \cup Used) \in Nat
    BY <2>1, FS_CardinalityType
  <2> QED BY <1>3, <1>4, <2>1, <2>2, <2>3
<1>7. /\ IsFiniteSet((Pooled \cup Used) \cup Drained)
      /\ Cardinality((Pooled \cup Used) \cup Drained) <= Cardinality(Pooled \cup Used) + Cardinality(Drained)
      /\ Cardinality((Pooled \cup Used) \cup Drained) \in Nat /\ Cardinality(Drained) \in Nat
  <2>1. IsFiniteSet((Pooled \cup Used) \cup Drained) /\ Cardinality((Pooled \cup Used) \cup Drained) =
            Cardinality(Pooled \cup Used) + Cardinality(Drained)
              - Cardinality((Pooled \cup Used) \cap Drained)
    BY <1>6, FS_Union DEF PoolInv
  <2>2. Cardinality((Pooled \cup Used) \cap Drained) \in Nat
    BY <1>6, Fewer
  <2>3. Cardinality((Pooled \cup Used) \cup Drained) \in Nat /\ Cardinality(Drained) \in Nat
    BY <2>1, FS_CardinalityType DEF PoolInv
  <2> QED BY <1>6, <2>1, <2>2, <2>3
<1>8. Cardinality(open) <= Cardinality((Pooled \cup Used) \cup Drained) /\ Cardinality(open) \in Nat
  BY <1>5, <1>7, Fewer
<1>9. Cardinality(open) <= NumWorkers
  <2>1. Cardinality(Drained) <= stop.taken
    BY DEF PoolInv
  <2> QED BY <1>0, <1>1, <1>3, <1>4, <1>6, <1>7, <1>8, <2>1
<1> QED BY <1>1, <1>2, <1>9 DEF PoolConstant, Holders

\* A message is added to the stream of its call and to no other.
LEMMA OneMoreSent ==
    ASSUME StreamTypeOK, StreamInOnePlace, NEW p \in Pushes, SendSucceeds(p)
    PROVE  LET c == push[p].client
               n == Len(sentOn[c])
               e == Filled(NextMessage(p), p)
           IN  /\ c \in Pushes /\ e \in SentMessages
               /\ \A s \in Pushes \ {c} : sentOn'[s] = sentOn[s]
               /\ n \in Nat /\ Len(sentOn'[c]) = n + 1 /\ sentOn'[c][n + 1] = e
               /\ \A i \in 1..n : sentOn'[c][i] = sentOn[c][i]
               /\ \A q \in Pushes : push'[q].at = push[q].at /\ push'[q].client = push[q].client
               /\ \A q \in Pushes \ {p} : push'[q] = push[q]
               /\ push'[p].sent = push[p].sent + 1 /\ push[p].sent \in Nat
<1>0. push \in [Pushes -> PushRecords] /\ sentOn \in [Pushes -> Seq(SentMessages)]
  BY DEF StreamTypeOK
<1> DEFINE c == push[p].client
           e == Filled(NextMessage(p), p)
<1>1. /\ push[p].at = "send" /\ More(p) /\ push' = [push EXCEPT ![p].sent = @ + 1]
      /\ sentOn' = [sentOn EXCEPT ![c] = Append(sentOn[c], e)]
  BY <1>0 DEF SendSucceeds
<1>2. c \in Pushes
  BY <1>0, <1>1, Fields DEF StreamInOnePlace, SendersHaveOne
<1>3. e \in SentMessages
  BY <1>1, FilledTyped
<1>4. \A q \in Pushes : push'[q].at = push[q].at /\ push'[q].client = push[q].client
  BY <1>0, <1>1 DEF PushRecords
<1>5. /\ \A q \in Pushes \ {p} : push'[q] = push[q]
      /\ push'[p].sent = push[p].sent + 1 /\ push[p].sent \in Nat
  BY <1>0, <1>1 DEF PushRecords
<1> HIDE DEF c, e
<1>6. sentOn'[c] = Append(sentOn[c], e) /\ \A s \in Pushes \ {c} : sentOn'[s] = sentOn[s]
  BY <1>0, <1>1, <1>2
<1>7. sentOn[c] \in Seq(SentMessages)
  BY <1>0, <1>2
<1>8. /\ Len(sentOn[c]) \in Nat /\ Len(sentOn'[c]) = Len(sentOn[c]) + 1
      /\ sentOn'[c][Len(sentOn[c]) + 1] = e
      /\ \A i \in 1..Len(sentOn[c]) : sentOn'[c][i] = sentOn[c][i]
  BY <1>3, <1>6, <1>7, AppendProperties, LenProperties
<1> QED BY <1>2, <1>3, <1>4, <1>5, <1>6, <1>8 DEF c, e

\* Streams only grow.
LEMMA StreamsGrow ==
    ASSUME StreamTypeOK, StreamInOnePlace, NEW p \in Pushes, SendSucceeds(p), NEW s \in Pushes
    PROVE  /\ Len(sentOn[s]) \in Nat /\ Len(sentOn'[s]) \in Nat /\ Len(sentOn[s]) <= Len(sentOn'[s])
           /\ \A i \in 1..Len(sentOn[s]) : sentOn'[s][i] = sentOn[s][i]
<1>1. sentOn[s] \in Seq(SentMessages)
  BY DEF StreamTypeOK
<1>2. Len(sentOn[s]) \in Nat
  BY <1>1, LenProperties
<1>3. CASE s = push[p].client
  BY <1>2, <1>3, OneMoreSent
<1>4. CASE s # push[p].client
  BY <1>2, <1>4, OneMoreSent
<1> QED BY <1>3, <1>4

\* The messages of push p are on one stream, one after the other.
TogetherOn(p) ==
    \E s \in Pushes : \E i \in 0..(Len(sentOn[s]) - Len(Payload[p])) :
        \A k \in 1..Len(Payload[p]) : sentOn[s][i + k].push = p /\ sentOn[s][i + k].number = k

\* Where no message is sent, a call that goes on to send has sent none.
LEMMA SendsBegin ==
    ASSUME StreamTypeOK, StreamInOnePlace, SendsInv, NEW p \in Pushes, UNCHANGED sentOn,
           NEW a, NEW c \in Pushes \cup {Nil}, PushAt(p, a, c),
           a = "send" => c \in Pushes /\ push[p].sent = 0,
           a = "ok" => TogetherOn(p)
    PROVE  SendsInv'
<1>0. /\ push \in [Pushes -> PushRecords]
      /\ sentOn \in [Pushes -> Seq(SentMessages)]
  BY DEF StreamTypeOK
<1>1. /\ push'[p].at = a /\ push'[p].client = c /\ push'[p].sent = push[p].sent
      /\ \A q \in Pushes \ {p} : push'[q] = push[q]
  BY PushMoved
<1>2. ASSUME NEW q \in Pushes PROVE push'[q].sent <= Len(Payload[q])
  BY <1>1 DEF SendsInv
<1>3. ASSUME NEW q \in Pushes, push'[q].at = "send" PROVE Last(q)'
  <2>1. CASE q = p
    <3>1. c \in Pushes /\ push'[p].sent = 0
      BY <1>1, <1>3, <2>1
    <3>2. Len(sentOn[c]) \in Nat
      BY <1>0, <3>1, LenProperties
    <3> QED BY <1>1, <2>1, <3>1, <3>2 DEF Last
  <2>2. CASE q # p
    <3>1. push'[q] = push[q] /\ push[q].at = "send"
      BY <1>1, <1>3, <2>2
    <3>2. Last(q)
      BY <3>1 DEF SendsInv
    <3> QED BY <3>1, <3>2 DEF Last
  <2> QED BY <2>1, <2>2
<1>4. ASSUME NEW q \in Pushes, push'[q].at = "ok" PROVE TogetherOn(q)'
  <2>1. TogetherOn(q)
    <3>1. CASE q = p
      BY <1>1, <1>4, <3>1
    <3>2. CASE q # p
      <4>1. push[q].at = "ok"
        BY <1>1, <1>4, <3>2
      <4> QED BY <4>1 DEF SendsInv, SentTogether, TogetherOn
    <3> QED BY <3>1, <3>2
  <2> QED BY <2>1 DEF TogetherOn
<1> QED BY <1>2, <1>3, <1>4 DEF SendsInv, SentTogether, TogetherOn

\* The messages of a call stay together.
LEMMA SendsStay ==
    ASSUME StreamTypeOK, StreamInOnePlace, SendsInv, ReceiverNext
    PROVE  SendsInv'
<1>0. /\ push \in [Pushes -> PushRecords] /\ Nil \notin Pushes
      /\ sentOn \in [Pushes -> Seq(SentMessages)]
      /\ \A q \in Pushes : Len(Payload[q]) \in Nat
  BY OpenCensusAssumption, LenProperties DEF StreamTypeOK
<1>1. ASSUME NEW p \in Pushes, Call(p) PROVE SendsInv'
  BY <1>1, SendsBegin DEF Call
<1>2. ASSUME NEW p \in Pushes, Take(p) PROVE SendsInv'
  <2>0. push[p].at = "take" /\ UNCHANGED sentOn /\ push[p].sent = 0
    BY <1>2 DEF Take, StreamInOnePlace, NothingBefore, Before
  <2>1. CASE clients # <<>> /\ clients' = Tail(clients)
                /\ PushAt(p, IF Head(clients) = Nil THEN "open" ELSE "send", Head(clients))
    <3>1. Head(clients) \in Pushes \cup {Nil}
      BY <2>1, FirstTaken
    <3>2. CASE Head(clients) = Nil
      <4>1. PushAt(p, "open", Head(clients))
        BY <2>1, <3>2
      <4> QED BY <2>0, <3>1, <4>1, SendsBegin
    <3>3. CASE Head(clients) # Nil
      <4>1. PushAt(p, "send", Head(clients)) /\ Head(clients) \in Pushes
        BY <2>1, <3>1, <3>3
      <4> QED BY <2>0, <3>1, <4>1, SendsBegin
    <3> QED BY <3>2, <3>3
  <2>2. CASE PushAt(p, "stopped", Nil)
    BY <2>0, <2>2, SendsBegin
  <2> QED BY <1>2, <2>1, <2>2 DEF Take
<1>3. ASSUME NEW p \in Pushes, OpenStream(p) PROVE SendsInv'
  <2>0. push[p].at = "open" /\ UNCHANGED sentOn /\ push[p].sent = 0
    BY <1>3 DEF OpenStream, StreamInOnePlace, NothingBefore, Before
  <2>1. PushAt(p, "send", p) \/ PushAt(p, "failed", Nil)
    BY <1>3 DEF OpenStream
  <2> QED BY <2>0, <2>1, SendsBegin
<1>4. ASSUME NEW p \in Pushes, SendSucceeds(p) PROVE SendsInv'
  <2> DEFINE c == push[p].client
             n == Len(sentOn[c])
             e == Filled(NextMessage(p), p)
             m == push[p].sent
  <2>1. /\ c \in Pushes /\ n \in Nat /\ m \in Nat
        /\ \A s \in Pushes \ {c} : sentOn'[s] = sentOn[s]
        /\ Len(sentOn'[c]) = n + 1 /\ sentOn'[c][n + 1] = e
        /\ \A i \in 1..n : sentOn'[c][i] = sentOn[c][i]
        /\ \A q \in Pushes : push'[q].at = push[q].at /\ push'[q].client = push[q].client
        /\ \A q \in Pushes \ {p} : push'[q] = push[q]
        /\ push'[p].sent = m + 1
    BY <1>4, OneMoreSent
  <2>2. e.push = p /\ e.number = m + 1
    BY DEF Filled
  <2>3. push[p].at = "send" /\ m < Len(Payload[p])
    BY <1>4 DEF SendSucceeds, More
  <2>4. Last(p)
    BY <2>3 DEF SendsInv
  <2>5. n - m \in Nat /\ \A k \in 1..m : sentOn[c][n - m + k].push = p /\ sentOn[c][n - m + k].number = k
    BY <2>4 DEF Last
  <2>6. c # Nil
    BY <2>1, <1>0
  <2>7. \A q \in Pushes \ {p} : push[q].client # c
    BY <2>6 DEF StreamInOnePlace, OneUser
  <2> HIDE DEF c, n, e, m
  <2>8. Last(p)'
    <3>1. push'[p].client = c /\ Len(sentOn'[c]) - push'[p].sent = n - m
      BY <2>1 DEF c
    <3>2. ASSUME NEW k \in 1..(m + 1)
          PROVE  sentOn'[c][n - m + k].push = p /\ sentOn'[c][n - m + k].number = k
      <4>1. CASE k = m + 1
        <5>1. n - m + k = n + 1
          BY <2>1, <4>1
        <5> QED BY <2>1, <2>2, <4>1, <5>1
      <4>2. CASE k # m + 1
        <5>1. k \in 1..m /\ n - m + k \in 1..n
          BY <2>1, <2>5, <4>2
        <5> QED BY <2>1, <2>5, <5>1
      <4> QED BY <4>1, <4>2
    <3> QED BY <2>1, <2>5, <3>1, <3>2 DEF Last
  <2>9. ASSUME NEW q \in Pushes \ {p}, push'[q].at = "send" PROVE Last(q)'
    <3>1. Last(q) /\ push'[q] = push[q]
      BY <2>1, <2>9 DEF SendsInv
    <3>2. push[q].client \in Pushes \ {c}
      BY <1>0, <2>1, <2>7, <2>9, Fields DEF StreamInOnePlace, SendersHaveOne
    <3>3. sentOn'[push[q].client] = sentOn[push[q].client]
      BY <2>1, <3>2
    <3> QED BY <3>1, <3>3 DEF Last
  <2>10. ASSUME NEW q \in Pushes PROVE push'[q].sent <= Len(Payload[q])
    <3>1. CASE q = p
      BY <1>0, <2>1, <2>3, <3>1 DEF m
    <3>2. CASE q # p
      BY <2>1, <3>2 DEF SendsInv
    <3> QED BY <3>1, <3>2
  <2>11. ASSUME NEW q \in Pushes, push'[q].at = "ok" PROVE TogetherOn(q)'
    <3>0. push[q].at = "ok"
      BY <2>1, <2>11
    <3>1. TogetherOn(q)
      BY <3>0 DEF SendsInv, SentTogether, TogetherOn
    <3>a. PICK s \in Pushes : \E i \in 0..(Len(sentOn[s]) - Len(Payload[q])) :
            \A k \in 1..Len(Payload[q]) : sentOn[s][i + k].push = q /\ sentOn[s][i + k].number = k
      BY <3>1 DEF TogetherOn
    <3>2. PICK i \in 0..(Len(sentOn[s]) - Len(Payload[q])) :
            \A k \in 1..Len(Payload[q]) : sentOn[s][i + k].push = q /\ sentOn[s][i + k].number = k
      BY <3>a
    <3>3. /\ Len(sentOn[s]) \in Nat /\ Len(sentOn'[s]) \in Nat /\ Len(sentOn[s]) <= Len(sentOn'[s])
          /\ \A j \in 1..Len(sentOn[s]) : sentOn'[s][j] = sentOn[s][j]
      BY <1>4, StreamsGrow
    <3>4. i \in 0..(Len(sentOn'[s]) - Len(Payload[q]))
      BY <1>0, <3>3
    <3>5. ASSUME NEW k \in 1..Len(Payload[q])
          PROVE  sentOn'[s][i + k].push = q /\ sentOn'[s][i + k].number = k
      <4>1. i + k \in 1..Len(sentOn[s])
        BY <1>0, <3>3
      <4> QED BY <3>2, <3>3, <4>1
    <3> QED BY <3>4, <3>5 DEF TogetherOn
  <2> QED BY <2>8, <2>9, <2>10, <2>11 DEF SendsInv, SentTogether, TogetherOn
<1>5. ASSUME NEW p \in Pushes, SendFails(p) PROVE SendsInv'
  BY <1>5, SendsBegin DEF SendFails
<1>6. ASSUME NEW p \in Pushes, PutBack(p) PROVE SendsInv'
  <2>1. UNCHANGED sentOn
    BY <1>6 DEF PutBack
  <2>2. CASE push[p].at = "failed"
    <3>1. PushAt(p, "error", Nil)
      BY <1>6, <2>2 DEF PutBack
    <3> QED BY <2>1, <3>1, SendsBegin
  <2>3. CASE push[p].at = "send" /\ ~More(p)
    <3>1. PushAt(p, "ok", Nil)
      BY <1>6, <2>3 DEF PutBack
    <3> DEFINE s == push[p].client
               i == Len(sentOn[s]) - push[p].sent
    <3>2. push[p].sent = Len(Payload[p])
      <4>1. push[p].sent \in Nat /\ push[p].sent <= Len(Payload[p])
        BY <1>0, Fields DEF SendsInv
      <4> QED BY <1>0, <2>3, <4>1 DEF More
    <3>3. s \in Pushes
      BY <1>0, <2>3, Fields DEF StreamInOnePlace, SendersHaveOne
    <3>4. i \in Nat /\ \A k \in 1..Len(Payload[p]) : sentOn[s][i + k].push = p /\ sentOn[s][i + k].number = k
      BY <2>3, <3>2 DEF SendsInv, Last
    <3>5. Len(sentOn[s]) \in Nat
      BY <1>0, <3>3, LenProperties
    <3>6. i \in 0..(Len(sentOn[s]) - Len(Payload[p]))
      BY <1>0, <3>2, <3>4, <3>5
    <3> HIDE DEF s, i
    <3>7. TogetherOn(p)
      BY <3>3, <3>4, <3>6 DEF TogetherOn
    <3> QED BY <2>1, <3>1, <3>7, SendsBegin
  <2> QED BY <1>6, <2>2, <2>3 DEF PutBack
<1>7. CASE UNCHANGED <<push, sentOn>>
  <2>1. SentTogether' = SentTogether
    BY <1>7 DEF SentTogether
  <2>2. ASSUME NEW q \in Pushes PROVE Last(q)' = Last(q)
    BY <1>7 DEF Last
  <2> QED BY <1>7, <2>1, <2>2 DEF SendsInv
<1> QED
  BY <1>1, <1>2, <1>3, <1>4, <1>5, <1>6, <1>7
  DEF ReceiverNext, ClientNext, PushStep, ShutdownStep, BeginShutdown, Drain, CloseChannel, CloseConnection,
      CheckFirst, Process, StreamEnds, clientVars

\* The messages on the streams stay those of their calls; one that is added has a number
\* that its call has not sent before.
LEMMA SentStays ==
    ASSUME StreamTypeOK, StreamInOnePlace, SentInv, ReceiverNext
    PROVE  SentInv'
<1>0. /\ push \in [Pushes -> PushRecords] /\ sentOn \in [Pushes -> Seq(SentMessages)]
      /\ \A s \in Pushes : Len(sentOn[s]) \in Nat /\ DOMAIN sentOn[s] = 1..Len(sentOn[s])
      /\ \A s \in Pushes : \A i \in 1..Len(sentOn[s]) : sentOn[s][i] \in SentMessages
  BY LenProperties, ElementOfSeq DEF StreamTypeOK
<1>1. \A s \in Pushes : \A i \in 1..Len(sentOn[s]) : sentOn[s][i].push \in Pushes
  BY <1>0 DEF SentMessages
<1>2. ASSUME UNCHANGED sentOn, \A q \in Pushes : push'[q].sent = push[q].sent PROVE SentInv'
  <2> SUFFICES ASSUME NEW s \in Pushes, NEW i \in DOMAIN sentOn[s] PROVE SentRight(s, i)'
    BY <1>2 DEF SentInv
  <2>1. SentRight(s, i)
    BY DEF SentInv
  <2>2. sentOn[s][i].push \in Pushes
    BY <1>0, <1>1
  <2> QED BY <1>2, <2>1, <2>2 DEF SentRight
<1>3. ASSUME NEW p \in Pushes, NEW a, NEW c, PushAt(p, a, c), UNCHANGED sentOn PROVE SentInv'
  <2>1. push'[p].sent = push[p].sent /\ \A q \in Pushes \ {p} : push'[q] = push[q]
    BY <1>3, PushMoved
  <2> QED BY <1>2, <1>3, <2>1
<1>4. ASSUME NEW p \in Pushes, SendSucceeds(p) PROVE SentInv'
  <2> DEFINE c == push[p].client
             n == Len(sentOn[c])
             e == Filled(NextMessage(p), p)
             m == push[p].sent
  <2>1. /\ c \in Pushes /\ n \in Nat /\ m \in Nat /\ e \in SentMessages
        /\ \A s \in Pushes \ {c} : sentOn'[s] = sentOn[s]
        /\ Len(sentOn'[c]) = n + 1 /\ sentOn'[c][n + 1] = e
        /\ \A i \in 1..n : sentOn'[c][i] = sentOn[c][i]
        /\ \A q \in Pushes \ {p} : push'[q] = push[q]
        /\ push'[p].sent = m + 1
    BY <1>4, OneMoreSent
  <2>2. /\ e.push = p /\ e.number = m + 1
        /\ e.node = OrEmpty(Payload[p][m + 1].node) /\ e.resource = OrEmpty(Payload[p][m + 1].resource)
    BY DEF Filled, NextMessage, OrEmpty
  <2>3. \A q \in Pushes : push[q].sent \in Nat /\ push'[q].sent \in Nat /\ push[q].sent <= push'[q].sent
    <3>1. \A q \in Pushes : push[q].sent \in Nat
      BY <1>0, Fields
    <3>2. \A q \in Pushes \ {p} : push'[q].sent = push[q].sent
      BY <2>1
    <3> QED BY <2>1, <3>1, <3>2
  <2>4. ASSUME NEW s \in Pushes, NEW i \in 1..Len(sentOn[s]) PROVE SentRight(s, i)'
    <3>1. SentRight(s, i)
      BY <1>0 DEF SentInv
    <3>2. \A j \in 1..i : sentOn'[s][j] = sentOn[s][j]
      <4>1. \A j \in 1..Len(sentOn[s]) : sentOn'[s][j] = sentOn[s][j]
        BY <1>4, StreamsGrow
      <4>2. \A j \in 1..i : j \in 1..Len(sentOn[s])
        BY <1>0
      <4> QED BY <4>1, <4>2
    <3>3. i \in 1..i /\ \A j \in 1..(i - 1) : j \in 1..i
      BY <1>0
    <3>4. sentOn'[s][i] = sentOn[s][i] /\ \A j \in 1..(i - 1) : sentOn'[s][j] = sentOn[s][j]
      BY <3>2, <3>3
    <3>5. sentOn[s][i].number \in 1..push'[sentOn[s][i].push].sent
      <4>1. sentOn[s][i].push \in Pushes /\ sentOn[s][i].number \in 1..push[sentOn[s][i].push].sent
        BY <1>1, <3>1 DEF SentRight
      <4> QED BY <2>3, <4>1
    <3> QED BY <3>1, <3>4, <3>5 DEF SentRight
  <2> HIDE DEF c, n, e, m
  <2>5. ASSUME NEW s, s = c, NEW i, i = n + 1 PROVE SentRight(s, i)'
    <3>1. e.number \in 1..push'[e.push].sent
      BY <2>1, <2>2
    <3>2. ASSUME NEW j \in 1..n, sentOn[c][j].push = p PROVE sentOn[c][j].number # m + 1
      <4>1. SentRight(c, j)
        BY <1>0, <2>1 DEF SentInv, n
      <4>2. sentOn[c][j].number \in 1..m
        BY <3>2, <4>1 DEF SentRight, m
      <4> QED BY <2>1, <4>2
    <3>3. \A j \in 1..(i - 1) : sentOn'[s][j].push = e.push => sentOn'[s][j].number # e.number
      BY <2>1, <2>2, <2>5, <3>2
    <3>4. sentOn'[s][i] = e
      BY <2>1, <2>5
    <3> QED BY <2>2, <3>1, <3>3, <3>4 DEF SentRight
  <2> QED
    <3> SUFFICES ASSUME NEW s \in Pushes, NEW i \in DOMAIN sentOn'[s] PROVE SentRight(s, i)'
      BY DEF SentInv
    <3>1. CASE s # c
      <4>1. i \in 1..Len(sentOn[s])
        BY <1>0, <2>1, <3>1
      <4> QED BY <2>4, <4>1
    <3>2. CASE s = c
      <4>1. sentOn'[c] \in Seq(SentMessages)
        BY <2>1, StreamTypes DEF StreamTypeOK
      <4>2. i \in 1..(n + 1)
        BY <2>1, <3>2, <4>1, LenProperties
      <4>3. CASE i = n + 1
        BY <2>5, <3>2, <4>3
      <4>4. CASE i # n + 1
        <5>1. i \in 1..Len(sentOn[s])
          BY <2>1, <3>2, <4>2, <4>4 DEF n
        <5> QED BY <2>4, <5>1
      <4> QED BY <4>3, <4>4
    <3> QED BY <3>1, <3>2
<1>5. CASE UNCHANGED <<push, sentOn>>
  BY <1>2, <1>5
<1>6. ASSUME NEW p \in Pushes, Call(p) \/ Take(p) \/ OpenStream(p) \/ SendFails(p) \/ PutBack(p)
      PROVE  SentInv'
  BY <1>3, <1>6 DEF Call, Take, OpenStream, SendFails, PutBack
<1> QED
  BY <1>4, <1>5, <1>6
  DEF ReceiverNext, ClientNext, PushStep, ShutdownStep, BeginShutdown, Drain, CloseChannel, CloseConnection,
      CheckFirst, Process, StreamEnds, clientVars

\* Streams grow or stay, whatever the step.
LEMMA StreamsOnlyGrow ==
    ASSUME StreamTypeOK, StreamInOnePlace, ReceiverNext, NEW s \in Pushes
    PROVE  /\ Len(sentOn[s]) \in Nat /\ Len(sentOn'[s]) \in Nat /\ Len(sentOn[s]) <= Len(sentOn'[s])
           /\ \A i \in 1..Len(sentOn[s]) : sentOn'[s][i] = sentOn[s][i]
<1>1. Len(sentOn[s]) \in Nat
  BY LenProperties DEF StreamTypeOK
<1>2. CASE UNCHANGED sentOn
  BY <1>1, <1>2
<1>3. CASE \E p \in Pushes : SendSucceeds(p)
  BY <1>3, StreamsGrow
<1> QED
  BY <1>2, <1>3
  DEF ReceiverNext, ClientNext, PushStep, Call, Take, OpenStream, SendFails, PutBack,
      ShutdownStep, BeginShutdown, Drain, CloseChannel, CloseConnection,
      CheckFirst, Process, StreamEnds, clientVars

\* A handler reads each message of its stream once, and a message has its own node and
\* resource, so that those of the messages before it are never taken.
LEMMA HandlersStay ==
    ASSUME StreamTypeOK, StreamInOnePlace, SentInv, HandlerInv, ReceiverNext
    PROVE  HandlerInv'
<1>0. /\ handler \in [Pushes -> HandlerRecords] /\ passedOn \in [Pushes -> Seq(Received)]
      /\ sentOn \in [Pushes -> Seq(SentMessages)]
      /\ \A s \in Pushes : handler[s].read \in Nat
      /\ \A s \in Pushes : Len(passedOn[s]) \in Nat /\ DOMAIN passedOn[s] = 1..Len(passedOn[s])
      /\ \A s \in Pushes : Len(sentOn[s]) \in Nat /\ DOMAIN sentOn[s] = 1..Len(sentOn[s])
  BY LenProperties, Fields DEF StreamTypeOK
<1>1. ASSUME passedOn' = passedOn, \A s \in Pushes : handler'[s].read = handler[s].read
      PROVE  HandlerInv'
  <2>1. ASSUME NEW s \in Pushes PROVE handler'[s].read <= Len(sentOn'[s])
    <3>1. handler[s].read <= Len(sentOn[s]) /\ Len(sentOn[s]) <= Len(sentOn'[s]) /\ Len(sentOn'[s]) \in Nat
      BY StreamsOnlyGrow DEF HandlerInv
    <3> QED BY <1>0, <1>1, <3>1
  <2>2. ASSUME NEW s \in Pushes, NEW i \in DOMAIN passedOn'[s] PROVE ReadBefore(s, passedOn[s][i])'
    <3>1. ReadBefore(s, passedOn[s][i])
      BY <1>1 DEF HandlerInv
    <3>2. PICK j \in 1..handler[s].read : /\ sentOn[s][j].push = passedOn[s][i].push
                                          /\ sentOn[s][j].number = passedOn[s][i].number
      BY <3>1 DEF ReadBefore
    <3>3. j \in 1..Len(sentOn[s])
      BY <1>0 DEF HandlerInv
    <3>4. sentOn'[s][j] = sentOn[s][j]
      BY <3>3, StreamsOnlyGrow
    <3> QED BY <1>1, <3>2, <3>4 DEF ReadBefore
  <2>3. OwnResource'
    BY <1>1 DEF HandlerInv, OwnResource
  <2> QED BY <2>1, <2>2, <2>3 DEF HandlerInv
<1>2. ASSUME NEW s \in Pushes, Process(s) PROVE HandlerInv'
  <2> DEFINE n == handler[s].read
             m == sentOn[s][n + 1]
             l == Latest(s, m)
             r == [push |-> m.push, number |-> m.number, node |-> l.node, resource |-> l.resource]
             Passed == [passedOn EXCEPT ![s] = Append(passedOn[s], r)]
  <2>1. n \in Nat /\ n + 1 \in 1..Len(sentOn[s]) /\ sentOn' = sentOn /\ UNCHANGED push
    BY <1>0, <1>2 DEF Process, Unread, clientVars
  <2>2. m \in SentMessages
    BY <1>0, <2>1, ElementOfSeq
  <2>3. /\ handler'[s].read = n + 1
        /\ \A t \in Pushes \ {s} : handler'[t] = handler[t]
        /\ passedOn' = Passed \/ passedOn' = passedOn
    BY <1>0, <1>2 DEF Process
  <2>4. SentRight(s, n + 1)
    BY <1>0, <2>1 DEF SentInv
  <2>5. /\ m.node = OrEmpty(Payload[m.push][m.number].node)
        /\ m.resource = OrEmpty(Payload[m.push][m.number].resource)
        /\ \A j \in 1..n : sentOn[s][j].push = m.push => sentOn[s][j].number # m.number
    <3>1. (n + 1) - 1 = n
      BY <2>1
    <3> QED BY <2>4, <3>1 DEF SentRight
  <2>6. l.node = m.node /\ l.resource = m.resource
    BY <2>5 DEF Latest, OrEmpty, Nil, Empty
  <2>7. r \in Received
    BY <2>2, <2>6 DEF SentMessages, Received
  <2>8. /\ r.push = m.push /\ r.number = m.number
        /\ r.node = OrEmpty(Payload[r.push][r.number].node)
        /\ r.resource = OrEmpty(Payload[r.push][r.number].resource)
    BY <2>5, <2>6
  <2> HIDE DEF n, m, l, r
  <2>9. ASSUME NEW t \in Pushes PROVE handler'[t].read <= Len(sentOn'[t])
    <3>1. CASE t = s
      BY <1>0, <2>1, <2>3, <3>1
    <3>2. CASE t # s
      BY <2>1, <2>3, <3>2 DEF HandlerInv
    <3> QED BY <3>1, <3>2
  <2>10. ASSUME NEW t \in Pushes, NEW i \in 1..Len(passedOn[t]), NEW x, x = passedOn[t][i]
         PROVE  ReadBefore(t, x)'
    <3>1. ReadBefore(t, x)
      BY <1>0, <2>10 DEF HandlerInv
    <3>2. PICK j \in 1..handler[t].read : sentOn[t][j].push = x.push /\ sentOn[t][j].number = x.number
      BY <3>1 DEF ReadBefore
    <3>3. j \in 1..handler'[t].read
      <4>1. CASE t = s
        BY <2>1, <2>3, <4>1 DEF n
      <4>2. CASE t # s
        BY <2>3, <4>2
      <4> QED BY <4>1, <4>2
    <3> QED BY <2>1, <3>2, <3>3 DEF ReadBefore
  <2>11. ASSUME NEW t \in Pushes, NEW i \in 1..Len(passedOn[t])
         PROVE  LET y == passedOn[t][i]
                IN  /\ y.node = OrEmpty(Payload[y.push][y.number].node)
                    /\ y.resource = OrEmpty(Payload[y.push][y.number].resource)
                    /\ \A k \in 1..(i - 1) : passedOn[t][k] # y
    BY <1>0 DEF HandlerInv, OwnResource
  <2>12. CASE passedOn' = passedOn
    <3>1. OwnResource'
      BY <2>12 DEF HandlerInv, OwnResource
    <3>2. ASSUME NEW t \in Pushes, NEW i \in DOMAIN passedOn'[t], NEW x, x = passedOn'[t][i]
          PROVE  ReadBefore(t, x)'
      BY <1>0, <2>10, <2>12, <3>2
    <3> QED BY <2>9, <3>1, <3>2 DEF HandlerInv
  <2>13. CASE passedOn' = Passed
    <3> DEFINE k == Len(passedOn[s])
    <3>1. /\ \A t \in Pushes \ {s} : passedOn'[t] = passedOn[t]
          /\ passedOn'[s] = Append(passedOn[s], r)
      BY <1>0, <2>13
    <3>2. /\ k \in Nat /\ Len(passedOn'[s]) = k + 1 /\ passedOn'[s][k + 1] = r
          /\ DOMAIN passedOn'[s] = 1..(k + 1)
          /\ \A i \in 1..k : passedOn'[s][i] = passedOn[s][i]
      <4>1. passedOn[s] \in Seq(Received)
        BY <1>0
      <4>2. passedOn'[s] \in Seq(Received)
        BY <2>7, <3>1, <4>1, AppendProperties
      <4> QED BY <2>7, <3>1, <4>1, <4>2, AppendProperties, LenProperties
    <3> HIDE DEF k
    <3>3. ASSUME NEW x, x = r PROVE ReadBefore(s, x)'
      <4>1. n + 1 \in 1..handler'[s].read
        BY <2>1, <2>3
      <4>2. sentOn'[s][n + 1].push = x.push /\ sentOn'[s][n + 1].number = x.number
        BY <2>1, <2>8, <3>3 DEF m
      <4> QED BY <4>1, <4>2 DEF ReadBefore
    <3>4. ASSUME NEW i \in 1..k PROVE passedOn[s][i] # r
      <4>1. ReadBefore(s, passedOn[s][i])
        BY <1>0 DEF HandlerInv, k
      <4>2. PICK j \in 1..n : /\ sentOn[s][j].push = passedOn[s][i].push
                              /\ sentOn[s][j].number = passedOn[s][i].number
        BY <4>1 DEF ReadBefore, n
      <4> QED BY <2>5, <2>8, <4>2
    <3>5. ASSUME NEW t \in Pushes, NEW i \in DOMAIN passedOn'[t]
          PROVE  \/ i \in 1..Len(passedOn[t]) /\ \A j \in 1..i : passedOn'[t][j] = passedOn[t][j]
                 \/ t = s /\ i = k + 1
      <4>1. CASE t = s
        BY <3>2, <4>1 DEF k
      <4>2. CASE t # s
        BY <1>0, <3>1, <4>2
      <4> QED BY <4>1, <4>2
    <3>6. ASSUME NEW t \in Pushes, NEW i \in DOMAIN passedOn'[t], NEW x, x = passedOn'[t][i]
          PROVE  ReadBefore(t, x)'
      <4>1. CASE i \in 1..Len(passedOn[t]) /\ \A j \in 1..i : passedOn'[t][j] = passedOn[t][j]
        <5>1. x = passedOn[t][i]
          BY <1>0, <3>6, <4>1
        <5> QED BY <2>10, <4>1, <5>1
      <4>2. CASE t = s /\ i = k + 1
        BY <3>2, <3>3, <3>6, <4>2
      <4> QED BY <3>5, <4>1, <4>2
    <3>7. ASSUME NEW t \in Pushes, NEW i \in DOMAIN passedOn'[t], NEW x, x = passedOn'[t][i]
          PROVE  /\ x.node = OrEmpty(Payload[x.push][x.number].node)
                 /\ x.resource = OrEmpty(Payload[x.push][x.number].resource)
                 /\ \A j \in 1..(i - 1) : passedOn'[t][j] # x
      <4>1. CASE i \in 1..Len(passedOn[t]) /\ \A j \in 1..i : passedOn'[t][j] = passedOn[t][j]
        <5>1. x = passedOn[t][i] /\ \A j \in 1..(i - 1) : passedOn'[t][j] = passedOn[t][j]
          BY <1>0, <3>7, <4>1
        <5> QED BY <2>11, <4>1, <5>1
      <4>2. CASE t = s /\ i = k + 1
        <5>1. x = r /\ i - 1 = k
          BY <3>2, <3>7, <4>2
        <5>2. \A j \in 1..k : passedOn'[s][j] # r
          BY <3>2, <3>4
        <5> QED BY <2>8, <4>2, <5>1, <5>2
      <4> QED BY <3>5, <4>1, <4>2
    <3>8. OwnResource'
      BY <3>7 DEF OwnResource
    <3> QED BY <2>9, <3>6, <3>8 DEF HandlerInv
  <2> QED BY <2>3, <2>12, <2>13
<1>3. ASSUME NEW s \in Pushes, CheckFirst(s) \/ StreamEnds(s) PROVE HandlerInv'
  <2>1. passedOn' = passedOn /\ \A t \in Pushes : handler'[t].read = handler[t].read
    <3>1. PICK a : passedOn' = passedOn /\ handler' = [handler EXCEPT ![s].at = a]
      BY <1>3 DEF CheckFirst, StreamEnds
    <3>2. handler'[s].read = handler[s].read
      <4>1. handler[s] \in HandlerRecords
        BY <1>0
      <4>2. handler'[s] = [handler[s] EXCEPT !.at = a]
        BY <1>0, <3>1
      <4> QED BY <4>1, <4>2 DEF HandlerRecords
    <3> QED BY <1>0, <3>1, <3>2
  <2> QED BY <1>1, <2>1
<1>4. CASE UNCHANGED receiverVars
  BY <1>1, <1>4 DEF receiverVars
<1> QED BY <1>2, <1>3, <1>4 DEF ReceiverNext

\* The invariant holds in the beginning.
LEMMA StreamBegins ==
    ASSUME ReceiverInit
    PROVE  StreamInv
<1> USE DEF ReceiverInit, ClientInit
<1>0. /\ Nil \notin Pushes /\ NumWorkers \in Nat /\ Nil \in Names
      /\ \A p \in Pushes : Len(Payload[p]) \in Nat
  BY OpenCensusAssumption, LenProperties
<1>1. /\ clients \in Seq(Pushes \cup {Nil}) /\ Len(clients) = NumWorkers
      /\ \A i \in DOMAIN clients : clients[i] = Nil
  BY <1>0
<1>2. \A p \in Pushes : /\ push[p].at = "idle" /\ push[p].client = Nil /\ push[p].sent = 0
                         /\ sentOn[p] = <<>> /\ passedOn[p] = <<>> /\ handler[p].read = 0
  BY DEF NoPush
<1>3. StreamTypeOK
  <2>1. NoPush \in PushRecords
    BY DEF NoPush, PushRecords, PushStates
  <2>2. [at |-> "first", node |-> Nil, resource |-> Nil, read |-> 0] \in HandlerRecords
    BY <1>0 DEF HandlerRecords
  <2>3. stop \in StopRecords
    BY DEF StopRecords
  <2>4. <<>> \in Seq(SentMessages) /\ <<>> \in Seq(Received)
    BY EmptySeq
  <2> QED BY <1>1, <2>1, <2>2, <2>3, <2>4 DEF StreamTypeOK
<1>4. StreamInOnePlace
  BY <1>0, <1>1, <1>2
  DEF StreamInOnePlace, SendersHaveOne, OncePooled, NotInUse, OneUser, NothingBefore
<1>5. PoolInv
  <2>1. Holders = {}
    BY <1>2 DEF Holders, Holding
  <2>2. Drained = {}
    BY DEF Drained
  <2>3. stop.taken = 0 /\ ~closed
    BY DEF closed
  <2> QED BY <1>0, <1>1, <2>1, <2>2, <2>3, FS_EmptySet DEF PoolInv
<1>6. SendsInv
  BY <1>0, <1>2 DEF SendsInv, SentTogether
<1>7. SentInv
  BY <1>2 DEF SentInv
<1>8. HandlerInv
  <2>1. \A s \in Pushes : DOMAIN passedOn[s] = {} /\ Len(sentOn[s]) = 0
    BY <1>2
  <2> QED BY <1>2, <2>1 DEF HandlerInv, OwnResource
<1> QED BY <1>3, <1>4, <1>5, <1>6, <1>7, <1>8 DEF StreamInv

\* Calls that share the streams of a pool do not get into each other's way, for any number
\* of calls and workers and any payloads: opencensusexporter keeps as many clients as it
\* began with and never gives one to a channel that is closed; what a call sends follows on
\* one stream; and the receiver passes it on once, with its own node and resource.
THEOREM StreamsStayShared == ReceiverSpec => []StreamsShared
<1>1. ReceiverInit => StreamInv
  BY StreamBegins
<1>2. StreamInv /\ [ReceiverNext]_streamVars => StreamInv'
  <2> SUFFICES ASSUME StreamInv, [ReceiverNext]_streamVars PROVE StreamInv'
    OBVIOUS
  <2>1. CASE ReceiverNext
    BY <2>1, StreamTypes, PlacesStay, PoolStays, SendsStay, SentStays, HandlersStay DEF StreamInv
  <2>2. CASE UNCHANGED streamVars
    <3> USE <2>2 DEF streamVars
    <3>1. StreamTypeOK' = StreamTypeOK
      BY DEF StreamTypeOK
    <3>2. StreamInOnePlace' = StreamInOnePlace
      BY DEF StreamInOnePlace, SendersHaveOne, OncePooled, NotInUse, OneUser, NothingBefore, Before
    <3>3. PoolInv' = PoolInv
      BY DEF PoolInv, Holders, Holding, Drained, closed
    <3>4. SendsInv' = SendsInv
      BY DEF SendsInv, Last, SentTogether
    <3>5. SentInv' = SentInv
      BY DEF SentInv, SentRight
    <3>6. HandlerInv' = HandlerInv
      BY DEF HandlerInv, ReadBefore, OwnResource
    <3> QED BY <3>1, <3>2, <3>3, <3>4, <3>5, <3>6 DEF StreamInv
  <2> QED BY <2>1, <2>2
<1>3. StreamInv => StreamsShared
  BY PoolHolds DEF StreamInv, SendsInv, HandlerInv, StreamsShared
<1> QED BY <1>1, <1>2, <1>3, PTL DEF ReceiverSpec

(***************************************************************************)
(* The receiver for Fluent Forward.  ForwardInv: what came out of the      *)
(* connections are their first events, as many of a connection as it has   *)
(* sent to the channel.                                                    *)
(***************************************************************************)

ConnStates == {"new", "read", "put", "ack", "closed"}
ConnRecords == [at : ConnStates, read : 0..MaxEvents]
Collectors == [at : {"select", "fill", "returned"}, buffered : Seq(Events)]

ForwardTypeOK ==
    /\ conn \in [Connections -> ConnRecords]
    /\ eventCh \in Seq(Events)
    /\ collector \in Collectors
    /\ forwarded \in Seq(Events)
    /\ acked \in SUBSET Events
    /\ \A c \in Connections : conn[c].at \in {"put", "ack"} => conn[c].read > 0
    /\ collector.at # "fill" => collector.buffered = <<>>

\* The events of a connection that were sent to the channel.
Stored(c) == IF conn[c].at = "put" THEN conn[c].read - 1 ELSE conn[c].read

ArrivalsInv ==
    /\ \A c \in Connections : \A n \in 1..Stored(c) : \E i \in DOMAIN Arrivals : Arrivals[i] = <<c, n>>
    /\ \A i \in DOMAIN Arrivals : Arrivals[i][2] <= Stored(Arrivals[i][1])
    /\ \A e \in acked : e[2] <= Stored(e[1])
    /\ Len(eventCh) <= ChannelLength
    /\ \A i \in DOMAIN Arrivals :
          /\ \A j \in 1..(i - 1) : Arrivals[j] # Arrivals[i]
          /\ Arrivals[i][2] > 1 =>
                \E j \in 1..(i - 1) : Arrivals[j] = <<Arrivals[i][1], Arrivals[i][2] - 1>>

ForwardInv == ForwardTypeOK /\ ArrivalsInv

\* An event has a connection and a number.
LEMMA EventParts ==
    ASSUME NEW e \in Events
    PROVE  e[1] \in Connections /\ e[2] \in 1..MaxEvents /\ e = <<e[1], e[2]>>
BY DEF Events

\* The fields of the records of connections and of the collector.
LEMMA ForwardFields ==
    /\ \A r \in ConnRecords : r.at \in ConnStates /\ r.read \in Nat /\ r.read <= MaxEvents
    /\ \A r \in Collectors : r.at \in {"select", "fill", "returned"} /\ r.buffered \in Seq(Events)
<1>1. \A r \in ConnRecords : r.at \in ConnStates /\ r.read \in Nat /\ r.read <= MaxEvents
  BY ForwardAssumption DEF ConnRecords
<1>2. \A r \in Collectors : r.at \in {"select", "fill", "returned"} /\ r.buffered \in Seq(Events)
  BY DEF Collectors
<1> QED BY <1>1, <1>2

\* An event that goes from the channel to the buffer keeps its place.
LEMMA FirstMoves ==
    ASSUME NEW f \in Seq(Events), NEW b \in Seq(Events), NEW q \in Seq(Events), q # <<>>
    PROVE  (f \o Append(b, Head(q))) \o Tail(q) = (f \o b) \o q
<1>1. /\ Head(q) \in Events /\ Tail(q) \in Seq(Events) /\ Len(Tail(q)) = Len(q) - 1
      /\ \A i \in 1..Len(Tail(q)) : Tail(q)[i] = q[i + 1]
  BY HeadTailProperties
<1>2. <<Head(q)>> \in Seq(Events) /\ Len(<<Head(q)>>) = 1 /\ <<Head(q)>>[1] = Head(q) /\ Head(q) = q[1]
  BY <1>1
<1>3. q = <<Head(q)>> \o Tail(q)
  <2> DEFINE h == <<Head(q)>>
             t == Tail(q)
  <2>1. Len(q) \in Nat /\ Len(t) \in Nat /\ Len(t) = Len(q) - 1
    BY <1>1, LenProperties
  <2> HIDE DEF h, t
  <2>2. /\ h \o t \in Seq(Events) /\ Len(h \o t) = Len(h) + Len(t)
        /\ \A i \in 1..(Len(h) + Len(t)) : (h \o t)[i] = IF i <= Len(h) THEN h[i] ELSE t[i - Len(h)]
    BY <1>1, <1>2, ConcatProperties DEF h, t
  <2>3. Len(h) = 1 /\ h[1] = q[1] /\ \A i \in 1..Len(t) : t[i] = q[i + 1]
    BY <1>1, <1>2 DEF h, t
  <2>4. Len(h \o t) = Len(q) /\ \A i \in 1..Len(q) : (h \o t)[i] = q[i]
    <3>1. Len(h) + Len(t) = Len(q)
      BY <2>1, <2>3
    <3>2. ASSUME NEW i \in 1..Len(q) PROVE (h \o t)[i] = q[i]
      <4>1. CASE i = 1
        BY <2>2, <2>3, <3>1, <4>1
      <4>2. CASE i # 1
        <5>1. i - 1 \in 1..Len(t) /\ (i - 1) + 1 = i /\ ~(i <= Len(h))
          BY <2>1, <2>3, <4>2
        <5>2. (h \o t)[i] = t[i - 1]
          BY <2>2, <2>3, <3>1, <5>1
        <5> QED BY <2>3, <5>1, <5>2
      <4> QED BY <4>1, <4>2
    <3> QED BY <2>2, <3>1, <3>2
  <2>5. h \o t = q
    BY <2>2, <2>4, SeqEqual
  <2> QED BY <2>5 DEF h, t
<1>4. Append(b, Head(q)) = b \o <<Head(q)>>
  BY <1>1, AppendIsConcat
<1>5. f \o (b \o <<Head(q)>>) = (f \o b) \o <<Head(q)>> /\ f \o b \in Seq(Events)
  BY <1>2, ConcatAssociative, ConcatProperties
<1>6. ((f \o b) \o <<Head(q)>>) \o Tail(q) = (f \o b) \o (<<Head(q)>> \o Tail(q))
  BY <1>1, <1>2, <1>5, ConcatAssociative
<1> QED BY <1>3, <1>4, <1>5, <1>6

\* What came out of the connections is a sequence of events.
LEMMA ArrivalsTyped ==
    ASSUME ForwardTypeOK
    PROVE  /\ Arrivals \in Seq(Events) /\ Len(Arrivals) \in Nat /\ DOMAIN Arrivals = 1..Len(Arrivals)
           /\ \A i \in DOMAIN Arrivals : Arrivals[i] \in Events
<1>1. forwarded \o collector.buffered \in Seq(Events)
  BY ForwardFields, ConcatProperties DEF ForwardTypeOK
<1>2. Arrivals \in Seq(Events)
  BY <1>1, ConcatProperties DEF Arrivals, ForwardTypeOK
<1> QED BY <1>2, LenProperties, ElementOfSeq

\* Numbers of events that were sent to the channel.
LEMMA StoredTyped ==
    ASSUME ForwardTypeOK, NEW c \in Connections
    PROVE  Stored(c) \in Nat /\ conn[c].read \in Nat
BY ForwardFields DEF ForwardTypeOK, Stored

\* Where no event is sent to the channel, nothing is lost or changes its place.
LEMMA ArrivalsStay ==
    ASSUME ForwardTypeOK, ArrivalsInv, Arrivals' = Arrivals,
           \A c \in Connections : Stored(c)' = Stored(c),
           \A e \in acked' : e \in acked \/ e[2] <= Stored(e[1]),
           acked' \subseteq Events, Len(eventCh') <= ChannelLength
    PROVE  ArrivalsInv'
<1>1. \A i \in DOMAIN Arrivals : Arrivals[i][1] \in Connections
  BY ArrivalsTyped, EventParts
<1>2. \A e \in acked' : e[1] \in Connections
  BY EventParts
<1>3. \A c \in Connections : \A n \in 1..Stored(c)' : \E i \in DOMAIN Arrivals' : Arrivals'[i] = <<c, n>>
  BY DEF ArrivalsInv
<1>4. \A i \in DOMAIN Arrivals : Arrivals[i][2] <= Stored(Arrivals[i][1])
  BY DEF ArrivalsInv
<1>5. ASSUME NEW i \in DOMAIN Arrivals, NEW a, a = Arrivals[i] PROVE a[2] <= Stored(a[1])'
  BY <1>1, <1>4, <1>5
<1>6. ASSUME NEW e \in acked' PROVE e[2] <= Stored(e[1])'
  BY <1>2, <1>6 DEF ArrivalsInv
<1>7. \A i \in DOMAIN Arrivals' :
          /\ \A j \in 1..(i - 1) : Arrivals'[j] # Arrivals'[i]
          /\ Arrivals'[i][2] > 1 =>
                \E j \in 1..(i - 1) : Arrivals'[j] = <<Arrivals'[i][1], Arrivals'[i][2] - 1>>
  BY DEF ArrivalsInv
<1>8. \A i \in DOMAIN Arrivals' : Arrivals'[i][2] <= (Stored(Arrivals[i][1]))'
  <2> SUFFICES ASSUME NEW i \in DOMAIN Arrivals' PROVE Arrivals'[i][2] <= (Stored(Arrivals[i][1]))'
    OBVIOUS
  <2>1. Arrivals[i][2] <= Stored(Arrivals[i][1]) /\ Arrivals[i][1] \in Connections
    BY <1>1, <1>4
  <2> QED BY <1>5, <2>1 DEF Stored
<1> QED BY <1>3, <1>6, <1>7, <1>8 DEF ArrivalsInv

\* An event that is sent to the channel is the next one of its connection.
LEMMA PutKeeps ==
    ASSUME ForwardInv, NEW c \in Connections, Put(c)
    PROVE  ForwardInv'
<1>0. /\ ForwardTypeOK /\ ArrivalsInv /\ conn \in [Connections -> ConnRecords]
      /\ conn[c].at = "put" /\ conn[c].read \in Nat /\ conn[c].read > 0 /\ conn[c].read <= MaxEvents
      /\ eventCh \in Seq(Events) /\ Len(eventCh) < ChannelLength /\ Len(eventCh) \in Nat
      /\ ChannelLength \in Nat
  BY ForwardFields, ForwardAssumption, LenProperties DEF ForwardInv, ForwardTypeOK, Put
<1> DEFINE n == conn[c].read
           e == <<c, n>>
           k == Len(Arrivals)
<1>1. e \in Events
  BY <1>0 DEF Events
<1>2. eventCh' = Append(eventCh, e) /\ conn' = [conn EXCEPT ![c].at = "ack"]
      /\ UNCHANGED <<collector, forwarded, acked>>
  BY DEF Put
<1>3. /\ conn' \in [Connections -> ConnRecords]
      /\ conn'[c].at = "ack" /\ conn'[c].read = n
      /\ \A d \in Connections \ {c} : conn'[d] = conn[d]
  BY <1>0, <1>2 DEF ConnRecords, ConnStates
<1>4. eventCh' \in Seq(Events) /\ Len(eventCh') = Len(eventCh) + 1
  BY <1>0, <1>1, <1>2, AppendProperties
<1>5. ForwardTypeOK'
  <2>1. ASSUME NEW d \in Connections PROVE conn'[d].at \in {"put", "ack"} => conn'[d].read > 0
    <3>1. CASE d = c
      BY <1>0, <1>3, <3>1
    <3>2. CASE d # c
      BY <1>0, <1>3, <3>2 DEF ForwardTypeOK
    <3> QED BY <3>1, <3>2
  <2> QED BY <1>0, <1>2, <1>3, <1>4, <2>1 DEF ForwardTypeOK
<1>6. Arrivals' = Append(Arrivals, e)
  <2> DEFINE p == forwarded \o collector.buffered
  <2>1. p \in Seq(Events)
    BY <1>0, ForwardFields, ConcatProperties DEF ForwardTypeOK
  <2>2. Arrivals' = p \o Append(eventCh, e)
    BY <1>2 DEF Arrivals
  <2> HIDE DEF p, e
  <2>3. Append(eventCh, e) = eventCh \o <<e>> /\ <<e>> \in Seq(Events)
    BY <1>0, <1>1, AppendIsConcat
  <2>4. p \o (eventCh \o <<e>>) = (p \o eventCh) \o <<e>>
    BY <1>0, <2>1, <2>3, ConcatAssociative
  <2>5. Arrivals = p \o eventCh
    BY DEF Arrivals, p
  <2>6. Append(Arrivals, e) = Arrivals \o <<e>>
    BY <1>0, <1>1, ArrivalsTyped, AppendIsConcat
  <2> QED BY <2>2, <2>3, <2>4, <2>5, <2>6
<1>7. /\ k \in Nat /\ DOMAIN Arrivals = 1..k /\ \A i \in 1..k : Arrivals[i] \in Events
      /\ DOMAIN Arrivals' = 1..(k + 1) /\ Arrivals'[k + 1] = e
      /\ \A i \in 1..k : Arrivals'[i] = Arrivals[i]
  BY <1>0, <1>1, <1>5, <1>6, ArrivalsTyped, AppendProperties, LenProperties
<1>8. Stored(c) = n - 1 /\ Stored(c)' = n /\ \A d \in Connections \ {c} : Stored(d)' = Stored(d)
  BY <1>0, <1>3 DEF Stored
<1>9. \A d \in Connections : Stored(d) \in Nat /\ Stored(d)' \in Nat /\ Stored(d) <= Stored(d)'
  BY <1>0, <1>8, StoredTyped
<1> HIDE DEF n, e, k
<1>10. e[1] = c /\ e[2] = n
  BY DEF e
<1>11. \A i \in 1..k : Arrivals[i] # e
  <2> SUFFICES ASSUME NEW i \in 1..k, Arrivals[i] = e PROVE FALSE
    OBVIOUS
  <2>1. Arrivals[i][2] <= Stored(Arrivals[i][1])
    BY <1>0, <1>7 DEF ArrivalsInv
  <2> QED BY <1>0, <1>8, <1>10, <2>1 DEF n
<1>12. n > 1 => \E i \in 1..k : Arrivals[i] = <<c, n - 1>>
  <2> SUFFICES ASSUME n > 1 PROVE \E i \in 1..k : Arrivals[i] = <<c, n - 1>>
    OBVIOUS
  <2>1. n - 1 \in 1..Stored(c)
    BY <1>0, <1>8 DEF n
  <2> QED BY <1>0, <1>7, <2>1 DEF ArrivalsInv
<1>13. ASSUME NEW d \in Connections, NEW m \in 1..Stored(d)'
       PROVE  \E i \in DOMAIN Arrivals' : Arrivals'[i] = <<d, m>>
  <2>1. CASE d = c /\ m = n
    BY <1>7, <2>1 DEF e
  <2>2. CASE ~(d = c /\ m = n)
    <3>1. m \in 1..Stored(d)
      BY <1>0, <1>8, <1>9, <2>2 DEF n
    <3>2. PICK i \in 1..k : Arrivals[i] = <<d, m>>
      BY <1>0, <1>7, <3>1 DEF ArrivalsInv
    <3> QED BY <1>7, <3>2
  <2> QED BY <2>1, <2>2
<1>14. ASSUME NEW i \in DOMAIN Arrivals', NEW a, a = Arrivals'[i] PROVE a[2] <= Stored(a[1])'
  <2>1. CASE i = k + 1
    BY <1>0, <1>7, <1>8, <1>10, <1>14, <2>1 DEF n
  <2>2. CASE i # k + 1
    <3>1. i \in 1..k /\ a = Arrivals[i]
      BY <1>7, <1>14, <2>2
    <3>2. a \in Events /\ a[2] <= Stored(a[1])
      BY <1>0, <1>7, <3>1 DEF ArrivalsInv
    <3>3. a[1] \in Connections /\ a[2] \in Nat
      BY <3>2, EventParts, ForwardAssumption
    <3> QED BY <1>9, <3>2, <3>3
  <2> QED BY <2>1, <2>2
<1>15. ASSUME NEW a \in acked' PROVE a[2] <= Stored(a[1])'
  <2>1. a \in Events /\ a[2] <= Stored(a[1])
    BY <1>0, <1>2, <1>15 DEF ArrivalsInv, ForwardTypeOK
  <2>2. a[1] \in Connections /\ a[2] \in Nat
    BY <2>1, EventParts, ForwardAssumption
  <2> QED BY <1>9, <2>1, <2>2
<1>16. ASSUME NEW i \in DOMAIN Arrivals'
       PROVE  /\ \A j \in 1..(i - 1) : Arrivals'[j] # Arrivals'[i]
              /\ Arrivals'[i][2] > 1 =>
                    \E j \in 1..(i - 1) : Arrivals'[j] = <<Arrivals'[i][1], Arrivals'[i][2] - 1>>
  <2>1. CASE i = k + 1
    <3>1. Arrivals'[i] = e /\ i - 1 = k
      BY <1>7, <2>1
    <3> QED BY <1>7, <1>10, <1>11, <1>12, <3>1
  <2>2. CASE i # k + 1
    <3>1. i \in 1..k /\ Arrivals'[i] = Arrivals[i] /\ \A j \in 1..(i - 1) : Arrivals'[j] = Arrivals[j]
      BY <1>7, <2>2
    <3>2. /\ \A j \in 1..(i - 1) : Arrivals[j] # Arrivals[i]
          /\ Arrivals[i][2] > 1 =>
                \E j \in 1..(i - 1) : Arrivals[j] = <<Arrivals[i][1], Arrivals[i][2] - 1>>
      BY <1>0, <1>7, <3>1 DEF ArrivalsInv
    <3> QED BY <3>1, <3>2
  <2> QED BY <2>1, <2>2
<1>17. Len(eventCh') <= ChannelLength
  BY <1>0, <1>4
<1>18. \A i \in DOMAIN Arrivals' : Arrivals'[i][2] <= (Stored(Arrivals[i][1]))'
  BY <1>14 DEF Stored
<1> QED BY <1>5, <1>13, <1>15, <1>16, <1>17, <1>18 DEF ForwardInv, ArrivalsInv

\* The collector moves events from the channel to its buffer and passes them on, and
\* changes the place of none.
LEMMA CollectorKeeps ==
    ASSUME ForwardInv, CollectorStep
    PROVE  ForwardInv'
<1>0. /\ ForwardTypeOK /\ ArrivalsInv /\ eventCh \in Seq(Events) /\ forwarded \in Seq(Events)
      /\ collector \in Collectors /\ collector.buffered \in Seq(Events)
      /\ Len(eventCh) \in Nat /\ Len(eventCh) <= ChannelLength /\ ChannelLength \in Nat
  BY ForwardFields, ForwardAssumption, LenProperties DEF ForwardInv, ForwardTypeOK, ArrivalsInv
<1>1. UNCHANGED <<conn, acked>>
  BY DEF CollectorStep, TakeFirst, Fill, SeeEnded
<1>2. (\A c \in Connections : Stored(c)' = Stored(c)) /\ acked' \subseteq Events
  BY <1>0, <1>1 DEF Stored, ForwardTypeOK
<1>3. ASSUME ForwardTypeOK', Arrivals' = Arrivals, Len(eventCh') <= ChannelLength PROVE ForwardInv'
  BY <1>0, <1>1, <1>2, <1>3, ArrivalsStay DEF ForwardInv
<1>4. CASE TakeFirst
  <2>1. /\ eventCh # <<>> /\ eventCh' = Tail(eventCh) /\ forwarded' = forwarded
        /\ collector.buffered = <<>>
        /\ collector' = [at |-> "fill", buffered |-> <<Head(eventCh)>>]
    BY <1>0, <1>4 DEF TakeFirst, ForwardTypeOK
  <2>2. Head(eventCh) \in Events /\ eventCh' \in Seq(Events) /\ Len(eventCh') = Len(eventCh) - 1
    BY <1>0, <2>1, HeadTailProperties
  <2>3. <<Head(eventCh)>> = Append(<<>>, Head(eventCh)) /\ <<Head(eventCh)>> \in Seq(Events)
    BY <2>2
  <2>4. collector' \in Collectors /\ collector'.buffered = Append(collector.buffered, Head(eventCh))
        /\ collector'.at = "fill"
    BY <2>1, <2>3 DEF Collectors
  <2>5. Arrivals' = Arrivals
    BY <1>0, <2>1, <2>4, FirstMoves DEF Arrivals
  <2>6. ForwardTypeOK'
    BY <1>0, <1>1, <2>1, <2>2, <2>4 DEF ForwardTypeOK
  <2> QED BY <1>0, <1>3, <2>2, <2>5, <2>6
<1>5. CASE Fill /\ eventCh # <<>>
  <2>1. /\ eventCh' = Tail(eventCh) /\ forwarded' = forwarded /\ collector.at = "fill"
        /\ collector' = [collector EXCEPT !.buffered = Append(collector.buffered, Head(eventCh))]
    BY <1>5 DEF Fill
  <2>2. Head(eventCh) \in Events /\ eventCh' \in Seq(Events) /\ Len(eventCh') = Len(eventCh) - 1
    BY <1>0, <1>5, <2>1, HeadTailProperties
  <2>3. Append(collector.buffered, Head(eventCh)) \in Seq(Events)
    BY <1>0, <2>2, AppendProperties
  <2>4. collector' \in Collectors /\ collector'.buffered = Append(collector.buffered, Head(eventCh))
        /\ collector'.at = "fill"
    BY <1>0, <2>1, <2>3 DEF Collectors
  <2>5. Arrivals' = Arrivals
    <3>1. Arrivals' = (forwarded \o Append(collector.buffered, Head(eventCh))) \o Tail(eventCh)
      BY <2>1, <2>4 DEF Arrivals
    <3>2. eventCh # <<>>
      BY <1>5
    <3>3. (forwarded \o Append(collector.buffered, Head(eventCh))) \o Tail(eventCh)
             = (forwarded \o collector.buffered) \o eventCh
      <4>1. ASSUME NEW b \in Seq(Events)
            PROVE  (forwarded \o Append(b, Head(eventCh))) \o Tail(eventCh) = (forwarded \o b) \o eventCh
        BY <1>0, <3>2, FirstMoves
      <4> QED BY <1>0, <4>1
    <3> QED BY <3>1, <3>3 DEF Arrivals
  <2>6. ForwardTypeOK'
    BY <1>0, <1>1, <2>1, <2>2, <2>4 DEF ForwardTypeOK
  <2> QED BY <1>0, <1>3, <2>2, <2>5, <2>6
<1>6. CASE Fill /\ eventCh = <<>>
  <2>1. /\ eventCh' = eventCh /\ forwarded' = forwarded \o collector.buffered
        /\ collector' = [at |-> "select", buffered |-> <<>>]
    BY <1>6 DEF Fill
  <2>2. forwarded' \in Seq(Events) /\ forwarded' \o <<>> = forwarded'
    BY <1>0, <2>1, ConcatProperties, ConcatEmptySeq
  <2>3. collector' \in Collectors /\ collector'.buffered = <<>>
    BY <2>1 DEF Collectors
  <2>4. Arrivals' = Arrivals
    BY <2>1, <2>2, <2>3 DEF Arrivals
  <2>5. ForwardTypeOK'
    BY <1>0, <1>1, <2>1, <2>2, <2>3 DEF ForwardTypeOK
  <2> QED BY <1>0, <1>3, <2>1, <2>4, <2>5
<1>7. CASE SeeEnded
  <2>1. /\ eventCh' = eventCh /\ forwarded' = forwarded /\ collector.buffered = <<>>
        /\ collector' = [collector EXCEPT !.at = "returned"]
    BY <1>0, <1>7 DEF SeeEnded, ForwardTypeOK
  <2>2. collector' \in Collectors /\ collector'.buffered = collector.buffered
    BY <1>0, <2>1 DEF Collectors
  <2>3. Arrivals' = Arrivals
    BY <2>1, <2>2 DEF Arrivals
  <2>4. ForwardTypeOK'
    BY <1>0, <1>1, <2>1, <2>2 DEF ForwardTypeOK
  <2> QED BY <1>0, <1>3, <2>1, <2>3, <2>4
<1> QED BY <1>4, <1>5, <1>6, <1>7 DEF CollectorStep

\* A connection reads and acknowledges.
LEMMA ConnectionKeeps ==
    ASSUME ForwardInv, NEW c \in Connections, Accept(c) \/ Decode(c) \/ Acknowledge(c)
    PROVE  ForwardInv'
<1>0. /\ ForwardTypeOK /\ ArrivalsInv /\ conn \in [Connections -> ConnRecords]
      /\ conn[c].read \in Nat /\ conn[c].read <= MaxEvents /\ acked \subseteq Events
      /\ UNCHANGED <<eventCh, collector, forwarded>> /\ MaxEvents \in Nat
  BY ForwardFields, ForwardAssumption DEF ForwardInv, ForwardTypeOK, Accept, Decode, Acknowledge
<1>1. Arrivals' = Arrivals /\ Len(eventCh') <= ChannelLength
  BY <1>0 DEF Arrivals, ArrivalsInv
<1>2. ASSUME NEW a \in ConnStates, NEW n \in 0..MaxEvents, conn' = [conn EXCEPT ![c] = [at |-> a, read |-> n]],
             a \in {"put", "ack"} => n > 0, Stored(c) = IF a = "put" THEN n - 1 ELSE n,
             acked' \subseteq Events, \A e \in acked' : e \in acked \/ e[2] <= Stored(e[1])
      PROVE  ForwardInv'
  <2>1. [at |-> a, read |-> n] \in ConnRecords
    BY <1>2 DEF ConnRecords
  <2>2. /\ conn' \in [Connections -> ConnRecords] /\ conn'[c].at = a /\ conn'[c].read = n
        /\ \A d \in Connections \ {c} : conn'[d] = conn[d]
    BY <1>0, <1>2, <2>1
  <2>3. ASSUME NEW d \in Connections PROVE conn'[d].at \in {"put", "ack"} => conn'[d].read > 0
    <3>1. CASE d = c
      BY <1>2, <2>2, <3>1
    <3>2. CASE d # c
      BY <1>0, <2>2, <3>2 DEF ForwardTypeOK
    <3> QED BY <3>1, <3>2
  <2>4. ForwardTypeOK'
    BY <1>0, <1>2, <2>2, <2>3 DEF ForwardTypeOK
  <2>5. ASSUME NEW d \in Connections PROVE Stored(d)' = Stored(d)
    <3>1. CASE d = c
      BY <1>2, <2>2, <3>1 DEF Stored
    <3>2. CASE d # c
      BY <2>2, <3>2 DEF Stored
    <3> QED BY <3>1, <3>2
  <2> QED BY <1>0, <1>1, <1>2, <2>4, <2>5, ArrivalsStay DEF ForwardInv
<1>3. ASSUME NEW a \in ConnStates PROVE [conn EXCEPT ![c].at = a] = [conn EXCEPT ![c] = [at |-> a, read |-> conn[c].read]]
  <2>1. conn[c] \in ConnRecords
    BY <1>0
  <2>2. [conn[c] EXCEPT !.at = a] = [at |-> a, read |-> conn[c].read]
    BY <2>1 DEF ConnRecords
  <2> QED BY <2>2
<1>4. conn[c].read \in 0..MaxEvents
  BY <1>0
<1>5. CASE Accept(c)
  <2>1. conn[c].at = "new" /\ acked' = acked
    BY <1>5 DEF Accept
  <2>2. Stored(c) = conn[c].read
    BY <2>1 DEF Stored
  <2>3. CASE conn' = conn
    <3>1. ForwardTypeOK'
      BY <1>0, <2>1, <2>3 DEF ForwardTypeOK
    <3>2. \A d \in Connections : Stored(d)' = Stored(d)
      BY <2>3 DEF Stored
    <3> QED BY <1>0, <1>1, <2>1, <3>1, <3>2, ArrivalsStay DEF ForwardInv
  <2>4. CASE conn' = [conn EXCEPT ![c].at = "read"]
    <3>1. "read" \in ConnStates
      BY DEF ConnStates
    <3> QED BY <1>0, <1>2, <1>3, <1>4, <2>1, <2>2, <2>4, <3>1
  <2> QED BY <1>5, <2>3, <2>4 DEF Accept
<1>6. CASE Decode(c)
  <2>1. conn[c].at = "read" /\ acked' = acked
    BY <1>6 DEF Decode
  <2>2. Stored(c) = conn[c].read
    BY <2>1 DEF Stored
  <2>3. CASE conn[c].read < MaxEvents /\ conn' = [conn EXCEPT ![c] = [at |-> "put", read |-> conn[c].read + 1]]
    <3>1. "put" \in ConnStates /\ conn[c].read + 1 \in 0..MaxEvents /\ conn[c].read + 1 > 0
          /\ Stored(c) = IF "put" = "put" THEN (conn[c].read + 1) - 1 ELSE conn[c].read + 1
      BY <1>0, <2>2, <2>3 DEF ConnStates
    <3> QED BY <1>0, <1>2, <2>1, <2>3, <3>1
  <2>4. CASE conn' = [conn EXCEPT ![c].at = "closed"]
    <3>1. "closed" \in ConnStates
      BY DEF ConnStates
    <3> QED BY <1>0, <1>2, <1>3, <1>4, <2>1, <2>2, <2>4, <3>1
  <2> QED BY <1>6, <2>3, <2>4 DEF Decode
<1>7. CASE Acknowledge(c)
  <2>1. conn[c].at = "ack" /\ conn[c].read > 0
    BY <1>0, <1>7 DEF Acknowledge, ForwardTypeOK
  <2>2. Stored(c) = conn[c].read
    BY <2>1 DEF Stored
  <2>3. CASE acked' = acked \cup {<<c, conn[c].read>>} /\ conn' = [conn EXCEPT ![c].at = "read"]
    <3>1. "read" \in ConnStates
      BY DEF ConnStates
    <3>2. <<c, conn[c].read>> \in Events /\ <<c, conn[c].read>>[2] <= Stored(<<c, conn[c].read>>[1])
      BY <1>0, <2>1, <2>2 DEF Events
    <3>3. acked' \subseteq Events /\ \A e \in acked' : e \in acked \/ e[2] <= Stored(e[1])
      BY <1>0, <2>3, <3>2
    <3> QED BY <1>2, <1>3, <1>4, <2>2, <2>3, <3>1, <3>3
  <2>4. CASE acked' = acked /\ conn' = [conn EXCEPT ![c].at = "closed"]
    <3>1. "closed" \in ConnStates
      BY DEF ConnStates
    <3> QED BY <1>0, <1>2, <1>3, <1>4, <2>2, <2>4, <3>1
  <2> QED BY <1>7, <2>3, <2>4 DEF Acknowledge
<1> QED BY <1>5, <1>6, <1>7

\* fluentforwardreceiver acknowledges only what it has, passes the events of a connection
\* on in their order, once each, and keeps no more in the channel than it is long, for any
\* connections, any number of events and any length of the channel.
THEOREM AckedStayKept == ForwardSpec => []AckedIsKept
<1>1. ForwardInit => ForwardInv
  <2> SUFFICES ASSUME ForwardInit PROVE ForwardInv
    OBVIOUS
  <2> USE DEF ForwardInit
  <2>1. [at |-> "new", read |-> 0] \in ConnRecords
    BY ForwardAssumption DEF ConnRecords, ConnStates
  <2>2. collector \in Collectors /\ collector.buffered = <<>> /\ collector.at = "select"
    BY DEF Collectors
  <2>3. ForwardTypeOK
    BY <2>1, <2>2 DEF ForwardTypeOK
  <2>4. Arrivals = <<>>
    BY <2>2 DEF Arrivals
  <2>5. \A c \in Connections : Stored(c) = 0
    BY DEF Stored
  <2>6. ArrivalsInv
    BY <2>4, <2>5, ForwardAssumption DEF ArrivalsInv
  <2> QED BY <2>3, <2>6 DEF ForwardInv
<1>2. ForwardInv /\ [ForwardNext]_forwardVars => ForwardInv'
  <2> SUFFICES ASSUME ForwardInv, [ForwardNext]_forwardVars PROVE ForwardInv'
    OBVIOUS
  <2>1. CASE \E c \in Connections : ConnStep(c)
    BY <2>1, PutKeeps, ConnectionKeeps DEF ConnStep
  <2>2. CASE CollectorStep
    BY <2>2, CollectorKeeps
  <2>3. CASE UNCHANGED <<conn, eventCh, collector, forwarded, acked>>
    <3>1. ForwardTypeOK' = ForwardTypeOK
      BY <2>3 DEF ForwardTypeOK
    <3>2. Arrivals' = Arrivals /\ \A c \in Connections : Stored(c)' = Stored(c)
      BY <2>3 DEF Arrivals, Stored
    <3>3. acked' = acked /\ acked \subseteq Events /\ Len(eventCh') <= ChannelLength
      BY <2>3 DEF ForwardInv, ForwardTypeOK, ArrivalsInv
    <3> QED BY <3>1, <3>2, <3>3, ArrivalsStay DEF ForwardInv
  <2> QED BY <2>1, <2>2, <2>3 DEF ForwardNext, EndForward, forwardVars
<1>3. ForwardInv => AckedIsKept
  <2> SUFFICES ASSUME ForwardInv PROVE AckedIsKept
    OBVIOUS
  <2>1. ASSUME NEW e \in acked PROVE \E i \in DOMAIN Arrivals : Arrivals[i] = e
    <3>1. e \in Events /\ e[2] <= Stored(e[1])
      BY <2>1 DEF ForwardInv, ForwardTypeOK, ArrivalsInv
    <3>2. e[1] \in Connections /\ e[2] \in 1..MaxEvents /\ e = <<e[1], e[2]>>
      BY <3>1, EventParts
    <3>3. e[2] \in 1..Stored(e[1])
      BY <3>1, <3>2, ForwardAssumption, StoredTyped DEF ForwardInv
    <3> QED BY <3>2, <3>3 DEF ForwardInv, ArrivalsInv
  <2> QED BY <2>1 DEF ForwardInv, ArrivalsInv, AckedIsKept
<1> QED BY <1>1, <1>2, <1>3, PTL DEF ForwardSpec

(***************************************************************************)
(* The subprocess of fluent bit.  ProcessInv: unless a configuration could *)
(* not be written, whatever runs or is to be reported is the current       *)
(* subprocess, and there is none where the loop may start one or has       *)
(* ended.                                                                  *)
(***************************************************************************)

\* States of the loop in which there is no subprocess.
Childless == {"new", "starting", "errored", "stopped"}

ProcessInv ==
    \/ failedWrite
    \/ /\ alive \cup reporting \subseteq {current}
       /\ alive \cap reporting = {}
       /\ state \in Childless => alive \cup reporting = {}
       /\ stopper = "clean" => state = "stopped"

\* processManager of fluentbitextension has one subprocess at a time, whose end is the one
\* that it waits for, and leaves none when Shutdown returns in time, for any number of
\* subprocesses that end at any time.
THEOREM OneAtATime == ProcessSpec => []OneProcess
<1>1. ProcessInit => ProcessInv
  BY DEF ProcessInit, ProcessInv
<1>2. ProcessInv /\ [ProcessNext]_processVars => ProcessInv'
  <2> SUFFICES ASSUME ProcessInv, [ProcessNext]_processVars, ~failedWrite' PROVE ProcessInv'
    BY DEF ProcessInv
  <2> USE DEF Childless
  <2>0. ~failedWrite
    BY DEF ProcessNext, RunStep, StartManager, StartProcess, WriteConfig, ReceiveEnd, SeeCancelled, Terminate,
           AwaitEnd, Restart, ProcessEnds, ShutdownManager, ShutdownReturns, processVars
  <2>1. CASE StartManager \/ Restart
    BY <2>0, <2>1 DEF StartManager, Restart, ProcessInv
  <2>2. CASE StartProcess
    BY <2>0, <2>2 DEF StartProcess, ProcessInv
  <2>3. CASE WriteConfig
    BY <2>0, <2>3 DEF WriteConfig, ProcessInv
  <2>4. CASE SeeCancelled \/ Terminate
    BY <2>0, <2>4 DEF SeeCancelled, Terminate, ProcessInv
  <2>5. ASSUME NEW n \in reporting, ReceiveEnd(n) \/ AwaitEnd(n) PROVE ProcessInv'
    BY <2>0, <2>5 DEF ReceiveEnd, AwaitEnd, ProcessInv
  <2>6. ASSUME NEW n \in alive, ProcessEnds(n) PROVE ProcessInv'
    BY <2>0, <2>6 DEF ProcessEnds, ProcessInv
  <2>7. CASE ShutdownManager \/ ShutdownReturns
    BY <2>0, <2>7 DEF ShutdownManager, ShutdownReturns, ProcessInv
  <2>8. CASE UNCHANGED processVars
    BY <2>0, <2>8 DEF processVars, ProcessInv
  <2> QED BY <2>1, <2>2, <2>3, <2>4, <2>5, <2>6, <2>7, <2>8 DEF ProcessNext, RunStep
<1>3. ProcessInv => OneProcess
  BY DEF ProcessInv, OneProcess, Childless
<1> QED BY <1>1, <1>2, <1>3, PTL DEF ProcessSpec
=============================================================================
