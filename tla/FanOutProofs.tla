---------------------------- MODULE FanOutProofs ----------------------------
(***************************************************************************)
(* Proofs about pipelines behind a connector, for every number of          *)
(* pipelines, workers and payloads: what the run of MCCollector checks on  *)
(* two small instances of FanOut.                                          *)
(***************************************************************************)
EXTENDS FanOut, SequenceTheorems, TLAPS

Ats == {"idle", "export", "backoff", "exited"}
Slots == [at : Ats, item : QueueItems \cup {NoItem}]

(***************************************************************************)
(* The items of a queue and of its workers, for a queue s and workers wk.  *)
(***************************************************************************)

PoolOf(s, wk) ==
    {s[i] : i \in DOMAIN s} \cup {wk[w].item : w \in {w \in Workers : wk[w].at = "export"}}

\* No payload is in two places.
OnePlaceIn(s, wk) ==
    /\ \A i, j \in DOMAIN s : s[i].payload = s[j].payload => i = j
    /\ \A w, v \in Workers :
          wk[w].at = "export" /\ wk[v].at = "export" /\ wk[w].item.payload = wk[v].item.payload
              => w = v
    /\ \A i \in DOMAIN s, w \in Workers :
          wk[w].at = "export" => s[i].payload # wk[w].item.payload

Pool(p) == PoolOf(entries[p], worker[p])
OnePlace(p) == OnePlaceIn(entries[p], worker[p])

\* A worker that was not exporting and does not begin to changes nothing.
LEMMA PoolIdles ==
    ASSUME NEW s \in Seq(QueueItems), NEW wk \in [Workers -> Slots], NEW w \in Workers,
           NEW new \in [Workers -> Slots], \A v \in Workers \ {w} : new[v] = wk[v],
           wk[w].at # "export", new[w].at # "export", OnePlaceIn(s, wk)
    PROVE  OnePlaceIn(s, new) /\ PoolOf(s, new) = PoolOf(s, wk)
  <1>1. OnePlaceIn(s, new)
    BY DEF OnePlaceIn
  <1>2. {v \in Workers : new[v].at = "export"} = {v \in Workers : wk[v].at = "export"}
    OBVIOUS
  <1>3. PoolOf(s, new) = PoolOf(s, wk)
    BY <1>2 DEF PoolOf
  <1> QED
    BY <1>1, <1>3

\* Operators of sequences as relations, to cite the lemmas below without them.
HeadAndTail(s, head, t) == s # <<>> /\ head = Head(s) /\ t = Tail(s)
Appended(t, s, item) == t = Append(s, item)

\* A worker takes the head of the queue.
LEMMA PoolTakes ==
    ASSUME NEW s \in Seq(QueueItems), NEW wk \in [Workers -> Slots], NEW w \in Workers,
           NEW new \in [Workers -> Slots], \A v \in Workers \ {w} : new[v] = wk[v],
           NEW t, HeadAndTail(s, new[w].item, t), wk[w].at # "export",
           new[w].at = "export", OnePlaceIn(s, wk)
    PROVE  OnePlaceIn(t, new) /\ PoolOf(t, new) = PoolOf(s, wk)
  <1>1. \A v \in Workers : v = w \/ new[v] = wk[v]
    OBVIOUS
  <1>2. /\ Len(s) \in Nat \ {0}
        /\ t \in Seq(QueueItems)
        /\ DOMAIN s = 1..Len(s)
        /\ DOMAIN t = 1..(Len(s) - 1)
        /\ \A i \in DOMAIN t : i + 1 \in DOMAIN s /\ t[i] = s[i + 1] /\ i + 1 # 1 /\ i \in Nat
        /\ \A i \in DOMAIN s : i # 1 => i - 1 \in DOMAIN t /\ t[i - 1] = s[i]
        /\ 1 \in DOMAIN s /\ new[w].item = s[1]
    BY DEF HeadAndTail
  <1>3. OnePlaceIn(t, new)
    <2>1. ASSUME NEW i \in DOMAIN t, NEW j \in DOMAIN t, t[i].payload = t[j].payload
          PROVE  i = j
      <3>1. i + 1 = j + 1
        BY <1>2, <2>1 DEF OnePlaceIn
      <3> QED
        BY <1>2, <3>1
    <2>2. ASSUME NEW v \in Workers, NEW u \in Workers, new[v].at = "export",
                 new[u].at = "export", new[v].item.payload = new[u].item.payload
          PROVE  v = u
      <3>1. ASSUME NEW x \in Workers, x # w, wk[x].at = "export"
            PROVE  wk[x].item.payload # s[1].payload
        BY <1>2, <3>1 DEF OnePlaceIn
      <3>2. CASE v # w /\ u # w
        BY <1>1, <2>2, <3>2 DEF OnePlaceIn
      <3>3. CASE v = w
        BY <1>1, <1>2, <2>2, <3>1, <3>3
      <3>4. CASE u = w
        BY <1>1, <1>2, <2>2, <3>1, <3>4
      <3> QED
        BY <3>2, <3>3, <3>4
    <2>3. ASSUME NEW i \in DOMAIN t, NEW v \in Workers, new[v].at = "export"
          PROVE  t[i].payload # new[v].item.payload
      <3>1. i + 1 \in DOMAIN s /\ t[i] = s[i + 1] /\ i + 1 # 1
        BY <1>2
      <3>2. CASE v = w
        BY <1>1, <1>2, <3>1, <3>2 DEF OnePlaceIn
      <3>3. CASE v # w
        BY <1>1, <2>3, <3>1, <3>3 DEF OnePlaceIn
      <3> QED
        BY <3>2, <3>3
    <2> QED
      BY <2>1, <2>2, <2>3 DEF OnePlaceIn
  <1>4. ASSUME NEW q
        PROVE  q \in PoolOf(t, new) <=> q \in PoolOf(s, wk)
    <2>1. ASSUME q \in PoolOf(t, new)
          PROVE  q \in PoolOf(s, wk)
      <3>1. CASE \E i \in DOMAIN t : q = t[i]
        BY <1>2, <3>1 DEF PoolOf
      <3>2. ASSUME NEW v \in Workers, new[v].at = "export", q = new[v].item
            PROVE  q \in PoolOf(s, wk)
        <4>1. CASE v = w
          BY <1>2, <3>2, <4>1 DEF PoolOf
        <4>2. CASE v # w
          BY <3>2, <4>2 DEF PoolOf
        <4> QED
          BY <4>1, <4>2
      <3> QED
        BY <2>1, <3>1, <3>2 DEF PoolOf
    <2>2. ASSUME NEW i \in DOMAIN s, q = s[i]
          PROVE  q \in PoolOf(t, new)
      <3>1. CASE i = 1
        BY <1>1, <1>2, <2>2, <3>1 DEF PoolOf
      <3>2. CASE i # 1
        <4>1. i - 1 \in DOMAIN t /\ q = t[i - 1]
          BY <1>2, <2>2, <3>2
        <4> QED
          BY <4>1 DEF PoolOf
      <3> QED
        BY <3>1, <3>2
    <2>3. ASSUME NEW v \in Workers, wk[v].at = "export", q = wk[v].item
          PROVE  q \in PoolOf(t, new)
      BY <1>1, <2>3 DEF PoolOf
    <2> QED
      BY <2>1, <2>2, <2>3 DEF PoolOf
  <1> QED
    BY <1>3, <1>4

\* A worker gives away the item it has, and no other place has its payload.
LEMMA PoolReleases ==
    ASSUME NEW s \in Seq(QueueItems), NEW wk \in [Workers -> Slots], NEW w \in Workers,
           NEW new \in [Workers -> Slots], \A v \in Workers \ {w} : new[v] = wk[v],
           NEW item, item = wk[w].item,
           wk[w].at = "export", new[w].at # "export", OnePlaceIn(s, wk)
    PROVE  /\ OnePlaceIn(s, new)
           /\ item \in PoolOf(s, wk)
           /\ \A q \in PoolOf(s, new) : q \in PoolOf(s, wk) /\ q.payload # item.payload
           /\ \A q \in PoolOf(s, wk) : q # item => q \in PoolOf(s, new)
  <1>1. OnePlaceIn(s, new)
    BY DEF OnePlaceIn
  <1>2. item \in PoolOf(s, wk)
    BY DEF PoolOf
  <1>3. ASSUME NEW q \in PoolOf(s, new)
        PROVE  q \in PoolOf(s, wk) /\ q.payload # item.payload
    <2>1. CASE \E i \in DOMAIN s : q = s[i]
      BY <2>1 DEF PoolOf, OnePlaceIn
    <2>2. CASE \E v \in Workers : new[v].at = "export" /\ q = new[v].item
      BY <2>2 DEF PoolOf, OnePlaceIn
    <2> QED
      BY <2>1, <2>2 DEF PoolOf
  <1>4. ASSUME NEW q \in PoolOf(s, wk), q # item
        PROVE  q \in PoolOf(s, new)
    BY <1>4 DEF PoolOf
  <1> QED
    BY <1>1, <1>2, <1>3, <1>4

\* An item whose payload is nowhere is put at the end of the queue.
LEMMA PoolAppends ==
    ASSUME NEW s \in Seq(QueueItems), NEW wk \in [Workers -> Slots], NEW item \in QueueItems,
           NEW t \in Seq(QueueItems), Appended(t, s, item), OnePlaceIn(s, wk), \A q \in PoolOf(s, wk) : q.payload # item.payload
    PROVE  OnePlaceIn(t, wk) /\ PoolOf(t, wk) = PoolOf(s, wk) \cup {item}
  <1>1. /\ Len(s) \in Nat
        /\ t \in Seq(QueueItems)
        /\ DOMAIN s = 1..Len(s)
        /\ DOMAIN t = 1..(Len(s) + 1)
        /\ \A i \in DOMAIN t : (i \in DOMAIN s /\ t[i] = s[i]) \/ (i = Len(s) + 1 /\ t[i] = item)
        /\ \A i \in DOMAIN s : i \in DOMAIN t /\ t[i] = s[i]
        /\ Len(s) + 1 \in DOMAIN t /\ t[Len(s) + 1] = item
    BY DEF Appended
  <1>2. /\ \A i \in DOMAIN s : s[i].payload # item.payload
        /\ \A w \in Workers : wk[w].at = "export" => wk[w].item.payload # item.payload
    BY DEF PoolOf
  <1>3. OnePlaceIn(t, wk)
    <2>1. ASSUME NEW i \in DOMAIN t, NEW j \in DOMAIN t, t[i].payload = t[j].payload
          PROVE  i = j
      BY <1>1, <1>2, <2>1 DEF OnePlaceIn
    <2>2. ASSUME NEW i \in DOMAIN t, NEW v \in Workers, wk[v].at = "export"
          PROVE  t[i].payload # wk[v].item.payload
      BY <1>1, <1>2, <2>2 DEF OnePlaceIn
    <2> QED
      BY <2>1, <2>2 DEF OnePlaceIn
  <1>4. {t[i] : i \in DOMAIN t} = {s[i] : i \in DOMAIN s} \cup {item}
    BY <1>1
  <1>5. PoolOf(t, wk) = PoolOf(s, wk) \cup {item}
    BY <1>4 DEF PoolOf
  <1> QED
    BY <1>3, <1>5

-----------------------------------------------------------------------------
(***************************************************************************)
(* The inductive invariant.  Isolated needs to know which object a queue   *)
(* item of a pipeline is (ItemOK) and who may have modified it             *)
(* (TouchedBy); ItemsAccounted needs the accounts of every item in the     *)
(* pool of a pipeline, and of every payload that has left it (Books); the  *)
(* refinement needs that workers have left when Shutdown returns.          *)
(***************************************************************************)

\* What is true of item q of the pool of pipeline p.
ItemOK(p, q) ==
    /\ q \in QueueItems
    /\ p \in accepted[q.payload]
    /\ \A i \in 1..N : Order[i] = p => q.object = ObjectGiven(q.payload, i)
    /\ q.items \cup exported[p][q.payload] = Items
    /\ Items # {} => q.items # {}
    /\ dropped[p][q.payload] = {}
    /\ DataType = "traces" => q.items \cap exported[p][q.payload] = {}

\* What is true of a payload that is not in the pool of p.
SettledOK(p, d) ==
    IF p \in accepted[d]
    THEN /\ exported[p][d] \cup dropped[p][d] = Items
         /\ DataType = "traces" => exported[p][d] \cap dropped[p][d] = {}
    ELSE exported[p][d] = {} /\ dropped[p][d] = {}

Books(p) ==
    /\ OnePlace(p)
    /\ \A q \in Pool(p) : ItemOK(p, q)
    /\ \A d \in Payloads : (\A q \in Pool(p) : q.payload # d) => SettledOK(p, d)

LeftWhenStopped(p) == stopPhase[p] = "stopped" => \A w \in Workers : worker[p][w].at = "exited"

\* The pipelines of Order that were called have answered, once.
Answered(d) ==
    /\ \A p \in Branches :
          p \in accepted[d] \/ p \in refused[d] <=> \E i \in 1..call[d] : Order[i] = p
    /\ \A p \in Branches : ~(p \in accepted[d] /\ p \in refused[d])
    /\ result[d] # "none" =>
          call[d] = N /\ ((result[d] = "error") <=> (refused[d] # {}))

\* Only the last pipeline, or nobody, modifies the original; each clone is modified by
\* the pipeline that has it.
TouchedBy(d) ==
    /\ \A p \in touched[<<d, 0>>] : call[d] = N /\ (Cloning \/ N = 1) /\ p = Order[N]
    /\ Cloning => \A i \in 1..N : i < N => touched[<<d, i>>] \subseteq {Order[i]}

IInv ==
    /\ FanOutTypeOK
    /\ \A p \in Branches : Books(p) /\ LeftWhenStopped(p)
    /\ \A d \in Payloads : Answered(d) /\ TouchedBy(d)
    /\ RoomForSpike

\* The books of a pipeline that a step leaves alone.
LEMMA OtherBooks ==
    ASSUME NEW p \in Branches, Books(p), LeftWhenStopped(p),
           entries'[p] = entries[p], worker'[p] = worker[p], stopPhase'[p] = stopPhase[p],
           exported'[p] = exported[p], dropped'[p] = dropped[p],
           \A d \in Payloads : p \in accepted'[d] <=> p \in accepted[d]
    PROVE  Books(p)' /\ LeftWhenStopped(p)'
  <1>1. Pool(p)' = Pool(p) /\ (OnePlace(p)' <=> OnePlace(p))
    BY DEF Pool, OnePlace
  <1>2. ASSUME NEW q, ItemOK(p, q)
        PROVE  ItemOK(p, q)'
    <2>1. q \in QueueItems /\ q.payload \in Payloads
      BY <1>2 DEF ItemOK, QueueItems
    <2> QED
      BY <1>2, <2>1 DEF ItemOK, ObjectGiven, Cloning
  <1>3. ASSUME NEW d \in Payloads, SettledOK(p, d)
        PROVE  SettledOK(p, d)'
    BY <1>3 DEF SettledOK
  <1> QED
    BY <1>1, <1>2, <1>3 DEF Books, LeftWhenStopped

\* The accounts of the payloads that a step of p is not about.
LEMMA OtherPayloads ==
    ASSUME NEW p \in Branches, NEW d \in Payloads,
           exported'[p][d] = exported[p][d], dropped'[p][d] = dropped[p][d],
           p \in accepted'[d] <=> p \in accepted[d]
    PROVE  /\ \A q : q.payload = d /\ ItemOK(p, q) => ItemOK(p, q)'
           /\ SettledOK(p, d) => SettledOK(p, d)'
  BY DEF ItemOK, SettledOK, ObjectGiven, Cloning

\* A worker that is done with its item leaves the books right, if those of the payload
\* of that item are.
LEMMA ReleasedBooks ==
    ASSUME FanOutTypeOK, NEW p \in Branches, NEW w \in Workers, NEW slot \in Slots, NEW item,
           Books(p), worker[p][w].at = "export", item = worker[p][w].item,
           slot.at # "export", worker'[p] = [worker[p] EXCEPT ![w] = slot],
           entries'[p] = entries[p], accepted' = accepted,
           \A d \in Payloads : d # item.payload =>
              exported'[p][d] = exported[p][d] /\ dropped'[p][d] = dropped[p][d],
           SettledOK(p, item.payload)'
    PROVE  Books(p)'
  <1>1. entries[p] \in Seq(QueueItems) /\ worker[p] \in [Workers -> Slots]
    BY DEF FanOutTypeOK, QueueTypeOK, Slots, Ats
  <1>2. PICK s \in Seq(QueueItems), wk \in [Workers -> Slots] : s = entries[p] /\ wk = worker[p]
    BY <1>1
  <1>3. PICK new \in [Workers -> Slots] : new = [wk EXCEPT ![w] = slot]
    BY <1>2
  <1>4. /\ OnePlaceIn(s, new)
        /\ \A q \in PoolOf(s, new) : q \in PoolOf(s, wk) /\ q.payload # item.payload
        /\ \A q \in PoolOf(s, wk) : q # item => q \in PoolOf(s, new)
    <2>1. /\ OnePlaceIn(s, wk) /\ wk[w].at = "export" /\ item = wk[w].item
          /\ new[w].at # "export" /\ \A v \in Workers \ {w} : new[v] = wk[v]
      BY <1>2, <1>3 DEF Books, OnePlace
    <2> QED
      BY <2>1, PoolReleases
  <1>5. Pool(p) = PoolOf(s, wk) /\ Pool(p)' = PoolOf(s, new) /\ OnePlace(p)'
    BY <1>2, <1>3, <1>4 DEF Pool, OnePlace
  <1>6. ASSUME NEW q \in Pool(p)'
        PROVE  ItemOK(p, q)'
    <2>1. q \in Pool(p) /\ q.payload # item.payload /\ ItemOK(p, q)
      BY <1>4, <1>5 DEF Books
    <2>2. PICK d \in Payloads : d = q.payload
      BY <2>1 DEF ItemOK, QueueItems
    <2> QED
      BY <2>1, <2>2, OtherPayloads
  <1>7. ASSUME NEW d \in Payloads, \A q \in Pool(p)' : q.payload # d
        PROVE  SettledOK(p, d)'
    <2>1. CASE d = item.payload
      BY <2>1
    <2>2. CASE d # item.payload
      <3>1. \A q \in Pool(p) : q.payload # d
        BY <1>4, <1>5, <1>7, <2>2
      <3> QED
        BY <2>2, <3>1, OtherPayloads DEF Books
    <2> QED
      BY <2>1, <2>2
  <1> QED
    BY <1>5, <1>6, <1>7 DEF Books

\* So does one that puts what remains of its item at the end of the queue.
LEMMA PutBackBooks ==
    ASSUME FanOutTypeOK, NEW p \in Branches, NEW w \in Workers, NEW slot \in Slots, NEW item,
           NEW rest \in QueueItems, rest.payload = item.payload,
           Books(p), worker[p][w].at = "export", item = worker[p][w].item,
           slot.at # "export", worker'[p] = [worker[p] EXCEPT ![w] = slot],
           entries'[p] = Append(entries[p], rest), accepted' = accepted,
           \A d \in Payloads : d # item.payload =>
              exported'[p][d] = exported[p][d] /\ dropped'[p][d] = dropped[p][d],
           ItemOK(p, rest)'
    PROVE  Books(p)'
  <1>1. entries[p] \in Seq(QueueItems) /\ worker[p] \in [Workers -> Slots]
    BY DEF FanOutTypeOK, QueueTypeOK, Slots, Ats
  <1>2. PICK s \in Seq(QueueItems), wk \in [Workers -> Slots] : s = entries[p] /\ wk = worker[p]
    BY <1>1
  <1>3. PICK new \in [Workers -> Slots] : new = [wk EXCEPT ![w] = slot]
    BY <1>2
  <1>4. /\ OnePlaceIn(s, new)
        /\ \A q \in PoolOf(s, new) : q \in PoolOf(s, wk) /\ q.payload # item.payload
        /\ \A q \in PoolOf(s, wk) : q # item => q \in PoolOf(s, new)
    <2>1. /\ OnePlaceIn(s, wk) /\ wk[w].at = "export" /\ item = wk[w].item
          /\ new[w].at # "export" /\ \A v \in Workers \ {w} : new[v] = wk[v]
      BY <1>2, <1>3 DEF Books, OnePlace
    <2> QED
      BY <2>1, PoolReleases
  <1>5. PICK t \in Seq(QueueItems) : Appended(t, s, rest)
    <2>1. Append(s, rest) \in Seq(QueueItems)
      OBVIOUS
    <2> QED
      BY <2>1 DEF Appended
  <1>6. OnePlaceIn(t, new) /\ PoolOf(t, new) = PoolOf(s, new) \cup {rest}
    <2>1. \A q \in PoolOf(s, new) : q.payload # rest.payload
      BY <1>4
    <2>2. OnePlaceIn(s, new)
      BY <1>4
    <2> QED
      BY <1>5, <2>1, <2>2, PoolAppends
  <1>7. Pool(p) = PoolOf(s, wk) /\ Pool(p)' = PoolOf(s, new) \cup {rest} /\ OnePlace(p)'
    BY <1>2, <1>3, <1>5, <1>6 DEF Pool, OnePlace, Appended
  <1>8. ASSUME NEW q \in Pool(p)'
        PROVE  ItemOK(p, q)'
    <2>1. CASE q = rest
      BY <2>1
    <2>2. CASE q # rest
      <3>1. q \in Pool(p) /\ q.payload # item.payload /\ ItemOK(p, q)
        BY <1>4, <1>7, <2>2 DEF Books
      <3>2. PICK d \in Payloads : d = q.payload
        BY <3>1 DEF ItemOK, QueueItems
      <3> QED
        BY <3>1, <3>2, OtherPayloads
    <2> QED
      BY <2>1, <2>2
  <1>9. ASSUME NEW d \in Payloads, \A q \in Pool(p)' : q.payload # d
        PROVE  SettledOK(p, d)'
    <2>1. d # item.payload
      BY <1>7, <1>9
    <2>2. \A q \in Pool(p) : q.payload # d
      BY <1>4, <1>7, <1>9, <2>1
    <2> QED
      BY <2>1, <2>2, OtherPayloads DEF Books
  <1> QED
    BY <1>7, <1>8, <1>9 DEF Books

-----------------------------------------------------------------------------
(* Types *)

\* onPartialError keeps an item what it is, and of traces what failed.
LEMMA RemainingItem ==
    ASSUME NEW item \in QueueItems, NEW failed \in SUBSET Items
    PROVE  /\ Remaining(item, failed) \in QueueItems
           /\ Remaining(item, failed).payload = item.payload
           /\ Remaining(item, failed).object = item.object
           /\ Remaining(item, failed).items =
                 IF DataType = "traces" THEN failed ELSE item.items
  BY DEF Remaining, QueueItems

\* A worker's step keeps the types.
LEMMA WorkerType ==
    ASSUME QueueSize \in Nat, QueueTypeOK, NEW p \in Branches, Books(p), NEW w \in Workers,
           WorkerStep(p, w)
    PROVE  QueueTypeOK'
  <1> DEFINE item == worker[p][w].item
  <1>1. worker[p][w].at = "export" => item \in QueueItems /\ item.payload \in Payloads /\ item.items \in SUBSET Items
    <2>1. worker[p][w].at = "export" => item \in Pool(p)
      BY DEF Pool, PoolOf
    <2> QED
      BY <2>1 DEF Books, ItemOK, QueueItems
  <1>2. NoItem \in QueueItems \cup {NoItem}
    OBVIOUS
  <1>3. ASSUME NEW at \in Ats, NEW q \in QueueItems \cup {NoItem}, WorkerAt(p, w, at, q)
        PROVE  worker' \in [Branches -> [Workers -> [at : Ats, item : QueueItems \cup {NoItem}]]]
    BY <1>3 DEF WorkerAt, QueueTypeOK, Ats
  <1>4. ASSUME NEW q \in QueueItems, CanProduce(p), entries' = [entries EXCEPT ![p] = Append(@, q)]
        PROVE  /\ entries' \in [Branches -> Seq(QueueItems)]
               /\ \A o \in Branches : Len(entries'[o]) <= QueueSize
    <2>1. /\ Append(entries[p], q) \in Seq(QueueItems)
          /\ Len(Append(entries[p], q)) = Len(entries[p]) + 1
          /\ Len(entries[p]) \in Nat
      BY DEF QueueTypeOK
    <2> QED
      BY <1>4, <2>1 DEF QueueTypeOK, CanProduce
  <1>5. ASSUME NEW q \in QueueItems, Drop(p, w, q)
        PROVE  /\ entries' = entries
               /\ worker' \in [Branches -> [Workers -> [at : Ats, item : QueueItems \cup {NoItem}]]]
               /\ dropped' \in [Branches -> [Payloads -> SUBSET Items]]
    <2>1. q.payload \in Payloads /\ q.items \in SUBSET Items
      BY DEF QueueItems
    <2>2. worker' \in [Branches -> [Workers -> [at : Ats, item : QueueItems \cup {NoItem}]]]
      BY <1>3, <1>5 DEF Drop, Ats
    <2> QED
      BY <1>5, <2>1, <2>2 DEF Drop, QueueTypeOK
  <1>6. ASSUME NEW q \in QueueItems, PutBack(p, w, q)
        PROVE  /\ entries' \in [Branches -> Seq(QueueItems)]
               /\ \A o \in Branches : Len(entries'[o]) <= QueueSize
               /\ worker' \in [Branches -> [Workers -> [at : Ats, item : QueueItems \cup {NoItem}]]]
               /\ dropped' \in [Branches -> [Payloads -> SUBSET Items]]
    <2>1. CASE Drop(p, w, q)
      BY <1>5, <2>1 DEF QueueTypeOK
    <2>2. CASE /\ CanProduce(p)
               /\ entries' = [entries EXCEPT ![p] = Append(@, q)]
               /\ WorkerAt(p, w, "backoff", NoItem)
               /\ UNCHANGED dropped
      <3>1. worker' \in [Branches -> [Workers -> [at : Ats, item : QueueItems \cup {NoItem}]]]
        BY <1>3, <2>2 DEF Ats
      <3> QED
        BY <1>4, <2>2, <3>1 DEF QueueTypeOK
    <2> QED
      BY <1>6, <2>1, <2>2 DEF PutBack
  <1>7. CASE Take(p, w)
    <2>1. entries[p] \in Seq(QueueItems) /\ entries[p] # <<>>
      BY <1>7 DEF Take, QueueTypeOK
    <2>2. /\ Head(entries[p]) \in QueueItems
          /\ Tail(entries[p]) \in Seq(QueueItems)
          /\ Len(Tail(entries[p])) = Len(entries[p]) - 1
          /\ Len(entries[p]) \in Nat
      BY <2>1
    <2>3. worker' \in [Branches -> [Workers -> [at : Ats, item : QueueItems \cup {NoItem}]]]
      BY <1>3, <1>7, <2>2 DEF Take, Ats
    <2>4. PICK t \in Seq(QueueItems) : t = Tail(entries[p]) /\ Len(t) <= QueueSize
      <3>1. Len(entries[p]) <= QueueSize
        BY DEF QueueTypeOK
      <3>2. Len(Tail(entries[p])) <= QueueSize
        BY <2>2, <3>1
      <3> QED
        BY <2>2, <3>2, Zenon
    <2>5. entries' = [entries EXCEPT ![p] = t]
      BY <1>7, <2>4 DEF Take
    <2>6. /\ entries' \in [Branches -> Seq(QueueItems)]
          /\ \A o \in Branches : Len(entries'[o]) <= QueueSize
      BY <2>4, <2>5 DEF QueueTypeOK
    <2> QED
      BY <1>7, <2>3, <2>6 DEF Take, QueueTypeOK, Ats
  <1>8. CASE ExportSucceeds(p, w)
    <2>1. worker' \in [Branches -> [Workers -> [at : Ats, item : QueueItems \cup {NoItem}]]]
      BY <1>3, <1>8 DEF ExportSucceeds, Ats
    <2>2. exported' \in [Branches -> [Payloads -> SUBSET Items]]
      BY <1>1, <1>8 DEF ExportSucceeds, QueueTypeOK
    <2> QED
      BY <1>8, <2>1, <2>2 DEF ExportSucceeds, QueueTypeOK, Ats
  <1>9. CASE ExportFailsForGood(p, w)
    <2>1. item \in QueueItems /\ Drop(p, w, item) /\ UNCHANGED <<stopPhase, exported>>
      BY <1>1, <1>9 DEF ExportFailsForGood
    <2> QED
      BY <1>5, <2>1 DEF QueueTypeOK, Ats
  <1>10. CASE ExportFails(p, w)
    <2>1. item \in QueueItems /\ PutBack(p, w, item) /\ UNCHANGED <<stopPhase, exported>>
      BY <1>1, <1>10 DEF ExportFails
    <2> QED
      BY <1>6, <2>1 DEF QueueTypeOK, Ats
  <1>11. CASE ExportFailsPartially(p, w)
    <2>1. PICK failed \in SUBSET item.items :
             /\ exported' = [exported EXCEPT ![p][item.payload] = @ \cup (item.items \ failed)]
             /\ PutBack(p, w, Remaining(item, failed))
      BY <1>11 DEF ExportFailsPartially
    <2>2. /\ item \in QueueItems /\ item.payload \in Payloads
          /\ failed \in SUBSET Items /\ item.items \ failed \in SUBSET Items
      BY <1>1, <1>11 DEF ExportFailsPartially
    <2>3. Remaining(item, failed) \in QueueItems
      <3> HIDE DEF item
      <3> QED
        BY <2>2, RemainingItem, Zenon
    <2>4. exported' \in [Branches -> [Payloads -> SUBSET Items]]
      BY <2>1, <2>2 DEF QueueTypeOK
    <2> QED
      BY <1>6, <1>11, <2>1, <2>3, <2>4 DEF ExportFailsPartially, QueueTypeOK, Ats
  <1>12. CASE BackOffEnds(p, w)
    <2>1. worker' \in [Branches -> [Workers -> [at : Ats, item : QueueItems \cup {NoItem}]]]
      BY <1>3, <1>12 DEF BackOffEnds, Ats
    <2> QED
      BY <1>12, <2>1 DEF BackOffEnds, QueueTypeOK, Ats
  <1>13. CASE Leave(p, w)
    <2>1. worker' \in [Branches -> [Workers -> [at : Ats, item : QueueItems \cup {NoItem}]]]
      BY <1>3, <1>13 DEF Leave, Ats
    <2> QED
      BY <1>13, <2>1 DEF Leave, QueueTypeOK, Ats
  <1> QED
    BY <1>7, <1>8, <1>9, <1>10, <1>11, <1>12, <1>13 DEF WorkerStep

-----------------------------------------------------------------------------
(* The steps of a worker *)

\* A worker's step keeps the books of its pipeline, one case for each way an export ends.
LEMMA WorkerBooks ==
    ASSUME FanOutTypeOK, NEW p \in Branches, Books(p), LeftWhenStopped(p), NEW w \in Workers,
           WorkerStep(p, w), accepted' = accepted
    PROVE  Books(p)' /\ LeftWhenStopped(p)'
  <1>1. entries[p] \in Seq(QueueItems) /\ worker[p] \in [Workers -> Slots]
    BY DEF FanOutTypeOK, QueueTypeOK, Slots, Ats
  <1>2. PICK s \in Seq(QueueItems), wk \in [Workers -> Slots] : s = entries[p] /\ wk = worker[p]
    BY <1>1
  <1>3. OnePlaceIn(s, wk) /\ Pool(p) = PoolOf(s, wk)
    BY <1>2 DEF Books, OnePlace, Pool
  <1>4. PICK item : item = wk[w].item
    OBVIOUS
  <1>5. wk[w].at = "export" =>
          /\ ItemOK(p, item)
          /\ item \in QueueItems /\ item.payload \in Payloads /\ item.items \in SUBSET Items
    <2>1. wk[w].at = "export" => item \in Pool(p)
      BY <1>2, <1>4 DEF Pool, PoolOf
    <2> QED
      BY <2>1 DEF Books, ItemOK, QueueItems
  <1>6. ASSUME NEW at \in Ats \ {"export"}, WorkerAt(p, w, at, NoItem)
        PROVE  \E slot \in Slots : slot.at = at /\ worker'[p] = [worker[p] EXCEPT ![w] = slot]
    <2>1. PICK slot \in Slots : slot = [at |-> at, item |-> NoItem]
      BY DEF Slots
    <2>2. worker' = [worker EXCEPT ![p][w] = slot]
      BY <1>6, <2>1 DEF WorkerAt
    <2>3. slot.at = at /\ worker'[p] = [worker[p] EXCEPT ![w] = slot]
      BY <2>1, <2>2 DEF FanOutTypeOK, QueueTypeOK
    <2> QED
      BY <2>3
  \* The worker has nothing before and after.
  <1>7. ASSUME NEW at \in Ats \ {"export"}, WorkerAt(p, w, at, NoItem),
               wk[w].at # "export", UNCHANGED <<entries, exported, dropped>>
        PROVE  Books(p)'
    <2>1. PICK slot \in Slots : slot.at = at /\ worker'[p] = [worker[p] EXCEPT ![w] = slot]
      BY <1>6, <1>7
    <2>2. PICK new \in [Workers -> Slots] : new = [wk EXCEPT ![w] = slot]
      BY <1>2
    <2>3. new[w].at # "export" /\ \A v \in Workers \ {w} : new[v] = wk[v]
      BY <1>2, <2>1, <2>2
    <2>4. OnePlaceIn(s, new) /\ PoolOf(s, new) = PoolOf(s, wk)
      BY <1>3, <1>7, <2>3, PoolIdles
    <2>5. OnePlace(p)' /\ Pool(p)' = Pool(p)
      BY <1>2, <1>3, <1>7, <2>1, <2>2, <2>4 DEF OnePlace, Pool
    <2> QED
      BY <1>7, <2>5 DEF Books, ItemOK, SettledOK, ObjectGiven, Cloning
  \* The item of the worker is recorded as dropped.
  <1>8. ASSUME NEW rest \in QueueItems, Drop(p, w, rest), wk[w].at = "export",
               rest.payload = item.payload,
               \A d \in Payloads : d # item.payload => exported'[p][d] = exported[p][d],
               exported'[p][item.payload] \cup rest.items = Items,
               DataType = "traces" => exported'[p][item.payload] \cap rest.items = {}
        PROVE  Books(p)'
    <2>1. PICK slot \in Slots : slot.at = "idle" /\ worker'[p] = [worker[p] EXCEPT ![w] = slot]
      BY <1>6, <1>8 DEF Drop, Ats
    <2>2. PICK d \in Payloads : d = item.payload
      BY <1>5, <1>8
    <2>3. /\ dropped'[p][d] = rest.items
          /\ \A e \in Payloads : e # d => dropped'[p][e] = dropped[p][e]
      BY <1>5, <1>8, <2>2 DEF Drop, ItemOK, FanOutTypeOK, QueueTypeOK
    <2>4. SettledOK(p, d)'
      BY <1>5, <1>8, <2>2, <2>3 DEF SettledOK, ItemOK
    <2>5. entries'[p] = entries[p] /\ worker[p][w].at = "export" /\ item = worker[p][w].item
      BY <1>2, <1>4, <1>8 DEF Drop
    <2> QED
      BY <1>8, <2>1, <2>2, <2>3, <2>4, <2>5, ReleasedBooks
  \* The item, or what remains of it, is dropped or goes back.
  <1>9. ASSUME NEW rest \in QueueItems, PutBack(p, w, rest), wk[w].at = "export",
               rest.payload = item.payload, rest.object = item.object,
               Items # {} => rest.items # {},
               \A d \in Payloads : d # item.payload => exported'[p][d] = exported[p][d],
               exported'[p][item.payload] \cup rest.items = Items,
               DataType = "traces" => exported'[p][item.payload] \cap rest.items = {}
        PROVE  Books(p)'
    <2>1. CASE Drop(p, w, rest)
      BY <1>8, <1>9, <2>1
    <2>2. CASE /\ entries' = [entries EXCEPT ![p] = Append(@, rest)]
               /\ WorkerAt(p, w, "backoff", NoItem)
               /\ UNCHANGED dropped
      <3>1. PICK slot \in Slots :
               slot.at = "backoff" /\ worker'[p] = [worker[p] EXCEPT ![w] = slot]
        BY <1>6, <2>2 DEF Ats
      <3>2. entries'[p] = Append(entries[p], rest) /\ dropped' = dropped
        BY <2>2 DEF FanOutTypeOK, QueueTypeOK
      <3>3. ItemOK(p, rest)'
        BY <1>5, <1>9, <3>2 DEF ItemOK, ObjectGiven, Cloning
      <3>4. worker[p][w].at = "export" /\ item = worker[p][w].item
        BY <1>2, <1>4, <1>9
      <3> QED
        BY <1>9, <3>1, <3>2, <3>3, <3>4, PutBackBooks
    <2> QED
      BY <1>9, <2>1, <2>2 DEF PutBack
  <1>10. CASE Take(p, w)
    <2>1. /\ entries' = [entries EXCEPT ![p] = Tail(s)]
          /\ worker' = [worker EXCEPT ![p][w] = [at |-> "export", item |-> Head(s)]]
          /\ s # <<>> /\ wk[w].at = "idle"
          /\ UNCHANGED <<exported, dropped, stopPhase>>
      BY <1>2, <1>10 DEF Take, WorkerAt
    <2>2. Head(s) \in QueueItems /\ Tail(s) \in Seq(QueueItems)
      BY <2>1
    <2>3. PICK slot \in Slots : slot = [at |-> "export", item |-> Head(s)]
      BY <2>2 DEF Slots, Ats
    <2>4. PICK new \in [Workers -> Slots] : new = [wk EXCEPT ![w] = slot]
      BY <1>2
    <2>5. /\ new[w].at = "export" /\ new[w].item = Head(s)
          /\ \A v \in Workers \ {w} : new[v] = wk[v]
      BY <2>3, <2>4
    <2>6. PICK t : HeadAndTail(s, new[w].item, t)
      BY <2>1, <2>5 DEF HeadAndTail
    <2>7. OnePlaceIn(t, new) /\ PoolOf(t, new) = PoolOf(s, wk)
      <3>1. wk[w].at # "export"
        BY <2>1
      <3> QED
        BY <1>3, <2>5, <2>6, <3>1, PoolTakes
    <2>8. entries'[p] = t /\ worker'[p] = new
      BY <1>2, <2>1, <2>3, <2>4, <2>6 DEF FanOutTypeOK, QueueTypeOK, HeadAndTail
    <2>9. OnePlace(p)' /\ Pool(p)' = Pool(p)
      BY <1>3, <2>7, <2>8 DEF OnePlace, Pool
    <2>10. Books(p)'
      <3>1. ASSUME NEW q, ItemOK(p, q)
            PROVE  ItemOK(p, q)'
        BY <2>1, <3>1 DEF ItemOK, ObjectGiven, Cloning
      <3>2. ASSUME NEW d, SettledOK(p, d)
            PROVE  SettledOK(p, d)'
        BY <2>1, <3>2 DEF SettledOK
      <3> QED
        BY <2>9, <3>1, <3>2 DEF Books
    <2>11. stopPhase[p] # "stopped"
      BY <1>2, <2>1 DEF LeftWhenStopped
    <2> QED
      BY <2>1, <2>10, <2>11 DEF LeftWhenStopped
  <1>11. CASE ~Take(p, w)
    <2>1. UNCHANGED stopPhase /\ (stopPhase[p] = "stopped" => FALSE)
      BY <1>11 DEF WorkerStep, ExportSucceeds, ExportFailsForGood, ExportFails,
                   ExportFailsPartially, BackOffEnds, Leave, LeftWhenStopped
    <2>2. LeftWhenStopped(p)'
      BY <2>1 DEF LeftWhenStopped
    <2>3. CASE ExportSucceeds(p, w)
      <3>1. PICK slot \in Slots : slot.at = "idle" /\ worker'[p] = [worker[p] EXCEPT ![w] = slot]
        BY <1>6, <2>3 DEF ExportSucceeds, Ats
      <3>2. PICK d \in Payloads : d = item.payload
        BY <1>2, <1>5, <2>3 DEF ExportSucceeds
      <3>3. /\ exported'[p][d] = exported[p][d] \cup item.items
            /\ dropped' = dropped /\ entries' = entries
            /\ \A e \in Payloads : e # d => exported'[p][e] = exported[p][e]
            /\ worker[p][w].at = "export" /\ item = worker[p][w].item
        BY <1>2, <1>4, <2>3, <3>2 DEF ExportSucceeds, FanOutTypeOK, QueueTypeOK
      <3>4. SettledOK(p, d)'
        BY <1>2, <1>5, <3>2, <3>3 DEF SettledOK, ItemOK
      <3> QED
        BY <2>2, <3>1, <3>2, <3>3, <3>4, ReleasedBooks
    <2>4. CASE ExportFailsForGood(p, w)
      <3>1. /\ Drop(p, w, item) /\ UNCHANGED exported /\ wk[w].at = "export"
            /\ ItemOK(p, item) /\ item \in QueueItems
        BY <1>2, <1>4, <1>5, <2>4 DEF ExportFailsForGood
      <3>2. /\ exported'[p][item.payload] \cup item.items = Items
            /\ DataType = "traces" => exported'[p][item.payload] \cap item.items = {}
        BY <3>1 DEF ItemOK
      <3> QED
        BY <1>8, <2>2, <3>1, <3>2
    <2>5. CASE ExportFails(p, w)
      <3>1. /\ PutBack(p, w, item) /\ UNCHANGED exported /\ wk[w].at = "export"
            /\ ItemOK(p, item) /\ item \in QueueItems
        BY <1>2, <1>4, <1>5, <2>5 DEF ExportFails
      <3>2. /\ exported'[p][item.payload] \cup item.items = Items
            /\ DataType = "traces" => exported'[p][item.payload] \cap item.items = {}
            /\ Items # {} => item.items # {}
        BY <3>1 DEF ItemOK
      <3> QED
        BY <1>9, <2>2, <3>1, <3>2
    <2>6. CASE ExportFailsPartially(p, w)
      <3>1. /\ wk[w].at = "export" /\ ItemOK(p, item)
            /\ item \in QueueItems /\ item.payload \in Payloads /\ item.items \in SUBSET Items
        BY <1>2, <1>5, <2>6 DEF ExportFailsPartially
      <3>2. PICK failed \in (SUBSET item.items) \ {{}} :
               /\ exported' = [exported EXCEPT ![p][item.payload] = @ \cup (item.items \ failed)]
               /\ PutBack(p, w, Remaining(item, failed))
        BY <1>2, <1>4, <2>6 DEF ExportFailsPartially
      <3>3. PICK rest : rest = Remaining(item, failed)
        OBVIOUS
      <3>4. /\ rest \in QueueItems /\ rest.payload = item.payload /\ rest.object = item.object
            /\ rest.items = IF DataType = "traces" THEN failed ELSE item.items
        <4>1. failed \in SUBSET Items
          BY <3>1
        <4> QED
          BY <3>1, <3>3, <4>1, RemainingItem
      <3>5. /\ \A d \in Payloads : d # item.payload => exported'[p][d] = exported[p][d]
            /\ exported'[p][item.payload] = exported[p][item.payload] \cup (item.items \ failed)
        BY <3>1, <3>2 DEF FanOutTypeOK, QueueTypeOK
      <3>6. /\ exported'[p][item.payload] \cup rest.items = Items
            /\ DataType = "traces" => exported'[p][item.payload] \cap rest.items = {}
            /\ Items # {} => rest.items # {}
        BY <3>1, <3>4, <3>5 DEF ItemOK
      <3> QED
        BY <1>9, <2>2, <3>1, <3>2, <3>3, <3>4, <3>5, <3>6
    <2>7. CASE BackOffEnds(p, w)
      BY <1>2, <1>7, <2>2, <2>7 DEF BackOffEnds, Ats
    <2>8. CASE Leave(p, w)
      BY <1>2, <1>7, <2>2, <2>8 DEF Leave, Ats
    <2> QED
      BY <1>11, <2>3, <2>4, <2>5, <2>6, <2>7, <2>8 DEF WorkerStep
  <1> QED
    BY <1>10, <1>11

-----------------------------------------------------------------------------
(* The connector *)

\* What the settings say of the numbers and of the order of the pipelines.
LEMMA OrderTyped ==
    ASSUME SettingsOK
    PROVE  N \in Nat /\ QueueSize \in Nat /\ \A i \in 1..N : Order[i] \in Branches
  <1>1. Order \in Seq(Branches) /\ QueueSize \in Nat
    BY DEF SettingsOK
  <1> QED
    BY <1>1 DEF N

\* Who may modify what a pipeline is given: cloning keeps the original for the last one.
LEMMA ProcessedTouched ==
    ASSUME SettingsOK, FanOutTypeOK, NEW d \in Payloads, NEW i, i = call[d] + 1,
           \A e \in Payloads : TouchedBy(e), call[d] < N,
           touched' = Processed(d, i), call' = [call EXCEPT ![d] = i]
    PROVE  /\ touched' \in [Objects -> SUBSET Branches]
           /\ \A e \in Payloads : TouchedBy(e)'
  <1>1. /\ N \in Nat /\ call[d] \in 0..N /\ i \in 1..N /\ i \in Nat
        /\ Order[i] \in Branches
    <2>1. N \in Nat /\ call[d] \in 0..N
      BY OrderTyped DEF FanOutTypeOK
    <2>2. i \in 1..N
      BY <2>1
    <2> QED
      BY <2>1, <2>2, OrderTyped
  <1>2. touched[<<d, 0>>] = {}
    BY <1>1 DEF TouchedBy
  <1>3. PICK o \in Objects : o = ObjectGiven(d, i)
    <2>1. <<d, 0>> \in Objects /\ <<d, i>> \in Objects
      BY <1>1 DEF Objects
    <2> QED
      BY <2>1 DEF ObjectGiven
  <1>4. PICK v \in SUBSET Branches : v = IF Order[i] \in Modifies THEN {Order[i]} ELSE {}
    BY <1>1
  <1>5. touched' = [touched EXCEPT ![o] = v]
    <2>1. touched \in [Objects -> SUBSET Branches]
      BY DEF FanOutTypeOK
    <2> QED
      BY <1>2, <1>3, <1>4, <2>1 DEF Processed
  <1>6. touched' \in [Objects -> SUBSET Branches]
    BY <1>5 DEF FanOutTypeOK
  <1>7. ASSUME NEW x \in Objects
        PROVE  touched'[x] = IF x = o THEN v ELSE touched[x]
    BY <1>5 DEF FanOutTypeOK
  <1>8. \A e \in Payloads : \A j \in 0..N : <<e, j>> \in Objects
    BY DEF Objects
  <1>9. \A e \in Payloads : call'[e] = IF e = d THEN i ELSE call[e]
    BY DEF FanOutTypeOK
  <1>10. ASSUME NEW e \in Payloads, e # d
         PROVE  TouchedBy(e)'
    <2>1. call'[e] = call[e] /\ call[e] \in 0..N
      BY <1>9, <1>10 DEF FanOutTypeOK
    <2>2. ASSUME NEW j \in 0..N
          PROVE  touched'[<<e, j>>] = touched[<<e, j>>]
      <3>1. <<e, j>> # o
        BY <1>3, <1>10 DEF ObjectGiven
      <3> QED
        BY <1>7, <1>8, <3>1
    <2>3. 0 \in 0..N /\ \A j \in 1..N : j \in 0..N
      BY <1>1
    <2> QED
      BY <2>1, <2>2, <2>3 DEF TouchedBy, Cloning
  <1>11. TouchedBy(d)'
    <2>1. <<d, 0>> \in Objects /\ call'[d] = i
      BY <1>1, <1>8, <1>9
    <2>2. ASSUME NEW r \in touched'[<<d, 0>>]
          PROVE  i = N /\ (Cloning \/ N = 1) /\ r = Order[N]
      <3>1. o = <<d, 0>> /\ r \in v
        BY <1>2, <1>7, <2>1
      <3>2. ~(Cloning /\ i < N)
        BY <1>1, <1>3, <3>1 DEF ObjectGiven
      <3>3. r = Order[i] /\ Order[i] \in Modifies
        BY <1>4, <3>1
      <3>4. CASE Cloning
        BY <1>1, <3>2, <3>3, <3>4
      <3>5. CASE ~Cloning
        <4>1. Order[i] \in Declares
          BY <3>3 DEF SettingsOK
        <4>2. ~(N > 1)
          BY <1>1, <3>5, <4>1 DEF Cloning
        <4> QED
          BY <1>1, <3>3, <4>2
      <3> QED
        BY <3>4, <3>5
    <2>3. ASSUME Cloning, NEW j \in 1..N, j < N
          PROVE  touched'[<<d, j>>] \subseteq {Order[j]}
      <3>1. j \in 0..N /\ <<d, j>> \in Objects /\ j \in Nat
        BY <1>1, <1>8
      <3>2. CASE j = i
        <4>1. o = <<d, j>>
          BY <1>3, <2>3, <3>2 DEF ObjectGiven
        <4> QED
          BY <1>4, <1>7, <3>1, <3>2, <4>1
      <3>3. CASE j # i
        <4>1. o # <<d, j>>
          <5>1. o = <<d, i>> \/ o = <<d, 0>>
            BY <1>3 DEF ObjectGiven
          <5>2. j # i /\ j # 0
            BY <1>1, <3>3
          <5> QED
            BY <5>1, <5>2
        <4>2. touched[<<d, j>>] \subseteq {Order[j]}
          BY <2>3 DEF TouchedBy
        <4> QED
          BY <1>7, <3>1, <4>1, <4>2
      <3> QED
        BY <3>2, <3>3
    <2> QED
      BY <2>1, <2>2, <2>3 DEF TouchedBy, Cloning
  <1> QED
    BY <1>6, <1>10, <1>11

\* The pipeline that is called next has not answered yet.
LEMMA NextPipeline ==
    ASSUME SettingsOK, IInv, NEW d \in Payloads, call[d] < N, NEW i, i = call[d] + 1
    PROVE  /\ i \in 1..N
           /\ Order[i] \in Branches
           /\ Order[i] \notin accepted[d]
           /\ Order[i] \notin refused[d]
           /\ result[d] = "none"
  <1>1. N \in Nat /\ call[d] \in 0..N
    BY OrderTyped DEF IInv, FanOutTypeOK
  <1>2. i \in 1..N /\ Order[i] \in Branches
    <2>1. i \in 1..N
      BY <1>1
    <2> QED
      BY <2>1, OrderTyped
  <1>3. ~ \E j \in 1..call[d] : Order[j] = Order[i]
    <2> SUFFICES ASSUME NEW j \in 1..call[d], Order[j] = Order[i]
                 PROVE  FALSE
      OBVIOUS
    <2>1. j \in 1..N /\ j # i
      BY <1>1
    <2> QED
      BY <1>2, <2>1 DEF SettingsOK
  <1>4. Answered(d)
    BY DEF IInv
  <1> QED
    BY <1>1, <1>2, <1>3, <1>4 DEF Answered

\* The answers of a call that went on to pipeline i.
LEMMA CallAnswered ==
    ASSUME SettingsOK, IInv, NEW d \in Payloads, call[d] < N, NEW i, i = call[d] + 1,
           call' = [call EXCEPT ![d] = i], UNCHANGED result,
           NEW p, p = Order[i],
           \/ accepted' = [accepted EXCEPT ![d] = @ \cup {p}] /\ refused' = refused
           \/ refused' = [refused EXCEPT ![d] = @ \cup {p}] /\ accepted' = accepted
    PROVE  /\ \A e \in Payloads : Answered(e)'
           /\ call' \in [Payloads -> 0..N]
           /\ accepted' \in [Payloads -> SUBSET Branches]
           /\ refused' \in [Payloads -> SUBSET Branches]
           /\ \A e \in Payloads, o \in Branches \ {p} : o \in accepted'[e] <=> o \in accepted[e]
  <1>1. /\ N \in Nat /\ call[d] \in 0..N /\ call \in [Payloads -> 0..N]
        /\ accepted \in [Payloads -> SUBSET Branches]
        /\ refused \in [Payloads -> SUBSET Branches]
    BY OrderTyped DEF IInv, FanOutTypeOK
  <1>2. i \in 1..N /\ p \in Branches /\ p \notin accepted[d] /\ p \notin refused[d]
        /\ result[d] = "none"
    BY NextPipeline
  <1>3. /\ call' \in [Payloads -> 0..N]
        /\ accepted' \in [Payloads -> SUBSET Branches]
        /\ refused' \in [Payloads -> SUBSET Branches]
        /\ \A e \in Payloads, o \in Branches \ {p} : o \in accepted'[e] <=> o \in accepted[e]
    BY <1>1, <1>2
  <1>4. ASSUME NEW e \in Payloads, e # d
        PROVE  Answered(e)'
    <2>1. /\ call'[e] = call[e] /\ accepted'[e] = accepted[e] /\ refused'[e] = refused[e]
          /\ Answered(e)
      BY <1>1, <1>4 DEF IInv
    <2> QED
      BY <2>1 DEF Answered
  <1>5. Answered(d)'
    <2>1. call'[d] = i /\ result'[d] = "none"
      BY <1>1, <1>2
    <2>2. ASSUME NEW o \in Branches
          PROVE  o \in accepted'[d] \/ o \in refused'[d] <=> \E j \in 1..i : Order[j] = o
      <3>1. o \in accepted'[d] \/ o \in refused'[d]
               <=> o \in accepted[d] \/ o \in refused[d] \/ o = p
        BY <1>1
      <3>2. o \in accepted[d] \/ o \in refused[d] <=> \E j \in 1..call[d] : Order[j] = o
        BY DEF IInv, Answered
      <3>3. \A j : j \in 1..i <=> j \in 1..call[d] \/ j = i
        BY <1>1
      <3> QED
        BY <3>1, <3>2, <3>3
    <2>3. ASSUME NEW o \in Branches
          PROVE  ~(o \in accepted'[d] /\ o \in refused'[d])
      <3>1. ~(o \in accepted[d] /\ o \in refused[d])
        BY DEF IInv, Answered
      <3> QED
        BY <1>1, <1>2, <3>1
    <2> QED
      BY <2>1, <2>2, <2>3 DEF Answered
  <1> QED
    BY <1>3, <1>4, <1>5

\* A pipeline that takes a payload enters it in its books.
LEMMA AcceptBooks ==
    ASSUME SettingsOK, IInv, NEW d \in Payloads, call[d] < N, NEW i, i = call[d] + 1,
           NEW p, p = Order[i], Enqueue(p, QueueItem(d, ObjectGiven(d, i), Items)),
           accepted' = [accepted EXCEPT ![d] = @ \cup {p}]
    PROVE  QueueTypeOK' /\ Books(p)' /\ LeftWhenStopped(p)'
  <1>1. i \in 1..N /\ i \in Nat /\ p \in Branches /\ p \notin accepted[d]
    <2>1. i \in 1..N /\ p \in Branches /\ p \notin accepted[d]
      BY NextPipeline
    <2> QED
      BY <2>1
  <1>2. entries[p] \in Seq(QueueItems) /\ worker[p] \in [Workers -> Slots]
    BY <1>1 DEF IInv, FanOutTypeOK, QueueTypeOK, Slots, Ats
  <1>3. PICK s \in Seq(QueueItems), wk \in [Workers -> Slots] : s = entries[p] /\ wk = worker[p]
    BY <1>2
  <1>4. PICK item \in QueueItems :
           /\ item = QueueItem(d, ObjectGiven(d, i), Items)
           /\ item.payload = d /\ item.object = ObjectGiven(d, i) /\ item.items = Items
    <2>1. ObjectGiven(d, i) \in Payloads \X Nat
      BY <1>1 DEF ObjectGiven
    <2>2. PICK o \in Payloads \X Nat : o = ObjectGiven(d, i)
      BY <2>1
    <2>3. QueueItem(d, o, Items) \in QueueItems
      BY DEF QueueItem, QueueItems
    <2>4. /\ QueueItem(d, o, Items).payload = d
          /\ QueueItem(d, o, Items).object = o
          /\ QueueItem(d, o, Items).items = Items
      BY DEF QueueItem
    <2> QED
      BY <2>2, <2>3, <2>4, Zenon
  <1>5. PICK t \in Seq(QueueItems) :
           Appended(t, s, item) /\ t = Append(s, item) /\ Len(t) = Len(s) + 1
    <2>1. Append(s, item) \in Seq(QueueItems) /\ Len(Append(s, item)) = Len(s) + 1
      OBVIOUS
    <2> QED
      BY <2>1, Zenon DEF Appended
  <1>6. entries' = [entries EXCEPT ![p] = t] /\ UNCHANGED <<worker, stopPhase, exported, dropped>>
    BY <1>3, <1>4, <1>5 DEF Enqueue
  <1>7. QueueTypeOK'
    <2>1. Len(t) <= QueueSize
      <3>1. Len(s) < QueueSize /\ QueueSize \in Nat /\ Len(s) \in Nat
        BY <1>3, OrderTyped DEF Enqueue, CanProduce
      <3> QED
        BY <1>5, <3>1
    <2> QED
      BY <1>1, <1>6, <2>1 DEF IInv, FanOutTypeOK, QueueTypeOK
  <1>8. Books(p) /\ OnePlaceIn(s, wk) /\ Pool(p) = PoolOf(s, wk)
    BY <1>1, <1>3 DEF IInv, Books, OnePlace, Pool
  <1>9. \A q \in PoolOf(s, wk) : q.payload # item.payload
    BY <1>1, <1>4, <1>8 DEF Books, ItemOK
  <1>10. OnePlaceIn(t, wk) /\ PoolOf(t, wk) = PoolOf(s, wk) \cup {item}
    <2>1. Appended(t, s, item)
      BY <1>5
    <2> QED
      BY <1>8, <1>9, <2>1, PoolAppends
  <1>11. OnePlace(p)' /\ Pool(p)' = Pool(p) \cup {item}
    <2>1. entries'[p] = t /\ worker'[p] = wk
      BY <1>1, <1>3, <1>6 DEF IInv, FanOutTypeOK, QueueTypeOK
    <2> QED
      BY <1>8, <1>10, <2>1 DEF OnePlace, Pool
  <1>12. /\ p \in accepted'[d]
         /\ \A e \in Payloads \ {d} : accepted'[e] = accepted[e]
    BY DEF IInv, FanOutTypeOK
  <1>13. ItemOK(p, item)'
    <2>1. exported[p][d] = {} /\ dropped[p][d] = {}
      BY <1>1, <1>4, <1>8, <1>9 DEF Books, SettledOK
    <2>2. \A j \in 1..N : Order[j] = p => j = i
      BY <1>1 DEF SettingsOK
    <2> QED
      BY <1>4, <1>6, <1>12, <2>1, <2>2 DEF ItemOK, ObjectGiven, Cloning
  <1>14. ASSUME NEW q \in Pool(p)
         PROVE  ItemOK(p, q)'
    <2>1. ItemOK(p, q) /\ q.payload # d
      BY <1>4, <1>8, <1>9 DEF Books
    <2>2. PICK e \in Payloads : e = q.payload
      BY <2>1 DEF ItemOK, QueueItems
    <2> QED
      BY <1>1, <1>6, <1>12, <2>1, <2>2, OtherPayloads
  <1>15. ASSUME NEW e \in Payloads, \A q \in Pool(p)' : q.payload # e
         PROVE  SettledOK(p, e)'
    <2>1. e # d /\ \A q \in Pool(p) : q.payload # e
      BY <1>4, <1>11, <1>15
    <2>2. SettledOK(p, e)
      BY <1>8, <2>1 DEF Books
    <2> QED
      BY <1>1, <1>6, <1>12, <2>1, <2>2, OtherPayloads
  <1>16. LeftWhenStopped(p)'
    BY <1>1, <1>6 DEF IInv, LeftWhenStopped
  <1> QED
    BY <1>7, <1>11, <1>13, <1>14, <1>15, <1>16 DEF Books

\* The steps of the receiver's call.
LEMMA CallIInv ==
    ASSUME SettingsOK, IInv, NEW d \in Payloads, Call(d)
    PROVE  IInv'
  <1>1. CASE LimiterRefuses(d) \/ QueueRefuses(d)
    <2> DEFINE i == call[d] + 1
    <2>1. /\ call[d] < N
          /\ call' = [call EXCEPT ![d] = i]
          /\ refused' = [refused EXCEPT ![d] = @ \cup {Order[i]}]
          /\ UNCHANGED <<limiterVars, queueVars, accepted, result>>
          /\ touched' = touched \/ touched' = Processed(d, i)
      BY <1>1 DEF LimiterRefuses, QueueRefuses
    <2>2. /\ call' \in [Payloads -> 0..N]
          /\ refused' \in [Payloads -> SUBSET Branches]
          /\ \A e \in Payloads : Answered(e)'
      BY <2>1, CallAnswered
    <2>3. /\ touched' \in [Objects -> SUBSET Branches]
          /\ \A e \in Payloads : TouchedBy(e)'
      <3>1. CASE touched' = Processed(d, i)
        BY <2>1, <3>1, ProcessedTouched DEF IInv
      <3>2. CASE touched' = touched
        <4>1. touched' \in [Objects -> SUBSET Branches]
          BY <3>2 DEF IInv, FanOutTypeOK
        <4>2. ASSUME NEW e \in Payloads
              PROVE  TouchedBy(e)'
          <5>1. TouchedBy(e) /\ (touched[<<e, 0>>] # {} => call[e] = N)
            BY DEF IInv, TouchedBy
          <5>2. touched[<<e, 0>>] # {} => call'[e] = call[e]
            <6>1. N \in Nat /\ (call[e] = N => e # d)
              BY <2>1, OrderTyped
            <6> QED
              BY <2>1, <5>1, <6>1 DEF IInv, FanOutTypeOK
          <5> QED
            BY <3>2, <5>1, <5>2 DEF TouchedBy, Cloning
        <4> QED
          BY <4>1, <4>2
      <3> QED
        BY <2>1, <3>1, <3>2
    <2>4. ASSUME NEW p \in Branches
          PROVE  Books(p)' /\ LeftWhenStopped(p)'
      BY <2>1, OtherBooks DEF IInv, queueVars
    <2>5. FanOutTypeOK'
      BY <2>1, <2>2, <2>3 DEF IInv, FanOutTypeOK, queueVars, limiterVars, QueueTypeOK, LimiterTypeOK
    <2>6. RoomForSpike'
      BY <2>1 DEF IInv, RoomForSpike, limiterVars
    <2> QED
      BY <2>2, <2>3, <2>4, <2>5, <2>6 DEF IInv
  <1>2. CASE PipelineAccepts(d)
    <2>1. PICK i : i = call[d] + 1
      OBVIOUS
    <2>2. PICK p : p = Order[i]
      OBVIOUS
    <2>3. /\ call[d] < N
          /\ call' = [call EXCEPT ![d] = i]
          /\ accepted' = [accepted EXCEPT ![d] = @ \cup {p}]
          /\ UNCHANGED <<limiterVars, refused, result>>
          /\ touched' = Processed(d, i)
          /\ Enqueue(p, QueueItem(d, ObjectGiven(d, i), Items))
      BY <1>2, <2>1, <2>2 DEF PipelineAccepts
    <2>4. /\ call' \in [Payloads -> 0..N]
          /\ accepted' \in [Payloads -> SUBSET Branches]
          /\ \A e \in Payloads : Answered(e)'
          /\ \A e \in Payloads, o \in Branches \ {p} : o \in accepted'[e] <=> o \in accepted[e]
      BY <2>1, <2>2, <2>3, CallAnswered
    <2>5. /\ touched' \in [Objects -> SUBSET Branches]
          /\ \A e \in Payloads : TouchedBy(e)'
      BY <2>1, <2>3, ProcessedTouched DEF IInv
    <2>6. QueueTypeOK' /\ Books(p)' /\ LeftWhenStopped(p)'
      BY <2>1, <2>2, <2>3, AcceptBooks
    <2>7. ASSUME NEW o \in Branches, o # p
          PROVE  Books(o)' /\ LeftWhenStopped(o)'
      <3>1. /\ entries'[o] = entries[o] /\ worker' = worker /\ stopPhase' = stopPhase
            /\ exported' = exported /\ dropped' = dropped
        BY <2>3, <2>7 DEF Enqueue, IInv, FanOutTypeOK, QueueTypeOK
      <3> QED
        BY <2>4, <2>7, <3>1, OtherBooks DEF IInv
    <2>8. FanOutTypeOK'
      BY <2>3, <2>4, <2>5, <2>6 DEF IInv, FanOutTypeOK, limiterVars, LimiterTypeOK
    <2>9. RoomForSpike'
      BY <2>3 DEF IInv, RoomForSpike, limiterVars
    <2> QED
      BY <2>4, <2>5, <2>6, <2>7, <2>8, <2>9 DEF IInv
  <1>3. CASE ReturnErrors(d)
    <2>1. /\ call[d] = N
          /\ result' = [result EXCEPT ![d] = IF refused[d] = {} THEN "ok" ELSE "error"]
          /\ UNCHANGED <<limiterVars, queueVars, call, refused, accepted, touched>>
      BY <1>3 DEF ReturnErrors
    <2>2. ASSUME NEW p \in Branches
          PROVE  Books(p)' /\ LeftWhenStopped(p)'
      BY <2>1, OtherBooks DEF IInv, queueVars
    <2>3. FanOutTypeOK'
      BY <2>1 DEF IInv, FanOutTypeOK, queueVars, limiterVars, QueueTypeOK, LimiterTypeOK
    <2>4. RoomForSpike'
      BY <2>1 DEF IInv, RoomForSpike, limiterVars
    <2>5. ASSUME NEW e \in Payloads
          PROVE  Answered(e)' /\ TouchedBy(e)'
      <3>1. TouchedBy(e)'
        BY <2>1 DEF IInv, TouchedBy, Cloning
      <3>2. CASE e = d
        <4>1. result'[d] = IF refused[d] = {} THEN "ok" ELSE "error"
          BY <2>1 DEF IInv, FanOutTypeOK
        <4> QED
          BY <2>1, <3>1, <3>2, <4>1 DEF IInv, Answered
      <3>3. CASE e # d
        <4>1. result'[e] = result[e]
          BY <2>1, <3>3 DEF IInv, FanOutTypeOK
        <4> QED
          BY <2>1, <3>1, <4>1 DEF IInv, Answered
      <3> QED
        BY <3>2, <3>3
    <2> QED
      BY <2>2, <2>3, <2>4, <2>5 DEF IInv
  <1> QED
    BY <1>1, <1>2, <1>3 DEF Call

-----------------------------------------------------------------------------
(* Every step *)

\* A check that lets data through has seen room for a spike.
LEMMA CheckSeesRoom ==
    ASSUME SettingsOK, LimiterTypeOK, RoomForSpike, NEW p \in Limiters, MemCheck(p)
    PROVE  LimiterTypeOK' /\ RoomForSpike'
  <1>1. PICK alloc \in AllocLevels :
           /\ forceDrop' = [forceDrop EXCEPT ![p] = ShouldForceDrop(WithoutBallast(alloc))]
           /\ seen' = [seen EXCEPT ![p] = alloc]
           /\ ticking' = ticking
    BY DEF MemCheck
  <1>2. ShouldForceDrop(WithoutBallast(alloc)) \in BOOLEAN
    BY DEF ShouldForceDrop
  <1>3. LimiterTypeOK'
    BY <1>1, <1>2 DEF LimiterTypeOK
  <1>4. {AllocLimit, SpikeLimit, Ballast, Word, alloc} \subseteq Nat
    BY DEF SettingsOK
  <1>5. ~ShouldForceDrop(WithoutBallast(alloc)) =>
           alloc <= Ballast \/ alloc - Ballast + SpikeLimit < AllocLimit
    BY <1>4 DEF ShouldForceDrop, WithoutBallast, Minus
  <1>6. ASSUME NEW o \in Limiters, ~forceDrop'[o]
        PROVE  seen'[o] <= Ballast \/ seen'[o] - Ballast + SpikeLimit < AllocLimit
    <2>1. CASE o = p
      BY <1>1, <1>5, <1>6, <2>1 DEF LimiterTypeOK
    <2>2. CASE o # p
      BY <1>1, <1>6, <2>2 DEF LimiterTypeOK, RoomForSpike
    <2> QED
      BY <2>1, <2>2
  <1> QED
    BY <1>3, <1>6 DEF RoomForSpike

\* The initial state satisfies the inductive invariant.
LEMMA InitIInv == SettingsOK /\ FanOutInit => IInv
  <1> SUFFICES ASSUME SettingsOK, FanOutInit
               PROVE  IInv
    OBVIOUS
  <1> USE DEF FanOutInit, QueueInit, LimiterInit
  <1>1. FanOutTypeOK
    <2>1. LimiterTypeOK
      BY DEF LimiterTypeOK
    <2>2. QueueTypeOK
      BY OrderTyped DEF QueueTypeOK
    <2> QED
      BY <2>1, <2>2, OrderTyped DEF FanOutTypeOK
  <1>2. ASSUME NEW p \in Branches
        PROVE  Books(p) /\ LeftWhenStopped(p)
    <2>1. OnePlace(p) /\ \A q \in Pool(p) : FALSE
      BY DEF OnePlace, OnePlaceIn, Pool, PoolOf
    <2>2. \A d \in Payloads : SettledOK(p, d)
      BY DEF SettledOK
    <2> QED
      BY <2>1, <2>2 DEF Books, LeftWhenStopped
  <1>3. ASSUME NEW d \in Payloads
        PROVE  Answered(d) /\ TouchedBy(d)
    <2>1. Answered(d)
      BY DEF Answered
    <2>2. \A j \in 0..N : <<d, j>> \in Objects
      BY DEF Objects
    <2>3. N \in Nat
      BY OrderTyped
    <2>4. \A j \in 0..N : touched[<<d, j>>] = {}
      BY <2>2
    <2>5. 0 \in 0..N /\ \A j \in 1..N : j \in 0..N
      BY <2>3
    <2>6. TouchedBy(d)
      BY <2>4, <2>5 DEF TouchedBy
    <2> QED
      BY <2>1, <2>6
  <1>4. RoomForSpike
    BY DEF RoomForSpike, SettingsOK
  <1> QED
    BY <1>1, <1>2, <1>3, <1>4 DEF IInv

\* Every step keeps it.
LEMMA NextIInv == SettingsOK /\ IInv /\ [FanOutNext]_fanOutVars => IInv'
  <1> SUFFICES ASSUME SettingsOK, IInv, [FanOutNext]_fanOutVars
               PROVE  IInv'
    OBVIOUS
  \* What the answers and the objects depend on is in the connector alone.
  <1>1. ASSUME UNCHANGED here, NEW d \in Payloads
        PROVE  Answered(d)' /\ TouchedBy(d)'
    BY <1>1 DEF here, IInv, Answered, TouchedBy, Cloning
  <1>2. ASSUME NEW d \in Payloads, Call(d)
        PROVE  IInv'
    BY <1>2, CallIInv
  <1>3. ASSUME NEW p \in Limiters, MemCheck(p), UNCHANGED <<queueVars, here>>
        PROVE  IInv'
    <2>1. LimiterTypeOK' /\ RoomForSpike'
      BY <1>3, CheckSeesRoom DEF IInv, FanOutTypeOK
    <2>2. FanOutTypeOK'
      BY <1>3, <2>1 DEF IInv, FanOutTypeOK, queueVars, here, QueueTypeOK
    <2>3. ASSUME NEW o \in Branches
          PROVE  Books(o)' /\ LeftWhenStopped(o)'
      BY <1>3, OtherBooks DEF IInv, queueVars, here
    <2> QED
      BY <1>1, <1>3, <2>1, <2>2, <2>3 DEF IInv
  <1>4. ASSUME NEW p \in Branches, NEW w \in Workers, WorkerStep(p, w),
               UNCHANGED <<limiterVars, here>>
        PROVE  IInv'
    <2>1. QueueTypeOK' /\ Books(p)' /\ LeftWhenStopped(p)'
      <3>1. FanOutTypeOK /\ QueueTypeOK /\ Books(p) /\ LeftWhenStopped(p) /\ QueueSize \in Nat
            /\ accepted' = accepted
        BY <1>4, OrderTyped DEF IInv, FanOutTypeOK, here
      <3>2. QueueTypeOK'
        BY <1>4, <3>1, WorkerType
      <3>3. Books(p)' /\ LeftWhenStopped(p)'
        BY <1>4, <3>1, WorkerBooks
      <3> QED
        BY <3>2, <3>3
    <2>2. ASSUME NEW o \in Branches, o # p
          PROVE  Books(o)' /\ LeftWhenStopped(o)'
      <3>1. entries'[o] = entries[o] /\ worker'[o] = worker[o]
        BY <1>4, <2>2 DEF WorkerStep, Take, ExportSucceeds, ExportFailsForGood, ExportFails,
              ExportFailsPartially, BackOffEnds, Leave, Drop, PutBack, WorkerAt, IInv, FanOutTypeOK,
              QueueTypeOK
      <3>2. /\ exported'[o] = exported[o] /\ dropped'[o] = dropped[o]
            /\ stopPhase' = stopPhase /\ accepted' = accepted
        BY <1>4, <2>2 DEF WorkerStep, Take, ExportSucceeds, ExportFailsForGood, ExportFails,
              ExportFailsPartially, BackOffEnds, Leave, Drop, PutBack, IInv, FanOutTypeOK,
              QueueTypeOK, here
      <3> QED
        BY <3>1, <3>2, OtherBooks DEF IInv
    <2>3. FanOutTypeOK'
      BY <1>4, <2>1 DEF IInv, FanOutTypeOK, limiterVars, here, LimiterTypeOK
    <2>4. RoomForSpike'
      BY <1>4 DEF IInv, RoomForSpike, limiterVars
    <2> QED
      BY <1>1, <1>4, <2>1, <2>2, <2>3, <2>4 DEF IInv
  <1>5. ASSUME NEW p \in Branches, ShutdownPipeline(p)
        PROVE  IInv'
    <2>1. /\ UNCHANGED <<entries, worker, exported, dropped, forceDrop, seen, here>>
          /\ ticking' \in [Limiters -> BOOLEAN]
          /\ stopPhase' \in [Branches -> {"running", "closing", "stopping", "stopped"}]
          /\ \A o \in Branches : stopPhase'[o] = "stopped" =>
                stopPhase[o] = "stopped" \/ \A w \in Workers : worker[o][w].at = "exited"
      <3>1. CASE LimiterShutdown(p) /\ UNCHANGED queueVars
        BY <1>5, <3>1 DEF ShutdownPipeline, LimiterShutdown, queueVars, IInv, FanOutTypeOK,
                          LimiterTypeOK, QueueTypeOK
      <3>2. CASE ShutdownStep(p) /\ UNCHANGED limiterVars
        BY <1>5, <3>2 DEF ShutdownPipeline, ShutdownStep, CloseStopCh, StopQueue, StopReturns,
                          limiterVars, IInv, FanOutTypeOK, LimiterTypeOK, QueueTypeOK
      <3> QED
        BY <1>5, <3>1, <3>2 DEF ShutdownPipeline
    <2>2. ASSUME NEW o \in Branches
          PROVE  Books(o)'
      <3>1. Pool(o)' = Pool(o) /\ (OnePlace(o)' <=> OnePlace(o))
        BY <2>1 DEF Pool, OnePlace
      <3>2. ASSUME NEW q, ItemOK(o, q)
            PROVE  ItemOK(o, q)'
        BY <2>1, <3>2 DEF ItemOK, ObjectGiven, Cloning, here
      <3>3. ASSUME NEW d, SettledOK(o, d)
            PROVE  SettledOK(o, d)'
        BY <2>1, <3>3 DEF SettledOK, here
      <3> QED
        BY <3>1, <3>2, <3>3 DEF IInv, Books
    <2>3. ASSUME NEW o \in Branches
          PROVE  LeftWhenStopped(o)'
      BY <2>1 DEF IInv, LeftWhenStopped
    <2>4. FanOutTypeOK'
      BY <2>1 DEF IInv, FanOutTypeOK, here, LimiterTypeOK, QueueTypeOK
    <2>5. RoomForSpike'
      BY <2>1 DEF IInv, RoomForSpike
    <2> QED
      BY <1>1, <2>1, <2>2, <2>3, <2>4, <2>5 DEF IInv
  <1>6. CASE UNCHANGED fanOutVars
    <2>1. UNCHANGED <<limiterVars, queueVars, here>>
      BY <1>6 DEF fanOutVars, here
    <2>2. ASSUME NEW p \in Branches
          PROVE  Books(p)' /\ LeftWhenStopped(p)'
      BY <2>1, OtherBooks DEF IInv, queueVars, here
    <2>3. FanOutTypeOK' /\ RoomForSpike'
      BY <2>1 DEF IInv, FanOutTypeOK, here, limiterVars, queueVars, LimiterTypeOK, QueueTypeOK,
                  RoomForSpike
    <2> QED
      BY <1>1, <2>1, <2>2, <2>3 DEF IInv
  <1> QED
    BY <1>2, <1>3, <1>4, <1>5, <1>6 DEF FanOutNext

\* For every configuration, connector, limiters, queues and shutdown keep the invariant.
THEOREM Invariance == ASSUME SettingsOK PROVE FanOutSpec => []IInv
  <1>1. FanOutInit => IInv
    BY InitIInv
  <1>2. IInv /\ [FanOutNext]_fanOutVars => IInv'
    BY NextIInv
  <1> QED
    BY <1>1, <1>2, PTL DEF FanOutSpec

-----------------------------------------------------------------------------
(* What follows from the invariant. *)

\* Waiting, Carried and Held in terms of the pool.
LEMMA PoolIs ==
    ASSUME NEW p \in Branches
    PROVE  /\ Waiting(p) \cup Carried(p) = Pool(p)
           /\ \A d : Held(p, d) = {i \in Items : \E q \in Pool(p) : q.payload = d /\ i \in q.items}
  <1>1. Waiting(p) \cup Carried(p) = Pool(p)
    BY DEF Waiting, Carried, Pool, PoolOf
  <1> QED
    BY <1>1 DEF Held

\* What a pipeline refused or was not given is not in it.
LEMMA NotAccepted ==
    ASSUME IInv, NEW p \in Branches, NEW d \in Payloads, p \notin accepted[d]
    PROVE  Held(p, d) = {} /\ exported[p][d] = {} /\ dropped[p][d] = {}
  <1>1. Books(p)
    BY DEF IInv
  <1>2. \A q \in Pool(p) : q.payload # d
    BY <1>1 DEF Books, ItemOK
  <1>3. Held(p, d) = {}
    BY <1>2, PoolIs
  <1> QED
    BY <1>1, <1>2, <1>3 DEF Books, SettledOK

\* What a pipeline accepted is either in its pool, once, or settled.
LEMMA HeldIs ==
    ASSUME IInv, NEW p \in Branches, NEW d \in Payloads
    PROVE  \/ /\ \A q \in Pool(p) : q.payload # d
              /\ Held(p, d) = {} /\ SettledOK(p, d)
           \/ \E q \in Pool(p) :
                 /\ q.payload = d /\ Held(p, d) = q.items /\ ItemOK(p, q)
                 /\ \A o \in Pool(p) : o.payload = d => o = q
  <1>1. Books(p)
    BY DEF IInv
  <1>2. CASE \A q \in Pool(p) : q.payload # d
    <2>1. Held(p, d) = {}
      BY <1>2, PoolIs
    <2> QED
      BY <1>1, <1>2, <2>1 DEF Books
  <1>3. ASSUME NEW q \in Pool(p), q.payload = d
        PROVE  \E r \in Pool(p) :
                 /\ r.payload = d /\ Held(p, d) = r.items /\ ItemOK(p, r)
                 /\ \A o \in Pool(p) : o.payload = d => o = r
    <2>1. ASSUME NEW o \in Pool(p), o.payload = d
          PROVE  o = q
      BY <1>1, <1>3, <2>1 DEF Books, OnePlace, OnePlaceIn, Pool, PoolOf
    <2>2. ItemOK(p, q) /\ q.items \in SUBSET Items
      BY <1>1 DEF Books, ItemOK, QueueItems
    <2>3. Held(p, d) = {i \in Items : \E o \in Pool(p) : o.payload = d /\ i \in o.items}
      BY PoolIs
    <2>4. Held(p, d) = q.items
      BY <1>3, <2>1, <2>2, <2>3
    <2> QED
      BY <1>3, <2>1, <2>2, <2>4
  <1> QED
    BY <1>2, <1>3

\* For every set of pipelines in every order: a processor that modifies its argument, as
\* it declares, never modifies what another pipeline has; the receiver is told if and only
\* if some pipeline refused, and what a pipeline refused never leaves it; a memory limiter
\* lets data through only with room for a spike.
THEOREM PipelinesIsolated ==
    ASSUME SettingsOK PROVE FanOutSpec => []Isolated
  <1>1. IInv => NotModifiedByOthers
    <2> SUFFICES ASSUME IInv, NEW p \in Branches, NEW q \in Pool(p),
                        NEW r \in touched[q.object]
                 PROVE  r = p
      BY PoolIs DEF NotModifiedByOthers
    <2>1. ItemOK(p, q) /\ q.payload \in Payloads
      BY DEF IInv, Books, ItemOK, QueueItems
    <2>2. PICK d \in Payloads : d = q.payload
      BY <2>1
    <2>3. PICK i \in 1..N : Order[i] = p
      BY DEF SettingsOK
    <2>4. q.object = ObjectGiven(d, i) /\ TouchedBy(d) /\ N \in Nat
      <3>1. q.object = ObjectGiven(d, i)
        BY <2>1, <2>2, <2>3 DEF ItemOK
      <3>2. TouchedBy(d)
        BY DEF IInv
      <3>3. N \in Nat
        BY OrderTyped
      <3> QED BY <3>1, <3>2, <3>3
    <2>5. CASE Cloning /\ i < N
      BY <2>3, <2>4, <2>5 DEF ObjectGiven, TouchedBy
    <2>6. CASE ~(Cloning /\ i < N)
      <3>1. r = Order[N] /\ (Cloning \/ N = 1)
        BY <2>4, <2>6 DEF ObjectGiven, TouchedBy
      <3>2. i = N
        BY <2>4, <2>6, <3>1
      <3> QED
        BY <2>3, <3>1, <3>2
    <2> QED
      BY <2>5, <2>6
  <1>2. IInv => ReceiverTold
    <2> SUFFICES ASSUME IInv, NEW d \in Payloads, result[d] # "none"
                 PROVE  /\ \A p \in Branches : (p \in accepted[d]) # (p \in refused[d])
                        /\ (result[d] = "error") = (refused[d] # {})
                        /\ \A p \in refused[d] : Held(p, d) = {} /\ exported[p][d] = {}
      BY DEF ReceiverTold
    <2>1. Answered(d) /\ call[d] = N
      BY DEF IInv, Answered
    <2>2. \A p \in Branches : (p \in accepted[d]) # (p \in refused[d])
      BY <2>1 DEF Answered, SettingsOK
    <2>3. (result[d] = "error") = (refused[d] # {})
      BY <2>1 DEF Answered
    <2>4. ASSUME NEW p \in refused[d]
          PROVE  Held(p, d) = {} /\ exported[p][d] = {}
      <3>1. p \in Branches /\ p \notin accepted[d]
        BY <2>2 DEF IInv, FanOutTypeOK
      <3> QED
        BY <3>1, NotAccepted
    <2> QED
      BY <2>2, <2>3, <2>4
  <1>3. IInv => RoomForSpike
    BY DEF IInv
  <1>4. IInv => Isolated
    BY <1>1, <1>2, <1>3 DEF Isolated
  <1> QED
    BY <1>4, Invariance, PTL

\* For every number of payloads, workers and queue entries: what a pipeline accepted is on
\* its queue or with one worker, exported, or recorded as dropped; retries, partial errors
\* and a full queue neither lose nor copy it; and types and queue bounds hold.
THEOREM NothingLostOrCopied ==
    ASSUME SettingsOK PROVE FanOutSpec => [](ItemsAccounted /\ FanOutTypeOK)
  <1>1. IInv => ItemsAccounted
    <2> SUFFICES ASSUME IInv, NEW p \in Branches, NEW d \in Payloads, p \in accepted[d]
                 PROVE  /\ Held(p, d) \cup exported[p][d] \cup dropped[p][d] = Items
                        /\ Held(p, d) # {} => dropped[p][d] = {}
                        /\ \A x, y \in Places(p, d) : x = y
                        /\ DataType = "traces" =>
                              exported[p][d] \cap (Held(p, d) \cup dropped[p][d]) = {}
      BY DEF ItemsAccounted
    <2>1. OnePlaceIn(entries[p], worker[p])
      BY DEF IInv, Books, OnePlace
    <2>2. \A x, y \in Places(p, d) : x = y
      BY <2>1 DEF Places, OnePlaceIn
    <2>3. CASE Held(p, d) = {} /\ SettledOK(p, d)
      BY <2>2, <2>3 DEF SettledOK
    <2>4. CASE \E q \in Pool(p) : q.payload = d /\ Held(p, d) = q.items /\ ItemOK(p, q)
      BY <2>2, <2>4 DEF ItemOK
    <2> QED
      BY <2>3, <2>4, HeldIs
  <1>2. IInv => FanOutTypeOK
    BY DEF IInv
  <1> QED
    BY <1>1, <1>2, Invariance, PTL

-----------------------------------------------------------------------------
(***************************************************************************)
(* The refinement of RequestFate by the first pipeline: the fate of a      *)
(* payload is decided when its item leaves the pool.                       *)
(***************************************************************************)

InPool(p, d) == \E q \in Pool(p) : q.payload = d

\* A worker's step leaves the pool's payloads alone, or is about one of them.
LEMMA WorkerPool ==
    ASSUME FanOutTypeOK, NEW p \in Branches, Books(p), NEW w \in Workers, WorkerStep(p, w)
    PROVE  \/ /\ \A d \in Payloads : InPool(p, d)' <=> InPool(p, d)
              /\ UNCHANGED <<exported, dropped>>
           \/ \E d \in Payloads, got \in SUBSET Items :
                 /\ InPool(p, d)
                 /\ \A e \in Payloads \ {d} : InPool(p, e)' <=> InPool(p, e)
                 /\ exported' = [exported EXCEPT ![p][d] = @ \cup got]
                 /\ \A e \in Payloads \ {d} : dropped'[p][e] = dropped[p][e]
                 /\ InPool(p, d)' => dropped'[p][d] = dropped[p][d]
  <1>1. entries[p] \in Seq(QueueItems) /\ worker[p] \in [Workers -> Slots]
    BY DEF FanOutTypeOK, QueueTypeOK, Slots, Ats
  <1>2. PICK s \in Seq(QueueItems), wk \in [Workers -> Slots] : s = entries[p] /\ wk = worker[p]
    BY <1>1
  <1>3. OnePlaceIn(s, wk) /\ Pool(p) = PoolOf(s, wk)
    BY <1>2 DEF Books, OnePlace, Pool
  <1>4. PICK item : item = wk[w].item
    OBVIOUS
  <1>5. wk[w].at = "export" =>
          item \in Pool(p) /\ item \in QueueItems /\ item.payload \in Payloads
          /\ item.items \in SUBSET Items
    <2>1. wk[w].at = "export" => item \in Pool(p)
      BY <1>2, <1>4 DEF Pool, PoolOf
    <2> QED
      BY <2>1 DEF Books, ItemOK, QueueItems
  \* The worker gets rid of its item: what the pool is then, but for the queue.
  <1>6. ASSUME NEW at \in Ats \ {"export"}, WorkerAt(p, w, at, NoItem), wk[w].at = "export"
        PROVE  \E new \in [Workers -> Slots] :
                 /\ worker'[p] = new
                 /\ OnePlaceIn(s, new)
                 /\ \A q \in PoolOf(s, new) : q \in PoolOf(s, wk) /\ q.payload # item.payload
                 /\ \A q \in PoolOf(s, wk) : q # item => q \in PoolOf(s, new)
    <2>1. PICK slot \in Slots : slot = [at |-> at, item |-> NoItem]
      BY DEF Slots
    <2>2. PICK new \in [Workers -> Slots] : new = [wk EXCEPT ![w] = slot]
      BY <1>2
    <2>3. worker'[p] = new
      BY <1>2, <1>6, <2>1, <2>2 DEF WorkerAt, FanOutTypeOK, QueueTypeOK
    <2>4. new[w].at # "export" /\ \A v \in Workers \ {w} : new[v] = wk[v]
      BY <2>1, <2>2
    <2> QED
      BY <1>3, <1>4, <1>6, <2>3, <2>4, PoolReleases
  <1>7. ASSUME NEW rest \in QueueItems, rest.payload = item.payload,
               Drop(p, w, rest) \/ PutBack(p, w, rest) \/
                 (WorkerAt(p, w, "idle", NoItem) /\ UNCHANGED <<entries, dropped>>),
               wk[w].at = "export"
        PROVE  /\ \A e \in Payloads \ {item.payload} : InPool(p, e)' <=> InPool(p, e)
               /\ \A e \in Payloads \ {item.payload} : dropped'[p][e] = dropped[p][e]
               /\ InPool(p, item.payload)' =>
                     dropped'[p][item.payload] = dropped[p][item.payload]
    <2>1. PICK at \in Ats \ {"export"} : WorkerAt(p, w, at, NoItem)
      BY <1>7 DEF Drop, PutBack, Ats
    <2>2. PICK new \in [Workers -> Slots] :
             /\ worker'[p] = new
             /\ OnePlaceIn(s, new)
             /\ \A q \in PoolOf(s, new) : q \in PoolOf(s, wk) /\ q.payload # item.payload
             /\ \A q \in PoolOf(s, wk) : q # item => q \in PoolOf(s, new)
      BY <1>6, <1>7, <2>1
    <2>3. \A e \in Payloads \ {item.payload} : dropped'[p][e] = dropped[p][e]
      BY <1>5, <1>7 DEF Drop, PutBack, FanOutTypeOK, QueueTypeOK
    <2>4. CASE entries' = entries
      <3>1. Pool(p)' = PoolOf(s, new)
        BY <1>2, <2>2, <2>4 DEF Pool
      <3> QED
        BY <1>3, <2>2, <2>3, <3>1 DEF InPool
    <2>5. CASE entries' = [entries EXCEPT ![p] = Append(@, rest)] /\ dropped' = dropped
      <3>1. PICK t \in Seq(QueueItems) : t = Append(s, rest) /\ Appended(t, s, rest)
        <4>1. Append(s, rest) \in Seq(QueueItems)
          OBVIOUS
        <4> QED
          BY <4>1 DEF Appended
      <3>2. entries'[p] = t
        BY <1>2, <2>5, <3>1 DEF FanOutTypeOK, QueueTypeOK
      <3>3. PoolOf(t, new) = PoolOf(s, new) \cup {rest}
        <4>1. \A q \in PoolOf(s, new) : q.payload # rest.payload
          BY <1>7, <2>2
        <4>2. Appended(t, s, rest) /\ OnePlaceIn(s, new)
          BY <2>2, <3>1
        <4> QED
          BY <4>1, <4>2, PoolAppends
      <3>4. Pool(p)' = PoolOf(s, new) \cup {rest}
        BY <2>2, <3>2, <3>3 DEF Pool
      <3> QED
        BY <1>3, <1>7, <2>2, <2>3, <2>5, <3>4 DEF InPool
    <2> QED
      BY <1>7, <2>4, <2>5 DEF Drop, PutBack
  <1>8. wk[w].at = "export" => InPool(p, item.payload)
    BY <1>5 DEF InPool
  \* One case for each step.
  <1>9. CASE BackOffEnds(p, w) \/ Leave(p, w)
    <2>1. PICK at \in Ats \ {"export"} :
             /\ WorkerAt(p, w, at, NoItem)
             /\ wk[w].at # "export" /\ UNCHANGED <<entries, exported, dropped>>
      BY <1>2, <1>9 DEF BackOffEnds, Leave, Ats
    <2>2. PICK slot \in Slots : slot = [at |-> at, item |-> NoItem]
      BY DEF Slots
    <2>3. PICK new \in [Workers -> Slots] : new = [wk EXCEPT ![w] = slot]
      BY <1>2
    <2>4. worker'[p] = new
      BY <1>2, <2>1, <2>2, <2>3 DEF WorkerAt, FanOutTypeOK, QueueTypeOK
    <2>5. new[w].at # "export" /\ \A v \in Workers \ {w} : new[v] = wk[v]
      BY <2>2, <2>3
    <2>6. PoolOf(s, new) = PoolOf(s, wk)
      BY <1>3, <2>1, <2>5, PoolIdles
    <2>7. Pool(p)' = Pool(p)
      BY <1>2, <1>3, <2>1, <2>4, <2>6 DEF Pool
    <2> QED
      BY <2>1, <2>7 DEF InPool
  <1>10. CASE Take(p, w)
    <2>1. /\ entries' = [entries EXCEPT ![p] = Tail(s)]
          /\ worker' = [worker EXCEPT ![p][w] = [at |-> "export", item |-> Head(s)]]
          /\ s # <<>> /\ wk[w].at # "export"
          /\ UNCHANGED <<exported, dropped>>
      BY <1>2, <1>10 DEF Take, WorkerAt
    <2>2. Head(s) \in QueueItems
      BY <2>1
    <2>3. PICK slot \in Slots : slot = [at |-> "export", item |-> Head(s)]
      BY <2>2 DEF Slots, Ats
    <2>4. PICK new \in [Workers -> Slots] : new = [wk EXCEPT ![w] = slot]
      BY <1>2
    <2>5. /\ new[w].at = "export" /\ new[w].item = Head(s)
          /\ \A v \in Workers \ {w} : new[v] = wk[v]
      BY <2>3, <2>4
    <2>6. PICK t : HeadAndTail(s, new[w].item, t)
      BY <2>1, <2>5 DEF HeadAndTail
    <2>7. PoolOf(t, new) = PoolOf(s, wk)
      <3>1. wk[w].at # "export"
        BY <2>1
      <3> QED
        BY <1>3, <2>5, <2>6, <3>1, PoolTakes
    <2>8. entries'[p] = t /\ worker'[p] = new
      BY <1>2, <2>1, <2>3, <2>4, <2>6 DEF FanOutTypeOK, QueueTypeOK, HeadAndTail
    <2>9. Pool(p)' = Pool(p)
      BY <1>3, <2>7, <2>8 DEF Pool
    <2> QED
      BY <2>1, <2>9 DEF InPool
  <1>11. ASSUME wk[w].at = "export", NEW got \in SUBSET Items,
                exported' = [exported EXCEPT ![p][item.payload] = @ \cup got],
                NEW rest \in QueueItems, rest.payload = item.payload,
                Drop(p, w, rest) \/ PutBack(p, w, rest) \/
                  (WorkerAt(p, w, "idle", NoItem) /\ UNCHANGED <<entries, dropped>>)
         PROVE  \E d \in Payloads, g \in SUBSET Items :
                 /\ InPool(p, d)
                 /\ \A e \in Payloads \ {d} : InPool(p, e)' <=> InPool(p, e)
                 /\ exported' = [exported EXCEPT ![p][d] = @ \cup g]
                 /\ \A e \in Payloads \ {d} : dropped'[p][e] = dropped[p][e]
                 /\ InPool(p, d)' => dropped'[p][d] = dropped[p][d]
    <2>1. PICK d \in Payloads : d = item.payload
      BY <1>5, <1>11
    <2> QED
      BY <1>7, <1>8, <1>11, <2>1
  <1>12. UNCHANGED exported /\ item.payload \in Payloads =>
            exported' = [exported EXCEPT ![p][item.payload] = @ \cup {}]
    BY DEF FanOutTypeOK, QueueTypeOK
  <1>13. CASE ExportSucceeds(p, w)
    <2>1. /\ wk[w].at = "export" /\ item \in QueueItems /\ item.items \in SUBSET Items
          /\ exported' = [exported EXCEPT ![p][item.payload] = @ \cup item.items]
          /\ WorkerAt(p, w, "idle", NoItem) /\ UNCHANGED <<entries, dropped>>
      BY <1>2, <1>4, <1>5, <1>13 DEF ExportSucceeds
    <2> QED
      BY <1>11, <2>1
  <1>14. CASE ExportFailsForGood(p, w) \/ ExportFails(p, w)
    <2>1. /\ wk[w].at = "export" /\ item \in QueueItems /\ {} \in SUBSET Items
          /\ exported' = [exported EXCEPT ![p][item.payload] = @ \cup {}]
          /\ Drop(p, w, item) \/ PutBack(p, w, item)
      BY <1>2, <1>4, <1>5, <1>12, <1>14 DEF ExportFailsForGood, ExportFails
    <2> QED
      BY <1>11, <2>1
  <1>15. CASE ExportFailsPartially(p, w)
    <2>1. /\ wk[w].at = "export" /\ item \in QueueItems /\ item.items \in SUBSET Items
      BY <1>2, <1>5, <1>15 DEF ExportFailsPartially
    <2>2. PICK failed \in SUBSET item.items :
             /\ exported' = [exported EXCEPT ![p][item.payload] = @ \cup (item.items \ failed)]
             /\ PutBack(p, w, Remaining(item, failed))
      BY <1>2, <1>4, <1>15 DEF ExportFailsPartially
    <2>3. PICK rest \in QueueItems :
             rest = Remaining(item, failed) /\ rest.payload = item.payload
      <3>1. failed \in SUBSET Items
        BY <2>1
      <3> QED
        BY <2>1, <3>1, RemainingItem
    <2>4. item.items \ failed \in SUBSET Items
      BY <2>1
    <2> QED
      BY <1>11, <2>1, <2>2, <2>3, <2>4
  <1> QED
    BY <1>9, <1>10, <1>13, <1>14, <1>15 DEF WorkerStep

\* A payload that was accepted is undecided as long as its item is in the pool.
FateFacts ==
    \A p \in Branches, d \in Payloads :
        /\ p \in refused[d] => FateOf(p, d) = "refused"
        /\ p \notin refused[d] /\ p \notin accepted[d] => FateOf(p, d) = "new"
        /\ p \in accepted[d] /\ InPool(p, d) => FateOf(p, d) = "accepted"
        /\ p \in accepted[d] /\ ~InPool(p, d) /\ dropped[p][d] = {} => FateOf(p, d) = "ok"
        /\ p \in accepted[d] /\ ~InPool(p, d) /\ dropped[p][d] # {} => FateOf(p, d) = "lost"
        /\ InPool(p, d) => p \in accepted[d] /\ dropped[p][d] = {}
        /\ p \in accepted[d] => p \notin refused[d]
        /\ p \in accepted[d] /\ ~InPool(p, d) => exported[p][d] \cup dropped[p][d] = Items

\* The invariant implies these facts.
LEMMA FateIs == IInv /\ Items # {} => FateFacts
  <1> SUFFICES ASSUME IInv, Items # {}
               PROVE  FateFacts
    OBVIOUS
  <1> SUFFICES ASSUME NEW p \in Branches, NEW d \in Payloads
               PROVE  /\ p \in refused[d] => FateOf(p, d) = "refused"
                      /\ p \notin refused[d] /\ p \notin accepted[d] => FateOf(p, d) = "new"
                      /\ p \in accepted[d] /\ InPool(p, d) => FateOf(p, d) = "accepted"
                      /\ p \in accepted[d] /\ ~InPool(p, d) /\ dropped[p][d] = {}
                            => FateOf(p, d) = "ok"
                      /\ p \in accepted[d] /\ ~InPool(p, d) /\ dropped[p][d] # {}
                            => FateOf(p, d) = "lost"
                      /\ InPool(p, d) => p \in accepted[d] /\ dropped[p][d] = {}
                      /\ p \in accepted[d] => p \notin refused[d]
                      /\ p \in accepted[d] /\ ~InPool(p, d)
                            => exported[p][d] \cup dropped[p][d] = Items
    BY DEF FateFacts
  <1>1. ~(p \in refused[d] /\ p \in accepted[d])
    BY DEF IInv, Answered
  <1>2. CASE ~InPool(p, d) /\ Held(p, d) = {} /\ SettledOK(p, d)
    BY <1>1, <1>2 DEF FateOf, SettledOK
  <1>3. CASE InPool(p, d) /\ Held(p, d) # {} /\ p \in accepted[d] /\ dropped[p][d] = {}
    BY <1>1, <1>3 DEF FateOf
  <1>4. \/ ~InPool(p, d) /\ Held(p, d) = {} /\ SettledOK(p, d)
        \/ InPool(p, d) /\ Held(p, d) # {} /\ p \in accepted[d] /\ dropped[p][d] = {}
    BY HeldIs DEF InPool, ItemOK
  <1> QED
    BY <1>2, <1>3, <1>4

\* A step that changes nothing of the first pipeline that its fates depend on.
LEMMA FateStutters ==
    ASSUME First \in Branches,
           \A d \in Payloads : FateOf(First, d)' = FateOf(First, d),
           exported'[First] = exported[First],
           stopPhase'[First] = "stopped" <=> stopPhase[First] = "stopped"
    PROVE  UNCHANGED Fate!vars
  <1>1. [d \in Payloads |-> FateOf(First, d)]' = [d \in Payloads |-> FateOf(First, d)]
    OBVIOUS
  <1> QED
    BY <1>1 DEF Fate!vars, First

\* Each step of the receiver, of a worker and of the shutdown is one of RequestFate.
LEMMA NextFate ==
    ASSUME SettingsOK, Items # {}, Branches # {}, IInv, IInv', [FanOutNext]_fanOutVars
    PROVE  [Fate!Next]_(Fate!vars)
  <1> USE DEF First
  <1> DEFINE fates == [d \in Payloads |-> FateOf(First, d)]
  <1>1. First \in Branches
    BY DEF SettingsOK, N
  <1>2. FateFacts /\ FateFacts'
    <2>1. FateFacts
      BY FateIs
    <2>2. (IInv /\ Items # {} => FateFacts)'
      BY FateIs, PTL
    <2> QED
      BY <2>1, <2>2
  <1>3. ASSUME NEW d \in Payloads, NEW to, FateOf(First, d)' = to,
               \A e \in Payloads \ {d} : FateOf(First, e)' = FateOf(First, e)
        PROVE  fates' = [fates EXCEPT ![d] = to]
    BY <1>3
  \* A step that leaves the pools, the accounts and First's answers alone.
  <1>4. ASSUME UNCHANGED <<entries, worker, exported, dropped>>, NEW d \in Payloads,
               First \in accepted'[d] <=> First \in accepted[d],
               First \in refused'[d] <=> First \in refused[d]
        PROVE  FateOf(First, d)' = FateOf(First, d)
    BY <1>4 DEF FateOf, Held, Waiting, Carried
  <1>5. ASSUME NEW d \in Payloads, Call(d)
        PROVE  [Fate!Next]_(Fate!vars)
    <2>1. CASE LimiterRefuses(d) \/ QueueRefuses(d)
      <3>1. PICK i : i = call[d] + 1
        OBVIOUS
      <3>2. /\ call[d] < N
            /\ refused' = [refused EXCEPT ![d] = @ \cup {Order[i]}]
            /\ accepted' = accepted
            /\ UNCHANGED <<entries, worker, exported, dropped, stopPhase>>
        BY <2>1, <3>1 DEF LimiterRefuses, QueueRefuses, queueVars
      <3>3. Order[i] \notin accepted[d] /\ Order[i] \notin refused[d]
        BY <3>1, <3>2, NextPipeline
      <3>4. \A e \in Payloads \ {d} : FateOf(First, e)' = FateOf(First, e)
        <4>1. \A e \in Payloads \ {d} : refused'[e] = refused[e]
          BY <3>2 DEF IInv, FanOutTypeOK
        <4> QED
          BY <1>4, <3>2, <4>1
      <3>5. CASE Order[i] # First
        <4>1. First \in refused'[d] <=> First \in refused[d]
          BY <3>2, <3>5 DEF IInv, FanOutTypeOK
        <4>2. FateOf(First, d)' = FateOf(First, d)
          BY <1>4, <3>2, <4>1
        <4> QED
          BY <1>1, <3>2, <3>4, <4>2, FateStutters
      <3>6. CASE Order[i] = First
        <4>1. FateOf(First, d) = "new" /\ FateOf(First, d)' = "refused"
          BY <3>2, <3>3, <3>6 DEF FateOf, IInv, FanOutTypeOK
        <4>2. fates' = [fates EXCEPT ![d] = "refused"]
          BY <1>3, <3>4, <4>1
        <4>3. Fate!Refuse(d)
          BY <3>2, <4>1, <4>2 DEF Fate!Refuse
        <4> QED
          BY <4>3 DEF Fate!Next
      <3> QED
        BY <3>5, <3>6
    <2>2. CASE PipelineAccepts(d)
      <3>1. PICK i : i = call[d] + 1
        OBVIOUS
      <3>2. PICK p : p = Order[i]
        OBVIOUS
      <3>3. /\ call[d] < N
            /\ accepted' = [accepted EXCEPT ![d] = @ \cup {p}]
            /\ refused' = refused
            /\ Enqueue(p, QueueItem(d, ObjectGiven(d, i), Items))
        BY <2>2, <3>1, <3>2 DEF PipelineAccepts
      <3>4. p \in Branches /\ p \notin accepted[d] /\ p \notin refused[d]
        BY <3>1, <3>2, <3>3, NextPipeline
      <3>5. /\ UNCHANGED <<worker, stopPhase, exported, dropped>>
            /\ stopPhase[p] # "stopped"
            /\ entries' = [entries EXCEPT ![p] = Append(@, QueueItem(d, ObjectGiven(d, i), Items))]
        BY <3>3 DEF Enqueue, CanProduce, Stopped
      <3>6. CASE p # First
        <4>1. /\ entries'[First] = entries[First]
              /\ \A e \in Payloads : First \in accepted'[e] <=> First \in accepted[e]
          BY <1>1, <3>3, <3>5, <3>6 DEF IInv, FanOutTypeOK, QueueTypeOK
        <4>2. Waiting(First)' = Waiting(First) /\ Carried(First)' = Carried(First)
          BY <3>5, <4>1 DEF Waiting, Carried
        <4>3. \A e \in Payloads : FateOf(First, e)' = FateOf(First, e)
          BY <3>3, <3>5, <4>1, <4>2 DEF FateOf, Held
        <4> QED
          BY <1>1, <3>5, <4>3, FateStutters
      <3>7. CASE p = First
        <4>1. FateOf(First, d) = "new"
          BY <3>4, <3>7 DEF FateOf
        <4>2. PICK s \in Seq(QueueItems), item \in {QueueItem(d, ObjectGiven(d, i), Items)} :
                 /\ s = entries[p] /\ item = QueueItem(d, ObjectGiven(d, i), Items)
                 /\ entries'[p] = Append(s, item) /\ item.payload = d
          <5>1. entries[p] \in Seq(QueueItems)
            BY <3>4 DEF IInv, FanOutTypeOK, QueueTypeOK
          <5>2. entries'[p] = Append(entries[p], QueueItem(d, ObjectGiven(d, i), Items))
            BY <3>4, <3>5 DEF IInv, FanOutTypeOK, QueueTypeOK
          <5>3. QueueItem(d, ObjectGiven(d, i), Items).payload = d
            BY DEF QueueItem
          <5> QED
            BY <5>1, <5>2, <5>3, Zenon
        <4>3. \A q : (\E j \in DOMAIN entries'[p] : q = entries'[p][j])
                       <=> (\E j \in DOMAIN s : q = s[j]) \/ q = item
          <5>1. PICK t : t = Append(s, item)
            OBVIOUS
          <5>2. /\ Len(s) \in Nat
                /\ DOMAIN s = 1..Len(s)
                /\ DOMAIN t = 1..(Len(s) + 1)
                /\ \A j \in DOMAIN t : (j \in DOMAIN s /\ t[j] = s[j]) \/ t[j] = item
                /\ \A j \in DOMAIN s : j \in DOMAIN t /\ t[j] = s[j]
                /\ Len(s) + 1 \in DOMAIN t /\ t[Len(s) + 1] = item
            BY <5>1
          <5>3. entries'[p] = t
            BY <4>2, <5>1
          <5> QED
            BY <5>2, <5>3
        <4>4. Pool(p)' = Pool(p) \cup {item}
          <5>1. \A q : q \in Pool(p)' <=> q \in Pool(p) \cup {item}
            BY <3>5, <4>2, <4>3 DEF Pool, PoolOf
          <5> QED
            BY <5>1
        <4>5. \A e \in Payloads : InPool(p, e)' <=> InPool(p, e) \/ e = d
          BY <4>2, <4>4 DEF InPool
        <4>6. FateOf(First, d)' = "accepted"
          BY <1>1, <1>2, <3>7, <4>5 DEF FateFacts
        <4>7. ASSUME NEW e \in Payloads \ {d}
              PROVE  FateOf(First, e)' = FateOf(First, e)
          <5>1. /\ accepted'[e] = accepted[e] /\ refused'[e] = refused[e]
                /\ dropped' = dropped /\ (InPool(First, e)' <=> InPool(First, e))
            BY <3>3, <3>5, <3>7, <4>5 DEF IInv, FanOutTypeOK
          <5> QED
            BY <1>1, <1>2, <5>1 DEF FateFacts
        <4>8. fates' = [fates EXCEPT ![d] = "accepted"]
          BY <1>3, <4>6, <4>7
        <4>9. Fate!Accept(d)
          BY <3>5, <3>7, <4>1, <4>8 DEF Fate!Accept
        <4> QED
          BY <4>9 DEF Fate!Next
      <3> QED
        BY <3>6, <3>7
    <2>3. CASE ReturnErrors(d)
      <3>1. UNCHANGED <<entries, worker, exported, dropped, stopPhase, accepted, refused>>
        BY <2>3 DEF ReturnErrors, queueVars
      <3>2. \A e \in Payloads : FateOf(First, e)' = FateOf(First, e)
        BY <1>4, <3>1
      <3> QED
        BY <1>1, <3>1, <3>2, FateStutters
    <2> QED
      BY <1>5, <2>1, <2>2, <2>3 DEF Call
  \* A step that leaves the pool of First, its accounts and its answers alone.
  <1>6. ASSUME entries'[First] = entries[First], worker'[First] = worker[First],
               exported'[First] = exported[First], dropped'[First] = dropped[First],
               UNCHANGED <<accepted, refused>>,
               stopPhase'[First] = "stopped" <=> stopPhase[First] = "stopped"
        PROVE  [Fate!Next]_(Fate!vars)
    <2>1. Waiting(First)' = Waiting(First) /\ Carried(First)' = Carried(First)
      BY <1>6 DEF Waiting, Carried
    <2>2. \A e \in Payloads : FateOf(First, e)' = FateOf(First, e)
      BY <1>6, <2>1 DEF FateOf, Held
    <2> QED
      BY <1>1, <1>6, <2>2, FateStutters
  <1>7. ASSUME NEW p \in Limiters, MemCheck(p), UNCHANGED <<queueVars, here>>
        PROVE  [Fate!Next]_(Fate!vars)
    BY <1>6, <1>7 DEF queueVars, here
  <1>8. ASSUME NEW p \in Branches, NEW w \in Workers, WorkerStep(p, w),
               UNCHANGED <<limiterVars, here>>, p # First
        PROVE  [Fate!Next]_(Fate!vars)
    <2> DEFINE Alone ==
          /\ entries'[First] = entries[First] /\ worker'[First] = worker[First]
          /\ exported'[First] = exported[First] /\ dropped'[First] = dropped[First]
          /\ stopPhase' = stopPhase
    <2>0. /\ p # First /\ First \in Branches
          /\ DOMAIN entries = Branches /\ DOMAIN worker = Branches
          /\ DOMAIN exported = Branches /\ DOMAIN dropped = Branches
      BY <1>1, <1>8 DEF IInv, FanOutTypeOK, QueueTypeOK
    <2>1. ASSUME Take(p, w) PROVE Alone
      BY <2>0, <2>1 DEF Take, WorkerAt
    <2>2. ASSUME ExportSucceeds(p, w) PROVE Alone
      BY <2>0, <2>2 DEF ExportSucceeds, WorkerAt
    <2>3. ASSUME ExportFailsForGood(p, w) PROVE Alone
      BY <2>0, <2>3 DEF ExportFailsForGood, Drop, WorkerAt
    <2>4. ASSUME ExportFails(p, w) PROVE Alone
      BY <2>0, <2>4 DEF ExportFails, PutBack, Drop, WorkerAt
    <2>5. ASSUME ExportFailsPartially(p, w) PROVE Alone
      BY <2>0, <2>5 DEF ExportFailsPartially, PutBack, Drop, WorkerAt
    <2>6. ASSUME BackOffEnds(p, w) \/ Leave(p, w) PROVE Alone
      BY <2>0, <2>6 DEF BackOffEnds, Leave, WorkerAt
    <2>7. Alone
      BY <1>8, <2>1, <2>2, <2>3, <2>4, <2>5, <2>6 DEF WorkerStep
    <2> QED
      BY <1>6, <1>8, <2>7 DEF here
  <1>9. ASSUME NEW w \in Workers, WorkerStep(First, w), UNCHANGED <<limiterVars, here>>
        PROVE  [Fate!Next]_(Fate!vars)
    <2>1. UNCHANGED <<stopPhase, accepted, refused>>
      BY <1>9 DEF here, WorkerStep, Take, ExportSucceeds, ExportFailsForGood, ExportFails,
            ExportFailsPartially, BackOffEnds, Leave
    <2>2. stopPhase[First] # "stopped"
      <3>1. worker[First][w].at # "exited"
        BY <1>9 DEF WorkerStep, Take, ExportSucceeds, ExportFailsForGood, ExportFails,
              ExportFailsPartially, BackOffEnds, Leave
      <3> QED
        BY <1>1, <3>1 DEF IInv, LeftWhenStopped
    <2>3. ASSUME NEW e \in Payloads, InPool(First, e)' <=> InPool(First, e),
                 dropped'[First][e] = dropped[First][e]
          PROVE  FateOf(First, e)' = FateOf(First, e)
      BY <1>1, <1>2, <2>1, <2>3 DEF FateFacts
    <2>4. CASE /\ \A e \in Payloads : InPool(First, e)' <=> InPool(First, e)
               /\ UNCHANGED <<exported, dropped>>
      <3>1. \A e \in Payloads : FateOf(First, e)' = FateOf(First, e)
        BY <2>3, <2>4
      <3> QED
        BY <1>1, <2>1, <2>4, <3>1, FateStutters
    <2>5. ASSUME NEW d \in Payloads, NEW got \in SUBSET Items,
                 InPool(First, d),
                 \A e \in Payloads \ {d} : InPool(First, e)' <=> InPool(First, e),
                 exported' = [exported EXCEPT ![First][d] = @ \cup got],
                 \A e \in Payloads \ {d} : dropped'[First][e] = dropped[First][e],
                 InPool(First, d)' => dropped'[First][d] = dropped[First][d]
          PROVE  [Fate!Next]_(Fate!vars)
      <3>1. FateOf(First, d) = "accepted"
        BY <1>1, <1>2, <2>5 DEF FateFacts
      <3>2. \A e \in Payloads \ {d} : FateOf(First, e)' = FateOf(First, e)
        BY <2>3, <2>5
      <3>3. exported'[First] = [exported[First] EXCEPT ![d] = @ \cup got]
        BY <1>1, <2>5 DEF IInv, FanOutTypeOK, QueueTypeOK
      <3>4. fates[d] = "accepted"
        BY <3>1
      <3>5. CASE InPool(First, d)'
        <4>1. FateOf(First, d)' = "accepted"
          BY <1>1, <1>2, <3>5 DEF FateFacts
        <4>2. fates' = fates
          BY <3>1, <3>2, <4>1
        <4>3. Fate!Acknowledge(d)
          BY <2>1, <2>2, <3>3, <3>4, <4>2 DEF Fate!Acknowledge
        <4> QED
          BY <4>3 DEF Fate!Next
      <3>6. CASE ~InPool(First, d)' /\ dropped'[First][d] = {}
        <4>1. First \in accepted'[d]
          BY <1>1, <1>2, <2>1, <2>5 DEF FateFacts
        <4>2. FateOf(First, d)' = "ok" /\ exported'[First][d] = Items
          BY <1>1, <1>2, <3>6, <4>1 DEF FateFacts
        <4>3. fates' = [fates EXCEPT ![d] = "ok"]
          BY <1>3, <3>2, <4>2
        <4>4. exported'[First] = [exported[First] EXCEPT ![d] = Items]
          <5>1. exported[First] \in [Payloads -> SUBSET Items]
            BY <1>1 DEF IInv, FanOutTypeOK, QueueTypeOK
          <5> QED
            BY <3>3, <4>2, <5>1
        <4>5. Fate!Complete(d)
          BY <2>1, <2>2, <3>4, <4>3, <4>4 DEF Fate!Complete
        <4> QED
          BY <4>5 DEF Fate!Next
      <3>7. CASE ~InPool(First, d)' /\ dropped'[First][d] # {}
        <4>1. First \in accepted'[d]
          BY <1>1, <1>2, <2>1, <2>5 DEF FateFacts
        <4>2. FateOf(First, d)' = "lost"
          BY <1>1, <1>2, <3>7, <4>1 DEF FateFacts
        <4>3. fates' = [fates EXCEPT ![d] = "lost"]
          BY <1>3, <3>2, <4>2
        <4>4. Fate!GiveUp(d)
          BY <2>1, <2>2, <3>3, <3>4, <4>3 DEF Fate!GiveUp
        <4> QED
          BY <4>4 DEF Fate!Next
      <3> QED
        BY <3>5, <3>6, <3>7
    <2>6. FanOutTypeOK /\ Books(First)
      BY <1>1 DEF IInv
    <2> QED
      BY <1>1, <1>9, <2>4, <2>5, <2>6, WorkerPool
  <1>10. ASSUME NEW p \in Branches, ShutdownPipeline(p)
         PROVE  [Fate!Next]_(Fate!vars)
    <2>1. UNCHANGED <<entries, worker, exported, dropped, accepted, refused>>
      BY <1>10 DEF ShutdownPipeline, LimiterShutdown, queueVars, here, ShutdownStep,
                   CloseStopCh, StopQueue, StopReturns
    <2>2. stopPhase[First] = "stopped" => stopPhase'[First] = "stopped"
      BY <1>1, <1>10 DEF ShutdownPipeline, LimiterShutdown, queueVars, ShutdownStep,
                   CloseStopCh, StopQueue, StopReturns, IInv, FanOutTypeOK, QueueTypeOK
    <2>3. CASE stopPhase[First] # "stopped" /\ stopPhase'[First] = "stopped"
      <3>1. \A e \in Payloads : FateOf(First, e)' = FateOf(First, e)
        BY <1>4, <2>1
      <3>2. fates' = fates
        BY <3>1
      <3>3. Fate!Close
        BY <2>1, <2>3, <3>2 DEF Fate!Close
      <3> QED
        BY <3>3 DEF Fate!Next
    <2>4. CASE ~(stopPhase[First] # "stopped" /\ stopPhase'[First] = "stopped")
      BY <1>6, <2>1, <2>2, <2>4
    <2> QED
      BY <2>3, <2>4
  <1>11. CASE UNCHANGED fanOutVars
    <2>1. UNCHANGED <<entries, worker, exported, dropped, accepted, refused, stopPhase>>
      BY <1>11 DEF fanOutVars, queueVars
    <2> QED
      BY <1>6, <2>1
  <1> QED
    BY <1>5, <1>7, <1>8, <1>9, <1>10, <1>11 DEF FanOutNext

\* At the start every payload is new and the pipeline is open.
LEMMA InitFate ==
    ASSUME SettingsOK, Branches # {}, FanOutInit
    PROVE  Fate!Init
  <1>1. First \in Branches
    BY DEF SettingsOK, N, First
  <1>2. \A d \in Payloads : FateOf(First, d) = "new"
    BY DEF FanOutInit, FateOf
  <1> QED
    BY <1>1, <1>2 DEF FanOutInit, QueueInit, Fate!Init

\* A pipeline with queued_retry refines RequestFate, for every configuration: whatever the
\* queue, the workers, retries, partial errors and the other pipelines do, a payload is
\* refused or accepted, decided once, "ok" only with all of its items accepted by the next
\* consumer, and nothing is accepted or sent after Shutdown has returned.
THEOREM FirstPipelineFate ==
    ASSUME SettingsOK, Items # {}, Branches # {}
    PROVE  FanOutSpec => ImplementsFate
  <1>1. FanOutInit => Fate!Init
    BY InitFate
  <1>2. IInv /\ IInv' /\ [FanOutNext]_fanOutVars => [Fate!Next]_(Fate!vars)
    BY NextFate
  <1> QED
    BY <1>1, <1>2, Invariance, PTL DEF FanOutSpec, ImplementsFate, Fate!Spec
=============================================================================
