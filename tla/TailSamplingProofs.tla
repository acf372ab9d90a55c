------------------------ MODULE TailSamplingProofs ------------------------
(***************************************************************************)
(* Proofs about the tail sampling processor, for any number of calls and   *)
(* traces, any num_traces, decision_wait and list of policies.             *)
(***************************************************************************)
EXTENDS TailSampling, FiniteSetTheorems, FunctionTheorems, TLAPS

-----------------------------------------------------------------------------
(***************************************************************************)
(* The map.  Whoever stores a trace keeps it until it has posted it to     *)
(* deleteChan; whoever takes it from there deletes it.                     *)
(***************************************************************************)

Distinct(s) == \A i, j \in 1 .. Len(s) : s[i] = s[j] => i = j

\* Traces that wait in deleteChan, that a caller is about to delete, that a caller has
\* stored and not yet posted.
Elements(s) == {s[i] : i \in 1 .. Len(s)}
InChan == Elements(deleteChan)
Dropping == {c \in Calls : caller[c].at = "drop"}
Victims == {caller[c].victim : c \in Dropping}
Creators == {c \in Calls : caller[c].at \in {"add", "post", "take", "drop"}}
News == {caller[c].t : c \in Creators}
Adding == {c \in Calls : caller[c].at = "add"}

\* The locals of a call.
Locals == [at : {"idle", "loop", "add", "post", "take", "drop", "policy"},
           todo : SUBSET Traces, t : Traces \cup {None}, p : Policies,
           victim : Traces \cup {None}]

Types ==
    /\ idToTrace \in [Traces -> Batches \cup {None}]
    /\ numTracesOnMap \in Int
    /\ deleteChan \in Seq(Traces) /\ Len(deleteChan) <= NumTraces
    /\ caller \in [Calls -> Locals]
    /\ object \in [Batches -> Batches \cup {None}]

\* Where a call is tells what its locals hold.
CallerOK ==
    \A c \in Calls :
        /\ caller[c].todo \subseteq Payload[c]
        /\ caller[c].at \in {"idle", "loop"} => caller[c].t = None
        /\ caller[c].at \notin {"idle", "loop"} =>
              caller[c].t \in Payload[c] /\ caller[c].t \notin caller[c].todo
        /\ caller[c].victim # None <=> caller[c].at = "drop"

\* Nobody else is responsible for the same trace.
Apart ==
    /\ Distinct(deleteChan)
    /\ \A c, d \in Dropping : caller[c].victim = caller[d].victim => c = d
    /\ \A c, d \in Creators : caller[c].t = caller[d].t => c = d
    /\ InChan \cap Victims = {} /\ InChan \cap News = {} /\ Victims \cap News = {}

Responsible == OnMap = InChan \cup Victims \cup News

Counted == numTracesOnMap + Cardinality(Adding) = Cardinality(OnMap)

MapInv == Types /\ CallerOK /\ Apart /\ Responsible /\ Counted

LEMMA FiniteParts ==
    /\ IsFiniteSet(Adding) /\ Cardinality(Adding) \in Nat
    /\ IsFiniteSet(OnMap) /\ Cardinality(OnMap) \in Nat
    /\ IsFiniteSet(Creators) /\ Cardinality(Creators) \in Nat
  <1>1. Adding \in SUBSET Calls /\ OnMap \in SUBSET Traces /\ Creators \in SUBSET Calls
    BY DEF Adding, OnMap, Creators
  <1>2. IsFiniteSet(Calls) /\ IsFiniteSet(Traces)
    BY TailSamplingAssumption
  <1>3. IsFiniteSet(Adding) /\ IsFiniteSet(OnMap) /\ IsFiniteSet(Creators)
    BY <1>1, <1>2, FS_Subset
  <1> QED
    BY <1>3, FS_CardinalityType

LEMMA InitMap == Init => MapInv
  <1> SUFFICES ASSUME Init
               PROVE  MapInv
    OBVIOUS
  <1> USE TailSamplingAssumption
  <1>1. Len(deleteChan) = 0 /\ deleteChan \in Seq(Traces)
    BY DEF Init
  <1>2. \A c \in Calls : caller[c] = IdleCaller
    BY DEF Init
  <1>3. 1 \in Policies
    BY DEF Policies
  <1>4. IdleCaller \in Locals
    BY <1>3 DEF IdleCaller, Locals
  <1>5. Types
    BY <1>1, <1>4 DEF Init, Types
  <1>6. CallerOK
    BY <1>2 DEF CallerOK, IdleCaller
  <1>7. Adding = {} /\ Creators = {} /\ Dropping = {}
    BY <1>2 DEF Adding, Creators, Dropping, IdleCaller
  <1>8. InChan = {} /\ Victims = {} /\ News = {} /\ OnMap = {}
    BY <1>1, <1>7 DEF Init, InChan, Elements, Victims, News, OnMap
  <1>9. Apart /\ Responsible
    BY <1>1, <1>7, <1>8 DEF Apart, Distinct, Responsible
  <1>10. Counted
    BY <1>7, <1>8, FS_EmptySet DEF Init, Counted
  <1> QED
    BY <1>5, <1>6, <1>9, <1>10 DEF MapInv

\* Steps that touch neither the map nor deleteChan and leave each caller's part in it.
LEMMA MapKept ==
    ASSUME MapInv, Types', CallerOK', idToTrace' = idToTrace, deleteChan' = deleteChan,
           numTracesOnMap' = numTracesOnMap,
           \A c \in Calls :
              /\ caller'[c].at \in {"add", "post", "take", "drop"}
                    <=> caller[c].at \in {"add", "post", "take", "drop"}
              /\ caller'[c].at = "add" <=> caller[c].at = "add"
              /\ caller'[c].at = "drop" <=> caller[c].at = "drop"
              /\ caller[c].at = "drop" => caller'[c].victim = caller[c].victim
              /\ caller[c].at \in {"add", "post", "take", "drop"} => caller'[c].t = caller[c].t
    PROVE  MapInv'
  <1>1. Adding' = Adding /\ Creators' = Creators /\ Dropping' = Dropping
    BY DEF Adding, Creators, Dropping
  <1>2. Victims' = Victims
    BY <1>1 DEF Victims, Dropping
  <1>3. News' = News
    BY <1>1 DEF News, Creators
  <1>4. InChan' = InChan /\ OnMap' = OnMap
    BY DEF InChan, OnMap
  <1>5. Apart'
    BY <1>1, <1>2, <1>3, <1>4 DEF MapInv, Apart, Creators, Dropping
  <1> QED
    BY <1>1, <1>2, <1>3, <1>4, <1>5 DEF MapInv, Responsible, Counted

LEMMA Appended ==
    ASSUME NEW S, NEW s \in Seq(S), NEW x \in S
    PROVE  /\ Append(s, x) \in Seq(S) /\ Len(Append(s, x)) = Len(s) + 1
           /\ Elements(Append(s, x)) = Elements(s) \cup {x}
           /\ Distinct(s) /\ x \notin Elements(s) => Distinct(Append(s, x))
  <1>1. Append(s, x) \in Seq(S) /\ Len(Append(s, x)) = Len(s) + 1
    OBVIOUS
  <1>2. \A i \in 1 .. Len(s) : Append(s, x)[i] = s[i]
    OBVIOUS
  <1>3. Append(s, x)[Len(s) + 1] = x
    OBVIOUS
  <1>4. 1 .. (Len(s) + 1) = (1 .. Len(s)) \cup {Len(s) + 1}
    OBVIOUS
  <1> QED
    BY <1>1, <1>2, <1>3, <1>4 DEF Elements, Distinct

LEMMA Tailed ==
    ASSUME NEW S, NEW s \in Seq(S), s # <<>>
    PROVE  /\ Tail(s) \in Seq(S) /\ Len(Tail(s)) = Len(s) - 1
           /\ Head(s) \in S /\ Head(s) \in Elements(s)
           /\ Elements(s) = Elements(Tail(s)) \cup {Head(s)}
           /\ Distinct(s) => Distinct(Tail(s)) /\ Head(s) \notin Elements(Tail(s))
  <1>1. /\ Tail(s) \in Seq(S) /\ Len(Tail(s)) = Len(s) - 1 /\ Len(s) \in Nat \ {0}
        /\ Head(s) \in S /\ Head(s) = s[1]
    OBVIOUS
  <1>2. \A i \in 1 .. (Len(s) - 1) : Tail(s)[i] = s[i + 1]
    OBVIOUS
  <1>3. \A i \in 1 .. Len(s) : i = 1 \/ i - 1 \in 1 .. (Len(s) - 1)
    BY <1>1
  <1>4. Elements(s) = Elements(Tail(s)) \cup {Head(s)}
    <2>1. \A x \in Elements(s) : x = Head(s) \/ x \in Elements(Tail(s))
      <3> SUFFICES ASSUME NEW i \in 1 .. Len(s), i # 1
                   PROVE  s[i] \in Elements(Tail(s))
        BY <1>1 DEF Elements
      <3>1. i - 1 \in 1 .. (Len(s) - 1) /\ (i - 1) + 1 = i
        BY <1>1
      <3> QED
        BY <3>1, <1>1, <1>2 DEF Elements
    <2>2. \A x \in Elements(Tail(s)) : x \in Elements(s)
      <3> SUFFICES ASSUME NEW i \in 1 .. (Len(s) - 1)
                   PROVE  s[i + 1] \in Elements(s)
        BY <1>1, <1>2 DEF Elements
      <3> QED
        BY <1>1 DEF Elements
    <2>3. Head(s) \in Elements(s)
      BY <1>1 DEF Elements
    <2> QED
      BY <2>1, <2>2, <2>3
  <1>5. Distinct(s) => Distinct(Tail(s)) /\ Head(s) \notin Elements(Tail(s))
    <2> SUFFICES ASSUME Distinct(s)
                 PROVE  Distinct(Tail(s)) /\ Head(s) \notin Elements(Tail(s))
      OBVIOUS
    <2>1. \A i, j \in 1 .. (Len(s) - 1) : s[i + 1] = s[j + 1] => i = j
      BY <1>1 DEF Distinct
    <2>2. \A i \in 1 .. (Len(s) - 1) : s[i + 1] # s[1]
      BY <1>1 DEF Distinct
    <2> QED
      BY <1>1, <1>2, <2>1, <2>2 DEF Distinct, Elements
  <1> QED
    BY <1>1, <1>4, <1>5

Steps == {"idle", "loop", "add", "post", "take", "drop", "policy"}

LEMMA Moved ==
    ASSUME NEW l \in Locals, NEW m, NEW step \in Steps, m = [l EXCEPT !.at = step]
    PROVE  /\ m \in Locals /\ m.at = step /\ m.todo = l.todo /\ m.t = l.t /\ m.p = l.p
           /\ m.victim = l.victim
  BY DEF Locals, Steps

LEMMA AddToMap ==
    ASSUME MapInv, NEW c \in Calls, AddToCurrentBatch(c)
    PROVE  MapInv'
  <1> USE TailSamplingAssumption
  <1>1. /\ caller[c].at = "add" /\ caller' = [caller EXCEPT ![c] = [caller[c] EXCEPT !.at = "post"]]
        /\ numTracesOnMap' = numTracesOnMap + 1
        /\ UNCHANGED <<idToTrace, deleteChan, object>>
    BY DEF AddToCurrentBatch, Goto, At, shared
  <1>2. /\ caller'[c] = [caller[c] EXCEPT !.at = "post"]
        /\ \A d \in Calls \ {c} : caller'[d] = caller[d]
    BY <1>1 DEF MapInv, Types
  <1>3. Types'
    <2>1. caller'[c] \in Locals
      BY <1>2 DEF MapInv, Types, Locals
    <2> QED
      BY <1>1, <2>1 DEF MapInv, Types
  <1>4. CallerOK'
    BY <1>1, <1>2 DEF MapInv, Types, Locals, CallerOK
  <1>5. Creators' = Creators /\ Dropping' = Dropping /\ Adding' = Adding \ {c} /\ c \in Adding
    BY <1>1, <1>2 DEF MapInv, Types, Locals, Creators, Dropping, Adding
  <1>6. \A d \in Calls : caller'[d].t = caller[d].t /\ caller'[d].victim = caller[d].victim
    BY <1>1, <1>2 DEF MapInv, Types, Locals
  <1>7. Victims' = Victims
    BY <1>5, <1>6 DEF Victims, Dropping
  <1>8. News' = News
    BY <1>5, <1>6 DEF News, Creators
  <1>9. InChan' = InChan /\ OnMap' = OnMap
    BY <1>1 DEF InChan, OnMap
  <1>10. Apart'
    BY <1>1, <1>5, <1>6, <1>7, <1>8, <1>9 DEF MapInv, Apart, Creators, Dropping
  <1>11. Cardinality(Adding') = Cardinality(Adding) - 1
    BY <1>5, FiniteParts, FS_RemoveElement
  <1>12. Counted'
    BY <1>1, <1>9, <1>11, FiniteParts DEF MapInv, Types, Counted
  <1> QED
    BY <1>3, <1>4, <1>7, <1>8, <1>9, <1>10, <1>12 DEF MapInv, Responsible

LEMMA StoreInMap ==
    ASSUME MapInv, NEW c \in Calls, NEW t \in Traces, LoadOrStore(c, t)
    PROVE  MapInv'
  <1> USE TailSamplingAssumption
  <1> DEFINE loaded == idToTrace[t] # None
             o == IF loaded THEN idToTrace[t] ELSE <<c, t>>
             next == [caller[c] EXCEPT !.at = IF loaded THEN "policy" ELSE "add",
                                       !.t = t, !.todo = @ \ {t}]
  <1>1. /\ caller[c].at = "loop" /\ t \in caller[c].todo
        /\ caller' = [caller EXCEPT ![c] = next]
        /\ idToTrace' = [idToTrace EXCEPT ![t] = o]
        /\ object' = [object EXCEPT ![<<c, t>>] = o]
        /\ UNCHANGED <<deleteChan, numTracesOnMap>>
    BY DEF LoadOrStore, Goto, At
  <1>2. caller'[c] = next /\ \A d \in Calls \ {c} : caller'[d] = caller[d]
    BY <1>1 DEF MapInv, Types
  <1>3. t \in Payload[c] /\ <<c, t>> \in Batches /\ <<c, t>> # None /\ t # None
    BY <1>1 DEF MapInv, CallerOK, Batches, None
  <1>4. o \in Batches
    BY <1>3 DEF MapInv, Types
  <1>5. Types'
    <2>1. next \in Locals
      BY DEF MapInv, Types, Locals
    <2>2. caller' \in [Calls -> Locals]
      BY <1>1, <2>1 DEF MapInv, Types
    <2>3. idToTrace' \in [Traces -> Batches \cup {None}]
      BY <1>1, <1>4 DEF MapInv, Types
    <2>4. object' \in [Batches -> Batches \cup {None}]
      BY <1>1, <1>4 DEF MapInv, Types
    <2> QED
      BY <1>1, <2>2, <2>3, <2>4 DEF MapInv, Types
  <1>6. /\ next.at = (IF loaded THEN "policy" ELSE "add") /\ next.t = t
        /\ next.todo = caller[c].todo \ {t} /\ next.victim = caller[c].victim
    BY DEF MapInv, Types, Locals
  <1>7. CallerOK'
    BY <1>1, <1>2, <1>3, <1>6 DEF MapInv, CallerOK
  <1>8. CASE loaded
    <2>1. idToTrace' = idToTrace
      BY <1>1, <1>8 DEF MapInv, Types
    <2> QED
      BY <1>1, <1>2, <1>5, <1>6, <1>7, <1>8, <2>1, MapKept
  <1>9. CASE ~loaded
    <2>1. OnMap' = OnMap \cup {t} /\ t \notin OnMap
      BY <1>1, <1>3, <1>9 DEF MapInv, Types, OnMap
    <2>0. caller'[c].at = "add" /\ caller'[c].t = t
      BY <1>2, <1>6, <1>9
    <2> HIDE DEF next, loaded, o
    <2>2. Creators' = Creators \cup {c} /\ c \notin Creators
      BY <1>1, <1>2, <2>0 DEF Creators
    <2>3. Adding' = Adding \cup {c} /\ c \notin Adding
      BY <1>1, <1>2, <2>0 DEF Adding
    <2>4. Dropping' = Dropping /\ c \notin Dropping
      BY <1>1, <1>2, <2>0 DEF Dropping
    <2>5. News' = News \cup {t}
      <3>1. \A d \in Creators : caller'[d].t = caller[d].t
        BY <1>2, <2>2 DEF Creators
      <3> QED
        BY <2>0, <2>2, <3>1 DEF News
    <2>6. Victims' = Victims
      BY <1>2, <2>4 DEF Victims, Dropping
    <2>7. InChan' = InChan
      BY <1>1 DEF InChan
    <2>8. t \notin InChan /\ t \notin Victims /\ t \notin News
      BY <2>1 DEF MapInv, Responsible
    <2>9. Apart'
      <3>1. \A d, e \in Creators' : caller'[d].t = caller'[e].t => d = e
        <4> SUFFICES ASSUME NEW d \in Creators', NEW e \in Creators',
                            caller'[d].t = caller'[e].t
                     PROVE  d = e
          OBVIOUS
        <4>1. \A f \in Creators : caller'[f].t = caller[f].t /\ caller[f].t # t
          BY <1>2, <2>2, <2>8 DEF Creators, News
        <4> QED
          BY <2>0, <2>2, <4>1 DEF MapInv, Apart
      <3>2. \A d, e \in Dropping' : caller'[d].victim = caller'[e].victim => d = e
        BY <1>2, <2>4 DEF MapInv, Apart, Dropping
      <3> QED
        BY <1>1, <2>5, <2>6, <2>7, <2>8, <3>1, <3>2 DEF MapInv, Apart
    <2>10. Responsible'
      BY <2>1, <2>5, <2>6, <2>7 DEF MapInv, Responsible
    <2>11. Counted'
      <3>1. /\ Cardinality(OnMap') = Cardinality(OnMap) + 1
            /\ Cardinality(Adding') = Cardinality(Adding) + 1
        BY <2>1, <2>3, FiniteParts, FS_AddElement
      <3> QED
        BY <1>1, <3>1, FiniteParts DEF MapInv, Types, Counted
    <2> QED
      BY <1>5, <1>7, <2>9, <2>10, <2>11 DEF MapInv
  <1> QED
    BY <1>8, <1>9

LEMMA PostInMap ==
    ASSUME MapInv, NEW c \in Calls, PostDeletion(c)
    PROVE  MapInv'
  <1> USE TailSamplingAssumption
  <1> DEFINE t == caller[c].t
  <1>1. caller[c].at = "post" /\ UNCHANGED <<idToTrace, object, numTracesOnMap>>
    BY DEF PostDeletion, At, shared
  <1>2. t \in Payload[c] /\ t \in Traces
    BY <1>1 DEF MapInv, CallerOK
  <1>3. CASE /\ Len(deleteChan) < NumTraces
             /\ deleteChan' = Append(deleteChan, t)
             /\ caller' = [caller EXCEPT ![c] = [caller[c] EXCEPT !.at = "policy"]]
    <2>1. /\ caller'[c] = [caller[c] EXCEPT !.at = "policy"]
          /\ \A d \in Calls \ {c} : caller'[d] = caller[d]
      BY <1>3 DEF MapInv, Types
    <2>2. /\ caller'[c] \in Locals /\ caller'[c].at = "policy" /\ caller'[c].t = t
          /\ caller'[c].todo = caller[c].todo /\ caller'[c].victim = caller[c].victim
      BY <2>1, Moved DEF MapInv, Types, Steps
    <2>3. /\ deleteChan' \in Seq(Traces) /\ Len(deleteChan') = Len(deleteChan) + 1
          /\ InChan' = InChan \cup {t}
          /\ Distinct(deleteChan) /\ t \notin InChan => Distinct(deleteChan')
      BY <1>2, <1>3, Appended DEF MapInv, Types, InChan
    <2>4. Types'
      <3>1. Len(deleteChan') <= NumTraces
        BY <1>3, <2>3 DEF MapInv, Types
      <3>2. caller' \in [Calls -> Locals]
        BY <1>3, <2>1, <2>2 DEF MapInv, Types
      <3> QED
        BY <1>1, <2>3, <3>1, <3>2 DEF MapInv, Types
    <2>5. CallerOK'
      <3>1. \A d \in Calls \ {c} : caller'[d] = caller[d]
        BY <2>1
      <3> QED
        BY <1>1, <2>2, <3>1 DEF MapInv, CallerOK
    <2>6. Creators' = Creators \ {c} /\ c \in Creators
      BY <1>1, <2>1, <2>2 DEF Creators
    <2>7. Dropping' = Dropping /\ Adding' = Adding /\ c \notin Dropping
      <3>1. \A d \in Calls \ {c} : caller'[d] = caller[d]
        BY <2>1
      <3> QED
        BY <1>1, <2>2, <3>1 DEF Dropping, Adding
    <2>8. Victims' = Victims
      BY <2>1, <2>7 DEF Victims, Dropping
    <2>9. \A d \in Creators' : caller'[d].t = caller[d].t /\ caller[d].t # t
      BY <2>1, <2>6 DEF Creators, MapInv, Apart
    <2>10. News' = News \ {t} /\ t \in News
      BY <2>6, <2>9 DEF News
    <2>11. OnMap' = OnMap
      BY <1>1 DEF OnMap
    <2>12. t \notin InChan /\ t \notin Victims
      BY <2>10 DEF MapInv, Apart
    <2>13. Apart'
      <3>1. \A d, e \in Creators' : caller'[d].t = caller'[e].t => d = e
        BY <2>6, <2>9 DEF MapInv, Apart
      <3>2. \A d, e \in Dropping' : caller'[d].victim = caller'[e].victim => d = e
        BY <2>1, <2>7 DEF MapInv, Apart, Dropping
      <3>3. Distinct(deleteChan')
        BY <2>3, <2>12 DEF MapInv, Apart
      <3> QED
        BY <2>3, <2>8, <2>10, <2>12, <3>1, <3>2, <3>3 DEF MapInv, Apart
    <2>14. Responsible' /\ Counted'
      BY <1>1, <2>3, <2>7, <2>8, <2>10, <2>11 DEF MapInv, Responsible, Counted
    <2> QED
      BY <2>4, <2>5, <2>13, <2>14 DEF MapInv
  <1>4. CASE /\ deleteChan' = deleteChan
             /\ caller' = [caller EXCEPT ![c] = [caller[c] EXCEPT !.at = "take"]]
    <2>1. /\ caller'[c] = [caller[c] EXCEPT !.at = "take"]
          /\ \A d \in Calls \ {c} : caller'[d] = caller[d]
      BY <1>4 DEF MapInv, Types
    <2>2. /\ caller'[c] \in Locals /\ caller'[c].at = "take" /\ caller'[c].t = t
          /\ caller'[c].todo = caller[c].todo /\ caller'[c].victim = caller[c].victim
      BY <2>1, Moved DEF MapInv, Types, Steps
    <2>3. Types'
      BY <1>1, <1>4, <2>1, <2>2 DEF MapInv, Types
    <2>4. CallerOK'
      <3>1. \A d \in Calls \ {c} : caller'[d] = caller[d]
        BY <2>1
      <3> QED
        BY <1>1, <2>2, <3>1 DEF MapInv, CallerOK
    <2> QED
      BY <1>1, <1>4, <2>1, <2>2, <2>3, <2>4, MapKept
  <1> QED
    BY <1>3, <1>4 DEF PostDeletion, Goto

LEMMA TakeFromChan ==
    ASSUME MapInv, NEW c \in Calls, TakeOldest(c)
    PROVE  MapInv'
  <1> USE TailSamplingAssumption
  <1> DEFINE v == Head(deleteChan)
             next == [caller[c] EXCEPT !.at = "drop", !.victim = v]
  <1>1. /\ caller[c].at = "take" /\ deleteChan # <<>> /\ deleteChan' = Tail(deleteChan)
        /\ caller' = [caller EXCEPT ![c] = next]
        /\ UNCHANGED <<idToTrace, object, numTracesOnMap>>
    BY DEF TakeOldest, At, Goto, shared
  <1>2. /\ deleteChan' \in Seq(Traces) /\ Len(deleteChan') = Len(deleteChan) - 1
        /\ v \in Traces /\ v \in InChan /\ InChan = InChan' \cup {v}
        /\ Distinct(deleteChan') /\ v \notin InChan'
    BY <1>1, Tailed DEF MapInv, Types, Apart, InChan
  <1>3. caller'[c] = next
    BY <1>1 DEF MapInv, Types
  <1>4. \A d \in Calls \ {c} : caller'[d] = caller[d]
    BY <1>1 DEF MapInv, Types
  <1>5. /\ next \in Locals /\ next.at = "drop" /\ next.victim = v
        /\ next.t = caller[c].t /\ next.todo = caller[c].todo
    BY <1>2 DEF MapInv, Types, Locals
  <1> HIDE DEF next
  <1>6. Types'
    <2>1. Len(deleteChan') <= NumTraces
      BY <1>2 DEF MapInv, Types
    <2>2. caller' \in [Calls -> Locals]
      BY <1>1, <1>5 DEF MapInv, Types
    <2> QED
      BY <1>1, <1>2, <2>1, <2>2 DEF MapInv, Types
  <1>7. CallerOK'
    <2>1. v # None
      BY <1>2
    <2> QED
      BY <1>1, <1>3, <1>4, <1>5, <2>1 DEF MapInv, CallerOK
  <1>8. /\ Creators' = Creators /\ Adding' = Adding /\ Dropping' = Dropping \cup {c}
        /\ c \notin Dropping
    BY <1>1, <1>3, <1>4, <1>5 DEF Creators, Adding, Dropping
  <1>9. \A d \in Calls : caller'[d].t = caller[d].t
    BY <1>3, <1>4, <1>5
  <1>10. \A d \in Dropping : caller'[d].victim = caller[d].victim /\ caller[d].victim # v
    BY <1>2, <1>4, <1>8 DEF MapInv, Apart, Victims, Dropping
  <1>11. News' = News
    BY <1>8, <1>9 DEF News, Creators
  <1>12. Victims' = Victims \cup {v}
    BY <1>3, <1>5, <1>8, <1>10 DEF Victims
  <1>13. OnMap' = OnMap
    BY <1>1 DEF OnMap
  <1>14. Apart'
    <2>1. \A d, e \in Creators' : caller'[d].t = caller'[e].t => d = e
      BY <1>8, <1>9 DEF MapInv, Apart, Creators
    <2>2. \A d, e \in Dropping' : caller'[d].victim = caller'[e].victim => d = e
      BY <1>3, <1>5, <1>8, <1>10 DEF MapInv, Apart
    <2>3. v \notin News
      BY <1>2 DEF MapInv, Apart
    <2> QED
      BY <1>2, <1>11, <1>12, <2>1, <2>2, <2>3 DEF MapInv, Apart
  <1>15. Responsible' /\ Counted'
    BY <1>1, <1>2, <1>8, <1>11, <1>12, <1>13 DEF MapInv, Responsible, Counted
  <1> QED
    BY <1>6, <1>7, <1>14, <1>15 DEF MapInv

LEMMA DropFromMap ==
    ASSUME MapInv, NEW c \in Calls, DropTrace(c)
    PROVE  /\ MapInv' /\ caller[c].victim \in Traces /\ idToTrace[caller[c].victim] # None
           /\ idToTrace' = [idToTrace EXCEPT ![caller[c].victim] = None]
           /\ evicted' = evicted \cup {idToTrace[caller[c].victim]}
  <1> USE TailSamplingAssumption
  <1> DEFINE v == caller[c].victim
             next == [caller[c] EXCEPT !.at = "post", !.victim = None]
  <1>1. /\ caller[c].at = "drop" /\ caller' = [caller EXCEPT ![c] = next]
        /\ UNCHANGED <<deleteChan, object>>
    BY DEF DropTrace, At, Goto
  <1>2. v \in Traces /\ v \in Victims /\ v \in OnMap /\ idToTrace[v] # None
    <2>1. v # None /\ v \in Traces
      BY <1>1 DEF MapInv, CallerOK, Types, Locals
    <2>2. v \in Victims
      BY <1>1 DEF Victims, Dropping
    <2> QED
      BY <2>1, <2>2 DEF MapInv, Responsible, OnMap
  <1>3. /\ idToTrace' = [idToTrace EXCEPT ![v] = None]
        /\ numTracesOnMap' = numTracesOnMap - 1
        /\ evicted' = evicted \cup {idToTrace[v]}
    BY <1>2 DEF DropTrace
  <1>4. caller'[c] = next
    BY <1>1 DEF MapInv, Types
  <1>5. \A d \in Calls \ {c} : caller'[d] = caller[d]
    BY <1>1 DEF MapInv, Types
  <1>6. /\ next \in Locals /\ next.at = "post" /\ next.victim = None
        /\ next.t = caller[c].t /\ next.todo = caller[c].todo
    BY DEF MapInv, Types, Locals
  <1> HIDE DEF next
  <1>7. Types'
    <2>1. caller' \in [Calls -> Locals]
      BY <1>1, <1>6 DEF MapInv, Types
    <2>2. idToTrace' \in [Traces -> Batches \cup {None}]
      BY <1>3 DEF MapInv, Types
    <2>3. numTracesOnMap' \in Int
      BY <1>3 DEF MapInv, Types
    <2> QED
      BY <1>1, <2>1, <2>2, <2>3 DEF MapInv, Types
  <1>8. CallerOK'
    BY <1>1, <1>4, <1>5, <1>6 DEF MapInv, CallerOK
  <1>9. /\ Creators' = Creators /\ Adding' = Adding /\ Dropping' = Dropping \ {c}
        /\ c \in Dropping
    BY <1>1, <1>4, <1>5, <1>6 DEF Creators, Adding, Dropping
  <1>10. \A d \in Calls : caller'[d].t = caller[d].t
    BY <1>4, <1>5, <1>6
  <1>11. \A d \in Dropping' : caller'[d].victim = caller[d].victim /\ caller[d].victim # v
    BY <1>5, <1>9 DEF MapInv, Apart, Dropping
  <1>12. News' = News
    BY <1>9, <1>10 DEF News, Creators
  <1>13. Victims' = Victims \ {v}
    BY <1>9, <1>11 DEF Victims
  <1>14. OnMap' = OnMap \ {v}
    BY <1>2, <1>3 DEF MapInv, Types, OnMap
  <1>15. InChan' = InChan
    BY <1>1 DEF InChan
  <1>16. v \notin InChan /\ v \notin News
    BY <1>2 DEF MapInv, Apart
  <1>17. Apart'
    <2>1. \A d, e \in Creators' : caller'[d].t = caller'[e].t => d = e
      BY <1>9, <1>10 DEF MapInv, Apart, Creators
    <2>2. \A d, e \in Dropping' : caller'[d].victim = caller'[e].victim => d = e
      BY <1>9, <1>11 DEF MapInv, Apart
    <2> QED
      BY <1>1, <1>12, <1>13, <1>15, <2>1, <2>2 DEF MapInv, Apart
  <1>18. Responsible'
    BY <1>12, <1>13, <1>14, <1>15, <1>16 DEF MapInv, Responsible
  <1>19. Counted'
    <2>1. Cardinality(OnMap') = Cardinality(OnMap) - 1
      <3> HIDE DEF v
      <3>1. IsFiniteSet(OnMap)
        BY FiniteParts
      <3> QED
        BY <1>2, <1>14, <3>1, FS_RemoveElement
    <2> QED
      BY <1>3, <1>9, <2>1, FiniteParts DEF MapInv, Types, Counted
  <1> QED
    BY <1>2, <1>3, <1>7, <1>8, <1>17, <1>18, <1>19 DEF MapInv

LEMMA PolicyOne == 1 \in Policies
  BY TailSamplingAssumption DEF Policies

\* What NextPolicy leaves a caller with.
LEMMA NextPolicyKeeps ==
    ASSUME MapInv, NEW c \in Calls, caller[c].at = "policy"
    PROVE  /\ NextPolicy(c) \in Locals
           /\ NextPolicy(c).todo = caller[c].todo /\ NextPolicy(c).victim = caller[c].victim
           /\ \/ /\ NextPolicy(c).at = "policy" /\ NextPolicy(c).t = caller[c].t
                 /\ caller[c].p < Len(Policy) /\ NextPolicy(c).p = caller[c].p + 1
              \/ /\ NextPolicy(c).at = "loop" /\ NextPolicy(c).t = None
                 /\ caller[c].p = Len(Policy) /\ NextPolicy(c).p = 1
  <1> USE TailSamplingAssumption
  <1>1. Policies = 1 .. Len(Policy) /\ Len(Policy) \in Nat \ {0}
    BY DEF Policies
  <1>2. caller[c] \in Locals
    BY DEF MapInv, Types
  <1>3. caller[c].p \in 1 .. Len(Policy)
    BY <1>1, <1>2 DEF Locals
  <1>4. CASE caller[c].p < Len(Policy)
    BY <1>1, <1>2, <1>3, <1>4 DEF NextPolicy, Locals
  <1>5. CASE ~(caller[c].p < Len(Policy))
    <2> DEFINE l == caller[c]
               next == [l EXCEPT !.at = "loop", !.t = None, !.p = 1]
    <2>1. /\ next \in Locals /\ next.todo = l.todo /\ next.victim = l.victim
          /\ next.at = "loop" /\ next.t = None /\ next.p = 1
      BY <1>2, PolicyOne DEF Locals
    <2>2. l.p = Len(Policy)
      BY <1>1, <1>3, <1>5
    <2>3. NextPolicy(c) = next
      BY <1>5 DEF NextPolicy
    <2> HIDE DEF next
    <2> QED
      BY <2>1, <2>2, <2>3
  <1> QED
    BY <1>4, <1>5

LEMMA PolicyKeepsMap ==
    ASSUME MapInv, NEW c \in Calls, ForPolicy(c)
    PROVE  MapInv'
  <1> USE TailSamplingAssumption
  <1>1. caller[c].at = "policy" /\ UNCHANGED <<idToTrace, object, numTracesOnMap, deleteChan>>
    BY DEF ForPolicy, At
  <1>2. PICK next \in Locals :
              /\ caller' = [caller EXCEPT ![c] = next]
              /\ next.todo = caller[c].todo /\ next.victim = caller[c].victim
              /\ \/ next.at = "policy" /\ next.t = caller[c].t
                 \/ next.at = "loop" /\ next.t = None
    <2>1. CASE caller' = [caller EXCEPT ![c] = NextPolicy(c)]
      BY <1>1, <2>1, NextPolicyKeeps
    <2>2. CASE caller' = [caller EXCEPT ![c] =
                            [caller[c] EXCEPT !.at = "loop", !.t = None, !.p = 1]]
      <3> DEFINE next == [caller[c] EXCEPT !.at = "loop", !.t = None, !.p = 1]
      <3>1. /\ next \in Locals /\ next.todo = caller[c].todo
            /\ next.victim = caller[c].victim /\ next.at = "loop" /\ next.t = None
        BY PolicyOne DEF MapInv, Types, Locals
      <3> QED
        BY <2>2, <3>1
    <2> QED
      BY <2>1, <2>2 DEF ForPolicy, Goto
  <1>3. caller'[c] = next
    BY <1>2 DEF MapInv, Types
  <1>4. \A d \in Calls \ {c} : caller'[d] = caller[d]
    BY <1>2 DEF MapInv, Types
  <1>5. Types'
    BY <1>1, <1>2 DEF MapInv, Types
  <1>6. CallerOK'
    BY <1>1, <1>2, <1>3, <1>4 DEF MapInv, CallerOK
  <1> QED
    BY <1>1, <1>2, <1>3, <1>4, <1>5, <1>6, MapKept

LEMMA ConsumeKeepsMap ==
    ASSUME MapInv, NEW c \in Calls, ConsumeTraces(c)
    PROVE  MapInv'
  <1> USE TailSamplingAssumption
  <1> DEFINE next == [caller[c] EXCEPT !.at = "loop", !.todo = Payload[c]]
  <1>1. /\ caller[c].at = "idle" /\ caller' = [caller EXCEPT ![c] = next]
        /\ UNCHANGED <<idToTrace, object, numTracesOnMap, deleteChan>>
    BY DEF ConsumeTraces, At, Goto, shared
  <1>2. /\ next \in Locals /\ next.at = "loop" /\ next.todo = Payload[c]
        /\ next.t = caller[c].t /\ next.victim = caller[c].victim
    BY DEF MapInv, Types, Locals
  <1>3. caller'[c] = next
    BY <1>1 DEF MapInv, Types
  <1>4. \A d \in Calls \ {c} : caller'[d] = caller[d]
    BY <1>1 DEF MapInv, Types
  <1> HIDE DEF next
  <1>5. Types'
    BY <1>1, <1>2 DEF MapInv, Types
  <1>6. CallerOK'
    BY <1>1, <1>2, <1>3, <1>4 DEF MapInv, CallerOK
  <1> QED
    BY <1>1, <1>2, <1>3, <1>4, <1>5, <1>6, MapKept

LEMMA NextMap == MapInv /\ [Next]_vars => MapInv'
  <1> SUFFICES ASSUME MapInv, [Next]_vars
               PROVE  MapInv'
    OBVIOUS
  <1>1. CASE \E c \in Calls : ConsumeTraces(c)
    BY <1>1, ConsumeKeepsMap
  <1>2. CASE \E c \in Calls, t \in Traces : LoadOrStore(c, t)
    BY <1>2, StoreInMap
  <1>3. CASE \E c \in Calls : AddToCurrentBatch(c)
    BY <1>3, AddToMap
  <1>4. CASE \E c \in Calls : PostDeletion(c)
    BY <1>4, PostInMap
  <1>5. CASE \E c \in Calls : TakeOldest(c)
    BY <1>5, TakeFromChan
  <1>6. CASE \E c \in Calls : DropTrace(c)
    BY <1>6, DropFromMap
  <1>7. CASE \E c \in Calls : ForPolicy(c)
    BY <1>7, PolicyKeepsMap
  <1>8. CASE FillCurrentBatch \/ TickerStep \/ UNCHANGED vars
    <2>1. UNCHANGED <<idToTrace, object, numTracesOnMap, deleteChan, caller>>
      BY <1>8 DEF FillCurrentBatch, TickerStep, Tick, LoadTrace, Evaluate, WriteDecision,
                  ForwardReceived, RemoveBatches, vars, shared
    <2>2. Types' /\ CallerOK'
      BY <2>1 DEF MapInv, Types, CallerOK
    <2> QED
      BY <2>1, <2>2, MapKept
  <1> QED
    BY <1>1, <1>2, <1>3, <1>4, <1>5, <1>6, <1>7, <1>8 DEF Next, CallerStep

-----------------------------------------------------------------------------
(***************************************************************************)
(* Types.  The ticker has a TraceData exactly while it works on one, and   *)
(* so has every call that is past LoadOrStore.                             *)
(***************************************************************************)

Ticking == [at : {"load", "evaluate", "assign", "copy", "clear"}, ids : Seq(Traces),
            o : Batches \cup {None}, p : Policies, result : Decision]

OtherTypes ==
    /\ started \in BOOLEAN
    /\ decisions \in [Batches -> [Policies -> Decision]]
    /\ received \in [Batches -> Seq(Batches)]
    /\ spanCount \in [Batches -> Nat]
    /\ pendingIds \in Seq(Traces) /\ Len(pendingIds) <= ChannelSize + 1
    /\ currentBatch \in Seq(Traces)
    /\ batches \in Seq(Seq(Traces)) /\ Len(batches) = NumBatches
    /\ inSecond \in [Policies -> Nat]
    /\ ticker \in Ticking
    /\ forwarded \in [Batches -> [Policies -> Nat]]
    /\ age \in [Batches -> 0..(NumBatches + 1)]
    /\ evicted \subseteq Batches

TickerOK ==
    /\ ticker.at = "load" => ticker.o = None /\ ticker.p = 1
    /\ ticker.at # "load" => ticker.o \in Batches

ObjectOK == \A c \in Calls : caller[c].t # None => object[<<c, caller[c].t>>] \in Batches

TypeInv == MapInv /\ OtherTypes /\ TickerOK /\ ObjectOK

LEMMA InitTypes == Init => TypeInv
  <1> SUFFICES ASSUME Init
               PROVE  TypeInv
    OBVIOUS
  <1> USE TailSamplingAssumption
  <1>1. batches \in Seq(Seq(Traces)) /\ Len(batches) = NumBatches
    BY DEF Init
  <1>2. IdleTicker \in Ticking
    BY PolicyOne DEF IdleTicker, Ticking, Decision
  <1>3. OtherTypes
    <2>1. decisions \in [Batches -> [Policies -> Decision]]
      BY DEF Init, Decision
    <2>2. /\ received \in [Batches -> Seq(Batches)] /\ pendingIds \in Seq(Traces)
          /\ currentBatch \in Seq(Traces) /\ Len(pendingIds) = 0
      BY DEF Init
    <2>3. forwarded \in [Batches -> [Policies -> Nat]] /\ age \in [Batches -> 0..(NumBatches + 1)]
      BY DEF Init
    <2>4. ticker \in Ticking
      BY <1>2 DEF Init
    <2>5. Len(pendingIds) <= ChannelSize + 1
      BY <2>2
    <2>6. /\ spanCount \in [Batches -> Nat] /\ inSecond \in [Policies -> Nat]
          /\ started \in BOOLEAN /\ evicted \subseteq Batches
      BY DEF Init
    <2> QED
      BY <1>1, <2>1, <2>2, <2>3, <2>4, <2>5, <2>6 DEF OtherTypes
  <1>4. TickerOK
    BY DEF Init, TickerOK, IdleTicker
  <1>5. ObjectOK
    BY DEF Init, ObjectOK, IdleCaller
  <1> QED
    BY <1>3, <1>4, <1>5, InitMap DEF TypeInv

LEMMA AfterPolicyKeeps ==
    ASSUME TypeInv
    PROVE  /\ AfterPolicy \in Ticking /\ AfterPolicy.o = ticker.o
           /\ AfterPolicy.ids = ticker.ids
           /\ \/ /\ AfterPolicy.at = "evaluate" /\ ticker.p < Len(Policy)
                 /\ AfterPolicy.p = ticker.p + 1
              \/ /\ AfterPolicy.at = "clear" /\ ticker.p = Len(Policy)
                 /\ AfterPolicy.p = ticker.p
  <1> USE TailSamplingAssumption
  <1>1. Policies = 1 .. Len(Policy) /\ Len(Policy) \in Nat \ {0}
    BY DEF Policies
  <1>2. ticker \in Ticking /\ ticker.p \in 1 .. Len(Policy)
    BY <1>1 DEF TypeInv, OtherTypes, Ticking
  <1>3. CASE ticker.p < Len(Policy)
    <2> DEFINE next == [ticker EXCEPT !.at = "evaluate", !.p = @ + 1, !.result = "Pending"]
    <2>1. ticker.p + 1 \in Policies
      BY <1>1, <1>2, <1>3
    <2>2. /\ next \in Ticking /\ next.o = ticker.o /\ next.ids = ticker.ids
          /\ next.at = "evaluate" /\ next.p = ticker.p + 1
      BY <1>2, <2>1 DEF Ticking, Decision
    <2>3. AfterPolicy = next
      BY <1>3 DEF AfterPolicy
    <2> HIDE DEF next
    <2> QED
      BY <1>3, <2>2, <2>3
  <1>4. CASE ~(ticker.p < Len(Policy))
    <2> DEFINE next == [ticker EXCEPT !.at = "clear", !.result = "Pending"]
    <2>1. ticker.p = Len(Policy)
      BY <1>1, <1>2, <1>4
    <2>2. /\ next \in Ticking /\ next.o = ticker.o /\ next.ids = ticker.ids
          /\ next.at = "clear" /\ next.p = ticker.p
      BY <1>2 DEF Ticking, Decision
    <2>3. AfterPolicy = next
      BY <1>4 DEF AfterPolicy
    <2> HIDE DEF next
    <2> QED
      BY <2>1, <2>2, <2>3
  <1> QED
    BY <1>3, <1>4

LEMMA CallersKeepTypes ==
    ASSUME TypeInv, NEW c \in Calls, ConsumeTraces(c) \/ CallerStep(c)
    PROVE  OtherTypes' /\ TickerOK' /\ ObjectOK'
  <1> USE TailSamplingAssumption DEF TypeInv
  <1>1. TickerOK'
    <2>1. ticker' = ticker
      BY DEF ConsumeTraces, CallerStep, LoadOrStore, AddToCurrentBatch, PostDeletion,
             TakeOldest, DropTrace, ForPolicy
    <2> QED
      BY <2>1 DEF TickerOK
  <1>2. caller \in [Calls -> Locals]
    BY DEF MapInv, Types
  <1>3. CASE ConsumeTraces(c)
    <2>1. OtherTypes'
      BY <1>3 DEF ConsumeTraces, OtherTypes, shared, batcher
    <2>2. \A d \in Calls : caller'[d].t = caller[d].t /\ object' = object
      BY <1>2, <1>3 DEF ConsumeTraces, Goto, Locals
    <2> QED
      BY <1>1, <2>1, <2>2 DEF ObjectOK
  <1>4. CASE \E t \in Traces : LoadOrStore(c, t)
    <2>1. PICK t \in Traces : LoadOrStore(c, t)
      BY <1>4
    <2> DEFINE o == IF idToTrace[t] # None THEN idToTrace[t] ELSE <<c, t>>
    <2>2. o \in Batches /\ <<c, t>> \in Batches
      BY <2>1 DEF LoadOrStore, MapInv, Types, CallerOK, Batches
    <2>3. /\ spanCount' = [spanCount EXCEPT ![o] = @ + 1]
          /\ object' = [object EXCEPT ![<<c, t>>] = o]
      BY <2>1 DEF LoadOrStore
    <2>4. caller'[c].t = t /\ \A d \in Calls \ {c} : caller'[d] = caller[d]
      BY <1>2, <2>1 DEF LoadOrStore, Goto, Locals
    <2> HIDE DEF o
    <2>5. OtherTypes'
      <3>1. spanCount' \in [Batches -> Nat]
        BY <2>2, <2>3 DEF OtherTypes
      <3> QED
        BY <2>1, <3>1 DEF LoadOrStore, OtherTypes, batcher
    <2>6. ObjectOK'
      <3> SUFFICES ASSUME NEW d \in Calls, caller'[d].t # None
                   PROVE  object'[<<d, caller'[d].t>>] \in Batches
        BY DEF ObjectOK
      <3>1. object \in [Batches -> Batches \cup {None}]
        BY DEF MapInv, Types
      <3>2. CASE d = c
        BY <2>2, <2>3, <2>4, <3>1, <3>2
      <3>3. CASE d # c
        <4>1. object'[<<d, caller[d].t>>] = object[<<d, caller[d].t>>]
          BY <2>3, <3>1, <3>3
        <4> QED
          BY <2>4, <3>3, <4>1 DEF ObjectOK
      <3> QED
        BY <3>2, <3>3
    <2> QED
      BY <1>1, <2>5, <2>6
  <1>5. CASE AddToCurrentBatch(c)
    <2>1. pendingIds' \in Seq(Traces) /\ Len(pendingIds') <= ChannelSize + 1
      <3>1. caller[c].t \in Traces
        BY <1>5 DEF AddToCurrentBatch, At, MapInv, CallerOK
      <3>2. pendingIds \in Seq(Traces) /\ Len(pendingIds) <= ChannelSize
        BY <1>5 DEF AddToCurrentBatch, OtherTypes
      <3>3. pendingIds' = Append(pendingIds, caller[c].t)
        BY <1>5 DEF AddToCurrentBatch
      <3>4. /\ Append(pendingIds, caller[c].t) \in Seq(Traces)
            /\ Len(Append(pendingIds, caller[c].t)) = Len(pendingIds) + 1
        BY <3>1, <3>2, Appended
      <3> QED
        BY <3>2, <3>3, <3>4
    <2>2. OtherTypes'
      BY <1>5, <2>1 DEF AddToCurrentBatch, OtherTypes, shared
    <2>3. \A d \in Calls : caller'[d].t = caller[d].t /\ object' = object
      BY <1>2, <1>5 DEF AddToCurrentBatch, Goto, Locals
    <2> QED
      BY <1>1, <2>2, <2>3 DEF ObjectOK
  <1>6. CASE PostDeletion(c) \/ TakeOldest(c)
    <2>1. OtherTypes'
      BY <1>6 DEF PostDeletion, TakeOldest, OtherTypes, shared, batcher
    <2>2. object' = object
      BY <1>6 DEF PostDeletion, TakeOldest
    <2>3. \A d \in Calls : caller'[d].t = caller[d].t
      <3>1. CASE PostDeletion(c)
        <4>1. PICK step \in {"policy", "take"} :
                    caller' = [caller EXCEPT ![c] = [caller[c] EXCEPT !.at = step]]
          BY <3>1 DEF PostDeletion, Goto
        <4> QED
          BY <1>2, <4>1 DEF Locals
      <3>2. CASE TakeOldest(c)
        BY <1>2, <3>2 DEF TakeOldest, Goto, Locals
      <3> QED
        BY <1>6, <3>1, <3>2
    <2> QED
      BY <1>1, <2>1, <2>2, <2>3 DEF ObjectOK
  <1>7. CASE DropTrace(c)
    <2>1. caller[c].victim \in Traces /\ evicted' \subseteq Batches
      BY <1>7, DropFromMap DEF MapInv, Types, OtherTypes
    <2>2. OtherTypes'
      BY <1>7, <2>1 DEF DropTrace, OtherTypes, batcher
    <2>3. \A d \in Calls : caller'[d].t = caller[d].t /\ object' = object
      BY <1>2, <1>7 DEF DropTrace, Goto, Locals
    <2> QED
      BY <1>1, <2>2, <2>3 DEF ObjectOK
  <1>8. CASE ForPolicy(c)
    <2> DEFINE b == <<c, caller[c].t>>
    <2>1. caller[c].at = "policy" /\ caller[c].t # None /\ b \in Batches /\ object[b] \in Batches
      <3>1. caller[c].at = "policy"
        BY <1>8 DEF ForPolicy, At
      <3>2. caller[c].t \in Payload[c] /\ Payload[c] \subseteq Traces
        BY <3>1 DEF MapInv, CallerOK
      <3>3. caller[c].t # None
        BY <3>2
      <3>4. b \in Batches
        BY <3>2 DEF Batches
      <3>5. object[b] \in Batches
        BY <3>3 DEF ObjectOK
      <3> QED BY <3>1, <3>3, <3>4, <3>5
    <2>2. caller[c].p \in Policies
      BY <1>2 DEF Locals
    <2>3. received' \in [Batches -> Seq(Batches)]
      <3>1. CASE received' = received
        BY <3>1 DEF OtherTypes
      <3>2. CASE received' = [received EXCEPT ![object[b]] = Append(@, b)]
        BY <2>1, <3>2 DEF OtherTypes
      <3> QED
        BY <1>8, <3>1, <3>2 DEF ForPolicy
    <2>4. forwarded' \in [Batches -> [Policies -> Nat]]
      <3>1. CASE forwarded' = forwarded
        BY <3>1 DEF OtherTypes
      <3>2. CASE forwarded' = [forwarded EXCEPT ![b][caller[c].p] = @ + 1]
        <4>1. forwarded[b] \in [Policies -> Nat]
          BY <2>1 DEF OtherTypes
        <4>2. [forwarded[b] EXCEPT ![caller[c].p] = @ + 1] \in [Policies -> Nat]
          BY <2>2, <4>1
        <4> QED
          BY <2>1, <3>2, <4>2 DEF OtherTypes
      <3> QED
        BY <1>8, <3>1, <3>2 DEF ForPolicy
    <2>5. OtherTypes'
      BY <1>8, <2>3, <2>4 DEF ForPolicy, OtherTypes, batcher
    <2>6. object' = object
      BY <1>8 DEF ForPolicy
    <2>7. \A d \in Calls : caller'[d].t = caller[d].t \/ caller'[d].t = None
      <3>1. CASE caller' = [caller EXCEPT ![c] = NextPolicy(c)]
        BY <1>2, <2>1, <3>1, NextPolicyKeeps
      <3>2. CASE caller' = [caller EXCEPT ![c] =
                              [caller[c] EXCEPT !.at = "loop", !.t = None, !.p = 1]]
        BY <1>2, <3>2 DEF Locals
      <3> QED
        BY <1>8, <3>1, <3>2 DEF ForPolicy, Goto
    <2> QED
      BY <1>1, <2>5, <2>6, <2>7 DEF ObjectOK
  <1> QED
    BY <1>3, <1>4, <1>5, <1>6, <1>7, <1>8 DEF CallerStep

LEMMA GoroutinesKeepTypes ==
    ASSUME TypeInv, FillCurrentBatch \/ TickerStep \/ UNCHANGED vars
    PROVE  OtherTypes' /\ TickerOK' /\ ObjectOK'
  <1> USE TailSamplingAssumption DEF TypeInv
  <1>1. ObjectOK'
    <2>1. caller' = caller /\ object' = object
      BY DEF FillCurrentBatch, TickerStep, Tick, LoadTrace, Evaluate, WriteDecision,
             ForwardReceived, RemoveBatches, vars
    <2> QED
      BY <2>1 DEF ObjectOK
  <1>2. ticker \in Ticking /\ ticker.p \in Policies
    BY DEF OtherTypes, Ticking
  <1>3. CASE FillCurrentBatch
    <2>1. /\ pendingIds # <<>> /\ pendingIds \in Seq(Traces) /\ currentBatch \in Seq(Traces)
          /\ pendingIds' = Tail(pendingIds)
          /\ currentBatch' = Append(currentBatch, Head(pendingIds))
      BY <1>3 DEF FillCurrentBatch, OtherTypes
    <2>2. /\ pendingIds' \in Seq(Traces) /\ Len(pendingIds') = Len(pendingIds) - 1
          /\ Head(pendingIds) \in Traces
      BY <2>1, Tailed
    <2>3. currentBatch' \in Seq(Traces) /\ Len(pendingIds') <= ChannelSize + 1
      BY <2>1, <2>2, Appended DEF OtherTypes
    <2> QED
      BY <1>1, <1>3, <2>2, <2>3 DEF FillCurrentBatch, OtherTypes, TickerOK, shared
  <1>4. CASE Tick
    <2>1. /\ batches' = Append(Tail(batches), currentBatch) /\ currentBatch' = <<>>
          /\ batches # <<>> /\ batches \in Seq(Seq(Traces)) /\ currentBatch \in Seq(Traces)
          /\ ticker' = [ticker EXCEPT !.ids = Head(batches)]
      BY <1>4 DEF Tick, OtherTypes
    <2>2. /\ Tail(batches) \in Seq(Seq(Traces)) /\ Len(Tail(batches)) = Len(batches) - 1
          /\ Head(batches) \in Seq(Traces)
      BY <2>1, Tailed
    <2>3. batches' \in Seq(Seq(Traces)) /\ Len(batches') = NumBatches
      <3>1. /\ Append(Tail(batches), currentBatch) \in Seq(Seq(Traces))
            /\ Len(Append(Tail(batches), currentBatch)) = Len(Tail(batches)) + 1
        BY <2>1, <2>2, Appended
      <3> QED
        BY <2>1, <2>2, <3>1 DEF OtherTypes
    <2>4. ticker' \in Ticking /\ ticker'.at = ticker.at /\ ticker'.o = ticker.o /\ ticker'.p = ticker.p
      BY <1>2, <2>1, <2>2 DEF Ticking
    <2>5. age' \in [Batches -> 0..(NumBatches + 1)]
      <3>1. age' = [o \in Batches |-> IF object[o] = o /\ age[o] <= NumBatches
                                      THEN age[o] + 1 ELSE age[o]]
        BY <1>4 DEF Tick
      <3>2. \A o \in Batches : age[o] \in 0..(NumBatches + 1)
        BY DEF OtherTypes
      <3>3. \A o \in Batches : (IF object[o] = o /\ age[o] <= NumBatches
                                THEN age[o] + 1 ELSE age[o]) \in 0..(NumBatches + 1)
        BY <3>2
      <3> QED
        BY <3>1, <3>3
    <2>6. currentBatch' \in Seq(Traces)
      BY <2>1
    <2>7. OtherTypes'
      BY <1>4, <2>3, <2>4, <2>5, <2>6 DEF Tick, OtherTypes, shared
    <2> QED
      BY <1>1, <2>4, <2>7 DEF TickerOK
  <1>5. CASE LoadTrace
    <2> DEFINE o == idToTrace[Head(ticker.ids)]
    <2>1. /\ ticker.at = "load" /\ ticker.ids # <<>> /\ ticker.ids \in Seq(Traces)
          /\ ticker' = IF o = None THEN [ticker EXCEPT !.ids = Tail(@)]
                       ELSE [ticker EXCEPT !.at = "evaluate", !.ids = Tail(@), !.o = o]
      BY <1>2, <1>5 DEF LoadTrace, Ticking
    <2>2. Tail(ticker.ids) \in Seq(Traces) /\ Head(ticker.ids) \in Traces
      BY <2>1, Tailed
    <2>3. o \in Batches \cup {None}
      BY <2>2 DEF MapInv, Types
    <2> HIDE DEF o
    <2>4. ticker' \in Ticking /\ TickerOK'
      <3>1. CASE o = None
        <4>1. ticker' = [ticker EXCEPT !.ids = Tail(@)]
          BY <2>1, <3>1
        <4>2. /\ ticker' \in Ticking /\ ticker'.at = ticker.at /\ ticker'.o = ticker.o
              /\ ticker'.p = ticker.p
          BY <1>2, <2>2, <4>1 DEF Ticking
        <4> QED
          BY <4>2 DEF TickerOK
      <3>2. CASE o # None
        <4>1. ticker' = [ticker EXCEPT !.at = "evaluate", !.ids = Tail(@), !.o = o]
          BY <2>1, <3>2
        <4>2. ticker' \in Ticking /\ ticker'.at = "evaluate" /\ ticker'.o = o
          BY <1>2, <2>2, <2>3, <4>1 DEF Ticking
        <4> QED
          BY <2>3, <3>2, <4>2 DEF TickerOK
      <3> QED
        BY <3>1, <3>2
    <2> QED
      BY <1>1, <1>5, <2>4 DEF LoadTrace, OtherTypes, shared, batcher
  <1>6. CASE Evaluate
    <2>1. ticker.at = "evaluate" /\ ticker.o \in Batches
      BY <1>6 DEF Evaluate, TickerOK
    <2>2. PICK r \in Decision : ticker' = [ticker EXCEPT !.at = "assign", !.result = r]
      BY <1>6 DEF Evaluate, EvaluateAlways, EvaluateAttribute, EvaluateRate, Decision
    <2>3. ticker' \in Ticking /\ ticker'.at = "assign" /\ ticker'.o = ticker.o
      BY <1>2, <2>2 DEF Ticking
    <2>4. inSecond' \in [Policies -> Nat]
      <3>1. CASE inSecond' = inSecond
        BY <3>1 DEF OtherTypes
      <3>2. CASE EvaluateRate
        <4>1. inSecond[ticker.p] \in Nat /\ spanCount[ticker.o] \in Nat
          BY <1>2, <2>1 DEF OtherTypes
        <4>2. PICK n \in Nat : inSecond' = [inSecond EXCEPT ![ticker.p] = n]
          <5>1. PICK before \in {0, inSecond[ticker.p]} :
                    inSecond' = [inSecond EXCEPT ![ticker.p] =
                        IF before + spanCount[ticker.o] < SpansPerSecond
                        THEN before + spanCount[ticker.o] ELSE before]
            BY <3>2 DEF EvaluateRate
          <5>2. before \in Nat /\ before + spanCount[ticker.o] \in Nat
            BY <4>1, <5>1
          <5> QED
            BY <5>1, <5>2
        <4> QED
          BY <1>2, <4>2 DEF OtherTypes
      <3> QED
        BY <1>6, <3>1, <3>2 DEF Evaluate, EvaluateAlways, EvaluateAttribute
    <2>5. OtherTypes'
      BY <1>6, <2>3, <2>4 DEF Evaluate, OtherTypes, shared, batcher
    <2> QED
      BY <1>1, <2>1, <2>3, <2>5 DEF TickerOK
  <1>7. CASE WriteDecision
    <2>1. ticker.at = "assign" /\ ticker.o \in Batches /\ ticker.result \in Decision
      BY <1>2, <1>7 DEF WriteDecision, TickerOK, Ticking
    <2>2. decisions' = [decisions EXCEPT ![ticker.o][ticker.p] = ticker.result]
      BY <1>7 DEF WriteDecision
    <2>3. decisions' \in [Batches -> [Policies -> Decision]]
      BY <1>2, <2>1, <2>2 DEF OtherTypes
    <2>4. ticker' \in Ticking /\ ticker'.at # "load" /\ ticker'.o = ticker.o
      <3>1. CASE ticker' = AfterPolicy
        BY <3>1, AfterPolicyKeeps
      <3>2. CASE ticker' = [ticker EXCEPT !.at = "copy"]
        BY <1>2, <3>2 DEF Ticking
      <3> QED
        BY <1>7, <3>1, <3>2 DEF WriteDecision
    <2>5. OtherTypes'
      BY <1>7, <2>3, <2>4 DEF WriteDecision, OtherTypes, batcher
    <2> QED
      BY <1>1, <2>1, <2>4, <2>5 DEF TickerOK
  <1>8. CASE ForwardReceived
    <2>1. ticker.at = "copy" /\ ticker.o \in Batches /\ ticker' = AfterPolicy
      BY <1>8 DEF ForwardReceived, TickerOK
    <2> DEFINE copies(b) == {i \in DOMAIN received[ticker.o] : received[ticker.o][i] = b}
    <2>2. forwarded' = [b \in Batches |-> [forwarded[b] EXCEPT ![ticker.p] =
                                             @ + Cardinality(copies(b))]]
      BY <1>8 DEF ForwardReceived
    <2>3. \A b \in Batches : Cardinality(copies(b)) \in Nat
      <3> TAKE b \in Batches
      <3>0. received[ticker.o] \in Seq(Batches)
        BY <2>1 DEF OtherTypes
      <3>1. copies(b) \in SUBSET (1 .. Len(received[ticker.o])) /\ Len(received[ticker.o]) \in Nat
        BY <3>0
      <3>2. IsFiniteSet(1 .. Len(received[ticker.o]))
        BY <3>1, 1 \in Int, FS_Interval
      <3> HIDE DEF copies
      <3>3. IsFiniteSet(copies(b))
        BY <3>1, <3>2, FS_Subset
      <3> QED
        BY <3>3, FS_CardinalityType
    <2> HIDE DEF copies
    <2>4. \A b \in Batches :
              [forwarded[b] EXCEPT ![ticker.p] = @ + Cardinality(copies(b))] \in [Policies -> Nat]
      <3> TAKE b \in Batches
      <3>1. forwarded[b] \in [Policies -> Nat] /\ Cardinality(copies(b)) \in Nat
        BY <2>3 DEF OtherTypes
      <3> QED
        BY <1>2, <3>1
    <2>5. forwarded' \in [Batches -> [Policies -> Nat]]
      BY <2>2, <2>4
    <2>6. ticker' \in Ticking /\ ticker'.at # "load" /\ ticker'.o = ticker.o
      BY <2>1, AfterPolicyKeeps
    <2>7. OtherTypes'
      BY <1>8, <2>5, <2>6 DEF ForwardReceived, OtherTypes, shared, batcher
    <2> QED
      BY <1>1, <2>1, <2>6, <2>7 DEF TickerOK
  <1>9. CASE RemoveBatches
    <2>1. ticker.o \in Batches /\ ticker' = [ticker EXCEPT !.at = "load", !.o = None, !.p = 1]
      BY <1>9 DEF RemoveBatches, TickerOK
    <2>2. received' \in [Batches -> Seq(Batches)]
      BY <1>9, <2>1 DEF RemoveBatches, OtherTypes
    <2>3. ticker' \in Ticking /\ ticker'.at = "load" /\ ticker'.o = None /\ ticker'.p = 1
      BY <1>2, <2>1, PolicyOne DEF Ticking
    <2>4. OtherTypes'
      BY <1>9, <2>2, <2>3 DEF RemoveBatches, OtherTypes, batcher
    <2> QED
      BY <1>1, <2>3, <2>4 DEF TickerOK
  <1>10. CASE UNCHANGED vars
    BY <1>1, <1>10 DEF vars, shared, batcher, OtherTypes, TickerOK
  <1> QED
    BY <1>3, <1>4, <1>5, <1>6, <1>7, <1>8, <1>9, <1>10 DEF TickerStep

LEMMA NextTypes == TypeInv /\ [Next]_vars => TypeInv'
  <1> SUFFICES ASSUME TypeInv, [Next]_vars
               PROVE  TypeInv'
    OBVIOUS
  <1>1. MapInv'
    BY NextMap DEF TypeInv
  <1>2. OtherTypes' /\ TickerOK' /\ ObjectOK'
    BY CallersKeepTypes, GoroutinesKeepTypes DEF Next
  <1> QED
    BY <1>1, <1>2 DEF TypeInv

THEOREM TypeInvariance == Spec => []TypeInv
  BY InitTypes, NextTypes, PTL DEF Spec

-----------------------------------------------------------------------------
(* The accounts: what the invariant says about the sizes of the sets. *)

LEMMA OneToOne ==
    ASSUME NEW S, NEW T, IsFiniteSet(T), NEW f \in [S -> T],
           \A x, y \in S : f[x] = f[y] => x = y
    PROVE  Cardinality(S) <= Cardinality(T)
  <1>1. f \in Injection(S, T)
    BY Fun_IsInj
  <1> QED
    BY <1>1, FS_Injection

LEMMA ImageBound ==
    ASSUME NEW S, IsFiniteSet(S), NEW f, DOMAIN f = S, f = [x \in S |-> f[x]]
    PROVE  /\ IsFiniteSet({f[x] : x \in S})
           /\ Cardinality({f[x] : x \in S}) <= Cardinality(S)
  <1> DEFINE T == {f[x] : x \in S}
  <1>1. f \in [S -> T] /\ \A y \in T : \E x \in S : f[x] = y
    OBVIOUS
  <1> HIDE DEF T
  <1>2. f \in Surjection(S, T)
    BY <1>1, Fun_IsSurj
  <1>3. IsFiniteSet(T) /\ Cardinality(T) <= Cardinality(S)
    BY <1>2, FS_Surjection
  <1> QED
    BY <1>3 DEF T

LEMMA DisjointSum ==
    ASSUME NEW S, NEW T, IsFiniteSet(S), IsFiniteSet(T), S \cap T = {}
    PROVE  IsFiniteSet(S \cup T) /\ Cardinality(S \cup T) = Cardinality(S) + Cardinality(T)
  <1>1. Cardinality(S) \in Nat /\ Cardinality(T) \in Nat
    BY FS_CardinalityType
  <1>2. /\ IsFiniteSet(S \cup T)
        /\ Cardinality(S \cup T) = Cardinality(S) + Cardinality(T) - Cardinality(S \cap T)
    BY FS_Union
  <1>3. Cardinality(S \cap T) = 0
    BY FS_EmptySet
  <1> QED
    BY <1>1, <1>2, <1>3

LEMMA NoneOrOne ==
    ASSUME NEW S, \A x, y \in S : x = y
    PROVE  Cardinality(S) = IF S = {} THEN 0 ELSE 1
  <1>1. CASE S = {}
    BY <1>1, FS_EmptySet
  <1>2. CASE S # {}
    <2>1. PICK x : S = {x}
      BY <1>2
    <2> QED
      BY <1>2, <2>1, FS_Singleton
  <1> QED
    BY <1>1, <1>2

\* No more traces are being added than are on the map.
LEMMA CounterNatural == MapInv => numTracesOnMap \in Nat
  <1> SUFFICES ASSUME MapInv
               PROVE  numTracesOnMap \in Nat
    OBVIOUS
  <1> DEFINE f == [c \in Adding |-> caller[c].t]
  <1>1. Adding \subseteq Creators
    BY DEF Adding, Creators
  <1>2. \A c \in Adding : caller[c].t \in OnMap
    BY <1>1 DEF MapInv, Responsible, News
  <1>3. \A c, d \in Adding : caller[c].t = caller[d].t => c = d
    BY <1>1 DEF MapInv, Apart
  <1>4. f \in [Adding -> OnMap] /\ \A c, d \in Adding : f[c] = f[d] => c = d
    BY <1>2, <1>3
  <1> HIDE DEF f
  <1>5. Cardinality(Adding) <= Cardinality(OnMap)
    BY <1>4, FiniteParts, OneToOne
  <1> QED
    BY <1>5, FiniteParts DEF MapInv, Types, Counted

LEMMA MapBounded == MapInv => Cardinality(OnMap) <= NumTraces + 2 * Cardinality(Creators)
  <1> SUFFICES ASSUME MapInv
               PROVE  Cardinality(OnMap) <= NumTraces + 2 * Cardinality(Creators)
    OBVIOUS
  <1> USE TailSamplingAssumption
  <1>1. IsFiniteSet(InChan) /\ Cardinality(InChan) <= NumTraces /\ Cardinality(InChan) \in Nat
    <2> DEFINE I == 1 .. Len(deleteChan)
               f == [i \in I |-> deleteChan[i]]
    <2>1. Len(deleteChan) \in Nat /\ Len(deleteChan) <= NumTraces
      BY DEF MapInv, Types
    <2>2. IsFiniteSet(I) /\ Cardinality(I) = Len(deleteChan)
      <3>1. IsFiniteSet(1 .. Len(deleteChan)) /\ Cardinality(1 .. Len(deleteChan)) = 
              IF 1 > Len(deleteChan) THEN 0 ELSE Len(deleteChan) - 1 + 1
        BY <2>1, 1 \in Int, Len(deleteChan) \in Int, FS_Interval
      <3> QED
        BY <2>1, <3>1
    <2>3. InChan = {f[i] : i \in I} /\ DOMAIN f = I /\ f = [i \in I |-> f[i]]
      BY DEF InChan, Elements
    <2> HIDE DEF f, I
    <2>4. IsFiniteSet({f[i] : i \in I}) /\ Cardinality({f[i] : i \in I}) <= Cardinality(I)
      BY <2>2, <2>3, ImageBound
    <2>5. Cardinality({f[i] : i \in I}) \in Nat
      BY <2>4, FS_CardinalityType
    <2> QED
      BY <2>1, <2>2, <2>3, <2>4, <2>5
  <1>2. Dropping \in SUBSET Creators
    BY DEF Dropping, Creators
  <1>3. /\ IsFiniteSet(Dropping) /\ Cardinality(Dropping) <= Cardinality(Creators)
        /\ Cardinality(Dropping) \in Nat
    BY <1>2, FiniteParts, FS_Subset, FS_CardinalityType
  <1>4. /\ IsFiniteSet(Victims) /\ Cardinality(Victims) <= Cardinality(Dropping)
        /\ Cardinality(Victims) \in Nat
    <2> DEFINE f == [c \in Dropping |-> caller[c].victim]
    <2>1. Victims = {f[c] : c \in Dropping} /\ DOMAIN f = Dropping /\ f = [c \in Dropping |-> f[c]]
      BY DEF Victims
    <2> HIDE DEF f
    <2>2. /\ IsFiniteSet({f[c] : c \in Dropping})
          /\ Cardinality({f[c] : c \in Dropping}) <= Cardinality(Dropping)
      BY <1>3, <2>1, ImageBound
    <2> QED
      BY <2>1, <2>2, FS_CardinalityType
  <1>5. /\ IsFiniteSet(News) /\ Cardinality(News) <= Cardinality(Creators)
        /\ Cardinality(News) \in Nat
    <2> DEFINE f == [c \in Creators |-> caller[c].t]
    <2>1. News = {f[c] : c \in Creators} /\ DOMAIN f = Creators /\ f = [c \in Creators |-> f[c]]
      BY DEF News
    <2> HIDE DEF f
    <2>2. /\ IsFiniteSet({f[c] : c \in Creators})
          /\ Cardinality({f[c] : c \in Creators}) <= Cardinality(Creators)
      BY <2>1, FiniteParts, ImageBound
    <2> QED
      BY <2>1, <2>2, FS_CardinalityType
  <1>6. /\ InChan \cap Victims = {} /\ (InChan \cup Victims) \cap News = {}
        /\ OnMap = (InChan \cup Victims) \cup News
    BY DEF MapInv, Apart, Responsible
  <1>7. /\ IsFiniteSet(InChan \cup Victims)
        /\ Cardinality(InChan \cup Victims) = Cardinality(InChan) + Cardinality(Victims)
    BY <1>1, <1>4, <1>6, DisjointSum
  <1>8. Cardinality(OnMap) = Cardinality(InChan \cup Victims) + Cardinality(News)
    BY <1>5, <1>6, <1>7, DisjointSum
  <1> QED
    BY <1>1, <1>3, <1>4, <1>5, <1>7, <1>8, FiniteParts

LEMMA OneDeleter ==
    ASSUME MapInv, NEW t \in Traces
    PROVE  Deleters(t) = (IF t \in OnMap THEN 1 ELSE 0)
  <1> USE TailSamplingAssumption
  <1> DEFINE I == {i \in DOMAIN deleteChan : deleteChan[i] = t}
             D == {c \in Calls : caller[c].victim = t}
             N == {c \in Calls : Creating(c) /\ caller[c].t = t}
  <1>1. I = {i \in 1 .. Len(deleteChan) : deleteChan[i] = t}
    BY DEF MapInv, Types
  <1>2. D = {c \in Dropping : caller[c].victim = t}
    BY DEF MapInv, CallerOK, Dropping
  <1>3. N = {c \in Creators : caller[c].t = t}
    BY DEF Creators, Creating
  <1>4. (\A i, j \in I : i = j) /\ (t \in InChan <=> I # {})
    BY <1>1 DEF MapInv, Apart, Distinct, InChan, Elements
  <1>5. (\A c, d \in D : c = d) /\ (t \in Victims <=> D # {})
    BY <1>2 DEF MapInv, Apart, Victims
  <1>6. (\A c, d \in N : c = d) /\ (t \in News <=> N # {})
    BY <1>3 DEF MapInv, Apart, News
  <1>7. Deleters(t) = Cardinality(I) + Cardinality(D) + Cardinality(N)
    BY DEF Deleters
  <1> HIDE DEF I, D, N
  <1>8. /\ Cardinality(I) = (IF t \in InChan THEN 1 ELSE 0)
        /\ Cardinality(D) = (IF t \in Victims THEN 1 ELSE 0)
        /\ Cardinality(N) = (IF t \in News THEN 1 ELSE 0)
    BY <1>4, <1>5, <1>6, NoneOrOne
  <1> QED
    BY <1>7, <1>8 DEF MapInv, Apart, Responsible

\* For any number of calls and traces and any num_traces: each trace on the map has one
\* caller that will delete it and no other trace is deleted, numTracesOnMap lags by the
\* callers that are about to add, and the map has at most num_traces entries and two more
\* for each caller in progress.
THEOREM MapStaysSound == Spec => []MapSound
  <1>1. TypeInv => MapSound
    <2> SUFFICES ASSUME TypeInv
                 PROVE  TypeOK /\ MapAccounted
      BY DEF MapSound
    <2>1. TypeOK
      BY CounterNatural DEF TypeInv, MapInv, Types, OtherTypes, Ticking, Locals, TypeOK
    <2>2. {c \in Calls : At(c, "add")} = Adding /\ {c \in Calls : Creating(c)} = Creators
      BY DEF At, Adding, Creating, Creators
    <2>3. MapInv
      BY DEF TypeInv
    <2>4. \A t \in Traces : Deleters(t) = (IF t \in OnMap THEN 1 ELSE 0)
      BY <2>3, OneDeleter
    <2> QED
      BY <2>1, <2>2, <2>3, <2>4, MapBounded DEF MapInv, Counted, MapAccounted
  <1> QED
    BY <1>1, TypeInvariance, PTL

-----------------------------------------------------------------------------
(***************************************************************************)
(* The TraceData of a trace.  A TraceData is stored under its own name; it *)
(* is on the map until it is evicted.  First: those whose trace had no     *)
(* other that was evicted, the ones the properties below are about.        *)
(***************************************************************************)

First == {o \in Batches : object[o] = o /\ \A d \in evicted : d[2] = o[2] => d = o}
Fresh == {t \in Traces : \A d \in evicted : d[2] # t}

Objects ==
    /\ \A t \in Traces : idToTrace[t] # None =>
          /\ idToTrace[t][2] = t /\ object[idToTrace[t]] = idToTrace[t]
          /\ idToTrace[t] \notin evicted
    /\ \A o \in Batches : object[o] = o => o \in evicted \/ idToTrace[o[2]] = o
    /\ \A b \in Batches : object[b] # None =>
          object[b][2] = b[2] /\ object[object[b]] = object[b]
    /\ \A b \in Batches : object[b] = None =>
          \A p \in Policies : decisions[b][p] = "Pending" /\ forwarded[b][p] = 0
    /\ \A b \in Batches : object[b] # b => \A p \in Policies : decisions[b][p] = "Pending"
    /\ \A o \in evicted : object[o] = o
    /\ ticker.o # None => object[ticker.o] = ticker.o
    /\ \A o \in Batches : \A b \in Elements(received[o]) : object[b] = o

\* A call handles each of its traces once, with the policies in order.
InOrder ==
    \A c \in Calls :
        /\ caller[c].at # "policy" => caller[c].p = 1
        /\ \A t \in Payload[c] :
              (caller[c].at = "idle" \/ t \in caller[c].todo) => object[<<c, t>>] = None

\* The id of a trace is in one place of the batcher at most, until the ticker loads it.
Once(s, t) == \A i, j \in 1 .. Len(s) : s[i] = t /\ s[j] = t => i = j

Single(t, adding, pending, current, pipeline, ids) ==
    /\ Once(pending, t) /\ Once(current, t) /\ Once(ids, t)
    /\ \A k \in 1 .. Len(pipeline) : Once(pipeline[k], t)
    /\ t \in adding => t \notin Elements(pending)
    /\ t \in adding \/ t \in Elements(pending) => t \notin Elements(current)
    /\ t \in adding \/ t \in Elements(pending) \/ t \in Elements(current) =>
          \A k \in 1 .. Len(pipeline) : t \notin Elements(pipeline[k])
    /\ \A k, l \in 1 .. Len(pipeline) :
          t \in Elements(pipeline[k]) /\ t \in Elements(pipeline[l]) => k = l
    /\ t \in Elements(ids) =>
          /\ t \notin adding /\ t \notin Elements(pending) /\ t \notin Elements(current)
          /\ \A k \in 1 .. Len(pipeline) : t \notin Elements(pipeline[k])

Somewhere(t, adding, pending, current, pipeline, ids) ==
    \/ t \in adding \/ t \in Elements(pending) \/ t \in Elements(current) \/ t \in Elements(ids)
    \/ \E k \in 1 .. Len(pipeline) : t \in Elements(pipeline[k])

AddingIds == {caller[c].t : c \in Adding}
Waiting == {t \in Traces : Somewhere(t, AddingIds, pendingIds, currentBatch, batches, ticker.ids)}
Undecided == {o \in Batches : ticker.o # o /\ \A p \in Policies : decisions[o][p] = "Pending"}

Delayed ==
    \A t \in Fresh :
        /\ Single(t, AddingIds, pendingIds, currentBatch, batches, ticker.ids)
        /\ t \in Waiting => idToTrace[t] \in Undecided
        /\ \A k \in 1 .. NumBatches :
              t \in Elements(batches[k]) => age[idToTrace[t]] >= NumBatches + 1 - k
        /\ t \in Elements(ticker.ids) => age[idToTrace[t]] = NumBatches + 1

\* Policies are decided in order, all of them in one visit of the ticker.
Stage ==
    /\ \A o \in First \ {ticker.o} :
          \/ \A p \in Policies : decisions[o][p] = "Pending"
          \/ \A p \in Policies : decisions[o][p] # "Pending"
    /\ ticker.at = "assign" => ticker.result # "Pending"
    /\ ticker.o \in First =>
          \A p \in Policies :
             decisions[ticker.o][p] = "Pending" <=>
                \/ ticker.at \in {"evaluate", "assign"} /\ p >= ticker.p
                \/ ticker.at = "copy" /\ p > ticker.p
    /\ ticker.o \in First /\ ticker.at = "copy" => decisions[ticker.o][ticker.p] = "Sampled"
    /\ ticker.at = "clear" => ticker.p = Len(Policy)
    /\ \A o \in First : o = ticker.o \/ (\E p \in Policies : decisions[o][p] # "Pending")
                          => age[o] = NumBatches + 1

\* Call b[1] is done with policy p for its batch b when it is at another trace or at a
\* later policy.
Keeping == {b \in Batches : object[b] # None /\ b \in Elements(received[object[b]])}

Accounted ==
    {b \in Batches :
        /\ b \in Keeping => caller[b[1]].t # b[2] /\ Once(received[object[b]], b)
        /\ \A p \in Policies :
              /\ decisions[object[b]][p] # "Sampled" => forwarded[b][p] = 0
              /\ caller[b[1]].t # b[2] \/ caller[b[1]].p > p =>
                    /\ decisions[object[b]][p] = "Pending" =>
                          caller[b[1]].t # b[2] /\ b \in Keeping
                    /\ decisions[object[b]][p] = "Sampled" =>
                          \/ forwarded[b][p] >= 1
                          \/ /\ ticker.o = object[b] /\ ticker.at = "copy" /\ ticker.p = p
                             /\ b \in Keeping
        /\ forwarded[b][Len(Policy)] <= 1
        /\ caller[b[1]].t = b[2] => forwarded[b][Len(Policy)] = 0
        /\ b \in Keeping /\ ~(ticker.o = object[b] /\ ticker.at = "clear")
              => forwarded[b][Len(Policy)] = 0}

Kept == \A b \in Batches : object[b] \in First => b \in Accounted

LEMMA OnceAppended ==
    ASSUME NEW S, NEW s \in Seq(S), NEW x \in S, NEW t, Once(s, t), x # t \/ t \notin Elements(s)
    PROVE  Once(Append(s, x), t)
  <1> DEFINE a == Append(s, x)
  <1>1. /\ Len(s) \in Nat /\ Len(a) = Len(s) + 1 /\ a[Len(s) + 1] = x
        /\ \A i \in 1 .. Len(s) : a[i] = s[i]
    OBVIOUS
  <1> HIDE DEF a
  <1> SUFFICES ASSUME NEW i \in 1 .. Len(a), NEW j \in 1 .. Len(a), a[i] = t, a[j] = t
               PROVE  i = j
    BY DEF Once, a
  <1>2. CASE i \in 1 .. Len(s) /\ j \in 1 .. Len(s)
    BY <1>1, <1>2 DEF Once
  <1>3. CASE i = Len(s) + 1 \/ j = Len(s) + 1
    <2>1. x = t /\ t \notin Elements(s)
      BY <1>1, <1>3
    <2>2. \A k \in 1 .. Len(s) : a[k] # t
      BY <1>1, <2>1 DEF Elements
    <2> QED
      BY <1>1, <2>2
  <1> QED
    BY <1>1, <1>2, <1>3

LEMMA OnceTailed ==
    ASSUME NEW S, NEW s \in Seq(S), s # <<>>, NEW t, Once(s, t)
    PROVE  Once(Tail(s), t) /\ (Head(s) = t => t \notin Elements(Tail(s)))
  <1> DEFINE r == Tail(s)
  <1>1. /\ Len(s) \in Nat \ {0} /\ Len(r) = Len(s) - 1 /\ Head(s) = s[1]
        /\ \A i \in 1 .. (Len(s) - 1) : r[i] = s[i + 1] /\ i + 1 \in 1 .. Len(s)
    OBVIOUS
  <1> HIDE DEF r
  <1>2. Once(r, t)
    <2> SUFFICES ASSUME NEW i \in 1 .. Len(r), NEW j \in 1 .. Len(r), r[i] = t, r[j] = t
                 PROVE  i = j
      BY DEF Once
    <2>1. s[i + 1] = t /\ s[j + 1] = t /\ i + 1 \in 1 .. Len(s) /\ j + 1 \in 1 .. Len(s)
      BY <1>1
    <2>2. i + 1 = j + 1
      BY <2>1 DEF Once
    <2> QED
      BY <1>1, <2>2
  <1>3. Head(s) = t => t \notin Elements(r)
    <2> SUFFICES ASSUME Head(s) = t, NEW i \in 1 .. Len(r)
                 PROVE  r[i] # t
      BY DEF Elements
    <2>1. r[i] = s[i + 1] /\ i + 1 \in 1 .. Len(s) /\ 1 \in 1 .. Len(s) /\ i + 1 # 1
      BY <1>1
    <2> QED
      BY <1>1, <2>1 DEF Once
  <1> QED
    BY <1>2, <1>3 DEF r

LEMMA SingleStored ==
    ASSUME NEW t, NEW A, NEW p, NEW c, NEW bs, NEW ids, NEW u, Single(t, A, p, c, bs, ids),
           t = u => ~Somewhere(t, A, p, c, bs, ids)
    PROVE  Single(t, A \cup {u}, p, c, bs, ids)
  <1>1. CASE t = u
    BY <1>1 DEF Single, Somewhere
  <1>2. CASE t # u
    BY <1>2 DEF Single
  <1> QED
    BY <1>1, <1>2

LEMMA SingleAdded ==
    ASSUME NEW t, NEW A, NEW p \in Seq(Traces), NEW c, NEW bs, NEW ids, NEW u \in Traces,
           u \in A, Single(t, A, p, c, bs, ids)
    PROVE  /\ Single(t, A \ {u}, Append(p, u), c, bs, ids)
           /\ Somewhere(t, A \ {u}, Append(p, u), c, bs, ids) => Somewhere(t, A, p, c, bs, ids)
  <1> DEFINE q == Append(p, u)
  <1>1. Elements(q) = Elements(p) \cup {u}
    BY Appended
  <1>2. Once(q, t)
    BY OnceAppended DEF Single
  <1> HIDE DEF q
  <1>3. Single(t, A \ {u}, q, c, bs, ids)
    BY <1>1, <1>2 DEF Single
  <1>4. Somewhere(t, A \ {u}, q, c, bs, ids) => Somewhere(t, A, p, c, bs, ids)
    BY <1>1 DEF Somewhere
  <1> QED
    BY <1>3, <1>4 DEF q

LEMMA SingleFilled ==
    ASSUME NEW t, NEW A, NEW p \in Seq(Traces), NEW c \in Seq(Traces), NEW bs, NEW ids,
           p # <<>>, Single(t, A, p, c, bs, ids)
    PROVE  /\ Single(t, A, Tail(p), Append(c, Head(p)), bs, ids)
           /\ Somewhere(t, A, Tail(p), Append(c, Head(p)), bs, ids)
                 => Somewhere(t, A, p, c, bs, ids)
  <1> DEFINE q == Tail(p)
             u == Head(p)
             d == Append(c, u)
  <1>1. u \in Traces /\ Elements(p) = Elements(q) \cup {u}
    BY Tailed
  <1>2. Once(q, t) /\ (u = t => t \notin Elements(q))
    BY OnceTailed DEF Single
  <1> HIDE DEF q, u
  <1>3. Elements(d) = Elements(c) \cup {u}
    BY <1>1, Appended
  <1>4. Once(d, t)
    BY <1>1, OnceAppended DEF Single
  <1> HIDE DEF d
  <1>5. Single(t, A, q, d, bs, ids)
    BY <1>1, <1>2, <1>3, <1>4 DEF Single
  <1>6. Somewhere(t, A, q, d, bs, ids) => Somewhere(t, A, p, c, bs, ids)
    BY <1>1, <1>3 DEF Somewhere
  <1> QED
    BY <1>5, <1>6 DEF q, u, d

LEMMA SingleLoaded ==
    ASSUME NEW t, NEW A, NEW p, NEW c, NEW bs, NEW ids \in Seq(Traces),
           ids # <<>>, Single(t, A, p, c, bs, ids)
    PROVE  /\ Single(t, A, p, c, bs, Tail(ids))
           /\ Somewhere(t, A, p, c, bs, Tail(ids)) =>
                 Somewhere(t, A, p, c, bs, ids) /\ t # Head(ids)
  <1> DEFINE r == Tail(ids)
             u == Head(ids)
  <1>1. Elements(ids) = Elements(r) \cup {u}
    BY Tailed
  <1>2. Once(r, t) /\ (u = t => t \notin Elements(r))
    BY OnceTailed DEF Single
  <1> HIDE DEF r, u
  <1>3. Single(t, A, p, c, bs, r)
    BY <1>1, <1>2 DEF Single
  <1>4. Somewhere(t, A, p, c, bs, r) => Somewhere(t, A, p, c, bs, ids) /\ t # u
    BY <1>1, <1>2 DEF Somewhere, Single
  <1> QED
    BY <1>3, <1>4 DEF r, u

LEMMA Shifted ==
    ASSUME NEW S, NEW bs \in Seq(S), bs # <<>>, NEW c \in S
    PROVE  LET nb == Append(Tail(bs), c) IN
           /\ Len(bs) \in Nat \ {0} /\ Len(nb) = Len(bs) /\ Head(bs) = bs[1]
           /\ nb[Len(bs)] = c /\ \A k \in 1 .. (Len(bs) - 1) : nb[k] = bs[k + 1]
  <1> DEFINE r == Tail(bs)
  <1>1. /\ r \in Seq(S) /\ Len(bs) \in Nat \ {0} /\ Len(r) = Len(bs) - 1 /\ Head(bs) = bs[1]
        /\ \A k \in 1 .. (Len(bs) - 1) : r[k] = bs[k + 1]
    OBVIOUS
  <1> HIDE DEF r
  <1>2. /\ Len(Append(r, c)) = Len(r) + 1 /\ Append(r, c)[Len(r) + 1] = c
        /\ \A k \in 1 .. Len(r) : Append(r, c)[k] = r[k]
    BY <1>1
  <1> QED
    BY <1>1, <1>2 DEF r

LEMMA SingleTicked ==
    ASSUME NEW t, NEW A, NEW p, NEW c \in Seq(Traces), NEW bs \in Seq(Seq(Traces)),
           bs # <<>>, Single(t, A, p, c, bs, <<>>)
    PROVE  /\ Single(t, A, p, <<>>, Append(Tail(bs), c), Head(bs))
           /\ Somewhere(t, A, p, <<>>, Append(Tail(bs), c), Head(bs))
                 => Somewhere(t, A, p, c, bs, <<>>)
  <1> DEFINE nb == Append(Tail(bs), c)
             n == Len(bs)
             h == Head(bs)
  <1>1. /\ n \in Nat \ {0} /\ Len(nb) = n /\ h = bs[1] /\ nb[n] = c
        /\ \A k \in 1 .. (n - 1) : nb[k] = bs[k + 1]
    BY Shifted
  <1>2. Elements(<<>>) = {} /\ Once(<<>>, t)
    BY DEF Elements, Once
  <1> HIDE DEF nb, h
  <1>3. \A k \in 1 .. n : (k < n /\ k + 1 \in 1 .. n /\ nb[k] = bs[k + 1]) \/ (k = n /\ nb[k] = c)
    BY <1>1
  <1>4. 1 \in 1 .. n
    BY <1>1
  <1>5. \A k \in 1 .. n : Once(nb[k], t)
    BY <1>3 DEF Single
  <1>6. \A k \in 1 .. n : t \in Elements(nb[k]) =>
              \/ t \in Elements(c) /\ k = n
              \/ k + 1 \in 1 .. n /\ t \in Elements(bs[k + 1])
    BY <1>3
  <1>7. \A k, l \in 1 .. n : t \in Elements(nb[k]) /\ t \in Elements(nb[l]) => k = l
    <2> SUFFICES ASSUME NEW k \in 1 .. n, NEW l \in 1 .. n, t \in Elements(nb[k]),
                        t \in Elements(nb[l])
                 PROVE  k = l
      OBVIOUS
    <2>1. CASE t \in Elements(c)
      BY <1>6, <2>1 DEF Single
    <2>2. CASE t \notin Elements(c)
      <3>1. /\ k + 1 \in 1 .. n /\ t \in Elements(bs[k + 1])
            /\ l + 1 \in 1 .. n /\ t \in Elements(bs[l + 1])
        BY <1>6, <2>2
      <3>2. k + 1 = l + 1
        BY <3>1 DEF Single
      <3> QED
        BY <1>1, <3>2
    <2> QED
      BY <2>1, <2>2
  <1>8. t \in Elements(h) => /\ t \notin A /\ t \notin Elements(p) /\ t \notin Elements(c)
                             /\ \A k \in 1 .. n : t \notin Elements(nb[k])
    <2> SUFFICES ASSUME t \in Elements(h)
                 PROVE  /\ t \notin A /\ t \notin Elements(p) /\ t \notin Elements(c)
                        /\ \A k \in 1 .. n : t \notin Elements(nb[k])
      OBVIOUS
    <2>1. t \in Elements(bs[1])
      BY <1>1
    <2>2. t \notin A /\ t \notin Elements(p) /\ t \notin Elements(c)
      BY <1>4, <2>1 DEF Single
    <2>3. \A k \in 1 .. n : k + 1 \in 1 .. n => t \notin Elements(bs[k + 1])
      <3> SUFFICES ASSUME NEW k \in 1 .. n, k + 1 \in 1 .. n, t \in Elements(bs[k + 1])
                   PROVE  FALSE
        OBVIOUS
      <3>1. k + 1 = 1
        BY <1>4, <2>1 DEF Single
      <3> QED
        BY <3>1
    <2> QED
      BY <1>6, <2>2, <2>3
  <1>9. t \in A \/ t \in Elements(p) => \A k \in 1 .. n : t \notin Elements(nb[k])
    BY <1>6 DEF Single
  <1>10. Once(h, t)
    BY <1>1, <1>4 DEF Single
  <1>11. Single(t, A, p, <<>>, nb, h)
    BY <1>1, <1>2, <1>5, <1>7, <1>8, <1>9, <1>10 DEF Single
  <1>12. Somewhere(t, A, p, <<>>, nb, h) => Somewhere(t, A, p, c, bs, <<>>)
    BY <1>1, <1>2, <1>4, <1>6 DEF Somewhere
  <1> QED
    BY <1>11, <1>12 DEF nb, h

-----------------------------------------------------------------------------
(* What leaves the parts of the invariant as they are. *)

LEMMA KeepObjects ==
    ASSUME Objects, UNCHANGED <<idToTrace, object, evicted, decisions, forwarded, received>>,
           ticker'.o = ticker.o
    PROVE  Objects'
  BY DEF Objects

LEMMA FewerFirst ==
    ASSUME object' = object, evicted \subseteq evicted'
    PROVE  First' \subseteq First /\ Fresh' \subseteq Fresh
  BY DEF First, Fresh

LEMMA KeepStage ==
    ASSUME Stage, First' \subseteq First, UNCHANGED <<decisions, age>>,
           ticker'.at = ticker.at, ticker'.o = ticker.o, ticker'.p = ticker.p,
           ticker'.result = ticker.result
    PROVE  Stage'
  BY DEF Stage

LEMMA KeepKept ==
    ASSUME TypeInv, Kept, First' \subseteq First, UNCHANGED <<object, decisions, forwarded, received>>,
           \A c \in Calls : caller'[c].t = caller[c].t /\ caller'[c].p = caller[c].p,
           ticker'.at = ticker.at, ticker'.o = ticker.o, ticker'.p = ticker.p
    PROVE  Kept'
  <1>1. Keeping' = Keeping
    BY DEF Keeping
  <1>2. \A b \in Batches : b[1] \in Calls
    BY DEF Batches
  <1> QED
    BY <1>1, <1>2 DEF Kept, Accounted

LEMMA QuietLocals ==
    ASSUME TypeInv, NEW c \in Calls,
           \/ ConsumeTraces(c) \/ AddToCurrentBatch(c) \/ PostDeletion(c) \/ TakeOldest(c)
           \/ DropTrace(c)
    PROVE  /\ \A d \in Calls : caller'[d].t = caller[d].t /\ caller'[d].p = caller[d].p
           /\ \A d \in Calls \ {c} : caller'[d] = caller[d]
           /\ caller[c].at # "policy" /\ caller'[c].at # "idle"
           /\ caller'[c].todo = IF caller[c].at = "idle" THEN Payload[c] ELSE caller[c].todo
           /\ caller'[c].at = "add" <=> FALSE
  <1>1. caller \in [Calls -> Locals]
    BY DEF TypeInv, MapInv, Types
  <1>2. PICK next :
              /\ caller' = [caller EXCEPT ![c] = next]
              /\ next.t = caller[c].t /\ next.p = caller[c].p
              /\ next.at \in {"loop", "post", "take", "drop", "policy"}
              /\ caller[c].at \in {"idle", "add", "post", "take", "drop"}
              /\ next.todo = IF caller[c].at = "idle" THEN Payload[c] ELSE caller[c].todo
    <2> DEFINE l == caller[c]
    <2>1. l \in Locals
      BY <1>1
    <2>2. CASE ConsumeTraces(c)
      <3>1. caller' = [caller EXCEPT ![c] = [l EXCEPT !.at = "loop", !.todo = Payload[c]]]
            /\ l.at = "idle"
        BY <2>2 DEF ConsumeTraces, At, Goto
      <3> DEFINE m == [l EXCEPT !.at = "loop", !.todo = Payload[c]]
      <3>2. m.t = l.t /\ m.p = l.p /\ m.at = "loop" /\ m.todo = Payload[c]
        BY <2>1 DEF Locals
      <3>3. caller' = [caller EXCEPT ![c] = m]
        BY <3>1
      <3> HIDE DEF m
      <3> QED
        BY <3>1, <3>2, <3>3
    <2>3. CASE \E step \in {"post", "take", "policy"} :
                  /\ caller' = [caller EXCEPT ![c] = [l EXCEPT !.at = step]]
                  /\ l.at \in {"add", "post"}
      <3>1. PICK step \in {"post", "take", "policy"} :
                  /\ caller' = [caller EXCEPT ![c] = [l EXCEPT !.at = step]]
                  /\ l.at \in {"add", "post"}
        BY <2>3
      <3> DEFINE m == [l EXCEPT !.at = step]
      <3>2. m.t = l.t /\ m.p = l.p /\ m.at = step /\ m.todo = l.todo
        BY <2>1 DEF Locals
      <3>3. caller' = [caller EXCEPT ![c] = m]
        BY <3>1
      <3> HIDE DEF m
      <3> QED
        BY <3>1, <3>2, <3>3
    <2>4. CASE TakeOldest(c)
      <3>1. /\ caller' = [caller EXCEPT ![c] = [l EXCEPT !.at = "drop", !.victim = Head(deleteChan)]]
            /\ l.at = "take"
        BY <2>4 DEF TakeOldest, At, Goto
      <3> DEFINE m == [l EXCEPT !.at = "drop", !.victim = Head(deleteChan)]
      <3>2. m.t = l.t /\ m.p = l.p /\ m.at = "drop" /\ m.todo = l.todo
        BY <2>1 DEF Locals
      <3>3. caller' = [caller EXCEPT ![c] = m]
        BY <3>1
      <3> HIDE DEF m
      <3> QED
        BY <3>1, <3>2, <3>3
    <2>5. CASE DropTrace(c)
      <3>1. /\ caller' = [caller EXCEPT ![c] = [l EXCEPT !.at = "post", !.victim = None]]
            /\ l.at = "drop"
        BY <2>5 DEF DropTrace, At, Goto
      <3> DEFINE m == [l EXCEPT !.at = "post", !.victim = None]
      <3>2. m.t = l.t /\ m.p = l.p /\ m.at = "post" /\ m.todo = l.todo
        BY <2>1 DEF Locals
      <3>3. caller' = [caller EXCEPT ![c] = m]
        BY <3>1
      <3> HIDE DEF m
      <3> QED
        BY <3>1, <3>2, <3>3
    <2>6. CASE AddToCurrentBatch(c)
      BY <2>3, <2>6 DEF AddToCurrentBatch, At, Goto
    <2>7. CASE PostDeletion(c)
      BY <2>3, <2>7 DEF PostDeletion, At, Goto
    <2> QED
      BY <2>2, <2>4, <2>5, <2>6, <2>7
  <1>3. caller'[c] = next
    BY <1>1, <1>2
  <1>4. \A d \in Calls \ {c} : caller'[d] = caller[d]
    BY <1>1, <1>2
  <1> QED
    BY <1>2, <1>3, <1>4

LEMMA QuietOrder ==
    ASSUME TypeInv, InOrder, NEW c \in Calls, object' = object,
           \/ ConsumeTraces(c) \/ AddToCurrentBatch(c) \/ PostDeletion(c) \/ TakeOldest(c)
           \/ DropTrace(c)
    PROVE  InOrder'
  <1> SUFFICES ASSUME NEW d \in Calls
               PROVE  /\ caller'[d].at # "policy" => caller'[d].p = 1
                      /\ \A t \in Payload[d] :
                           (caller'[d].at = "idle" \/ t \in caller'[d].todo) => object[<<d, t>>] = None
    BY DEF InOrder
  <1>1. CASE d = c
    BY <1>1, QuietLocals DEF InOrder
  <1>2. CASE d # c
    BY <1>2, QuietLocals DEF InOrder
  <1> QED
    BY <1>1, <1>2

LEMMA KeepDelayed ==
    ASSUME Delayed, AddingIds' = AddingIds, ticker'.ids = ticker.ids, ticker'.o = ticker.o,
           UNCHANGED <<pendingIds, currentBatch, batches, decisions, age>>,
           Fresh' \subseteq Fresh, \A t \in Fresh' : idToTrace'[t] = idToTrace[t]
    PROVE  Delayed'
  <1>1. Waiting' = Waiting /\ Undecided' = Undecided
    BY DEF Waiting, Undecided
  <1> QED
    BY <1>1 DEF Delayed

SampleParts == Objects /\ InOrder /\ Delayed /\ Stage /\ Kept

LEMMA PostTakeSample ==
    ASSUME TypeInv, SampleParts, NEW c \in Calls,
           ConsumeTraces(c) \/ PostDeletion(c) \/ TakeOldest(c)
    PROVE  SampleParts'
  <1>1. /\ UNCHANGED <<shared, batcher, ticker, forwarded, object, age, evicted>>
        /\ caller[c].at # "add"
    BY DEF ConsumeTraces, PostDeletion, TakeOldest, At
  <1>2. /\ \A d \in Calls : caller'[d].t = caller[d].t /\ caller'[d].p = caller[d].p
        /\ \A d \in Calls \ {c} : caller'[d] = caller[d]
        /\ caller'[c].at # "add"
    BY QuietLocals
  <1>3. Adding' = Adding
    BY <1>1, <1>2 DEF Adding
  <1>4. AddingIds' = AddingIds
    BY <1>2, <1>3 DEF AddingIds, Adding
  <1>5. First' \subseteq First /\ Fresh' \subseteq Fresh
    BY <1>1, FewerFirst
  <1>6. Objects'
    BY <1>1, KeepObjects DEF SampleParts, shared
  <1>7. InOrder'
    BY <1>1, QuietOrder DEF SampleParts
  <1>8. Delayed'
    BY <1>1, <1>4, <1>5, KeepDelayed DEF SampleParts, shared, batcher
  <1>9. Stage'
    BY <1>1, <1>5, KeepStage DEF SampleParts, shared
  <1>10. Kept'
    BY <1>1, <1>2, <1>5, KeepKept DEF SampleParts, shared
  <1> QED
    BY <1>6, <1>7, <1>8, <1>9, <1>10 DEF SampleParts

LEMMA AddSample ==
    ASSUME TypeInv, SampleParts, NEW c \in Calls, AddToCurrentBatch(c)
    PROVE  SampleParts'
  <1> DEFINE u == caller[c].t
  <1>1. /\ UNCHANGED <<shared, currentBatch, batches, ticker, forwarded, object, age, evicted>>
        /\ caller[c].at = "add" /\ pendingIds' = Append(pendingIds, u)
    BY DEF AddToCurrentBatch, At
  <1>2. /\ \A d \in Calls : caller'[d].t = caller[d].t /\ caller'[d].p = caller[d].p
        /\ \A d \in Calls \ {c} : caller'[d] = caller[d]
        /\ caller'[c].at # "add"
    BY QuietLocals
  <1>3. Adding' = Adding \ {c} /\ c \in Adding /\ Adding \subseteq Creators
    BY <1>1, <1>2 DEF Adding, Creators
  <1>4. \A d \in Adding' : caller'[d].t = caller[d].t /\ caller[d].t # u
    BY <1>2, <1>3 DEF TypeInv, MapInv, Apart, Adding
  <1>5. AddingIds' = AddingIds \ {u} /\ u \in AddingIds
    BY <1>3, <1>4 DEF AddingIds
  <1>6. u \in Traces
    BY <1>1, TailSamplingAssumption DEF TypeInv, MapInv, CallerOK
  <1>7. First' \subseteq First /\ Fresh' \subseteq Fresh
    BY <1>1, FewerFirst
  <1>8. Delayed'
    <2> HIDE DEF u
    <2>1. pendingIds \in Seq(Traces)
      BY DEF TypeInv, OtherTypes
    <2>2. Undecided' = Undecided /\ ticker' = ticker
      BY <1>1 DEF Undecided, shared
    <2>3. \A t \in Fresh : Single(t, AddingIds, pendingIds, currentBatch, batches, ticker.ids)
      BY DEF SampleParts, Delayed
    <2>4. \A t \in Fresh : /\ Single(t, AddingIds', pendingIds', currentBatch, batches, ticker.ids)
                           /\ t \in Waiting' => t \in Waiting
      <3> SUFFICES ASSUME NEW t \in Fresh
                   PROVE  /\ Single(t, AddingIds', pendingIds', currentBatch, batches, ticker.ids)
                          /\ t \in Waiting' => t \in Waiting
        OBVIOUS
      <3>1. /\ Single(t, AddingIds', pendingIds', currentBatch, batches, ticker.ids)
            /\ Somewhere(t, AddingIds', pendingIds', currentBatch, batches, ticker.ids) =>
                  Somewhere(t, AddingIds, pendingIds, currentBatch, batches, ticker.ids)
        BY <1>1, <1>5, <1>6, <2>1, <2>3, SingleAdded
      <3> QED
        BY <1>1, <3>1 DEF Waiting
    <2> QED
      BY <1>1, <1>7, <2>2, <2>4 DEF SampleParts, Delayed, shared
  <1>9. Objects'
    BY <1>1, KeepObjects DEF SampleParts, shared
  <1>10. InOrder'
    BY <1>1, QuietOrder DEF SampleParts
  <1>11. Stage'
    BY <1>1, <1>7, KeepStage DEF SampleParts, shared
  <1>12. Kept'
    BY <1>1, <1>2, <1>7, KeepKept DEF SampleParts, shared
  <1> QED
    BY <1>8, <1>9, <1>10, <1>11, <1>12 DEF SampleParts

LEMMA DropSample ==
    ASSUME TypeInv, SampleParts, NEW c \in Calls, DropTrace(c)
    PROVE  SampleParts'
  <1> DEFINE v == caller[c].victim
             o == idToTrace[v]
  <1>1. /\ UNCHANGED <<decisions, received, batcher, ticker, forwarded, object, age>>
        /\ caller[c].at # "add"
    BY DEF DropTrace, At
  <1>2. /\ v \in Traces /\ o # None /\ idToTrace' = [idToTrace EXCEPT ![v] = None]
        /\ evicted' = evicted \cup {o}
    BY DropFromMap DEF TypeInv
  <1> HIDE DEF v
  <1>3. o \in Batches /\ o[2] = v /\ object[o] = o /\ o \notin evicted
    BY <1>2 DEF TypeInv, MapInv, Types, SampleParts, Objects
  <1>4. \A t \in Traces : idToTrace'[t] = IF t = v THEN None ELSE idToTrace[t]
    BY <1>2 DEF TypeInv, MapInv, Types
  <1> HIDE DEF o
  <1>5. /\ \A d \in Calls : caller'[d].t = caller[d].t /\ caller'[d].p = caller[d].p
        /\ \A d \in Calls \ {c} : caller'[d] = caller[d]
        /\ caller'[c].at # "add"
    BY QuietLocals
  <1>6. Adding' = Adding
    BY <1>1, <1>5 DEF Adding
  <1>7. AddingIds' = AddingIds
    BY <1>5, <1>6 DEF AddingIds, Adding
  <1>8. First' \subseteq First /\ Fresh' \subseteq Fresh
    BY <1>1, <1>2, FewerFirst
  <1>9. \A t \in Fresh' : idToTrace'[t] = idToTrace[t]
    BY <1>2, <1>3, <1>4 DEF Fresh
  <1>10. Objects'
    <2>1. \A t \in Traces : idToTrace'[t] # None =>
             /\ idToTrace'[t][2] = t /\ object'[idToTrace'[t]] = idToTrace'[t]
             /\ idToTrace'[t] \notin evicted'
      BY <1>1, <1>2, <1>3, <1>4 DEF SampleParts, Objects
    <2>2. \A b \in Batches : object'[b] = b => b \in evicted' \/ idToTrace'[b[2]] = b
      <3> SUFFICES ASSUME NEW b \in Batches, object[b] = b, b \notin evicted'
                   PROVE  idToTrace'[b[2]] = b
        BY <1>1
      <3>1. idToTrace[b[2]] = b /\ b # o /\ b[2] \in Traces
        BY <1>2 DEF SampleParts, Objects, Batches
      <3>2. b[2] # v
        BY <3>1 DEF o
      <3> QED
        BY <1>4, <3>1, <3>2
    <2>3. \A b \in evicted' : object'[b] = b
      BY <1>1, <1>2, <1>3 DEF SampleParts, Objects
    <2> QED
      BY <1>1, <2>1, <2>2, <2>3 DEF SampleParts, Objects
  <1>11. InOrder'
    BY <1>1, QuietOrder DEF SampleParts
  <1>12. Delayed'
    BY <1>1, <1>7, <1>8, <1>9, KeepDelayed DEF SampleParts, batcher
  <1>13. Stage'
    BY <1>1, <1>8, KeepStage DEF SampleParts
  <1>14. Kept'
    BY <1>1, <1>5, <1>8, KeepKept DEF SampleParts
  <1> QED
    BY <1>10, <1>11, <1>12, <1>13, <1>14 DEF SampleParts

LEMMA NoneIsNoBatch == None \notin Batches
  BY DEF None, Batches

LEMMA StoreSample ==
    ASSUME TypeInv, SampleParts, NEW c \in Calls, NEW t \in Traces, LoadOrStore(c, t)
    PROVE  SampleParts'
  <1> USE TailSamplingAssumption
  <1> DEFINE b == <<c, t>>
             loaded == idToTrace[t] # None
             o == IF loaded THEN idToTrace[t] ELSE b
  <1>1. /\ UNCHANGED <<decisions, received, batcher, ticker, forwarded, age, evicted>>
        /\ idToTrace' = [idToTrace EXCEPT ![t] = o]
        /\ object' = [object EXCEPT ![b] = o]
        /\ caller[c].at = "loop" /\ t \in caller[c].todo
    BY DEF LoadOrStore, At
  <1>2. t \in Payload[c] /\ b \in Batches /\ caller[c].t = None /\ caller[c].p = 1
    BY <1>1 DEF TypeInv, MapInv, CallerOK, SampleParts, InOrder, Batches
  <1>3. object[b] = None /\ b # None /\ b[2] = t /\ b[1] = c
    BY <1>1, <1>2 DEF SampleParts, InOrder, None
  <1>4. /\ \A d \in Calls \ {c} : caller'[d] = caller[d]
        /\ caller'[c].t = t /\ caller'[c].p = 1 /\ caller'[c].todo = caller[c].todo \ {t}
        /\ caller'[c].at = IF loaded THEN "policy" ELSE "add"
    <2>1. caller \in [Calls -> Locals]
      BY DEF TypeInv, MapInv, Types
    <2>2. caller' = [caller EXCEPT ![c] = [caller[c] EXCEPT
                        !.at = IF loaded THEN "policy" ELSE "add", !.t = t, !.todo = @ \ {t}]]
      BY DEF LoadOrStore, Goto
    <2> HIDE DEF loaded
    <2> QED
      BY <1>2, <2>1, <2>2 DEF Locals
  <1>5. /\ \A x \in Batches : object'[x] = IF x = b THEN o ELSE object[x]
        /\ \A u \in Traces : idToTrace'[u] = IF u = t THEN o ELSE idToTrace[u]
    <2> HIDE DEF o, b
    <2> QED
      BY <1>1 DEF TypeInv, MapInv, Types
  <1>6. /\ o \in Batches /\ o # None /\ o[2] = t /\ o \notin evicted
        /\ loaded => object[o] = o /\ o = idToTrace[t]
        /\ ~loaded => o = b /\ idToTrace[t] = None
    <2>1. CASE loaded
      BY <2>1 DEF TypeInv, MapInv, Types, SampleParts, Objects
    <2>2. CASE ~loaded
      <3>1. b \notin evicted
        BY <1>3 DEF SampleParts, Objects
      <3> QED
        BY <1>2, <1>3, <2>2, <3>1
    <2> QED
      BY <2>1, <2>2
  <1> HIDE DEF b, loaded, o
  <1>7. object'[o] = o
    BY <1>2, <1>5, <1>6
  <1>8. ticker' = ticker /\ ticker.o # b
    BY <1>1, <1>3 DEF SampleParts, Objects
  <1>9. \A p \in Policies : decisions[b][p] = "Pending" /\ forwarded[b][p] = 0
    BY <1>2, <1>3 DEF SampleParts, Objects
  <1>10. \A x \in Batches : received[x] \in Seq(Batches) /\ b \notin Elements(received[x])
    <2> TAKE x \in Batches
    <2>1. received[x] \in Seq(Batches)
      BY DEF TypeInv, OtherTypes
    <2>2. \A y \in Elements(received[x]) : object[y] = x
      BY DEF SampleParts, Objects
    <2> QED
      BY <1>3, <2>1, <2>2, NoneIsNoBatch
  <1>11. \A x \in Batches : \A y \in Elements(received[x]) : y \in Batches /\ y # b
    <2> SUFFICES ASSUME NEW x \in Batches, NEW i \in 1 .. Len(received[x])
                 PROVE  received[x][i] \in Batches
      BY <1>10 DEF Elements
    <2> QED
      BY <1>10
  <1>12. Objects'
    <2>1. \A u \in Traces : idToTrace'[u] # None =>
             /\ idToTrace'[u][2] = u /\ object'[idToTrace'[u]] = idToTrace'[u]
             /\ idToTrace'[u] \notin evicted'
      <3> SUFFICES ASSUME NEW u \in Traces, idToTrace'[u] # None
                   PROVE  /\ idToTrace'[u][2] = u /\ object'[idToTrace'[u]] = idToTrace'[u]
                          /\ idToTrace'[u] \notin evicted
        BY <1>1
      <3>1. CASE u = t
        BY <1>5, <1>6, <1>7, <3>1
      <3>2. CASE u # t
        <4> DEFINE e == idToTrace[u]
        <4>1. idToTrace'[u] = e /\ e # None /\ e \in Batches
          BY <1>5, <3>2 DEF TypeInv, MapInv, Types
        <4>2. e[2] = u /\ object[e] = e /\ e \notin evicted
          BY <4>1 DEF SampleParts, Objects
        <4> HIDE DEF e
        <4>3. object'[e] = e
          BY <1>3, <1>5, <4>1, <4>2
        <4> QED
          BY <4>1, <4>2, <4>3
      <3> QED
        BY <3>1, <3>2
    <2>2. \A x \in Batches : object'[x] = x => x \in evicted' \/ idToTrace'[x[2]] = x
      <3> SUFFICES ASSUME NEW x \in Batches, object'[x] = x, x \notin evicted
                   PROVE  idToTrace'[x[2]] = x
        BY <1>1
      <3>1. CASE x = b
        BY <1>3, <1>5, <1>6, <3>1
      <3>2. CASE x # b
        <4>1. object[x] = x /\ idToTrace[x[2]] = x /\ x[2] \in Traces /\ x # None
          BY <1>5, <3>2, NoneIsNoBatch DEF SampleParts, Objects, Batches
        <4> QED
          BY <1>5, <1>6, <4>1
      <3> QED
        BY <3>1, <3>2
    <2>3. \A x \in Batches : object'[x] # None =>
             object'[x][2] = x[2] /\ object'[object'[x]] = object'[x]
      <3> SUFFICES ASSUME NEW x \in Batches, object'[x] # None
                   PROVE  object'[x][2] = x[2] /\ object'[object'[x]] = object'[x]
        OBVIOUS
      <3>1. CASE x = b
        BY <1>3, <1>5, <1>6, <1>7, <3>1
      <3>2. CASE x # b
        <4> DEFINE e == object[x]
        <4>1. object'[x] = e /\ e # None /\ e \in Batches
          BY <1>5, <3>2 DEF TypeInv, MapInv, Types
        <4>2. e[2] = x[2] /\ object[e] = e
          BY <4>1 DEF SampleParts, Objects
        <4> HIDE DEF e
        <4>3. object'[e] = e
          BY <1>3, <1>5, <4>1, <4>2
        <4> QED
          BY <4>1, <4>2, <4>3
      <3> QED
        BY <3>1, <3>2
    <2>4. \A x \in Batches : object'[x] = None =>
             \A p \in Policies : decisions'[x][p] = "Pending" /\ forwarded'[x][p] = 0
      BY <1>1, <1>5, <1>6 DEF SampleParts, Objects
    <2>5. \A x \in Batches : object'[x] # x => \A p \in Policies : decisions'[x][p] = "Pending"
      BY <1>1, <1>5, <1>9 DEF SampleParts, Objects
    <2>6. \A e \in evicted' : object'[e] = e
      BY <1>1, <1>3, <1>5 DEF SampleParts, Objects, TypeInv, OtherTypes
    <2>7. ticker'.o # None => object'[ticker'.o] = ticker'.o
      <3>1. ticker.o # None => ticker.o \in Batches
        BY DEF TypeInv, TickerOK
      <3> QED
        BY <1>5, <1>8, <3>1 DEF SampleParts, Objects
    <2>8. \A x \in Batches : \A y \in Elements(received'[x]) : object'[y] = x
      BY <1>1, <1>5, <1>11 DEF SampleParts, Objects
    <2> QED
      BY <2>1, <2>2, <2>3, <2>4, <2>5, <2>6, <2>7, <2>8 DEF Objects
  <1>13. InOrder'
    <2> SUFFICES ASSUME NEW d \in Calls
                 PROVE  /\ caller'[d].at # "policy" => caller'[d].p = 1
                        /\ \A u \in Payload[d] : (caller'[d].at = "idle" \/ u \in caller'[d].todo)
                              => object'[<<d, u>>] = None
      BY DEF InOrder
    <2>1. \A u \in Payload[d] : <<d, u>> \in Batches
      BY DEF Batches
    <2>2. CASE d = c
      BY <1>4, <1>5, <2>1, <2>2 DEF SampleParts, InOrder, b
    <2>3. CASE d # c
      BY <1>4, <1>5, <2>1, <2>3 DEF SampleParts, InOrder, b
    <2> QED
      BY <2>2, <2>3
  <1>14. Fresh' = Fresh
    BY <1>1 DEF Fresh
  <1>15. First' \subseteq First \cup {b}
    BY <1>1, <1>5 DEF First
  <1>16. Delayed'
    <2>1. CASE loaded
      <3>1. Adding' = Adding
        BY <1>1, <1>4, <2>1 DEF Adding
      <3>2. AddingIds' = AddingIds
        BY <1>1, <1>4, <3>1 DEF AddingIds, Adding
      <3>3. \A u \in Traces : idToTrace'[u] = idToTrace[u]
        BY <1>5, <1>6, <2>1
      <3> QED
        BY <1>1, <1>14, <3>2, <3>3, KeepDelayed DEF SampleParts, Fresh, batcher
    <2>2. CASE ~loaded
      <3>1. Adding' = Adding \cup {c} /\ c \notin Adding
        BY <1>1, <1>4, <2>2 DEF Adding
      <3>2. AddingIds' = AddingIds \cup {t}
        BY <1>4, <3>1 DEF AddingIds, Adding
      <3>3. t \in Fresh => t \notin Waiting
        BY <1>6, <2>2, NoneIsNoBatch DEF SampleParts, Delayed, Undecided
      <3>4. b \in Undecided /\ Undecided' = Undecided
        BY <1>1, <1>2, <1>8, <1>9 DEF Undecided
      <3> SUFFICES ASSUME NEW u \in Fresh
                   PROVE  /\ Single(u, AddingIds', pendingIds', currentBatch', batches', ticker'.ids)
                          /\ u \in Waiting' => idToTrace'[u] \in Undecided'
                          /\ \A k \in 1 .. NumBatches : u \in Elements(batches'[k])
                                => age'[idToTrace'[u]] >= NumBatches + 1 - k
                          /\ u \in Elements(ticker'.ids) => age'[idToTrace'[u]] = NumBatches + 1
        BY <1>14 DEF Delayed
      <3>5. UNCHANGED <<pendingIds, currentBatch, batches, age, ticker>> /\ u \in Traces
        BY <1>1 DEF batcher, Fresh
      <3>6. u = t => ~Somewhere(u, AddingIds, pendingIds, currentBatch, batches, ticker.ids)
        BY <3>3, <3>5 DEF Waiting
      <3>7. Single(u, AddingIds', pendingIds', currentBatch', batches', ticker'.ids)
        BY <3>2, <3>5, <3>6, SingleStored DEF SampleParts, Delayed
      <3>8. u # t => (u \in Waiting' => u \in Waiting)
        BY <3>2, <3>5 DEF Waiting, Somewhere
      <3>9. u \in Waiting' => idToTrace'[u] \in Undecided'
        BY <1>5, <1>6, <2>2, <3>4, <3>5, <3>8 DEF SampleParts, Delayed
      <3>10. u = t => /\ u \notin Elements(ticker.ids)
                      /\ \A k \in 1 .. NumBatches : u \notin Elements(batches[k])
        BY <3>6 DEF Somewhere, TypeInv, OtherTypes
      <3> QED
        BY <1>5, <3>5, <3>7, <3>9, <3>10 DEF SampleParts, Delayed
    <2> QED
      BY <2>1, <2>2
  <1>17. Stage'
    <2>1. \A x \in First' \ {ticker.o} : \/ \A p \in Policies : decisions[x][p] = "Pending"
                                         \/ \A p \in Policies : decisions[x][p] # "Pending"
      BY <1>9, <1>15 DEF SampleParts, Stage
    <2>2. ticker.o \in First' => ticker.o \in First
      BY <1>8, <1>15
    <2>3. \A x \in First' : x = ticker.o \/ (\E p \in Policies : decisions[x][p] # "Pending")
                              => age[x] = NumBatches + 1
      BY <1>8, <1>9, <1>15 DEF SampleParts, Stage
    <2> QED
      BY <1>1, <2>1, <2>2, <2>3 DEF SampleParts, Stage
  <1>18. Kept'
    <2> SUFFICES ASSUME NEW x \in Batches, object'[x] \in First'
                 PROVE  x \in Accounted'
      BY DEF Kept
    <2>0. Len(Policy) \in Policies /\ \A p \in Policies : ~(1 > p)
      BY DEF Policies
    <2>1. CASE x = b
      <3>1. x \notin Keeping'
        BY <1>1, <1>5, <1>6, <1>10, <2>1 DEF Keeping
      <3>2. caller'[x[1]].t = x[2] /\ caller'[x[1]].p = 1
        BY <1>3, <1>4, <2>1
      <3>3. \A p \in Policies : forwarded'[x][p] = 0
        BY <1>1, <1>9, <2>1
      <3> QED
        BY <2>0, <3>1, <3>2, <3>3 DEF Accounted
    <2>2. CASE x # b
      <3>1. object'[x] = object[x] /\ object[x] # None /\ object[x] \in Batches
        BY <1>5, <2>2, NoneIsNoBatch DEF First
      <3>2. object[object[x]] = object[x]
        BY <3>1 DEF SampleParts, Objects
      <3>3. object[x] \in First
        BY <1>3, <1>15, <3>1, <3>2
      <3>4. x \in Keeping' <=> x \in Keeping
        BY <1>1, <3>1 DEF Keeping
      <3>5. \/ caller'[x[1]] = caller[x[1]]
            \/ caller'[x[1]].t # x[2] /\ caller[x[1]].t # x[2]
        <4>1. x = <<x[1], x[2]>> /\ x[1] \in Calls /\ x[2] \in Traces
          BY DEF Batches
        <4>2. x[1] = c => x[2] # t
          BY <2>2, <4>1 DEF b
        <4> QED
          BY <1>2, <1>4, <4>1, <4>2
      <3> QED
        BY <1>1, <3>1, <3>3, <3>4, <3>5 DEF SampleParts, Kept, Accounted
    <2> QED
      BY <2>1, <2>2
  <1> QED
    BY <1>12, <1>13, <1>16, <1>17, <1>18 DEF SampleParts

\* For a first TraceData the policies are decided in their order.
LEMMA DecidedInOrder ==
    ASSUME TypeInv, SampleParts, NEW o \in First, NEW p \in Policies, NEW q \in Policies,
           decisions[o][p] = "Pending", decisions[o][q] # "Pending"
    PROVE  q < p
  <1>1. ticker.o = o
    BY DEF SampleParts, Stage
  <1>2. /\ \/ ticker.at \in {"evaluate", "assign"} /\ p >= ticker.p
           \/ ticker.at = "copy" /\ p > ticker.p
        /\ ~(\/ ticker.at \in {"evaluate", "assign"} /\ q >= ticker.p
             \/ ticker.at = "copy" /\ q > ticker.p)
    BY <1>1 DEF SampleParts, Stage
  <1>3. p \in Nat /\ q \in Nat /\ ticker.p \in Nat
    <2>1. Policies \subseteq Nat
      BY TailSamplingAssumption DEF Policies
    <2>2. ticker.p \in Policies
      BY DEF TypeInv, OtherTypes, Ticking
    <2> QED
      BY <2>1, <2>2
  <1> QED
    BY <1>2, <1>3

LEMMA PolicySample ==
    ASSUME TypeInv, SampleParts, NEW c \in Calls, ForPolicy(c)
    PROVE  SampleParts'
  <1> USE TailSamplingAssumption
  <1> DEFINE l == caller[c]
             b == <<c, l.t>>
             o == object[b]
             d == decisions[o][l.p]
             n == Len(Policy)
  <1>1. /\ l.at = "policy"
        /\ UNCHANGED <<idToTrace, decisions, batcher, ticker, object, age, evicted>>
    BY DEF ForPolicy, At
  <1>2. l.t \in Payload[c] /\ l.t \in Traces /\ l.t # None /\ b \in Batches /\ b[1] = c /\ b[2] = l.t
    BY <1>1 DEF TypeInv, MapInv, CallerOK, Batches
  <1>3. o \in Batches /\ o # None
    BY <1>2, NoneIsNoBatch DEF TypeInv, ObjectOK
  <1>4. l.p \in Policies /\ Policies = 1 .. n /\ n \in Nat \ {0} /\ l \in Locals
    BY DEF TypeInv, MapInv, Types, Locals, Policies
  <1>5. /\ d = "Pending" => /\ received' = [received EXCEPT ![o] = Append(@, b)]
                            /\ forwarded' = forwarded
        /\ d = "Sampled" => /\ forwarded' = [forwarded EXCEPT ![b][l.p] = @ + 1]
                            /\ received' = received
        /\ d = "NotSampled" => received' = received /\ forwarded' = forwarded
        /\ d \in {"Pending", "Sampled", "NotSampled"}
    BY DEF ForPolicy
  <1>6. /\ \A e \in Calls \ {c} : caller'[e] = caller[e]
        /\ caller'[c].todo = l.todo
        /\ \/ /\ caller'[c].at = "policy" /\ caller'[c].t = l.t
              /\ d # "Pending" /\ l.p < n /\ caller'[c].p = l.p + 1
           \/ /\ caller'[c].at = "loop" /\ caller'[c].t = None /\ caller'[c].p = 1
              /\ d = "Pending" \/ l.p = n
    <2>1. caller \in [Calls -> Locals] /\ MapInv
      BY DEF TypeInv, MapInv, Types
    <2>2. CASE d = "Pending"
      <3> DEFINE m == [l EXCEPT !.at = "loop", !.t = None, !.p = 1]
      <3>1. caller' = [caller EXCEPT ![c] = m]
        BY <2>2 DEF ForPolicy, Goto
      <3>2. m.at = "loop" /\ m.t = None /\ m.p = 1 /\ m.todo = l.todo
        BY <1>4 DEF Locals
      <3> HIDE DEF m
      <3> QED
        BY <2>1, <2>2, <3>1, <3>2
    <2>3. CASE d # "Pending"
      <3>1. caller' = [caller EXCEPT ![c] = NextPolicy(c)]
        BY <2>3 DEF ForPolicy, Goto
      <3>2. caller'[c] = NextPolicy(c) /\ \A e \in Calls \ {c} : caller'[e] = caller[e]
        BY <2>1, <3>1
      <3> QED
        BY <1>1, <2>1, <2>3, <3>2, NextPolicyKeeps
    <2> QED
      BY <2>2, <2>3
  <1>7. /\ \A x \in Batches \ {o} : received'[x] = received[x]
        /\ received'[o] = IF d = "Pending" THEN Append(received[o], b) ELSE received[o]
    <2>1. received \in [Batches -> Seq(Batches)]
      BY DEF TypeInv, OtherTypes
    <2> QED
      BY <1>3, <1>5, <2>1
  <1>8. /\ \A x \in Batches \ {b} : forwarded'[x] = forwarded[x]
        /\ \A p \in Policies : forwarded'[b][p] =
              IF d = "Sampled" /\ p = l.p THEN forwarded[b][p] + 1 ELSE forwarded[b][p]
    <2>1. forwarded \in [Batches -> [Policies -> Nat]] /\ forwarded[b] \in [Policies -> Nat]
      BY <1>2 DEF TypeInv, OtherTypes
    <2> HIDE DEF b, d
    <2>2. CASE d = "Sampled"
      <3>1. forwarded' = [forwarded EXCEPT ![b] = [forwarded[b] EXCEPT ![l.p] = @ + 1]]
        BY <1>5, <2>2
      <3>2. forwarded'[b] = [forwarded[b] EXCEPT ![l.p] = @ + 1]
        BY <1>2, <2>1, <3>1
      <3>3. \A x \in Batches \ {b} : forwarded'[x] = forwarded[x]
        BY <2>1, <3>1
      <3> QED
        BY <1>4, <2>1, <2>2, <3>2, <3>3
    <2>3. CASE d # "Sampled"
      BY <1>5, <2>3
    <2> QED
      BY <2>2, <2>3
  <1>9. /\ received[o] \in Seq(Batches)
        /\ Elements(received'[o]) = IF d = "Pending" THEN Elements(received[o]) \cup {b}
                                    ELSE Elements(received[o])
    <2>1. received[o] \in Seq(Batches)
      BY <1>3 DEF TypeInv, OtherTypes
    <2>2. b \in Batches
      BY <1>2
    <2> HIDE DEF b, o, d
    <2>3. Elements(Append(received[o], b)) = Elements(received[o]) \cup {b}
      BY <2>1, <2>2, Appended
    <2> QED
      BY <1>7, <2>1, <2>3
  <1> HIDE DEF d
  <1>10. Objects'
    <2>1. \A x \in Batches : \A y \in Elements(received'[x]) : object'[y] = x
      <3> TAKE x \in Batches
      <3>0. object' = object /\ \A y \in Elements(received[x]) : object[y] = x
        BY <1>1 DEF SampleParts, Objects
      <3>1. CASE x = o
        <4>1. object[b] = o
          OBVIOUS
        <4>2. Elements(received'[o]) \subseteq Elements(received[o]) \cup {b}
          BY <1>9, Zenon
        <4> HIDE DEF b, o
        <4> QED
          BY <3>0, <3>1, <4>1, <4>2, Zenon
      <3>2. CASE x # o
        <4>1. received'[x] = received[x]
          BY <1>7, <3>2
        <4> QED
          BY <3>0, <4>1, Zenon
      <3> QED
        BY <3>1, <3>2
    <2>2. \A x \in Batches : object'[x] = None =>
             \A p \in Policies : decisions'[x][p] = "Pending" /\ forwarded'[x][p] = 0
      BY <1>1, <1>3, <1>8 DEF SampleParts, Objects
    <2> QED
      BY <1>1, <2>1, <2>2 DEF SampleParts, Objects
  <1>11. InOrder'
    <2> SUFFICES ASSUME NEW e \in Calls
                 PROVE  /\ caller'[e].at # "policy" => caller'[e].p = 1
                        /\ \A t \in Payload[e] : (caller'[e].at = "idle" \/ t \in caller'[e].todo)
                              => object'[<<e, t>>] = None
      BY DEF InOrder
    <2>1. CASE e = c
      BY <1>1, <1>6, <2>1 DEF SampleParts, InOrder
    <2>2. CASE e # c
      BY <1>1, <1>6, <2>2 DEF SampleParts, InOrder
    <2> QED
      BY <2>1, <2>2
  <1>12. First' \subseteq First /\ Fresh' \subseteq Fresh
    BY <1>1, FewerFirst
  <1>13. Delayed'
    <2>1. Adding' = Adding /\ c \notin Adding
      BY <1>1, <1>6 DEF Adding
    <2>2. AddingIds' = AddingIds
      BY <1>6, <2>1 DEF AddingIds, Adding
    <2> QED
      BY <1>1, <1>12, <2>2, KeepDelayed DEF SampleParts, batcher
  <1>14. Stage'
    BY <1>1, <1>12, KeepStage DEF SampleParts
  <1>15. Kept'
    <2> SUFFICES ASSUME NEW x \in Batches, object[x] \in First
                 PROVE  x \in Accounted'
      BY <1>1, <1>12 DEF Kept
    <2>1. x \in Accounted /\ object' = object /\ ticker' = ticker /\ decisions' = decisions
      BY <1>1 DEF SampleParts, Kept
    <2>2. object[x] \in Batches /\ object[x] # None
      BY NoneIsNoBatch DEF First
    <2>3. CASE x # b
      <3>1. \/ caller'[x[1]] = caller[x[1]]
            \/ caller'[x[1]].t # x[2] /\ caller[x[1]].t # x[2]
        <4>1. x = <<x[1], x[2]>> /\ x[1] \in Calls /\ x[2] \in Traces
          BY DEF Batches
        <4>2. x[1] = c => x[2] # l.t
          BY <2>3, <4>1
        <4> QED
          BY <1>2, <1>6, <4>1, <4>2
      <3>2. x \in Keeping' <=> x \in Keeping
        <4>1. x \in Elements(received'[object[x]]) <=> x \in Elements(received[object[x]])
          BY <1>7, <1>9, <2>2, <2>3
        <4> QED
          BY <2>1, <4>1 DEF Keeping
      <3>3. Once(received[object[x]], x) => Once(received'[object[x]], x)
        <4>1. CASE object[x] = o /\ d = "Pending"
          <5>1. b \in Batches /\ received[o] \in Seq(Batches)
            BY <1>2, <1>9
          <5>2. received'[o] = Append(received[o], b)
            BY <1>7, <4>1
          <5> HIDE DEF b, o
          <5>3. Once(received[o], x) => Once(Append(received[o], b), x)
            BY <2>3, <5>1, OnceAppended
          <5> QED
            BY <4>1, <5>2, <5>3
        <4>2. CASE ~(object[x] = o /\ d = "Pending")
          BY <1>7, <2>2, <4>2
        <4> QED
          BY <4>1, <4>2
      <3>4. forwarded'[x] = forwarded[x]
        BY <1>8, <2>3
      <3> QED
        BY <2>1, <3>1, <3>2, <3>3, <3>4 DEF Accounted
    <2>4. CASE x = b
      <3>1. x \notin Keeping /\ x \notin Elements(received[o]) /\ forwarded[x][n] = 0
        <4>1. x \notin Keeping /\ forwarded[x][n] = 0
          BY <1>2, <2>1, <2>4 DEF Accounted
        <4> QED
          BY <2>2, <2>4, <4>1 DEF Keeping
      <3>2. \A q \in Policies : q < l.p => /\ decisions[o][q] # "Pending"
                                           /\ decisions[o][q] = "Sampled" => forwarded[x][q] >= 1
        <4> SUFFICES ASSUME NEW q \in Policies, q < l.p
                     PROVE  /\ decisions[o][q] # "Pending"
                            /\ decisions[o][q] = "Sampled" => forwarded[x][q] >= 1
          OBVIOUS
        <4>1. caller[x[1]].p > q /\ caller[x[1]].t = x[2] /\ object[x] = o
          BY <1>2, <1>4, <2>4
        <4> QED
          BY <2>1, <3>1, <4>1 DEF Accounted
      <3>3. \A q \in Policies : decisions[o][q] # "Sampled" => forwarded[x][q] = 0
        BY <2>1, <2>4 DEF Accounted
      <3>4. CASE d = "Pending"
        <4>1. x \in Keeping'
          BY <1>9, <2>1, <2>2, <2>4, <3>4 DEF Keeping
        <4>2. Once(received'[object[x]], x)
          <5>1. Once(received[o], b)
            BY <2>4, <3>1 DEF Once, Elements
          <5>2. received'[o] = Append(received[o], b)
            BY <1>7, <3>4
          <5> HIDE DEF b
          <5>3. Once(Append(received[o], b), b)
            BY <1>2, <1>9, <2>4, <3>1, <5>1, OnceAppended
          <5> QED
            BY <2>4, <5>2, <5>3
        <4>3. caller'[x[1]].t # x[2] /\ forwarded'[x] = forwarded[x]
          BY <1>2, <1>5, <1>6, <2>4, <3>4
        <4>4. \A q \in Policies : decisions[o][q] = "Sampled" => forwarded[x][q] >= 1
          <5> SUFFICES ASSUME NEW q \in Policies, decisions[o][q] = "Sampled"
                       PROVE  forwarded[x][q] >= 1
            OBVIOUS
          <5>1. q < l.p
            BY <1>4, <2>4, <3>4, DecidedInOrder DEF d
          <5> QED
            BY <3>2, <5>1
        <4> QED
          BY <2>1, <2>4, <3>1, <3>3, <4>1, <4>2, <4>3, <4>4 DEF Accounted
      <3>5. CASE d # "Pending"
        <4>1. x \notin Keeping'
          BY <1>9, <2>1, <2>2, <2>4, <3>1, <3>5 DEF Keeping
        <4>2. \A q \in Policies : q \in Nat /\ q <= n /\ forwarded[x][q] \in Nat
          BY <1>2, <1>4, <2>4 DEF TypeInv, OtherTypes
        <4>3. \A q \in Policies : (caller'[x[1]].t # x[2] \/ caller'[x[1]].p > q) => q <= l.p
          BY <1>2, <1>4, <1>6, <2>4, <3>5, <4>2
        <4>4. \A q \in Policies : decisions[o][q] # "Sampled" => forwarded'[x][q] = 0
          BY <1>8, <2>4, <3>3 DEF d
        <4>5. \A q \in Policies : q <= l.p => /\ decisions[o][q] # "Pending"
                                              /\ decisions[o][q] = "Sampled" => forwarded'[x][q] >= 1
          <5> SUFFICES ASSUME NEW q \in Policies, q <= l.p
                       PROVE  /\ decisions[o][q] # "Pending"
                              /\ decisions[o][q] = "Sampled" => forwarded'[x][q] >= 1
            OBVIOUS
          <5>1. CASE q = l.p
            BY <1>8, <2>4, <3>5, <4>2, <5>1 DEF d
          <5>2. CASE q # l.p
            <6>1. q < l.p
              BY <1>4, <4>2, <5>2
            <6> QED
              BY <1>8, <2>4, <3>2, <5>2, <6>1
          <5> QED
            BY <5>1, <5>2
        <4>6. forwarded'[x][n] <= 1 /\ (caller'[x[1]].t = x[2] => forwarded'[x][n] = 0)
          <5>1. n \in Policies
            BY <1>4
          <5>2. forwarded'[x][n] = IF d = "Sampled" /\ n = l.p THEN 1 ELSE 0
            BY <1>8, <2>4, <3>1, <5>1
          <5>3. caller'[x[1]].t = x[2] => l.p < n
            BY <1>2, <1>6, <2>4
          <5> QED
            BY <1>4, <5>2, <5>3
        <4> QED
          BY <2>1, <2>4, <4>1, <4>3, <4>4, <4>5, <4>6 DEF Accounted
      <3> QED
        BY <3>4, <3>5
    <2> QED
      BY <2>3, <2>4
  <1> QED
    BY <1>10, <1>11, <1>13, <1>14, <1>15 DEF SampleParts

LEMMA KeepOrder ==
    ASSUME InOrder, UNCHANGED <<caller, object>>
    PROVE  InOrder'
  BY DEF InOrder

LEMMA FillSample ==
    ASSUME TypeInv, SampleParts, FillCurrentBatch
    PROVE  SampleParts'
  <1>1. /\ pendingIds # <<>> /\ pendingIds' = Tail(pendingIds)
        /\ currentBatch' = Append(currentBatch, Head(pendingIds))
        /\ UNCHANGED <<shared, batches, caller, ticker, forwarded, object, age, evicted>>
    BY DEF FillCurrentBatch
  <1>2. First' \subseteq First /\ Fresh' \subseteq Fresh
    BY <1>1, FewerFirst
  <1>3. AddingIds' = AddingIds /\ Undecided' = Undecided
    BY <1>1 DEF AddingIds, Adding, Undecided, shared
  <1>4. pendingIds \in Seq(Traces) /\ currentBatch \in Seq(Traces)
    BY DEF TypeInv, OtherTypes
  <1>5. \A t \in Fresh : /\ Single(t, AddingIds, pendingIds', currentBatch', batches, ticker.ids)
                         /\ t \in Waiting' => t \in Waiting
    <2> SUFFICES ASSUME NEW t \in Fresh
                 PROVE  /\ Single(t, AddingIds, pendingIds', currentBatch', batches, ticker.ids)
                        /\ t \in Waiting' => t \in Waiting
      OBVIOUS
    <2>1. /\ Single(t, AddingIds, pendingIds', currentBatch', batches, ticker.ids)
          /\ Somewhere(t, AddingIds, pendingIds', currentBatch', batches, ticker.ids)
                => Somewhere(t, AddingIds, pendingIds, currentBatch, batches, ticker.ids)
      BY <1>1, <1>4, SingleFilled DEF SampleParts, Delayed
    <2> QED
      BY <1>1, <1>3, <2>1 DEF Waiting
  <1>6. Delayed'
    BY <1>1, <1>2, <1>3, <1>5 DEF SampleParts, Delayed, shared
  <1>7. Objects' /\ InOrder' /\ Stage' /\ Kept'
    BY <1>1, <1>2, KeepObjects, KeepOrder, KeepStage, KeepKept DEF SampleParts, shared
  <1> QED
    BY <1>6, <1>7 DEF SampleParts

LEMMA TickSample ==
    ASSUME TypeInv, SampleParts, Tick
    PROVE  SampleParts'
  <1> USE TailSamplingAssumption
  <1> DEFINE n == NumBatches
  <1>1. /\ ticker.at = "load" /\ ticker.ids = <<>>
        /\ batches' = Append(Tail(batches), currentBatch) /\ currentBatch' = <<>>
        /\ ticker' = [ticker EXCEPT !.ids = Head(batches)]
        /\ age' = [o \in Batches |-> IF object[o] = o /\ age[o] <= n THEN age[o] + 1 ELSE age[o]]
        /\ UNCHANGED <<shared, pendingIds, caller, forwarded, object, evicted>>
    BY DEF Tick
  <1>2. /\ ticker'.ids = Head(batches) /\ ticker'.o = ticker.o /\ ticker'.at = ticker.at
        /\ ticker'.p = ticker.p /\ ticker'.result = ticker.result
    BY <1>1 DEF TypeInv, OtherTypes, Ticking
  <1>3. /\ batches \in Seq(Seq(Traces)) /\ currentBatch \in Seq(Traces)
        /\ Len(batches) = n /\ batches # <<>> /\ n \in Nat \ {0}
    BY DEF TypeInv, OtherTypes
  <1>4. /\ Head(batches) = batches[1] /\ batches'[n] = currentBatch
        /\ \A k \in 1 .. (n - 1) : batches'[k] = batches[k + 1]
    BY <1>1, <1>3, Shifted
  <1>5. First' \subseteq First /\ Fresh' \subseteq Fresh
    BY <1>1, FewerFirst
  <1>6. AddingIds' = AddingIds /\ Undecided' = Undecided
    BY <1>1, <1>2 DEF AddingIds, Adding, Undecided, shared
  <1>7. \A o \in Batches : /\ age[o] \in 0 .. (n + 1)
                           /\ age'[o] = IF object[o] = o /\ age[o] <= n THEN age[o] + 1 ELSE age[o]
    BY <1>1 DEF TypeInv, OtherTypes
  <1>8. \A t \in Fresh : /\ Single(t, AddingIds', pendingIds', currentBatch', batches', ticker'.ids)
                         /\ t \in Waiting' => t \in Waiting
    <2> SUFFICES ASSUME NEW t \in Fresh
                 PROVE  /\ Single(t, AddingIds', pendingIds', currentBatch', batches', ticker'.ids)
                        /\ t \in Waiting' => t \in Waiting
      OBVIOUS
    <2>1. Single(t, AddingIds, pendingIds, currentBatch, batches, <<>>)
      BY <1>1 DEF SampleParts, Delayed
    <2>2. /\ Single(t, AddingIds, pendingIds, <<>>, batches', Head(batches))
          /\ Somewhere(t, AddingIds, pendingIds, <<>>, batches', Head(batches))
                => Somewhere(t, AddingIds, pendingIds, currentBatch, batches, <<>>)
      BY <1>1, <1>3, <2>1, SingleTicked
    <2> QED
      BY <1>1, <1>2, <1>6, <2>2 DEF Waiting
  <1>9. Delayed'
    <2> SUFFICES ASSUME NEW t \in Fresh
                 PROVE  /\ t \in Waiting' => idToTrace'[t] \in Undecided'
                        /\ \A k \in 1 .. n :
                              t \in Elements(batches'[k]) => age'[idToTrace'[t]] >= n + 1 - k
                        /\ t \in Elements(ticker'.ids) => age'[idToTrace'[t]] = n + 1
      BY <1>5, <1>8 DEF Delayed
    <2> DEFINE o == idToTrace[t]
    <2>1. t \in Waiting' => o \in Undecided
      BY <1>8 DEF SampleParts, Delayed
    <2>2. idToTrace' = idToTrace /\ Len(batches') = n /\ t \in Traces
      BY <1>1, <1>3, Shifted DEF shared, Fresh
    <2>3. o \in Undecided => o \in Batches /\ object[o] = o
      BY <2>2, NoneIsNoBatch DEF Undecided, SampleParts, Objects
    <2>4. ASSUME NEW k \in 1 .. n, t \in Elements(batches'[k])
          PROVE  age'[o] >= n + 1 - k
      <3>1. t \in Waiting'
        BY <2>2, <2>4 DEF Waiting, Somewhere
      <3>2. /\ o \in Batches /\ object[o] = o /\ age[o] \in 0 .. (n + 1)
            /\ age'[o] = IF age[o] <= n THEN age[o] + 1 ELSE age[o]
        BY <1>7, <2>1, <2>3, <3>1
      <3>3. CASE k = n
        BY <1>3, <3>2, <3>3
      <3>4. CASE k # n
        <4>1. k \in 1 .. (n - 1) /\ k + 1 \in 1 .. n /\ batches'[k] = batches[k + 1]
          BY <1>3, <1>4, <3>4
        <4>2. age[o] >= n + 1 - (k + 1)
          BY <2>4, <4>1 DEF SampleParts, Delayed
        <4> HIDE DEF o
        <4> QED
          BY <1>3, <3>2, <4>1, <4>2
      <3> QED
        BY <3>3, <3>4
    <2>5. ASSUME t \in Elements(ticker'.ids)
          PROVE  age'[o] = n + 1
      <3>1. t \in Waiting'
        BY <2>2, <2>5 DEF Waiting, Somewhere
      <3>2. /\ o \in Batches /\ object[o] = o /\ age[o] \in 0 .. (n + 1)
            /\ age'[o] = IF age[o] <= n THEN age[o] + 1 ELSE age[o]
        BY <1>7, <2>1, <2>3, <3>1
      <3>3. 1 \in 1 .. n /\ t \in Elements(batches[1])
        BY <1>2, <1>3, <1>4, <2>5
      <3>4. age[o] >= n + 1 - 1
        BY <3>3 DEF SampleParts, Delayed
      <3> HIDE DEF o
      <3> QED
        BY <1>3, <3>2, <3>4
    <2> QED
      BY <1>6, <2>1, <2>2, <2>4, <2>5
  <1>10. Stage'
    <2>1. \A o \in First : age[o] = n + 1 => age'[o] = n + 1
      <3> SUFFICES ASSUME NEW o \in First, age[o] = n + 1
                   PROVE  age'[o] = n + 1
        OBVIOUS
      <3>1. o \in Batches /\ ~(age[o] <= n)
        BY <1>3 DEF First
      <3> QED
        BY <1>7, <3>1
    <2> QED
      BY <1>1, <1>2, <1>5, <2>1 DEF SampleParts, Stage, shared
  <1>11. Objects' /\ InOrder' /\ Kept'
    BY <1>1, <1>2, <1>5, KeepObjects, KeepOrder, KeepKept DEF SampleParts, shared
  <1> QED
    BY <1>9, <1>10, <1>11 DEF SampleParts

LEMMA LoadSample ==
    ASSUME TypeInv, SampleParts, LoadTrace
    PROVE  SampleParts'
  <1> USE TailSamplingAssumption
  <1> DEFINE u == Head(ticker.ids)
             o == idToTrace[u]
  <1>1. /\ ticker.at = "load" /\ ticker.ids # <<>>
        /\ UNCHANGED <<shared, batcher, caller, forwarded, object, age, evicted>>
        /\ ticker' = IF o = None THEN [ticker EXCEPT !.ids = Tail(@)]
                     ELSE [ticker EXCEPT !.at = "evaluate", !.ids = Tail(@), !.o = o]
    BY DEF LoadTrace
  <1>2. ticker.o = None /\ ticker.p = 1 /\ ticker \in Ticking /\ ticker.ids \in Seq(Traces)
    BY <1>1 DEF TypeInv, TickerOK, OtherTypes, Ticking
  <1>3. u \in Traces /\ u \in Elements(ticker.ids) /\ o \in Batches \cup {None}
    BY <1>1, <1>2, Tailed DEF TypeInv, MapInv, Types
  <1>4. /\ ticker'.ids = Tail(ticker.ids) /\ ticker'.o = o /\ ticker'.p = 1
        /\ ticker'.at = IF o = None THEN "load" ELSE "evaluate"
    <2> HIDE DEF o
    <2>1. CASE o = None
      BY <1>1, <1>2, <2>1 DEF Ticking
    <2>2. CASE o # None
      BY <1>1, <1>2, <2>2 DEF Ticking
    <2> QED
      BY <2>1, <2>2
  <1>5. First' = First /\ Fresh' = Fresh /\ AddingIds' = AddingIds
    BY <1>1 DEF First, Fresh, AddingIds, Adding
  <1>6. o # None => o \in Batches /\ o[2] = u /\ object[o] = o /\ o \notin evicted
    BY <1>3 DEF SampleParts, Objects
  <1>7. Objects'
    BY <1>1, <1>4, <1>6 DEF SampleParts, Objects, shared
  <1>8. InOrder'
    BY <1>1, KeepOrder DEF SampleParts
  <1>9. \A t \in Fresh : /\ Single(t, AddingIds', pendingIds', currentBatch', batches', ticker'.ids)
                         /\ t \in Waiting' => t \in Waiting /\ t # u
    <2> HIDE DEF u
    <2> SUFFICES ASSUME NEW t \in Fresh
                 PROVE  /\ Single(t, AddingIds', pendingIds', currentBatch', batches', ticker'.ids)
                        /\ t \in Waiting' => t \in Waiting /\ t # u
      OBVIOUS
    <2>1. /\ Single(t, AddingIds, pendingIds, currentBatch, batches, Tail(ticker.ids))
          /\ Somewhere(t, AddingIds, pendingIds, currentBatch, batches, Tail(ticker.ids)) =>
                /\ Somewhere(t, AddingIds, pendingIds, currentBatch, batches, ticker.ids)
                /\ t # Head(ticker.ids)
      BY <1>1, <1>2, SingleLoaded DEF SampleParts, Delayed
    <2> QED
      BY <1>1, <1>4, <1>5, <2>1 DEF Waiting, batcher, u
  <1>10. Elements(ticker'.ids) \subseteq Elements(ticker.ids)
    BY <1>1, <1>2, <1>4, Tailed
  <1>11. Delayed'
    <2>1. \A t \in Fresh : t \in Waiting' => idToTrace'[t] \in Undecided'
      <3> SUFFICES ASSUME NEW t \in Fresh, t \in Waiting'
                   PROVE  idToTrace'[t] \in Undecided'
        OBVIOUS
      <3>1. idToTrace[t] \in Undecided /\ t # u /\ t \in Traces
        BY <1>9 DEF SampleParts, Delayed, Fresh
      <3>2. idToTrace[t] \in Batches /\ idToTrace[t] # None /\ idToTrace[t][2] = t
        BY <3>1, NoneIsNoBatch DEF Undecided, SampleParts, Objects
      <3>3. ticker'.o # idToTrace[t]
        BY <1>4, <1>6, <3>1, <3>2
      <3> QED
        BY <1>1, <3>1, <3>3 DEF Undecided, shared
    <2> QED
      BY <1>1, <1>5, <1>9, <1>10, <2>1 DEF SampleParts, Delayed, shared, batcher
  <1>12. o \in First => o \in Undecided /\ age[o] = NumBatches + 1
    <2> SUFFICES ASSUME o \in First
                 PROVE  o \in Undecided /\ age[o] = NumBatches + 1
      OBVIOUS
    <2>1. o # None /\ o \notin evicted /\ o[2] = u
      BY <1>6, NoneIsNoBatch DEF First
    <2>2. u \in Fresh
      BY <1>3, <2>1 DEF First, Fresh
    <2>3. u \in Waiting
      BY <1>3 DEF Waiting, Somewhere
    <2> QED
      BY <1>3, <2>2, <2>3 DEF SampleParts, Delayed
  <1>13. Policies \subseteq Nat /\ \A p \in Policies : p >= 1
    BY DEF Policies
  <1>14. None \notin First
    BY NoneIsNoBatch DEF First
  <1> HIDE DEF o, u
  <1>15. Stage'
    <2>1. decisions' = decisions /\ age' = age
      BY <1>1 DEF shared
    <2>2. \A x \in First' \ {ticker'.o} : \/ \A p \in Policies : decisions'[x][p] = "Pending"
                                          \/ \A p \in Policies : decisions'[x][p] # "Pending"
      BY <1>2, <1>5, <1>14, <2>1 DEF SampleParts, Stage
    <2>3. ticker'.o \in First' => \A p \in Policies :
             decisions'[ticker'.o][p] = "Pending" <=>
                \/ ticker'.at \in {"evaluate", "assign"} /\ p >= ticker'.p
                \/ ticker'.at = "copy" /\ p > ticker'.p
      BY <1>4, <1>5, <1>12, <1>13, <1>14, <2>1 DEF Undecided
    <2>4. \A x \in First' : x = ticker'.o \/ (\E p \in Policies : decisions'[x][p] # "Pending")
                              => age'[x] = NumBatches + 1
      BY <1>4, <1>5, <1>12, <2>1 DEF SampleParts, Stage
    <2> QED
      BY <1>4, <2>2, <2>3, <2>4 DEF Stage
  <1>16. Kept'
    <2> SUFFICES ASSUME NEW x \in Batches, object[x] \in First
                 PROVE  x \in Accounted'
      BY <1>1, <1>5 DEF Kept
    <2>1. x \in Accounted /\ object[x] # ticker.o
      BY <1>2, <1>14 DEF SampleParts, Kept
    <2>2. /\ UNCHANGED <<object, decisions, received, caller, forwarded>> /\ Keeping' = Keeping
          /\ ticker'.at # "copy" /\ ticker'.at # "clear"
      BY <1>1, <1>4 DEF shared, Keeping
    <2> QED
      BY <2>1, <2>2 DEF Accounted
  <1> QED
    BY <1>7, <1>8, <1>11, <1>15, <1>16 DEF SampleParts

LEMMA EvaluateSample ==
    ASSUME TypeInv, SampleParts, Evaluate
    PROVE  SampleParts'
  <1>1. /\ ticker.at = "evaluate"
        /\ UNCHANGED <<shared, batcher, caller, forwarded, object, age, evicted>>
    BY DEF Evaluate
  <1>2. PICK r \in {"Sampled", "NotSampled"} :
              ticker' = [ticker EXCEPT !.at = "assign", !.result = r]
    BY DEF Evaluate, EvaluateAlways, EvaluateAttribute, EvaluateRate
  <1>3. /\ ticker'.at = "assign" /\ ticker'.o = ticker.o /\ ticker'.p = ticker.p
        /\ ticker'.ids = ticker.ids /\ ticker'.result # "Pending"
    BY <1>2 DEF TypeInv, OtherTypes, Ticking
  <1>4. First' = First /\ Fresh' = Fresh /\ AddingIds' = AddingIds /\ Keeping' = Keeping
    BY <1>1 DEF First, Fresh, AddingIds, Adding, Keeping, shared
  <1>5. Objects' /\ InOrder' /\ Delayed'
    BY <1>1, <1>3, <1>4, KeepObjects, KeepOrder, KeepDelayed DEF SampleParts, shared, batcher
  <1>6. Stage'
    BY <1>1, <1>3, <1>4 DEF SampleParts, Stage, shared
  <1>7. Kept'
    BY <1>1, <1>3, <1>4 DEF SampleParts, Kept, Accounted, shared
  <1> QED
    BY <1>5, <1>6, <1>7 DEF SampleParts

LEMMA DecisionSample ==
    ASSUME TypeInv, SampleParts, WriteDecision
    PROVE  SampleParts'
  <1> USE TailSamplingAssumption
  <1> DEFINE o == ticker.o
             p == ticker.p
             r == ticker.result
  <1>1. /\ ticker.at = "assign" /\ decisions' = [decisions EXCEPT ![o][p] = r]
        /\ ticker' = IF r = "Sampled" THEN [ticker EXCEPT !.at = "copy"] ELSE AfterPolicy
        /\ UNCHANGED <<idToTrace, received, batcher, caller, forwarded, object, age, evicted>>
    BY DEF WriteDecision
  <1>2. o \in Batches /\ o # None /\ object[o] = o /\ p \in Policies /\ r \in Decision /\ r # "Pending"
    BY <1>1, NoneIsNoBatch DEF TypeInv, TickerOK, OtherTypes, Ticking, SampleParts, Objects, Stage
  <1>3. /\ \A x \in Batches \ {o} : decisions'[x] = decisions[x]
        /\ \A q \in Policies : decisions'[o][q] = IF q = p THEN r ELSE decisions[o][q]
    <2>1. decisions \in [Batches -> [Policies -> Decision]] /\ decisions[o] \in [Policies -> Decision]
      BY <1>2 DEF TypeInv, OtherTypes
    <2> HIDE DEF o, p, r
    <2>2. decisions' = [decisions EXCEPT ![o] = [decisions[o] EXCEPT ![p] = r]]
      BY <1>1
    <2>3. decisions'[o] = [decisions[o] EXCEPT ![p] = r]
      BY <1>2, <2>1, <2>2
    <2>4. \A x \in Batches \ {o} : decisions'[x] = decisions[x]
      BY <2>1, <2>2
    <2> QED
      BY <1>2, <2>1, <2>3, <2>4
  <1>4. Policies = 1 .. Len(Policy) /\ Len(Policy) \in Nat \ {0}
    BY DEF Policies
  <1>5. /\ ticker'.o = o /\ ticker'.ids = ticker.ids
        /\ \/ ticker'.at = "copy" /\ ticker'.p = p /\ r = "Sampled"
           \/ ticker'.at = "evaluate" /\ ticker'.p = p + 1 /\ r # "Sampled" /\ p < Len(Policy)
           \/ ticker'.at = "clear" /\ ticker'.p = p /\ p = Len(Policy) /\ r # "Sampled"
    <2>1. CASE r = "Sampled"
      BY <1>1, <2>1 DEF TypeInv, OtherTypes, Ticking
    <2>2. CASE r # "Sampled"
      BY <1>1, <2>2, AfterPolicyKeeps
    <2> QED
      BY <2>1, <2>2
  <1> HIDE DEF r
  <1>6. First' = First /\ Fresh' = Fresh /\ AddingIds' = AddingIds /\ Keeping' = Keeping
    BY <1>1 DEF First, Fresh, AddingIds, Adding, Keeping
  <1>7. Objects'
    <2>1. \A b \in Batches : object'[b] = None =>
             \A q \in Policies : decisions'[b][q] = "Pending" /\ forwarded'[b][q] = 0
      BY <1>1, <1>2, <1>3 DEF SampleParts, Objects
    <2>2. \A b \in Batches : object'[b] # b => \A q \in Policies : decisions'[b][q] = "Pending"
      BY <1>1, <1>2, <1>3 DEF SampleParts, Objects
    <2> QED
      BY <1>1, <1>5, <2>1, <2>2 DEF SampleParts, Objects
  <1>8. InOrder'
    BY <1>1, KeepOrder DEF SampleParts
  <1>9. Delayed'
    <2>1. Undecided \subseteq Undecided'
      BY <1>3, <1>5 DEF Undecided
    <2>2. Waiting' = Waiting
      BY <1>1, <1>5, <1>6 DEF Waiting, batcher
    <2> QED
      BY <1>1, <1>5, <1>6, <2>1, <2>2 DEF SampleParts, Delayed, batcher
  <1>10. o \in First => \A q \in Policies : decisions[o][q] = "Pending" <=> q >= p
    BY <1>1 DEF SampleParts, Stage
  <1>11. o \in First => \A q \in Policies : decisions'[o][q] = "Pending" <=> q > p
    <2> SUFFICES ASSUME o \in First, NEW q \in Policies
                 PROVE  decisions'[o][q] = "Pending" <=> q > p
      OBVIOUS
    <2>1. q \in Nat /\ p \in Nat
      BY <1>2, <1>4
    <2> QED
      BY <1>2, <1>3, <1>10, <2>1
  <1>12. Stage'
    <2>1. \A x \in First' \ {ticker'.o} : \/ \A q \in Policies : decisions'[x][q] = "Pending"
                                          \/ \A q \in Policies : decisions'[x][q] # "Pending"
      BY <1>3, <1>5, <1>6 DEF SampleParts, Stage, First
    <2>2. ticker'.o \in First' => \A q \in Policies :
             decisions'[ticker'.o][q] = "Pending" <=>
                \/ ticker'.at \in {"evaluate", "assign"} /\ q >= ticker'.p
                \/ ticker'.at = "copy" /\ q > ticker'.p
      <3> SUFFICES ASSUME o \in First, NEW q \in Policies
                   PROVE  q > p <=> \/ ticker'.at \in {"evaluate", "assign"} /\ q >= ticker'.p
                                    \/ ticker'.at = "copy" /\ q > ticker'.p
        BY <1>5, <1>6, <1>11
      <3>1. q \in Nat /\ p \in Nat /\ q <= Len(Policy)
        BY <1>2, <1>4
      <3> HIDE DEF p
      <3> QED
        BY <1>4, <1>5, <3>1
    <2>3. \A x \in First' : x = ticker'.o \/ (\E q \in Policies : decisions'[x][q] # "Pending")
                              => age'[x] = NumBatches + 1
      BY <1>1, <1>3, <1>5, <1>6 DEF SampleParts, Stage, First
    <2>4. ticker'.o \in First' /\ ticker'.at = "copy" => decisions'[ticker'.o][ticker'.p] = "Sampled"
      BY <1>2, <1>3, <1>5
    <2>5. ticker'.at = "clear" => ticker'.p = Len(Policy)
      BY <1>5
    <2>6. ticker'.at # "assign"
      BY <1>5
    <2> QED
      BY <2>1, <2>2, <2>3, <2>4, <2>5, <2>6 DEF Stage
  <1>13. Kept'
    <2> SUFFICES ASSUME NEW x \in Batches, object[x] \in First
                 PROVE  x \in Accounted'
      BY <1>1, <1>6 DEF Kept
    <2>1. x \in Accounted /\ object[x] \in Batches
      BY DEF SampleParts, Kept, First
    <2>2. UNCHANGED <<object, received, caller, forwarded>>
      BY <1>1
    <2>3. CASE object[x] # o
      BY <1>3, <1>5, <1>6, <2>1, <2>2, <2>3 DEF Accounted
    <2>4. CASE object[x] = o
      <3>1. x \in Keeping => forwarded[x][Len(Policy)] = 0
        BY <1>1, <2>1 DEF Accounted
      <3>2. \A q \in Policies :
              /\ decisions'[o][q] # "Sampled" => forwarded[x][q] = 0
              /\ caller[x[1]].t # x[2] \/ caller[x[1]].p > q =>
                    /\ decisions'[o][q] = "Pending" => caller[x[1]].t # x[2] /\ x \in Keeping
                    /\ decisions'[o][q] = "Sampled" =>
                          \/ forwarded[x][q] >= 1
                          \/ ticker'.at = "copy" /\ ticker'.p = q /\ x \in Keeping
        <4> TAKE q \in Policies
        <4>1. CASE q = p
          <5>1. decisions[o][q] = "Pending" /\ decisions'[o][q] = r
            BY <1>2, <1>3, <1>10, <1>4, <2>4, <4>1
          <5> HIDE DEF p, o
          <5> QED
            BY <1>2, <1>5, <2>1, <2>4, <4>1, <5>1 DEF Accounted
        <4>2. CASE q # p
          <5>1. decisions'[o][q] = decisions[o][q]
            BY <1>3, <4>2
          <5> QED
            BY <1>1, <2>1, <2>4, <5>1 DEF Accounted
        <4> QED
          BY <4>1, <4>2
      <3> HIDE DEF o, p
      <3> QED
        BY <1>5, <1>6, <2>1, <2>2, <2>4, <3>1, <3>2 DEF Accounted
    <2> QED
      BY <2>3, <2>4
  <1> QED
    BY <1>7, <1>8, <1>9, <1>12, <1>13 DEF SampleParts

LEMMA ForwardSample ==
    ASSUME TypeInv, SampleParts, ForwardReceived
    PROVE  SampleParts'
  <1> USE TailSamplingAssumption
  <1> DEFINE o == ticker.o
             p == ticker.p
             n == Len(Policy)
             copies(b) == {i \in DOMAIN received[o] : received[o][i] = b}
  <1>1. /\ ticker.at = "copy" /\ ticker' = AfterPolicy
        /\ forwarded' = [b \in Batches |-> [forwarded[b] EXCEPT ![p] = @ + Cardinality(copies(b))]]
        /\ UNCHANGED <<shared, batcher, caller, object, age, evicted>>
    BY DEF ForwardReceived
  <1>2. o \in Batches /\ o # None /\ object[o] = o /\ p \in Policies
    BY <1>1, NoneIsNoBatch DEF TypeInv, TickerOK, OtherTypes, Ticking, SampleParts, Objects
  <1>3. Policies = 1 .. n /\ n \in Nat \ {0}
    BY DEF Policies
  <1>4. received[o] \in Seq(Batches) /\ DOMAIN received[o] = 1 .. Len(received[o])
    BY <1>2 DEF TypeInv, OtherTypes
  <1>5. \A b \in Batches :
           /\ b \notin Elements(received[o]) => Cardinality(copies(b)) = 0
           /\ b \in Elements(received[o]) /\ Once(received[o], b) => Cardinality(copies(b)) = 1
    <2> TAKE b \in Batches
    <2>1. b \notin Elements(received[o]) => copies(b) = {}
      BY <1>4 DEF Elements
    <2>2. b \in Elements(received[o]) => copies(b) # {}
      BY <1>4 DEF Elements
    <2>3. Once(received[o], b) => \A i, j \in copies(b) : i = j
      BY <1>4 DEF Once
    <2> HIDE DEF copies
    <2>4. b \notin Elements(received[o]) => Cardinality(copies(b)) = 0
      BY <2>1, FS_EmptySet
    <2> QED
      BY <2>2, <2>3, <2>4, NoneOrOne
  <1> HIDE DEF copies
  <1>6. \A b \in Batches, q \in Policies :
           /\ forwarded[b][q] \in Nat
           /\ forwarded'[b][q] = IF q = p THEN forwarded[b][q] + Cardinality(copies(b))
                                 ELSE forwarded[b][q]
    <2> TAKE b \in Batches, q \in Policies
    <2>1. forwarded[b] \in [Policies -> Nat]
      BY DEF TypeInv, OtherTypes
    <2>2. forwarded'[b] = [forwarded[b] EXCEPT ![p] = @ + Cardinality(copies(b))]
      BY <1>1
    <2> QED
      BY <1>2, <2>1, <2>2
  <1>7. /\ ticker'.o = o /\ ticker'.ids = ticker.ids
        /\ \/ ticker'.at = "evaluate" /\ ticker'.p = p + 1 /\ p < n
           \/ ticker'.at = "clear" /\ ticker'.p = p /\ p = n
    BY <1>1, AfterPolicyKeeps
  <1>8. First' = First /\ Fresh' = Fresh /\ AddingIds' = AddingIds /\ Keeping' = Keeping
    BY <1>1 DEF First, Fresh, AddingIds, Adding, Keeping, shared
  <1>9. Objects'
    <2>1. \A b \in Batches : object[b] = None =>
             \A q \in Policies : decisions[b][q] = "Pending" /\ forwarded'[b][q] = 0
      <3> SUFFICES ASSUME NEW b \in Batches, object[b] = None, NEW q \in Policies
                   PROVE  decisions[b][q] = "Pending" /\ forwarded'[b][q] = 0
        OBVIOUS
      <3>1. b \notin Elements(received[o])
        BY <1>2 DEF SampleParts, Objects
      <3>2. decisions[b][q] = "Pending" /\ forwarded[b][q] = 0
        BY DEF SampleParts, Objects
      <3>3. Cardinality(copies(b)) = 0
        BY <1>5, <3>1
      <3>4. \/ forwarded'[b][q] = forwarded[b][q] + Cardinality(copies(b))
            \/ forwarded'[b][q] = forwarded[b][q]
        BY <1>6
      <3> QED
        BY <3>2, <3>3, <3>4
    <2> QED
      BY <1>1, <1>7, <2>1 DEF SampleParts, Objects, shared
  <1>10. InOrder' /\ Delayed'
    BY <1>1, <1>7, <1>8, KeepOrder, KeepDelayed DEF SampleParts, shared, batcher
  <1>11. Stage'
    <2>1. decisions' = decisions /\ age' = age
      BY <1>1 DEF shared
    <2>2. o \in First => \A q \in Policies : decisions[o][q] = "Pending" <=>
             \/ ticker'.at \in {"evaluate", "assign"} /\ q >= ticker'.p
             \/ ticker'.at = "copy" /\ q > ticker'.p
      <3> SUFFICES ASSUME o \in First, NEW q \in Policies
                   PROVE  decisions[o][q] = "Pending" <=>
                             \/ ticker'.at \in {"evaluate", "assign"} /\ q >= ticker'.p
                             \/ ticker'.at = "copy" /\ q > ticker'.p
        OBVIOUS
      <3>1. decisions[o][q] = "Pending" <=> q > p
        BY <1>1 DEF SampleParts, Stage
      <3>2. q \in Nat /\ p \in Nat /\ q <= n
        BY <1>2, <1>3
      <3> HIDE DEF p, o
      <3> QED
        BY <1>3, <1>7, <3>1, <3>2
    <2>3. ticker'.at # "copy" /\ ticker'.at # "assign" /\ (ticker'.at = "clear" => ticker'.p = n)
      BY <1>7
    <2> QED
      BY <1>7, <1>8, <2>1, <2>2, <2>3 DEF SampleParts, Stage
  <1>12. Kept'
    <2> SUFFICES ASSUME NEW x \in Batches, object[x] \in First
                 PROVE  x \in Accounted'
      BY <1>1, <1>8 DEF Kept
    <2>1. x \in Accounted /\ object[x] \in Batches /\ object[x] # None
      BY NoneIsNoBatch DEF SampleParts, Kept, First
    <2>2. UNCHANGED <<object, decisions, received, caller>>
      BY <1>1 DEF shared
    <2>3. n \in Policies
      BY <1>3
    <2>4. x \in Elements(received[o]) => object[x] = o
      BY <1>2 DEF SampleParts, Objects
    <2>5. CASE object[x] # o
      <3>1. \A q \in Policies : forwarded'[x][q] = forwarded[x][q]
        BY <1>5, <1>6, <2>4, <2>5
      <3> QED
        BY <1>7, <1>8, <2>1, <2>2, <2>3, <2>5, <3>1 DEF Accounted
    <2>6. CASE object[x] = o
      <3>1. x \in Keeping <=> x \in Elements(received[o])
        BY <2>1, <2>6 DEF Keeping
      <3>2. Cardinality(copies(x)) = IF x \in Keeping THEN 1 ELSE 0
        <4>1. x \in Keeping => Once(received[o], x)
          BY <2>1, <2>6 DEF Accounted
        <4> QED
          BY <1>5, <3>1, <4>1
      <3>3. decisions[o][p] = "Sampled"
        BY <1>1, <2>6 DEF SampleParts, Stage
      <3>4. /\ x \in Keeping => caller[x[1]].t # x[2] /\ forwarded[x][n] = 0
            /\ forwarded[x][n] <= 1
            /\ caller[x[1]].t = x[2] => forwarded[x][n] = 0
        BY <1>1, <2>1 DEF Accounted
      <3>5. \A q \in Policies :
              /\ decisions[o][q] # "Sampled" => forwarded'[x][q] = 0
              /\ caller[x[1]].t # x[2] \/ caller[x[1]].p > q =>
                    /\ decisions[o][q] = "Pending" => caller[x[1]].t # x[2] /\ x \in Keeping
                    /\ decisions[o][q] = "Sampled" => forwarded'[x][q] >= 1
        <4> TAKE q \in Policies
        <4>1. /\ decisions[o][q] # "Sampled" => forwarded[x][q] = 0
              /\ caller[x[1]].t # x[2] \/ caller[x[1]].p > q =>
                    /\ decisions[o][q] = "Pending" => caller[x[1]].t # x[2] /\ x \in Keeping
                    /\ decisions[o][q] = "Sampled" =>
                          forwarded[x][q] >= 1 \/ (p = q /\ x \in Keeping)
          BY <2>1, <2>6 DEF Accounted
        <4>2. forwarded[x][q] \in Nat
          BY <1>6
        <4>3. CASE q = p
          <5>1. forwarded'[x][q] = forwarded[x][q] + (IF x \in Keeping THEN 1 ELSE 0)
            BY <1>6, <3>2, <4>3
          <5> HIDE DEF p, o
          <5> QED
            BY <3>3, <4>1, <4>2, <4>3, <5>1
        <4>4. CASE q # p
          <5>1. forwarded'[x][q] = forwarded[x][q]
            BY <1>6, <4>4
          <5> HIDE DEF p, o
          <5> QED
            BY <4>1, <4>4, <5>1
        <4> QED
          BY <4>3, <4>4
      <3>6. forwarded'[x][n] = IF n = p /\ x \in Keeping THEN forwarded[x][n] + 1 ELSE forwarded[x][n]
        <4>1. forwarded[x][n] \in Nat
          BY <1>6, <2>3
        <4> QED
          BY <1>6, <2>3, <3>2, <4>1
      <3>7. /\ forwarded'[x][n] <= 1
            /\ caller[x[1]].t = x[2] => forwarded'[x][n] = 0
            /\ x \in Keeping /\ ticker'.at # "clear" => forwarded'[x][n] = 0
        <4>1. ticker'.at # "clear" => n # p
          BY <1>2, <1>3, <1>7
        <4> HIDE DEF p, o
        <4> QED
          BY <3>4, <3>6, <4>1
      <3>8. x \in Keeping => caller[x[1]].t # x[2] /\ Once(received[object[x]], x)
        BY <2>1 DEF Accounted
      <3> HIDE DEF o, p
      <3> QED
        BY <1>7, <1>8, <2>2, <2>6, <3>5, <3>7, <3>8 DEF Accounted
    <2> QED
      BY <2>5, <2>6
  <1> QED
    BY <1>9, <1>10, <1>11, <1>12 DEF SampleParts

LEMMA RemoveSample ==
    ASSUME TypeInv, SampleParts, RemoveBatches
    PROVE  SampleParts'
  <1> USE TailSamplingAssumption
  <1> DEFINE o == ticker.o
  <1>1. /\ ticker.at = "clear" /\ received' = [received EXCEPT ![o] = <<>>]
        /\ ticker' = [ticker EXCEPT !.at = "load", !.o = None, !.p = 1]
        /\ UNCHANGED <<idToTrace, decisions, batcher, caller, forwarded, object, age, evicted>>
    BY DEF RemoveBatches
  <1>2. o \in Batches /\ ticker'.o = None /\ ticker'.at = "load" /\ ticker'.ids = ticker.ids
    BY <1>1 DEF TypeInv, TickerOK, OtherTypes, Ticking
  <1>3. /\ received'[o] = <<>> /\ \A x \in Batches \ {o} : received'[x] = received[x]
        /\ Elements(<<>>) = {}
    BY <1>1, <1>2 DEF TypeInv, OtherTypes, Elements
  <1>4. First' = First /\ Fresh' = Fresh /\ AddingIds' = AddingIds
    BY <1>1 DEF First, Fresh, AddingIds, Adding
  <1>5. None \notin First /\ None \notin Batches
    BY NoneIsNoBatch DEF First
  <1>6. Objects'
    <2>1. \A x \in Batches : \A y \in Elements(received'[x]) : object'[y] = x
      BY <1>1, <1>3 DEF SampleParts, Objects
    <2> QED
      BY <1>1, <1>2, <2>1 DEF SampleParts, Objects
  <1>7. InOrder'
    BY <1>1, KeepOrder DEF SampleParts
  <1>8. Delayed'
    <2>1. Undecided \subseteq Undecided'
      BY <1>1, <1>2, <1>5 DEF Undecided
    <2>2. Waiting' = Waiting
      BY <1>1, <1>2, <1>4 DEF Waiting, batcher
    <2> QED
      BY <1>1, <1>2, <1>4, <2>1, <2>2 DEF SampleParts, Delayed, batcher
  <1>9. o \in First => \A p \in Policies : decisions[o][p] # "Pending"
    BY <1>1 DEF SampleParts, Stage
  <1>10. Stage'
    <2>1. \A x \in First : \/ \A p \in Policies : decisions[x][p] = "Pending"
                           \/ \A p \in Policies : decisions[x][p] # "Pending"
      BY <1>9 DEF SampleParts, Stage
    <2>2. \A x \in First : (\E p \in Policies : decisions[x][p] # "Pending")
                              => age[x] = NumBatches + 1
      BY DEF SampleParts, Stage
    <2> QED
      BY <1>1, <1>2, <1>4, <1>5, <2>1, <2>2 DEF Stage
  <1>11. Kept'
    <2> SUFFICES ASSUME NEW x \in Batches, object[x] \in First
                 PROVE  x \in Accounted'
      BY <1>1, <1>4 DEF Kept
    <2>1. x \in Accounted /\ object[x] \in Batches /\ object[x] # None
      BY <1>5 DEF SampleParts, Kept, First
    <2>2. UNCHANGED <<object, decisions, caller, forwarded>>
      BY <1>1
    <2>3. CASE object[x] # o
      <3>1. received'[object[x]] = received[object[x]]
        BY <1>3, <2>1, <2>3
      <3>2. x \in Keeping' <=> x \in Keeping
        BY <2>2, <3>1 DEF Keeping
      <3> QED
        BY <1>2, <2>1, <2>2, <2>3, <3>1, <3>2 DEF Accounted
    <2>4. CASE object[x] = o
      <3>1. x \notin Keeping'
        BY <1>3, <2>2, <2>4 DEF Keeping
      <3> QED
        BY <1>1, <1>9, <2>1, <2>2, <2>4, <3>1 DEF Accounted
    <2> QED
      BY <2>3, <2>4
  <1> QED
    BY <1>6, <1>7, <1>8, <1>10, <1>11 DEF SampleParts

LEMMA InitSample == Init => SampleParts
  <1> SUFFICES ASSUME Init
               PROVE  SampleParts
    OBVIOUS
  <1> USE TailSamplingAssumption
  <1>1. /\ \A b \in Batches : object[b] = None /\ b # None /\ received[b] = <<>>
        /\ \A b \in Batches, p \in Policies : decisions[b][p] = "Pending" /\ forwarded[b][p] = 0
        /\ \A t \in Traces : idToTrace[t] = None
        /\ evicted = {} /\ ticker = IdleTicker
    BY NoneIsNoBatch DEF Init
  <1>2. First = {}
    BY <1>1 DEF First
  <1>3. Elements(<<>>) = {} /\ \A t : Once(<<>>, t)
    BY DEF Elements, Once
  <1>4. Objects
    BY <1>1, <1>3 DEF Objects, IdleTicker
  <1>5. InOrder
    BY <1>1 DEF Init, InOrder, IdleCaller, Batches
  <1>6. Adding = {} /\ AddingIds = {}
    BY DEF Init, Adding, AddingIds, IdleCaller
  <1>7. Delayed
    <2>1. /\ pendingIds = <<>> /\ currentBatch = <<>> /\ ticker.ids = <<>>
          /\ Len(batches) = NumBatches /\ \A k \in 1 .. NumBatches : batches[k] = <<>>
      BY <1>1 DEF Init, IdleTicker
    <2>2. \A t : Single(t, {}, <<>>, <<>>, batches, <<>>)
      BY <1>3, <2>1 DEF Single
    <2>3. Waiting = {}
      BY <1>3, <1>6, <2>1 DEF Waiting, Somewhere
    <2> QED
      BY <1>3, <1>6, <2>1, <2>2, <2>3 DEF Delayed
  <1>8. Stage
    BY <1>1, <1>2 DEF Stage, IdleTicker
  <1>9. Kept
    BY <1>2 DEF Kept
  <1> QED
    BY <1>4, <1>5, <1>7, <1>8, <1>9 DEF SampleParts

LEMMA NextSample == TypeInv /\ SampleParts /\ [Next]_vars => SampleParts'
  <1> SUFFICES ASSUME TypeInv, SampleParts, [Next]_vars
               PROVE  SampleParts'
    OBVIOUS
  <1>1. CASE \E c \in Calls : ConsumeTraces(c) \/ PostDeletion(c) \/ TakeOldest(c)
    BY <1>1, PostTakeSample
  <1>2. CASE \E c \in Calls, t \in Traces : LoadOrStore(c, t)
    BY <1>2, StoreSample
  <1>3. CASE \E c \in Calls : AddToCurrentBatch(c)
    BY <1>3, AddSample
  <1>4. CASE \E c \in Calls : DropTrace(c)
    BY <1>4, DropSample
  <1>5. CASE \E c \in Calls : ForPolicy(c)
    BY <1>5, PolicySample
  <1>6. CASE FillCurrentBatch
    BY <1>6, FillSample
  <1>7. CASE TickerStep
    BY <1>7, TickSample, LoadSample, EvaluateSample, DecisionSample, ForwardSample, RemoveSample
       DEF TickerStep
  <1>8. CASE UNCHANGED vars
    <2>1. UNCHANGED <<idToTrace, decisions, received, pendingIds, currentBatch, batches, caller,
                      ticker, forwarded, object, age, evicted>>
      BY <1>8 DEF vars, shared, batcher
    <2>2. First' \subseteq First /\ Fresh' \subseteq Fresh /\ AddingIds' = AddingIds
      BY <2>1 DEF First, Fresh, AddingIds, Adding
    <2> QED
      BY <2>1, <2>2, KeepObjects, KeepOrder, KeepDelayed, KeepStage, KeepKept DEF SampleParts
  <1> QED
    BY <1>1, <1>2, <1>3, <1>4, <1>5, <1>6, <1>7, <1>8 DEF Next, CallerStep

THEOREM SampleInvariance == Spec => [](TypeInv /\ SampleParts)
  <1>1. Init => SampleParts
    BY InitSample
  <1>2. TypeInv /\ SampleParts /\ [Next]_vars => SampleParts'
    BY NextSample
  <1> QED
    BY <1>1, <1>2, TypeInvariance, PTL DEF Spec

-----------------------------------------------------------------------------
(* What the invariant says about decisions and batches. *)

\* A TraceData whose trace had no other is a first one, if it was stored at all.
LEMMA NotReturned ==
    ASSUME NEW o \in Batches, object[o] = o, ~Returned(o)
    PROVE  o \in First
  BY DEF Returned, First

\* A policy that sampled a trace passes on every batch of it, whether it came before,
\* during or after the decision, one that did not passes on none, and nothing is lost
\* while the decision is pending: for any number of calls, traces and policies, any
\* decision_wait and any interleaving of callers with the ticker.
THEOREM SampledStayWhole == Spec => []SampledWhole
  <1>1. TypeInv /\ SampleParts => SampledWhole
    <2> SUFFICES ASSUME TypeInv, SampleParts, NEW b \in Batches, Handled(b),
                        ticker.o # object[b], ~Returned(object[b]), NEW p \in Policies
                 PROVE  LET d == decisions[object[b]][p]
                        IN  /\ d = "Sampled" => forwarded[b][p] >= 1
                            /\ d # "Sampled" => forwarded[b][p] = 0
                            /\ d = "Pending" => \E i \in DOMAIN received[object[b]] :
                                                    received[object[b]][i] = b
      BY DEF SampledWhole
    <2>1. object[b] # None /\ caller[b[1]].t # b[2] /\ object[b] \in Batches
      BY DEF Handled, TypeInv, MapInv, Types
    <2>2. object[b] \in First
      BY <2>1, NotReturned DEF SampleParts, Objects
    <2>3. b \in Accounted
      BY <2>2 DEF SampleParts, Kept
    <2>4. b \in Keeping => \E i \in DOMAIN received[object[b]] : received[object[b]][i] = b
      <3>1. /\ received[object[b]] \in Seq(Batches)
            /\ DOMAIN received[object[b]] = 1 .. Len(received[object[b]])
        BY <2>1 DEF TypeInv, OtherTypes
      <3> QED
        BY <3>1 DEF Keeping, Elements
    <2> QED
      BY <2>1, <2>3, <2>4 DEF Accounted
  <1> QED
    BY <1>1, SampleInvariance, PTL

\* A trace is decided after decision_wait and once, unless it was dropped and came back,
\* and the last policy passes on no batch twice: for any configuration with a policy.
THEOREM DecidedOnceOnTime == Spec => DecidedOnTime
  <1> USE TailSamplingAssumption
  <1>1. TypeInv /\ SampleParts => WaitRespected
    <2> SUFFICES ASSUME TypeInv, SampleParts, NEW o \in Batches,
                        decisions[o][1] # "Pending", ~Returned(o)
                 PROVE  age[o] = NumBatches + 1
      BY DEF WaitRespected
    <2>1. object[o] = o
      BY PolicyOne DEF SampleParts, Objects
    <2>2. o \in First
      BY <2>1, NotReturned
    <2> QED
      BY <2>2, PolicyOne DEF SampleParts, Stage
  <1>2. TypeInv /\ SampleParts => LastPolicyOnce
    <2> SUFFICES ASSUME TypeInv, SampleParts, NEW b \in Batches, object[b] # None,
                        ~Returned(object[b])
                 PROVE  forwarded[b][Len(Policy)] <= 1
      BY DEF LastPolicyOnce
    <2>1. object[b] \in Batches /\ object[object[b]] = object[b]
      BY DEF TypeInv, MapInv, Types, SampleParts, Objects
    <2>2. object[b] \in First
      BY <2>1, NotReturned
    <2> QED
      BY <2>2 DEF SampleParts, Kept, Accounted
  <1>3. TypeInv /\ SampleParts /\ [Next]_vars =>
           [\A o \in Batches, p \in Policies :
              (decisions[o][p] # "Pending" /\ ~Returned(o)) => decisions'[o][p] = decisions[o][p]]_vars
    <2> SUFFICES ASSUME TypeInv, SampleParts, [Next]_vars, NEW o \in Batches, NEW p \in Policies,
                        decisions[o][p] # "Pending", ~Returned(o)
                 PROVE  decisions'[o][p] = decisions[o][p]
      OBVIOUS
    <2>1. object[o] = o
      BY DEF SampleParts, Objects
    <2>2. o \in First
      BY <2>1, NotReturned
    <2>3. CASE WriteDecision
      <3>1. ticker.at = "assign" /\ decisions' = [decisions EXCEPT ![ticker.o][ticker.p] = ticker.result]
        BY <2>3 DEF WriteDecision
      <3>2. ticker.o \in Batches /\ decisions \in [Batches -> [Policies -> Decision]]
        BY <3>1 DEF TypeInv, TickerOK, OtherTypes
      <3>3. ~(ticker.o = o /\ ticker.p = p)
        <4> SUFFICES ASSUME ticker.o = o, ticker.p = p
                     PROVE  FALSE
          OBVIOUS
        <4>1. p >= ticker.p
          BY DEF Policies
        <4> QED
          BY <2>2, <3>1, <4>1 DEF SampleParts, Stage
      <3>4. decisions[ticker.o] \in [Policies -> Decision]
        BY <3>2
      <3> QED
        BY <3>1, <3>2, <3>3, <3>4
    <2>4. CASE ~WriteDecision
      <3>1. decisions' = decisions
        BY <2>4 DEF Next, CallerStep, TickerStep, ConsumeTraces, LoadOrStore, AddToCurrentBatch,
                    PostDeletion, TakeOldest, DropTrace, ForPolicy, FillCurrentBatch, Tick,
                    LoadTrace, Evaluate, ForwardReceived, RemoveBatches, vars, shared
      <3> QED
        BY <3>1
    <2> QED
      BY <2>3, <2>4
  <1> QED
    BY <1>1, <1>2, <1>3, SampleInvariance, PTL DEF DecidedOnTime, DecisionFinal, Spec
=============================================================================
