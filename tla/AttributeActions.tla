-------------------------- MODULE AttributeActions --------------------------
(***************************************************************************)
(* processor/processorhelper, AttrProc.Process, as the attributes and the  *)
(* resource processor call it for one span after another, on attributes    *)
(* kept the way consumer/pdata keeps them: an AttributeMap is a sequence   *)
(* of keys with references to values.  Values are shared between           *)
(* attributes, spans and the configuration; setting a value replaces the   *)
(* reference.  A value is [type, val], where val is its bytes: those of a  *)
(* string, and the encoding of a number or boolean, which is not empty.    *)
(*                                                                         *)
(* The pointer of an attribute to its value may be nil when it came from   *)
(* the wire.  Such a value counts as null everywhere (Type), but it cannot *)
(* be copied to.  AttributeMaps have no nil entries and no key twice.      *)
(***************************************************************************)
EXTENDS Naturals, Sequences

CONSTANTS
    Keys,
    Bytes,       \* byte strings
    NoBytes,     \* the empty one
    Sha1,        \* the hash of a byte string, in hexadecimal
    Configured,  \* values of the configuration, references 1..Len(Configured)
    Lists,       \* the lists of actions to check
    Contents     \* attributes a span may arrive with: sequences of [key, value]

\* An action: [action, key], and where it has them
\*   const: the reference of a configured value, or 0 and from: a key;
\*   submatches, names: what FindStringSubmatch of its pattern returns for a string (<<>>:
\*   no match), and the keys of the groups.
Kinds == {"delete", "insert", "update", "upsert", "hash", "extract"}
Actions ==
    [action : Kinds, key : Keys, const : 0..Len(Configured), from : Keys, names : Seq(Keys),
     submatches : [Bytes -> Seq(Bytes)]]
Types == {"string", "number", "map", "null"}
Values == [type : Types, val : Bytes]

\* FindStringSubmatch returns a string for every group.  An AttributeMap has no key twice.
ASSUME AttributeAssumption ==
    /\ NoBytes \in Bytes /\ Sha1 \in [Bytes -> Bytes]
    /\ Configured \in Seq(Values)
    /\ Lists \subseteq Seq(Actions)
    /\ \A list \in Lists : \A a \in DOMAIN list : \A s \in Bytes :
          Len(list[a].submatches[s]) \in {0, Len(list[a].names)}
    /\ Contents \subseteq Seq([key : Keys, value : Values])
    /\ \A c \in Contents : \A i, j \in DOMAIN c : c[i].key = c[j].key => i = j

VARIABLES
    actions,   \* the list that is checked
    heap,      \* values by reference
    spans,     \* spans[k]: its AttributeMap
    arrived,   \* what the spans arrived with
    skip,      \* spans that include and exclude leave out
    nilValues, \* nilValues[k]: the keys of span k whose value is nil
    nthSpan, nthAction, \* the span and the action that are next
    panicked   \* copyTo was called with a nil destination

attributeVars ==
    <<actions, heap, spans, arrived, skip, nilValues, nthSpan, nthAction, panicked>>

\* The values that spans arrive with, and the AttributeMaps that refer to them.
ValuesOf(c) == [i \in 1..Len(c) |-> c[i].value]
References(c, first) == [i \in 1..Len(c) |-> [key |-> c[i].key, ref |-> first + i]]

\* Keys that arrive with a null value, which may be nil.
NullKeys(c) == {c[i].key : i \in {j \in DOMAIN c : c[j].value.type = "null"}}

AttributeInit ==
    /\ actions \in Lists
    /\ arrived \in [1..2 -> Contents]
    /\ skip \in SUBSET {1}
    /\ heap = (Configured \o ValuesOf(arrived[1])) \o ValuesOf(arrived[2])
    /\ spans = <<References(arrived[1], Len(Configured)),
                 References(arrived[2], Len(Configured) + Len(arrived[1]))>>
    /\ nilValues \in {n \in [1..2 -> SUBSET Keys] : \A k \in 1..2 : n[k] \subseteq NullKeys(arrived[k])}
    /\ nthSpan = 1 /\ nthAction = 1 /\ panicked = FALSE

-----------------------------------------------------------------------------
(* AttributeMap. *)

Has(am, k) == \E i \in DOMAIN am : am[i].key = k
Position(am, k) == CHOOSE i \in DOMAIN am : am[i].key = k /\ \A j \in 1..(i - 1) : am[j].key # k

\* Get: a reference.
Get(am, k) == am[Position(am, k)].ref

\* Delete: the last entry takes the place of the deleted one.
Delete(am, k) ==
    IF Has(am, k)
    THEN SubSeq([am EXCEPT ![Position(am, k)] = am[Len(am)]], 1, Len(am) - 1)
    ELSE am

Insert(am, k, ref) == IF Has(am, k) THEN am ELSE Append(am, [key |-> k, ref |-> ref])
Update(am, k, ref) ==
    IF Has(am, k) THEN [am EXCEPT ![Position(am, k)] = [key |-> k, ref |-> ref]] ELSE am
Upsert(am, k, ref) == IF Has(am, k) THEN Update(am, k, ref) ELSE Insert(am, k, ref)

-----------------------------------------------------------------------------
(* Process. *)

Current == actions[nthAction]
Attrs == spans[nthSpan]
Found == Current.const > 0 \/ Has(Attrs, Current.from)
Source == IF Current.const > 0 THEN Current.const ELSE Get(Attrs, Current.from)

\* sha1Hasher: what is neither string, number nor boolean has no bytes, and without bytes
\* there is no hash.
String(s) == [type |-> "string", val |-> s]
BytesOf(v) == IF v.type \in {"string", "number"} THEN v.val ELSE NoBytes
Hashed(v) == String(IF BytesOf(v) # NoBytes THEN Sha1[BytesOf(v)] ELSE NoBytes)

\* extractAttributes: strings only.
MatchesPattern(a, v) == v.type = "string" /\ a.submatches[v.val] # <<>>
Group(matches, i) == String(matches[i])

\* A step that sets or removes keys.
Step(am, h, changed) ==
    /\ spans' = [spans EXCEPT ![nthSpan] = am]
    /\ heap' = h
    /\ nilValues' = [nilValues EXCEPT ![nthSpan] = @ \ changed]

Active(kind) ==
    /\ nthSpan \in DOMAIN spans /\ nthSpan \notin skip /\ ~panicked
    /\ nthAction \in DOMAIN actions /\ Current.action = kind

ProcessDelete ==
    Active("delete") /\ Step(Delete(Attrs, Current.key), heap, {Current.key})

\* copyTo of the source would write to a nil value.
CopiesToNil == Found /\ Has(Attrs, Current.key) /\ Current.key \in nilValues[nthSpan]

ProcessInsert ==
    Active("insert") /\ Step(IF Found THEN Insert(Attrs, Current.key, Source) ELSE Attrs, heap, {})
ProcessUpdate ==
    /\ Active("update") /\ ~CopiesToNil
    /\ Step(IF Found THEN Update(Attrs, Current.key, Source) ELSE Attrs, heap, {})
ProcessUpsert ==
    /\ Active("upsert") /\ ~CopiesToNil
    /\ Step(IF Found THEN Upsert(Attrs, Current.key, Source) ELSE Attrs, heap, {})

\* Mutant: the value itself is changed.
ProcessHashInPlace ==
    /\ Active("hash")
    /\ IF Has(Attrs, Current.key)
       THEN LET r == Get(Attrs, Current.key) IN Step(Attrs, [heap EXCEPT ![r] = Hashed(@)], {Current.key})
       ELSE Step(Attrs, heap, {})

\* hashAttribute, with SetStringVal.
ProcessHash ==
    /\ Active("hash")
    /\ IF Has(Attrs, Current.key)
       THEN Step(Update(Attrs, Current.key, Len(heap) + 1),
                 Append(heap, Hashed(heap[Get(Attrs, Current.key)])), {Current.key})
       ELSE Step(Attrs, heap, {})

\* extractAttributes: the groups of the match one after the other, with UpsertString; the
\* i-th is the value at base + i.
UpsertedUpTo(am, names, base) ==
    LET after[i \in 0..Len(names)] ==
            IF i = 0 THEN am ELSE Upsert(after[i - 1], names[i], base + i)
    IN  after

Extracted(am, names, base) == UpsertedUpTo(am, names, base)[Len(names)]

ProcessExtract ==
    /\ Active("extract")
    /\ IF Has(Attrs, Current.key) /\ MatchesPattern(Current, heap[Get(Attrs, Current.key)])
       THEN LET matches == Current.submatches[heap[Get(Attrs, Current.key)].val]
            IN  Step(Extracted(Attrs, Current.names, Len(heap)),
                     heap \o [i \in 1..Len(Current.names) |-> Group(matches, i)],
                     {Current.names[i] : i \in 1..Len(Current.names)})
       ELSE Step(Attrs, heap, {})

ProcessAction ==
    /\ \/ ProcessDelete \/ ProcessInsert \/ ProcessUpdate \/ ProcessUpsert
       \/ ProcessHash \/ ProcessExtract
    /\ nthAction' = nthAction + 1
    /\ UNCHANGED <<actions, arrived, skip, nthSpan, panicked>>

\* Update and Upsert of a key whose value is nil; nothing recovers.
CopyPanics ==
    /\ Active("update") \/ Active("upsert")
    /\ CopiesToNil
    /\ panicked' = TRUE
    /\ UNCHANGED <<actions, heap, spans, arrived, skip, nilValues, nthSpan, nthAction>>

\* ProcessTraces: the next span; skipSpan leaves some out.
NextSpan ==
    /\ nthSpan \in DOMAIN spans /\ ~panicked
    /\ nthSpan \in skip \/ nthAction > Len(actions)
    /\ nthSpan' = nthSpan + 1 /\ nthAction' = 1
    /\ UNCHANGED <<actions, heap, spans, arrived, skip, nilValues, panicked>>

AttributeNext == ProcessAction \/ CopyPanics \/ NextSpan

AttributeSpec == AttributeInit /\ [][AttributeNext]_attributeVars

-----------------------------------------------------------------------------
(* What the actions mean, for attributes that are a function from keys to values. *)

Less(f, k) == [x \in DOMAIN f \ {k} |-> f[x]]
With(f, k, v) == [x \in DOMAIN f \cup {k} |-> IF x = k THEN v ELSE f[x]]

\* The groups set their keys, the last one if several have the same.
WithGroups(f, matches, names, n) ==
    [x \in DOMAIN f \cup {names[i] : i \in 1..n} |->
        IF \E i \in 1..n : names[i] = x
        THEN Group(matches, CHOOSE i \in 1..n : names[i] = x /\ \A j \in (i + 1)..n : names[j] # x)
        ELSE f[x]]

\* The hash of a value is a string: the hash of its bytes, and empty for an empty string and
\* for maps, arrays and null.
HashMeans(v) ==
    CASE v.type \in {"map", "null"} \/ v.val = NoBytes -> [type |-> "string", val |-> NoBytes]
      [] OTHER -> [type |-> "string", val |-> Sha1[v.val]]

Meaning(a, f) ==
    LET value == IF a.const > 0 THEN Configured[a.const] ELSE f[a.from]
        found == a.const > 0 \/ a.from \in DOMAIN f
    IN  CASE a.action = "delete" -> Less(f, a.key)
          [] a.action = "insert" -> IF found /\ a.key \notin DOMAIN f THEN With(f, a.key, value) ELSE f
          [] a.action = "update" -> IF found /\ a.key \in DOMAIN f THEN With(f, a.key, value) ELSE f
          [] a.action = "upsert" -> IF found THEN With(f, a.key, value) ELSE f
          [] a.action = "hash"   -> IF a.key \in DOMAIN f THEN With(f, a.key, HashMeans(f[a.key])) ELSE f
          [] a.action = "extract" ->
                IF a.key \in DOMAIN f /\ MatchesPattern(a, f[a.key])
                THEN WithGroups(f, a.submatches[f[a.key].val], a.names, Len(a.names)) ELSE f

AsMap(c) ==
    [x \in {c[i].key : i \in DOMAIN c} |-> c[CHOOSE i \in DOMAIN c : c[i].key = x].value]

\* MeantUpTo(list, c)[i]: what the first i actions of a list make of the attributes c.
MeantUpTo(list, c) ==
    LET f[i \in 0..Len(list)] == IF i = 0 THEN AsMap(c) ELSE Meaning(list[i], f[i - 1])
    IN  f

Done(k) ==
    IF k \in skip \/ k > nthSpan THEN 0
    ELSE IF k < nthSpan THEN Len(actions) ELSE nthAction - 1

Expected(k) == MeantUpTo(actions, arrived[k])[Done(k)]

\* An AttributeMap, with the values it refers to, stands for a function from keys to values.
Represents(am, h, f) ==
    /\ \A i, j \in DOMAIN am : am[i].key = am[j].key => i = j
    /\ {am[i].key : i \in DOMAIN am} = DOMAIN f
    /\ \A i \in DOMAIN am : h[am[i].ref] = f[am[i].key]

\* After every action, every span has the attributes that the actions applied to it mean
\* and no key twice, although values are shared between attributes, spans and the
\* configuration and entries change places; and only updating an attribute that is null
\* panics.
ActionsApplied ==
    /\ \A k \in DOMAIN spans : Represents(spans[k], heap, Expected(k))
    /\ panicked =>
          /\ Current.action \in {"update", "upsert"}
          /\ Current.key \in DOMAIN Expected(nthSpan)
          /\ Expected(nthSpan)[Current.key].type = "null"

\* attraction.go: HASH "overwrites the value with it's SHA-1 hash result", for "all types"
\* (hasher.go).  Not so: without bytes there is no hash.
HashedIsHash ==
    \A k \in DOMAIN spans \ skip :
        k = nthSpan /\ nthAction > 1 /\ actions[nthAction - 1].action = "hash" =>
            \A i \in DOMAIN spans[k] :
                spans[k][i].key = actions[nthAction - 1].key =>
                    heap[spans[k][i].ref].val \in {Sha1[s] : s \in Bytes}

\* attraction.go: UPDATE "Updates an existing key with a value".  Not so if it is nil.
UpdatesApplied == ~panicked
=============================================================================
