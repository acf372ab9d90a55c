----------------------------- MODULE PdataSlice -----------------------------
(***************************************************************************)
(* The slices of consumer/pdata (generated_trace.go; those of metrics and  *)
(* logs come from the same template): a slice is a Go slice of pointers to *)
(* elements, reached through a pointer, so that operations replace it in   *)
(* place.  The model has Go's slices as they are, with backing arrays that *)
(* may have room behind the last element, and elements that may be nil.    *)
(* What an element holds is one value.                                     *)
(***************************************************************************)
EXTENDS Naturals, Sequences, FiniteSets

CONSTANTS
    Slices,    \* slices that a program holds
    MaxLen,    \* bound: length of a slice
    Contents,  \* what an element can hold, Empty among it
    MaxOps     \* bound: operations

Empty == "empty"
Nil == 0

ASSUME SliceAssumption ==
    /\ IsFiniteSet(Slices)
    /\ MaxLen \in Nat
    /\ Empty \in Contents

\* Enough names that some are free: one array more than slices, a slice's worth of
\* elements more than all slices hold, the unused room of their arrays included.
Arrays == 1..(Cardinality(Slices) + 1)
Addresses == 1..((MaxLen + 1) * (Cardinality(Slices) + 1))

VARIABLES
    orig,     \* orig[s]: the slice: its array and its length
    cells,    \* cells[a]: the pointers in an array, its capacity being their number
    content,  \* content[e]: what element e holds
    value,    \* history: value[s]: what s would be if slices were values
    ops       \* history: operations so far

sliceVars == <<orig, cells, content, value, ops>>

NilSlice == [array |-> Nil, len |-> 0]

SliceInit ==
    /\ orig = [s \in Slices |-> NilSlice]
    /\ cells = [a \in Arrays |-> <<>>]
    /\ content = [e \in Addresses |-> Empty]
    /\ value = [s \in Slices |-> <<>>]
    /\ ops = 0

Array(s) == IF orig[s].array = Nil THEN <<>> ELSE cells[orig[s].array]
Pointers(s) == SubSeq(Array(s), 1, orig[s].len)
ContentOf(e) == IF e = Nil THEN "nil" ELSE content[e]

InUse == {orig[s].array : s \in Slices} \ {Nil}
FreeArray == CHOOSE a \in Arrays : a \notin InUse
Reachable == (UNION {{cells[a][j] : j \in DOMAIN cells[a]} : a \in InUse}) \ {Nil}

\* n elements that nobody refers to.
FreeElements(n) ==
    CHOOSE q \in [1..n -> Addresses \ Reachable] : \A j, k \in 1..n : q[j] = q[k] => j = k

\* An array c whose front is overwritten with p.
Overwrite(c, p) == p \o SubSeq(c, Len(p) + 1, Len(c))

\* Go's append: into the array if there is room, otherwise into a new one, perhaps with
\* room for one more.
Appended(s, new) ==
    LET all == Pointers(s) \o new
    IN  IF Len(all) <= Len(Array(s))
        THEN {[array |-> orig[s].array, cells |-> Overwrite(Array(s), all)]}
        ELSE {[array |-> FreeArray, cells |-> all \o room] : room \in {<<>>, <<Nil>>}}

AppendTo(s, new) ==
    \E r \in Appended(s, new) :
        /\ cells' = [cells EXCEPT ![r.array] = r.cells]
        /\ orig' = [orig EXCEPT ![s] = [array |-> r.array, len |-> @.len + Len(new)]]

\* Resize to a greater length: new elements, one append each; an array that is given up on
\* the way is nobody else's (SlicesAreValues).
ResizeUp(s, n) ==
    /\ n > orig[s].len
    /\ LET new == FreeElements(n - orig[s].len)
       IN  /\ AppendTo(s, new)
           /\ content' = [e \in Addresses |->
                             IF \E j \in DOMAIN new : new[j] = e THEN Empty ELSE content[e]]
    /\ value' = [value EXCEPT ![s] = @ \o [j \in 1..(n - Len(@)) |-> Empty]]

\* Resize to a length that is not greater: the array and what is in it stay, except for 0.
ResizeDown(s, n) ==
    /\ n <= orig[s].len
    /\ orig' = [orig EXCEPT ![s] = IF n = 0 THEN NilSlice ELSE [array |-> @.array, len |-> n]]
    /\ value' = [value EXCEPT ![s] = SubSeq(@, 1, n)]
    /\ UNCHANGED <<cells, content>>

\* A program makes an element, sets it or leaves it nil, and appends it.
AppendElement(s, c) ==
    /\ orig[s].len < MaxLen
    /\ LET e == IF c = "nil" THEN Nil ELSE FreeElements(1)[1]
       IN  /\ AppendTo(s, <<e>>)
           /\ content' = IF e = Nil THEN content ELSE [content EXCEPT ![e] = c]
    /\ value' = [value EXCEPT ![s] = Append(@, c)]

\* A program sets element j, which is not nil.
SetElement(s, j, c) ==
    /\ j <= orig[s].len /\ Pointers(s)[j] # Nil
    /\ content' = [content EXCEPT ![Pointers(s)[j]] = c]
    /\ value' = [value EXCEPT ![s][j] = c]
    /\ UNCHANGED <<orig, cells>>

\* MoveAndAppendTo: d takes the slice of s, or the pointers; s is nil then.
MoveAndAppendTo(s, d) ==
    /\ s # d /\ orig[s].len + orig[d].len <= MaxLen
    /\ \/ /\ orig[s].len = 0
          /\ orig' = [orig EXCEPT ![s] = NilSlice]
          /\ cells' = cells
       \/ /\ orig[s].len > 0 /\ orig[d].len = 0
          /\ orig' = [orig EXCEPT ![d] = orig[s], ![s] = NilSlice]
          /\ cells' = cells
       \/ /\ orig[s].len > 0 /\ orig[d].len > 0
          /\ \E r \in Appended(d, Pointers(s)) :
                /\ cells' = [cells EXCEPT ![r.array] = r.cells]
                /\ orig' = [orig EXCEPT ![d] = [array |-> r.array, len |-> @.len + orig[s].len],
                                        ![s] = NilSlice]
    /\ value' = [value EXCEPT ![d] = @ \o value[s], ![s] = <<>>]
    /\ UNCHANGED content

\* The copies that CopyTo makes of pointers: into the elements of d as far as there are
\* any, a nil for a nil, a new element for the others.
Copies(s, d) ==
    LET n == orig[s].len
        new == FreeElements(n)
        inPlace == n <= orig[d].len
    IN  [j \in 1..n |-> CASE Pointers(s)[j] = Nil -> Nil
                          [] Pointers(s)[j] # Nil /\ inPlace /\ Pointers(d)[j] # Nil -> Pointers(d)[j]
                          [] OTHER -> new[j]]

\* Mutant: pointers are copied, not what they point to.
CopyPointers(s, d) ==
    /\ orig[s].len > 0
    /\ LET a == IF orig[s].len <= orig[d].len THEN orig[d].array ELSE FreeArray
       IN  /\ cells' = [cells EXCEPT ![a] = Pointers(s)]
           /\ orig' = [orig EXCEPT ![d] = [array |-> a, len |-> orig[s].len]]
    /\ value' = [value EXCEPT ![d] = value[s]]
    /\ UNCHANGED content

\* CopyTo of a slice that is not empty: d is shortened, or gets a new array.
CopyTo(s, d) ==
    /\ orig[s].len > 0
    /\ LET copies == Copies(s, d)
           n == orig[s].len
           inPlace == n <= orig[d].len
           a == IF inPlace THEN orig[d].array ELSE FreeArray
           source(e) == CHOOSE j \in 1..n : copies[j] = e
       IN  /\ cells' = [cells EXCEPT ![a] = IF inPlace THEN Overwrite(@, copies) ELSE copies]
           /\ orig' = [orig EXCEPT ![d] = [array |-> a, len |-> n]]
           /\ content' = [e \in Addresses |->
                             IF \E j \in 1..n : copies[j] = e THEN content[Pointers(s)[source(e)]]
                             ELSE content[e]]
    /\ value' = [value EXCEPT ![d] = value[s]]

\* CopyTo of an empty slice.
CopyEmpty(s, d) ==
    /\ orig[s].len = 0
    /\ orig' = [orig EXCEPT ![d] = NilSlice]
    /\ value' = [value EXCEPT ![d] = <<>>]
    /\ UNCHANGED <<cells, content>>

SliceNext ==
    /\ ops < MaxOps /\ ops' = ops + 1
    /\ \E s \in Slices :
        \/ \E n \in 0..MaxLen : ResizeUp(s, n) \/ ResizeDown(s, n)
        \/ \E c \in Contents \cup {"nil"} : AppendElement(s, c)
        \/ \E j \in 1..MaxLen, c \in Contents : SetElement(s, j, c)
        \/ \E d \in Slices : MoveAndAppendTo(s, d) \/ CopyTo(s, d) \/ CopyEmpty(s, d)

SliceSpec == SliceInit /\ [][SliceNext]_sliceVars

-----------------------------------------------------------------------------

\* Slices are values: whatever was resized, moved and copied before, and whichever arrays
\* were reused, what a slice holds is what was done to it, and no write to another slice
\* shows in it.  Processors that clone data rely on it, and splitTrace on its moves.  No
\* two slices have the same array, with whatever room is in it.
SlicesAreValues ==
    /\ \A s \in Slices : [j \in 1..orig[s].len |-> ContentOf(Pointers(s)[j])] = value[s]
    /\ \A s, d \in Slices : s # d /\ orig[s].array # Nil => orig[s].array # orig[d].array
=============================================================================
