---------------------------- MODULE SplitTraces ----------------------------
(***************************************************************************)
(* processor/batchprocessor/splittraces.go: splitTrace takes `size' spans  *)
(* out of a trace payload, from its end, and returns them in a new one.    *)
(*                                                                         *)
(* A payload is a sequence of resources, each a sequence of libraries,     *)
(* each a sequence of spans.  A resource and a library carry the label     *)
(* (resource, instrumentation library) that CopyTo copies; a span is       *)
(* identified by where it was in the input.                                *)
(***************************************************************************)
EXTENDS Naturals, Sequences, SequencesExt

CONSTANTS MaxResources,   \* bound: resources of a payload
          MaxLibraries,   \* bound: libraries of a resource
          MaxSpans,       \* bound: spans of a library
          MaxSize         \* bound: the size asked for

VARIABLES
    input,     \* the payload before the call (never changed)
    size,      \* the argument
    toSplit,   \* the payload, from which spans are removed
    result,    \* the new payload
    copied,    \* copiedSpans
    i, j,      \* the loop counters, counting from 1
    pc         \* "call", "resource", "library", "returned"

vars == <<input, size, toSplit, result, copied, i, j, pc>>

\* All payloads of a given shape: shape[r][l] is the number of spans.
PayloadOf(shape) ==
    [r \in DOMAIN shape |->
        [label |-> r,
         libs  |-> [l \in DOMAIN shape[r] |->
                       [label |-> l,
                        spans |-> [k \in 1 .. shape[r][l] |-> <<r, l, k>>]]]]]

Shapes == BoundedSeq(BoundedSeq(0 .. MaxSpans, MaxLibraries), MaxResources)

SpansOf(td) ==
    FlattenSeq([r \in DOMAIN td |->
        FlattenSeq([l \in DOMAIN td[r].libs |-> td[r].libs[l].spans])])

CountSpans(td) == Len(SpansOf(td))

Init ==
    /\ \E shape \in Shapes : input = PayloadOf(shape)
    /\ size \in 0 .. MaxSize
    /\ toSplit = input
    /\ result = <<>>
    /\ copied = 0
    /\ i = Len(input)
    /\ j = 0
    /\ pc = "call"

\* Nothing to split: the argument itself is returned.
ReturnSame ==
    /\ pc = "call"
    /\ CountSpans(toSplit) <= size
    /\ result' = toSplit
    /\ pc' = "returned"
    /\ UNCHANGED <<input, size, toSplit, copied, i, j>>

Enter ==
    /\ pc = "call"
    /\ CountSpans(toSplit) > size
    /\ pc' = "resource"
    /\ UNCHANGED <<input, size, toSplit, result, copied, i, j>>

\* Mutant: the new resource is a copy of the first one.
NextResourceOfFirst ==
    /\ pc = "resource"
    /\ i > 0
    /\ result' = Append(result, [label |-> toSplit[1].label, libs |-> <<>>])
    /\ j' = Len(toSplit[i].libs)
    /\ pc' = "library"
    /\ UNCHANGED <<input, size, toSplit, copied, i>>

\* Head of the outer loop: a new resource in the result.
NextResource ==
    /\ pc = "resource"
    /\ i > 0
    /\ result' = Append(result, [label |-> toSplit[i].label, libs |-> <<>>])
    /\ j' = Len(toSplit[i].libs)
    /\ pc' = "library"
    /\ UNCHANGED <<input, size, toSplit, copied, i>>

Ending(s, n) == SubSeq(s, Len(s) - n + 1, Len(s))
AllBut(s, n) == SubSeq(s, 1, Len(s) - n)

\* The spans that were copied are cut off, and an emptied library, which is
\* the last one then, is cut off too.
Shrink(libs, n) ==
    IF Len(libs[j].spans) = n THEN AllBut(libs, 1)
    ELSE [libs EXCEPT ![j].spans = AllBut(@, n)]

RoomLeft == size - copied

Full(n) == copied + n = size

\* One library: as many of its last spans as fit are copied in reverse order.
CopyLibrary ==
    /\ pc = "library"
    /\ j > 0
    /\ LET lib  == toSplit[i].libs[j]
           n    == IF RoomLeft >= Len(lib.spans) THEN Len(lib.spans) ELSE RoomLeft
           dest == [label |-> lib.label, spans |-> Reverse(Ending(lib.spans, n))]
       IN  /\ result' = [result EXCEPT ![Len(result)].libs = Append(@, dest)]
           /\ toSplit' = [toSplit EXCEPT ![i].libs = Shrink(@, n)]
           /\ copied' = copied + n
           /\ pc' = IF Full(n) THEN "returned" ELSE "library"
    /\ j' = j - 1
    /\ UNCHANGED <<input, size, i>>

\* End of the outer loop's body: an emptied resource is cut off.
EndResource ==
    /\ pc = "library"
    /\ j = 0
    /\ toSplit' = IF toSplit[i].libs = <<>> THEN AllBut(toSplit, 1) ELSE toSplit
    /\ i' = i - 1
    /\ pc' = "resource"
    /\ UNCHANGED <<input, size, result, copied, j>>

\* The return behind the loops is not an action: the count is checked on entry,
\* so the loops return first (it would not return otherwise).
Next ==
    \/ ReturnSame
    \/ Enter
    \/ NextResource
    \/ CopyLibrary
    \/ EndResource

Spec == Init /\ [][Next]_vars

-----------------------------------------------------------------------------
\* What splitTrace is for: the result has the last `size' spans of the input
\* and what is left of the argument has all the others, in their order, so that
\* no span is lost or sent twice however they are spread over libraries.
TakesTheEnd ==
    pc = "returned" /\ CountSpans(input) > size =>
        /\ SpansOf(result) = Reverse(Ending(SpansOf(input), size))
        /\ SpansOf(toSplit) = AllBut(SpansOf(input), size)

\* A copied span keeps its context: it is under the resource and the library
\* it came from, in the result as in what is left.
ContextKept ==
    \A td \in {toSplit, result} :
        \A r \in DOMAIN td : \A l \in DOMAIN td[r].libs :
            \A k \in DOMAIN td[r].libs[l].spans :
                LET span == td[r].libs[l].spans[k] IN
                    span[1] = td[r].label /\ span[2] = td[r].libs[l].label
=============================================================================
