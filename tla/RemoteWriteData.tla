--------------------------- MODULE RemoteWriteData ---------------------------
(* Metrics of every type for RemoteWrite. *)
EXTENDS Naturals, Sequences

Names == << <<"_", "_", "name", "_", "_">>, <<"a">>, <<"a", "_", "b">>, <<"b">>,
           <<"key", "_", "1">>, <<"le">>, <<"quantile">> >>

Point(labels, v) == [labels |-> labels, sum |-> v, count |-> 1, buckets |-> <<>>, bounds |-> <<>>]
A(v) == << <<"a">>, <<v>> >>
B(v) == << <<"b">>, <<v>> >>
Metric(type, points) == [type |-> type, cumulative |-> TRUE, name |-> <<"m">>, points |-> points]
Delta == [Metric("monotonic", <<Point(<<>>, 1)>>) EXCEPT !.cumulative = FALSE]
Gauge == Metric("gauge", <<Point(<<A("x")>>, 1), Point(<<A("y")>>, 2), Point(<<A("x")>>, 3)>>)
TwoLabels == Metric("gauge", <<Point(<<A("x"), B("y")>>, 4), Point(<<B("y"), A("x")>>, 5)>>)
Counter == Metric("monotonic", <<Point(<< << <<"1">>, <<"x">> >> >>, 6)>>)
Nameless == [Counter EXCEPT !.name = <<>>]
Parts(bounds) ==
    [Point(<<A("x")>>, 7) EXCEPT !.buckets = <<1, 2>>, !.bounds = bounds]
Distribution == Metric("histogram", <<Parts(<< <<"1">>, <<"2">> >>)>>)
Short == Metric("histogram", <<Parts(<< <<"1">> >>)>>)
Percentiles == Metric("summary", <<Parts(<< <<"5", "0">>, <<"9", "9">> >>)>>)

\* Texts in which signatures tell labels apart.
PlainPayloads ==
    {<<>>, <<Gauge, Counter, Nameless>>, <<Delta, TwoLabels>>, <<Metric("none", <<>>), Metric("gauge", <<>>)>>,
     <<Distribution, Percentiles>>, <<Gauge, Short>>}

\* Texts in which they do not: a value with the signs of a label in it, and keys that
\* are one name once they are sanitized.
MixedPayloads ==
    {<<Metric("gauge", <<Point(<< << <<"a">>, <<"x", "-", "b", "-", "y">> >> >>, 1),
                         Point(<<A("x"), B("y")>>, 2)>>)>>,
     <<Metric("gauge", LET both == << << <<"a", ".", "b">>, <<"x">> >>, << <<"a", "_", "b">>, <<"y">> >> >>
                       IN  <<Point(both, 1), Point(both, 2)>>)>>}
=============================================================================
