----------------------------- MODULE MCIterators -----------------------------
(* Iterators for TLC: the histograms, the iterators and their arguments. *)
EXTENDS Iterators, TLC

\* What is left of a histogram with these arguments and this offset after recording
\* each of the values count times.
Recorded(arguments, offset, values, count) ==
    LET config == BucketConfig(arguments[1], arguments[2], arguments[3])
        after[n \in 0 .. Len(values)] ==
            IF n = 0 THEN EmptyFields(offset)
            ELSE RecordValues(config, after[n - 1], values[n], count)
    IN  [config |-> config, fields |-> after[Len(values)]]

\* Nothing, one value, neighbours, the ends of buckets and of the counts, values that
\* differ in their buckets, and the highest value of the word.
MCContents ==
    {Recorded(<<1, 200, 1>>, offset, values, count) :
        offset \in {0, 7}, count \in {1, 3},
        values \in {<<>>, <<0>>, <<5>>, <<0, 1, 2, 3>>, <<31, 32, 33, 64>>, <<0, 100, 200>>}}
    \union {Recorded(<<4, 150, 1>>, 0, values, 2) : values \in {<<0>>, <<3, 4, 9>>, <<150>>}}
    \union {Recorded(<<1, MaxWord, 1>>, 0, values, 1) : values \in {<<MaxWord>>, <<3, 250, 260>>}}

MCKinds ==
    {[kind |-> k, first |-> 1, by |-> 1] : k \in {"all", "recorded", "lookup"}}
    \union {[kind |-> "linear", first |-> n, by |-> n] : n \in {1, 3, 40}}
    \union {[kind |-> "log", first |-> f, by |-> b] : f \in {1, 10}, b \in {2, 3}}
    \union {[kind |-> "percentile", first |-> 1, by |-> n] : n \in {1, 3}}

MCPercentiles == <<<<0, 1>>, <<1, 100>>, <<1, 3>>, <<1, 2>>, <<3, 4>>, <<9, 10>>, <<1, 1>>, <<3, 2>>>>
=============================================================================
