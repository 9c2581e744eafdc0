------------------------------ MODULE Recording ------------------------------
(***************************************************************************)
(* What src/hdr_histogram.c does to the fields of one histogram: recording *)
(* values, recomputing the counters, reading counts and extremes.          *)
(*                                                                         *)
(* c is the configuration, which hdr_init sets for good; s has the other   *)
(* fields.  The array of counts is a bag of its indexes.                   *)
(***************************************************************************)
EXTENDS HistogramLayout, SequencesExt, Bags

Indexes(c) == 0 .. c.counts_len - 1

\* normalize_index: an offset rotates the array of counts.
NormalizeIndex(c, s, index) ==
    LET normalized_index == index - s.normalizing_index_offset
    IN  normalized_index
          + (IF s.normalizing_index_offset = 0 THEN 0
             ELSE IF normalized_index < 0 THEN c.counts_len
             ELSE IF normalized_index >= c.counts_len THEN -c.counts_len
             ELSE 0)

CountAtIndex(c, s, index) ==
    LET i == NormalizeIndex(c, s, index)
    IN  IF i \in BagToSet(s.counts) THEN s.counts[i] ELSE 0

UpdateMinMax_OrElse(s, value) ==    \* A mutant: the second test in an else branch.
    IF value > s.max_value THEN [s EXCEPT !.max_value = value]
    ELSE IF value # 0 /\ value < s.min_value THEN [s EXCEPT !.min_value = value]
    ELSE s

UpdateMinMax_Zero(s, value) ==      \* A mutant: the minimum may be 0.
    [s EXCEPT !.max_value = Max({@, value}),
              !.min_value = Min({@, value})]

UpdateMinMax(s, value) ==
    [s EXCEPT !.max_value = Max({@, value}),
              !.min_value = IF value # 0 THEN Min({@, value}) ELSE @]

Accepts(c, value) ==
    /\ value \in 0 .. c.highest_trackable_value
    /\ CountsIndexFor(c, value) \in Indexes(c)

RecordValues(c, s, value, count) ==
    IF ~Accepts(c, value) THEN s
    ELSE LET index == NormalizeIndex(c, s, CountsIndexFor(c, value))
         IN  UpdateMinMax([s EXCEPT !.counts = @ (+) [i \in {index} |-> count],
                                    !.total_count = @ + count],
                          value)

MissingValues_Strict(value, expected_interval) ==   \* A mutant: ">" for ">=".
    IF expected_interval <= 0 \/ value <= expected_interval THEN <<>>
    ELSE [k \in 1 .. ((value - 1) \div expected_interval) - 1 |-> value - k * expected_interval]

\* What the loop of hdr_record_corrected_values records, in its order: the missing value
\* goes down by the interval while it is not below it.
MissingValues(value, expected_interval) ==
    IF expected_interval <= 0 \/ value <= expected_interval THEN <<>>
    ELSE [k \in 1 .. (value \div expected_interval) - 1 |-> value - k * expected_interval]

\* Records value and the missing values until one is refused; accepted is the result.
RecordCorrectedValues(c, s, value, count, expected_interval) ==
    FoldLeft(LAMBDA done, v :
                 IF ~done.accepted THEN done
                 ELSE [fields |-> RecordValues(c, done.fields, v, count),
                       accepted |-> Accepts(c, v)],
             [fields |-> s, accepted |-> TRUE],
             <<value>> \o MissingValues(value, expected_interval))

\* One step of the walk of hdr_add over the counts of from.  It ends when the counts it
\* has seen make up the total_count it began with; a count of 0 is stepped over.
AddVisit(c, from_c, from, aliased, expected_interval, done, i) ==
    LET count == CountAtIndex(from_c, IF aliased THEN done.fields ELSE from, i)
        recorded == RecordCorrectedValues(c, done.fields, ValueAtIndex(from_c, i),
                                          count, expected_interval)
    IN  IF done.cumulative_count >= from.total_count \/ count = 0 THEN done
        ELSE [fields |-> recorded.fields,
              cumulative_count |-> done.cumulative_count + count,
              dropped |-> done.dropped + (IF recorded.accepted THEN 0 ELSE count)]

\* hdr_add and its correcting variant walk the recorded values of from while they
\* change s, which are the fields of the same histogram when aliased.  In a tuple TLC
\* has what n visits come to before it looks at the next; it would nest them otherwise.
AddFields(c, s, from_c, from, aliased, expected_interval) ==
    LET walk[n \in 0 .. from_c.counts_len] ==
            IF n = 0 THEN << [fields |-> s, cumulative_count |-> 0, dropped |-> 0] >>
            ELSE [walk[n - 1] EXCEPT
                     ![1] = AddVisit(c, from_c, from, aliased, expected_interval, @, n - 1)]
    IN  walk[from_c.counts_len][1]

\* hdr_reset_internal_counters, which reads the counts without the offset.
RecountFields(c, s) ==
    LET used == BagToSet(s.counts)
        at(i) == ValueAtIndex(c, i)
    IN  [s EXCEPT !.max_value = IF used = {} THEN 0
                                ELSE HighestEquivalentValue(c, at(Max(used))),
                  !.min_value = IF used \ {0} = {} THEN MaxWord ELSE at(Min(used \ {0})),
                  !.total_count = SumFunction(s.counts)]

EmptyFields(offset) ==
    [counts |-> EmptyBag,
     total_count |-> 0,
     min_value |-> MaxWord,
     max_value |-> 0,
     normalizing_index_offset |-> offset]

HdrMin(c, s) ==
    IF CountAtIndex(c, s, 0) > 0 THEN 0
    ELSE IF s.min_value = MaxWord THEN MaxWord
    ELSE LowestEquivalentValue(c, s.min_value)

HdrMax(c, s) ==
    IF s.max_value = 0 THEN 0 ELSE HighestEquivalentValue(c, s.max_value)

-----------------------------------------------------------------------------
(***************************************************************************)
(* What the calls keep true of the counts.                                 *)
(***************************************************************************)
IsFields(s) ==
    s = [counts |-> s.counts, total_count |-> s.total_count, min_value |-> s.min_value,
         max_value |-> s.max_value, normalizing_index_offset |-> s.normalizing_index_offset]

\* The last index that a tracked value has.
LastIndex(c) == CountsIndexFor(c, c.highest_trackable_value)

\* The counts are those of tracked values, and add up to total_count.
CountsFit(c, s) ==
    LET used == DOMAIN s.counts
    IN  /\ IsFields(s)
        /\ s.normalizing_index_offset \in -c.counts_len .. c.counts_len
        /\ \A i \in used : s.counts[i] \in Nat \ {0}
        /\ \A i \in used : \E j \in 0 .. LastIndex(c) : i = NormalizeIndex(c, s, j)
        /\ s.total_count = SumFunctionOnSet(s.counts, used)
=============================================================================
