------------------------------ MODULE Iterators ------------------------------
(***************************************************************************)
(* The iterators of src/hdr_histogram.c over one histogram, and the        *)
(* functions that look values up by percentile.  A call of hdr_iter_next   *)
(* is one step; between two calls the program may record another value.    *)
(*                                                                         *)
(* Percentiles are exact fractions of 1 where the code has doubles.        *)
(***************************************************************************)
EXTENDS Recording

CONSTANTS
    Contents,       \* Histograms: records with a configuration and the other fields.
    Kinds,          \* Iterators: [kind, first, by], the arguments of their hdr_iter_..._init.
    Percentiles,    \* The argument of hdr_value_at_percentiles: an ordered sequence of
                    \* fractions <<p, q>>.
    Meanwhile,      \* Values that may be recorded while an iterator is in use.
    MaxMeanwhile    \* Bounds how many.

ASSUME IteratorsAssumption ==
    /\ \A h \in Contents :
          LET lowest == h.config.lowest_discernible_value
              highest == h.config.highest_trackable_value
              figures == h.config.significant_figures
          IN  /\ {lowest, highest} \subseteq -MaxWord - 1 .. MaxWord
              /\ figures \in 1 .. 5 /\ 2 * Pow10[figures] <= MaxWord
              /\ ~Rejected(lowest, highest, figures)
              /\ h.config = BucketConfig(lowest, highest, figures)
              /\ CountsFit(h.config, h.fields)
    /\ \A k \in Kinds :
          /\ k.kind \in {"all", "recorded", "linear", "log", "percentile", "lookup"}
          /\ {k.first, k.by} \subseteq 0 .. MaxWord
          /\ k.kind \in {"linear", "log", "percentile"} => k.first > 0 /\ k.by > 0
    /\ Percentiles \in Seq(Nat \X (Nat \ {0}))
    /\ \A i, j \in DOMAIN Percentiles : i < j =>
          Percentiles[i][1] * Percentiles[j][2] <= Percentiles[j][1] * Percentiles[i][2]
    /\ Meanwhile \subseteq Int
    /\ MaxMeanwhile \in Nat

VARIABLES
    c, s,           \* The histogram, as in Recording.
    kind,           \* Which iterator, with its arguments.
    it,             \* The fields of struct hdr_iter.
    more,           \* What hdr_iter_next returned last; TRUE before the first call.
    answers,        \* What the lookups by percentile returned.
    reported,       \* A history variable: the sum of what the steps have reported.
    wrapped,        \* A history variable: the reporting level has left the word.
    recordings      \* A history variable: the values recorded meanwhile.

iterators_vars == <<c, s, kind, it, more, answers, reported, wrapped, recordings>>

-----------------------------------------------------------------------------
(***************************************************************************)
(* The steps that all iterators are made of.                               *)
(***************************************************************************)
\* The fields of struct hdr_iter.
Iterator ==
    [counts_index : {-1} \union Nat,
     total_count : Nat,
     count : Nat,
     cumulative_count : Nat,
     value : 0 .. MaxWord,
     value_iterated_from : Int,
     value_iterated_to : Int,
     count_added_in_this_iteration_step : Nat,
     next_value_reporting_level : Int,
     seen_last_value : BOOLEAN,
     percentile_to_iterate_to : Nat \X Nat,
     percentile : Nat \X Nat]

\* hdr_iter_init and what the initialisers of the other iterators add to it.
IterInit(fields, k) ==
    [counts_index |-> -1,
     total_count |-> fields.total_count,
     count |-> 0,
     cumulative_count |-> 0,
     value |-> 0,
     value_iterated_from |-> 0,
     value_iterated_to |-> 0,
     count_added_in_this_iteration_step |-> 0,
     next_value_reporting_level |-> k.first,
     seen_last_value |-> FALSE,
     percentile_to_iterate_to |-> <<0, k.by>>,
     percentile |-> <<0, 1>>]

HasBuckets_Inclusive(i) == i.counts_index <= c.counts_len    \* A mutant.

HasBuckets(i) == i.counts_index < c.counts_len

HasNext(i) == i.cumulative_count < i.total_count

\* move_next, which returns FALSE where it runs into the end of the counts.  The
\* equivalent values that it also stores are functions of value.
MoveNext(i) ==
    LET index == i.counts_index + 1
    IN  IF index >= c.counts_len THEN [i EXCEPT !.counts_index = index]
        ELSE [i EXCEPT !.counts_index = index,
                       !.count = CountAtIndex(c, s, index),
                       !.cumulative_count = @ + CountAtIndex(c, s, index),
                       !.value = ValueAtIndex(c, index)]

\* start moved on, if need be, until it is stopping or there are no buckets left: the
\* shape of the loops below.
MovedUntil(start, stopping) ==
    LET loop[i \in Iterator] ==
            IF i \in stopping \/ ~HasBuckets(i) THEN i ELSE loop[MoveNext(i)]
    IN  loop[start]

\* basic_iter_next moves, and returns TRUE, exactly if this holds.
BasicIterNext(i) == HasNext(i) /\ HasBuckets(i)

UpdateIteratedValues(i, new_value_iterated_to) ==
    [i EXCEPT !.value_iterated_from = i.value_iterated_to,
              !.value_iterated_to = new_value_iterated_to]

NextValueGreater(i, reporting_level_upper_bound) ==
    HasBuckets(i) /\ ValueAtIndex(c, i.counts_index + 1) > reporting_level_upper_bound

-----------------------------------------------------------------------------
(***************************************************************************)
(* hdr_iter_next for each iterator: the iterator afterwards, and what is   *)
(* returned.                                                               *)
(***************************************************************************)
\* recorded_iter_next moves once and then past the counts that are 0.
RecordedIterNext(i) ==
    LET next == MovedUntil(MoveNext(i),
                           {at \in Iterator : at.count # 0 \/ ~BasicIterNext(at)})
    IN  IF ~BasicIterNext(i) THEN <<i, FALSE>>
        ELSE IF next.count = 0 THEN <<next, FALSE>>
        ELSE <<[UpdateIteratedValues(next, next.value)
                   EXCEPT !.count_added_in_this_iteration_step = next.count], TRUE>>

\* The level after the one that was reported, which may leave the word.
RaisedLevel(level) == IF kind.kind = "linear" THEN level + kind.by ELSE level * kind.by

NextReportingLevel(level) == Wrap(RaisedLevel(level))

ReportLevel_Late(i) ==          \* A mutant: the level is raised before it is reported.
    LET raised == NextReportingLevel(i.next_value_reporting_level)
    IN  [UpdateIteratedValues(i, raised) EXCEPT !.next_value_reporting_level = raised]

ReportLevel(i) ==
    [UpdateIteratedValues(i, i.next_value_reporting_level)
        EXCEPT !.next_value_reporting_level = NextReportingLevel(@)]

\* The loop that iter_linear_next and log_iter_next share.
ReachLevel(i) ==
    LET level == LowestEquivalentValue(c, i.next_value_reporting_level)
        next == MovedUntil(i, {at \in Iterator : at.value >= level})
        counted == [next EXCEPT !.count_added_in_this_iteration_step =
                                    @ + next.cumulative_count - i.cumulative_count]
    IN  IF next.value >= level THEN ReportLevel(counted) ELSE counted

LevelIterNext_Recount(i) ==     \* A mutant: the counter is not reset.
    IF \/ HasNext(i)
       \/ NextValueGreater(i, LowestEquivalentValue(c, i.next_value_reporting_level))
    THEN <<ReachLevel(i), TRUE>>
    ELSE <<i, FALSE>>

\* iter_linear_next and log_iter_next.
LevelIterNext(i) ==
    LET begun == [i EXCEPT !.count_added_in_this_iteration_step = 0]
    IN  IF \/ HasNext(i)
           \/ NextValueGreater(i, LowestEquivalentValue(c, i.next_value_reporting_level))
        THEN <<ReachLevel(begun), TRUE>>
        ELSE <<begun, FALSE>>

\* pow(2, n)
TwoTo[n \in Nat] == IF n = 0 THEN 1 ELSE 2 * TwoTo[n - 1]

\* 2 to the power of log2(1 / (1 - level)) rounded down, plus 1.
HalfDistance(level) ==
    LET rest == level[2] - level[1]
    IN  TwoTo[1 + CHOOSE k \in 0 .. level[2] :
                      TwoTo[k] * rest <= level[2] /\ TwoTo[k + 1] * rest > level[2]]

NextPercentile_Assign(level, ticks_per_half_distance) ==    \* A mutant: "=" for "+=".
    <<1, ticks_per_half_distance * HalfDistance(level)>>

\* level + 1 / (ticks_per_half_distance * HalfDistance(level))
NextPercentile(level, ticks_per_half_distance) ==
    LET ticks == ticks_per_half_distance * HalfDistance(level)
    IN  <<level[1] * (ticks \div level[2]) + 1, ticks>>

ReachedPercentile_Strict(i) ==      \* A mutant: "<" for "<=".
    /\ i.count # 0
    /\ i.percentile_to_iterate_to[1] * s.total_count
          < i.cumulative_count * i.percentile_to_iterate_to[2]

ReachedPercentile(i) ==
    /\ i.count # 0
    /\ i.percentile_to_iterate_to[1] * s.total_count
          <= i.cumulative_count * i.percentile_to_iterate_to[2]

\* The loop of percentile_iter_next; when it runs out it reports nothing new.
ReachPercentile(i) ==
    LET next == MovedUntil(i, {at \in Iterator : ReachedPercentile(at) \/ ~BasicIterNext(at)})
    IN  IF ReachedPercentile(next)
        THEN [UpdateIteratedValues(next, HighestEquivalentValue(c, next.value))
                 EXCEPT !.percentile = next.percentile_to_iterate_to,
                        !.percentile_to_iterate_to = NextPercentile(@, kind.by)]
        ELSE next

PercentileIterNext_Unseen(i) ==     \* A mutant: seen_last_value is not set.
    IF HasNext(i)
    THEN <<ReachPercentile(IF i.counts_index = -1 THEN MoveNext(i) ELSE i), TRUE>>
    ELSE IF i.seen_last_value THEN <<i, FALSE>>
    ELSE <<[i EXCEPT !.percentile = <<1, 1>>], TRUE>>

PercentileIterNext(i) ==
    IF HasNext(i)
    THEN <<ReachPercentile(IF i.counts_index = -1 THEN MoveNext(i) ELSE i), TRUE>>
    ELSE IF i.seen_last_value THEN <<i, FALSE>>
    ELSE <<[i EXCEPT !.seen_last_value = TRUE, !.percentile = <<1, 1>>], TRUE>>

\* all_values_iter_next
AllValuesIterNext(i) ==
    LET moved == MoveNext(i)
    IN  IF HasBuckets(moved) THEN <<UpdateIteratedValues(moved, moved.value), TRUE>>
        ELSE <<moved, FALSE>>

-----------------------------------------------------------------------------
(***************************************************************************)
(* Lookups by percentile.                                                  *)
(***************************************************************************)

\* (p * total_count) rounded to the nearest count, where p counts as 1 above 1.
CountAtPercentile(p) ==
    LET requested == IF p[1] < p[2] THEN p ELSE <<1, 1>>
    IN  Max({1, (2 * requested[1] * s.total_count + requested[2]) \div (2 * requested[2])})

\* An element of h->counts itself, without the offset.
Cell(idx) == IF idx \in BagToSet(s.counts) THEN s.counts[idx] ELSE 0

\* From idx on, the value at the first index where running reaches the count.
Scan(from, already, count_at_percentile) ==
    LET scan[at \in Nat \X Nat] ==
            LET idx == at[1]
                count_to_idx == at[2] + Cell(idx)
            IN  IF idx >= c.counts_len THEN 0
                ELSE IF count_to_idx >= count_at_percentile THEN ValueAtIndex(c, idx)
                ELSE scan[<<idx + 1, count_to_idx>>]
    IN  scan[<<from, already>>]

\* get_value_from_idx_up_to_count_scalar
ValueUpToCount_Scalar(count_at_percentile) == Scan(0, 0, count_at_percentile)

ValueUpToCount_NoTail(count_at_percentile) ==   \* A mutant: ends with the last four.
    LET limit == c.counts_len - (c.counts_len % 4) - 4
        Chunk(idx) == Cell(idx) + Cell(idx + 1) + Cell(idx + 2) + Cell(idx + 3)
        four[at \in Nat \X Nat] ==
            IF at[1] >= limit THEN 0
            ELSE IF at[2] + Chunk(at[1]) >= count_at_percentile
            THEN Scan(at[1], at[2], count_at_percentile)
            ELSE four[<<at[1] + 4, at[2] + Chunk(at[1])>>]
    IN  four[<<0, 0>>]

\* get_value_from_idx_up_to_count_avx2: four counts at a time, then one by one in the
\* four that reach the count, or in those that are left over at the end.
ValueUpToCount_AVX2(count_at_percentile) ==
    LET limit == c.counts_len - (c.counts_len % 4)
        Chunk(idx) == Cell(idx) + Cell(idx + 1) + Cell(idx + 2) + Cell(idx + 3)
        four[at \in Nat \X Nat] ==
            IF at[1] >= limit \/ at[2] + Chunk(at[1]) >= count_at_percentile
            THEN Scan(at[1], at[2], count_at_percentile)
            ELSE four[<<at[1] + 4, at[2] + Chunk(at[1])>>]
    IN  four[<<0, 0>>]

\* hdr_value_at_percentile, after one scan or the other.
ValueAtPercentile(p, value_from_idx) ==
    LET answer[value \in Int] ==
            IF p[1] = 0 THEN LowestEquivalentValue(c, value)
            ELSE HighestEquivalentValue(c, value)
    IN  answer[value_from_idx]

\* The two loops of hdr_value_at_percentiles, whose array holds the counts that are
\* looked for where it does not hold values yet.
ValuesAtPercentiles(ps) ==
    LET fill[at \in Iterator \X Seq(Int)] ==
            LET i == at[1]
                values == at[2]
                at_pos == Len(values) + 1
            IN  IF at_pos > Len(ps) THEN values
                ELSE IF i.cumulative_count >= CountAtPercentile(ps[at_pos])
                THEN fill[<<i, Append(values, HighestEquivalentValue(c, i.value))>>]
                ELSE IF HasBuckets(MoveNext(i)) THEN fill[<<AllValuesIterNext(i)[1], values>>]
                ELSE values \o [j \in 1 .. Len(ps) - Len(values) |->
                                   CountAtPercentile(ps[Len(values) + j])]
    IN  fill[<<IterInit(s, kind), <<>>>>]

-----------------------------------------------------------------------------
(***************************************************************************)
(* The calls.                                                              *)
(***************************************************************************)
IteratorsInit ==
    /\ \E h \in Contents : c = h.config /\ s = h.fields
    /\ kind \in Kinds
    /\ it = IterInit(s, kind)
    /\ more = TRUE
    /\ answers = <<>>
    /\ reported = 0
    /\ wrapped = FALSE
    /\ recordings = 0

\* hdr_iter_next has made next, a pair of the iterator and the result, of it; count
\* is what the caller reads from a step.
Return(next, count) ==
    /\ more
    /\ it' = next[1]
    /\ more' = next[2]
    /\ wrapped' = (\/ wrapped
                   \/ /\ it'.next_value_reporting_level # it.next_value_reporting_level
                      /\ RaisedLevel(it.next_value_reporting_level) > MaxWord)
    /\ reported' = reported + (IF next[2] THEN count ELSE 0)
    /\ UNCHANGED <<c, s, kind, answers, recordings>>

NextAll ==
    /\ kind.kind = "all"
    /\ \E next \in {AllValuesIterNext(it)} : Return(next, next[1].count)

NextRecorded ==
    /\ kind.kind = "recorded"
    /\ \E next \in {RecordedIterNext(it)} :
          Return(next, next[1].count_added_in_this_iteration_step)

NextLinear ==
    /\ kind.kind = "linear"
    /\ \E next \in {LevelIterNext(it)} :
          Return(next, next[1].count_added_in_this_iteration_step)

NextLog ==
    /\ kind.kind = "log"
    /\ \E next \in {LevelIterNext(it)} :
          Return(next, next[1].count_added_in_this_iteration_step)

NextPercentileReport ==
    /\ kind.kind = "percentile"
    /\ \E next \in {PercentileIterNext(it)} : Return(next, 0)

\* hdr_value_at_percentile for each percentile, as it is dispatched on a processor
\* without and with AVX2, and hdr_value_at_percentiles for all of them.
Lookup ==
    /\ kind.kind = "lookup"
    /\ more
    /\ more' = FALSE
    /\ answers' =
          [scalar |-> [j \in DOMAIN Percentiles |->
                          ValueAtPercentile(Percentiles[j],
                              ValueUpToCount_Scalar(CountAtPercentile(Percentiles[j])))],
           avx2 |-> [j \in DOMAIN Percentiles |->
                          ValueAtPercentile(Percentiles[j],
                              ValueUpToCount_AVX2(CountAtPercentile(Percentiles[j])))],
           list |-> ValuesAtPercentiles(Percentiles)]
    /\ UNCHANGED <<c, s, kind, it, reported, wrapped, recordings>>

\* hdr_record_value between two calls of hdr_iter_next.
RecordMeanwhile(value) ==
    /\ more
    /\ recordings < MaxMeanwhile
    /\ s' = RecordValues(c, s, value, 1)
    /\ recordings' = recordings + 1
    /\ UNCHANGED <<c, kind, it, more, answers, reported, wrapped>>

IterNext ==
    NextAll \/ NextRecorded \/ NextLinear \/ NextLog \/ NextPercentileReport \/ Lookup

IteratorsNext == IterNext \/ \E value \in Meanwhile : RecordMeanwhile(value)

IteratorsSpec == IteratorsInit /\ [][IteratorsNext]_iterators_vars

\* The caller goes on until there are no more values.
IteratorsFairSpec == IteratorsSpec /\ WF_iterators_vars(IterNext)

-----------------------------------------------------------------------------
(***************************************************************************)
(* Properties.                                                             *)
(***************************************************************************)

\* The type invariant.
IteratorsTypeOK ==
    /\ it \in Iterator
    /\ it.counts_index \in -1 .. c.counts_len
    /\ more \in BOOLEAN
    /\ recordings \in 0 .. MaxMeanwhile

\* What an iterator reports step by step adds up to what it walked past, also when
\* the histogram is recorded in meanwhile: no count is reported twice, none is left
\* out.  When nothing was recorded that is all there is in the histogram.
EveryCountOnce ==
    kind.kind \in {"all", "recorded", "linear", "log"} =>
        /\ reported = it.cumulative_count
        /\ ~more /\ recordings = 0 => reported = s.total_count

\* The value that the steps report is in the range that they say they went through:
\* a linear or logarithmic step adds the counts of the ranges after that of
\* value_iterated_from, up to that of value_iterated_to and including it.  (The first
\* range is left to the first step that goes beyond it.)  A step that runs into the
\* end of the counts leaves value_iterated_to behind, and is not meant.
ValueOfCell(cell) ==
    ValueAtIndex(c, NormalizeIndex(c, [s EXCEPT !.normalizing_index_offset = -@], cell))

StepsCountTheirRange ==
    [][kind.kind \in {"linear", "log"} /\ recordings' = 0 /\ more' /\ ~wrapped
         /\ it'.counts_index < c.counts_len =>
       LET from == LowestEquivalentValue(c, it'.value_iterated_from)
           to == LowestEquivalentValue(c, it'.value_iterated_to)
           stepped == {i \in BagToSet(s.counts) :
                          /\ ValueOfCell(i) > from \/ from = 0
                          /\ ValueOfCell(i) <= to /\ to > 0}
       IN  it'.count_added_in_this_iteration_step
              = MapThenSumSet(LAMBDA i : s.counts[i], stepped)]_iterators_vars

\* A percentile is reported with the least value that so many of the recorded
\* values do not exceed, and the last one, 1, with the highest value.
PercentileIsLeast ==
    LET p == it.percentile
        below(v) == MapThenSumSet(LAMBDA i : s.counts[i],
                                  {i \in BagToSet(s.counts) : ValueOfCell(i) < v})
    IN  kind.kind = "percentile" /\ it.counts_index >= 0 /\ recordings = 0 =>
            /\ CountAtIndex(c, s, CountsIndexFor(c, it.value)) > 0
            /\ it.value_iterated_to = HighestEquivalentValue(c, it.value)
            /\ p[1] * s.total_count
                  <= p[2] * (below(it.value) + CountAtIndex(c, s, CountsIndexFor(c, it.value)))
            /\ p[1] > 0 => below(it.value) * p[2] < p[1] * s.total_count
            /\ ~more => p = <<1, 1>>

\* Each step reports a higher percentile than the one before, so that a level is not
\* reported twice and 1 only at the end.
PercentilesRise ==
    [][kind.kind = "percentile" /\ recordings' = 0 /\ more' /\ it.counts_index >= 0 =>
       it.percentile[1] * it'.percentile[2] < it'.percentile[1] * it.percentile[2]]_iterators_vars

\* The lookups agree with each other and with the definition of the percentile: the
\* least recorded range that brings the counts up to the requested one.  An empty
\* histogram is excluded, for which hdr_value_at_percentiles leaves the count 1 where
\* the value should be; so is the percentile 0, of which one function returns the lowest
\* and the other the highest equivalent value; and an offset, which the scans ignore.
LookupsAgree ==
    kind.kind = "lookup" /\ ~more /\ s.total_count > 0 /\ s.normalizing_index_offset = 0 =>
        \A j \in DOMAIN Percentiles :
            LET value == answers.list[j]
                index == CountsIndexFor(c, value)
                up_to_index == MapThenSumSet(LAMBDA i : s.counts[i],
                                             {i \in BagToSet(s.counts) : i <= index})
            IN  /\ CountAtPercentile(Percentiles[j])
                      \in up_to_index - Cell(index) + 1 .. up_to_index
                /\ value = HighestEquivalentValue(c, value)
                /\ answers.scalar[j] = answers.avx2[j]
                /\ answers.scalar[j] =
                      IF Percentiles[j][1] = 0 THEN LowestEquivalentValue(c, value) ELSE value

\* Every iteration comes to an end, unless its reporting level leaves the word: that
\* of a linear or logarithmic iterator does so when a value was recorded that is less
\* than one step away from 2^63, and then the iteration never ends.
EndsUnlessWrapped == <>(~more \/ wrapped)
=============================================================================
