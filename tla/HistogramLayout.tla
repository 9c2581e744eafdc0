-------------------------- MODULE HistogramLayout --------------------------
(***************************************************************************)
(* How src/hdr_histogram.c lays values out in the array of counts, and the *)
(* configuration that hdr_calculate_bucket_config derives for it.          *)
(*                                                                         *)
(* Bucket b covers values in steps of 2^(b + unit_magnitude), and has      *)
(* sub_bucket_count of them, of which all buckets but the first use the    *)
(* upper half only: the lower half is what the bucket below resolves       *)
(* better.  Shifts are products and quotients of powers of 2.              *)
(***************************************************************************)
EXTENDS Integers, FiniteSetsExt

CONSTANTS
    WordBits,   \* The width of int64_t.
    LogBits     \* log() does not tell 2^k from what is within 2^(k - LogBits)
                \* below it; with doubles that is about 48.

ASSUME LayoutAssumption ==
    /\ WordBits \in Nat /\ WordBits >= 8
    /\ LogBits \in Nat /\ LogBits >= 1

\* The powers of 2 that shifts multiply with, and power(10, n) for the figures there may be.
Pow2[n \in 0 .. WordBits + LogBits] == IF n = 0 THEN 1 ELSE 2 * Pow2[n - 1]

Pow10[n \in 0 .. 5] == IF n = 0 THEN 1 ELSE 10 * Pow10[n - 1]

\* Says nothing: TLC tabulates a recursive function that it compares, instead of
\* unfolding it at each use.
ASSUME Tabulated == Pow2 = Pow2

MaxWord == Pow2[WordBits - 1] - 1

\* Signed arithmetic that leaves the word, as it comes out on every target.
Wrap(n) == ((n + MaxWord + 1) % (2 * (MaxWord + 1))) - (MaxWord + 1)

\* The bits of n, which count_leading_zeros_64 leaves of the word; all of them if n
\* is negative.
BitLength(n) ==
    IF n < 0 THEN WordBits
    ELSE CHOOSE k \in 0 .. WordBits : n < Pow2[k] /\ (k > 0 => Pow2[k - 1] <= n)

-----------------------------------------------------------------------------
(***************************************************************************)
(* The configuration c of a histogram: the fields of hdr_histogram that    *)
(* hdr_init_preallocated copies from hdr_histogram_bucket_config.          *)
(***************************************************************************)

\* The bit length of a disjunction is the larger one.
GetBucketIndex(c, value) ==
    Max({BitLength(value), BitLength(c.sub_bucket_mask)})
        - c.unit_magnitude - (c.sub_bucket_half_count_magnitude + 1)

GetSubBucketIndex(value, bucket_index, unit_magnitude) ==
    value \div Pow2[bucket_index + unit_magnitude]

CountsIndex(c, bucket_index, sub_bucket_index) ==
    (bucket_index + 1) * Pow2[c.sub_bucket_half_count_magnitude]
        + (sub_bucket_index - c.sub_bucket_half_count)

ValueFromIndex(bucket_index, sub_bucket_index, unit_magnitude) ==
    Wrap(sub_bucket_index * Pow2[bucket_index + unit_magnitude])

CountsIndexFor(c, value) ==
    LET bucket_index == GetBucketIndex(c, value)
    IN  CountsIndex(c, bucket_index,
                    GetSubBucketIndex(value, bucket_index, c.unit_magnitude))

ValueAtIndex_FirstBucket(c, index) ==   \* A mutant: the first bucket is like the others.
    ValueFromIndex(Max({0, (index \div c.sub_bucket_half_count) - 1}),
                   (index % c.sub_bucket_half_count) + c.sub_bucket_half_count,
                   c.unit_magnitude)

\* hdr_value_at_index: the lowest value that is counted at index.
ValueAtIndex(c, index) ==
    LET bucket_index == (index \div c.sub_bucket_half_count) - 1
        sub_bucket_index == (index % c.sub_bucket_half_count) + c.sub_bucket_half_count
    IN  IF bucket_index < 0
        THEN ValueFromIndex(0, sub_bucket_index - c.sub_bucket_half_count, c.unit_magnitude)
        ELSE ValueFromIndex(bucket_index, sub_bucket_index, c.unit_magnitude)

SizeOfEquivalentValueRange(c, value) ==
    LET bucket_index == GetBucketIndex(c, value)
        sub_bucket_index == GetSubBucketIndex(value, bucket_index, c.unit_magnitude)
        adjusted_bucket ==
            IF sub_bucket_index >= c.sub_bucket_count THEN bucket_index + 1 ELSE bucket_index
    IN  Pow2[c.unit_magnitude + adjusted_bucket]

LowestEquivalentValue(c, value) ==
    LET bucket_index == GetBucketIndex(c, value)
    IN  ValueFromIndex(bucket_index,
                       GetSubBucketIndex(value, bucket_index, c.unit_magnitude),
                       c.unit_magnitude)

\* For the last range below 2^63 the sum does not fit the word.
NextNonEquivalentValue(c, value) ==
    Wrap(LowestEquivalentValue(c, value) + SizeOfEquivalentValueRange(c, value))

HighestEquivalentValue(c, value) == Wrap(NextNonEquivalentValue(c, value) - 1)

MedianEquivalentValue(c, value) ==
    LowestEquivalentValue(c, value) + (SizeOfEquivalentValueRange(c, value) \div 2)

ValuesAreEquivalent(c, a, b) == LowestEquivalentValue(c, a) = LowestEquivalentValue(c, b)

-----------------------------------------------------------------------------
(***************************************************************************)
(* hdr_calculate_bucket_config.                                            *)
(***************************************************************************)

\* Doubling 0, or what has become negative, never exceeds a value: the loop
\* would not end.  More buckets than bits stand for that.
Endless == WordBits

BucketsNeeded_Strict(value, sub_bucket_count, unit_magnitude) ==  \* A mutant: "<" for "<=".
    LET start == Wrap(sub_bucket_count * Pow2[unit_magnitude])
        SmallestUntrackable(k) == start * Pow2[k]
        Covered(k) == SmallestUntrackable(k) >= value
        last == Min({k \in 0 .. WordBits - 1 :
                        Covered(k) \/ SmallestUntrackable(k) > MaxWord \div 2})
    IN  IF start <= 0 THEN Endless ELSE IF Covered(last) THEN last + 1 ELSE last + 2

\* buckets_needed_to_cover_value: k rounds of the loop double the smallest value that is
\* not covered k times.  The last round covers value, or stops before the word is left.
BucketsNeeded(value, sub_bucket_count, unit_magnitude) ==
    LET start == Wrap(sub_bucket_count * Pow2[unit_magnitude])
        SmallestUntrackable(k) == start * Pow2[k]
        Covered(k) == SmallestUntrackable(k) > value
        last == Min({k \in 0 .. WordBits - 1 :
                        Covered(k) \/ SmallestUntrackable(k) > MaxWord \div 2})
    IN  IF start <= 0 THEN Endless ELSE IF Covered(last) THEN last + 1 ELSE last + 2

\* The least power of 2 that is not below 2 * Pow10[significant_figures], halved.
SubBucketHalfCountMagnitude_Floor(significant_figures) ==     \* A mutant: floor for ceil.
    BitLength(2 * Pow10[significant_figures]) - 2

SubBucketHalfCountMagnitude(significant_figures) ==
    BitLength(2 * Pow10[significant_figures] - 1) - 1

\* log(lowest) / log(2), rounded down; but the quotient of the doubles is k
\* already for a value too close to 2^k.
UnitMagnitude(lowest) ==
    LET k == BitLength(lowest)
    IN  IF Pow2[k] - lowest <= Pow2[k] \div Pow2[LogBits] THEN k ELSE k - 1

Rejected_Wide(lowest, highest, significant_figures) ==        \* A mutant: one bit more.
    \/ lowest < 1
    \/ significant_figures \notin 1 .. 5
    \/ Wrap(lowest * 2) > highest
    \/ UnitMagnitude(lowest) + SubBucketHalfCountMagnitude(significant_figures) > WordBits - 2

\* The arguments for which it returns EINVAL.  The doubling may leave the word;
\* the last condition keeps sub_bucket_count << unit_magnitude inside it.
Rejected(lowest, highest, significant_figures) ==
    \/ lowest < 1
    \/ significant_figures \notin 1 .. 5
    \/ Wrap(lowest * 2) > highest
    \/ UnitMagnitude(lowest) + SubBucketHalfCountMagnitude(significant_figures) > WordBits - 3

BucketConfig(lowest, highest, significant_figures) ==
    LET magnitude == SubBucketHalfCountMagnitude(significant_figures)
        unit == UnitMagnitude(lowest)
        sub_bucket_count == Pow2[magnitude + 1]
        buckets == BucketsNeeded(highest, sub_bucket_count, unit)
    IN  [lowest_discernible_value |-> lowest,
         highest_trackable_value |-> highest,
         significant_figures |-> significant_figures,
         unit_magnitude |-> unit,
         sub_bucket_half_count_magnitude |-> magnitude,
         sub_bucket_count |-> sub_bucket_count,
         sub_bucket_half_count |-> sub_bucket_count \div 2,
         sub_bucket_mask |-> Wrap((sub_bucket_count - 1) * Pow2[unit]),
         bucket_count |-> buckets,
         counts_len |-> (buckets + 1) * (sub_bucket_count \div 2)]
=============================================================================
