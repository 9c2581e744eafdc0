----------------------------- MODULE LayoutWalk -----------------------------
(***************************************************************************)
(* A walk through the values of a histogram, from 0 to the highest one it  *)
(* tracks, for every configuration that hdr_calculate_bucket_config        *)
(* derives from some arguments: what the layout promises of each value,    *)
(* and of each step to the next one; and what the encodings make of it.    *)
(***************************************************************************)
EXTENDS Encoding

CONSTANTS
    Lowests, Highests,      \* The arguments of hdr_calculate_bucket_config.
    Figures

\* The arguments are words, and words are wide enough for the figures, as those of 64
\* bits are for all five.
ASSUME WalkAssumption ==
    /\ Lowests \union Highests \subseteq -MaxWord - 1 .. MaxWord
    /\ Figures \subseteq Int
    /\ \A f \in Figures \intersect 1 .. 5 : 2 * Pow10[f] <= MaxWord

VARIABLES config, value

walk_vars == <<config, value>>

Accepted == {a \in Lowests \X Highests \X Figures : ~Rejected(a[1], a[2], a[3])}

WalkInit ==
    /\ \E a \in Accepted : config = BucketConfig(a[1], a[2], a[3])
    /\ value = 0

Step ==
    /\ value < config.highest_trackable_value
    /\ value' = value + 1
    /\ UNCHANGED config

WalkSpec == WalkInit /\ [][Step]_walk_vars

-----------------------------------------------------------------------------
Index(v) == CountsIndexFor(config, v)

\* The type invariant: no field of a configuration leaves its C type, and the
\* loop that counts buckets has ended.
ConfigTypeOK ==
    /\ value \in 0 .. config.highest_trackable_value
    /\ config.sub_bucket_mask \in 1 .. MaxWord
    /\ config.unit_magnitude \in 0 .. WordBits - 3
    /\ config.bucket_count \in 1 .. WordBits - 1
    /\ config.counts_len \in 1 .. MaxWord

\* Every trackable value has its count inside the array: the check of the
\* index in hdr_record_values never refuses one, whatever the configuration.  And the
\* array is not larger than it needs to be: the highest trackable value is counted in
\* the last bucket, also where the bucket ends beyond the word.
IndexInRange ==
    /\ Index(value) \in 0 .. config.counts_len - 1
    /\ config.bucket_count > 1 =>
          Index(config.highest_trackable_value)
              >= config.bucket_count * config.sub_bucket_half_count

\* hdr_value_at_index inverts counts_index_for up to equivalence, and the range
\* that the equivalence functions report is the set of values with that index:
\* the bounds have it, the values next to them have not.
RangesAreExact ==
    LET lowest == LowestEquivalentValue(config, value)
        highest == HighestEquivalentValue(config, value)
        index == Index(value)
    IN  /\ ValueAtIndex(config, index) = lowest
        /\ lowest <= value /\ value <= highest
        /\ Index(lowest) = index /\ Index(highest) = index
        /\ lowest > 0 => Index(lowest - 1) = index - 1
        /\ highest < MaxWord => Index(highest + 1) = index + 1
        /\ MedianEquivalentValue(config, value) \in lowest .. highest

\* "The level of precision": a value is told from those that differ in one of
\* its first significant_figures digits, or by the lowest discernible value.  And "the
\* smallest possible value that is distinguishable from 0" is told from 0.
Precision ==
    LET size == SizeOfEquivalentValueRange(config, value)
    IN  /\ \/ size * Pow10[config.significant_figures] <= value
           \/ size <= config.lowest_discernible_value
        /\ Index(config.lowest_discernible_value) > 0

\* A number survives its encoding, whichever bytes follow, at both ends of the word
\* too: the decoder reads as many bytes as the encoder wrote, and no number needs more
\* than MaxBytes.
Words == {value, -value - 1}

NumbersSurvive ==
    \A n \in Words : \A follows \in {<<>>, <<0>>, <<Pow2[ByteBits] - 1>>} :
        LET bytes == ZigZagEncode(n)
        IN  /\ ToSet(bytes) \subseteq Byte /\ Len(bytes) <= MaxBytes
            /\ BytesRead(bytes \o follows) = Len(bytes)
            /\ ZigZagDecode(bytes \o follows) = n

\* Bytes survive base64 but for zeros that fill up the last three, and the arrays that
\* the callers allocate by the two length functions are as long as what goes in them.
BytesSurvive ==
    LET bytes == ZigZagEncode(value) \o ZigZagEncode(-value - 1)
    IN  \A n \in 1 .. Len(bytes) :
            LET chars == Base64Encode(SubSeq(bytes, 1, n))
                decoded == Base64Decode(chars)
            IN  /\ Len(chars) = EncodedLen(n)
                /\ DecodesBase64(chars)
                /\ Len(decoded) = DecodedLen(Len(chars))
                /\ decoded = [k \in 1 .. Len(decoded) |-> IF k <= n THEN bytes[k] ELSE 0]
=============================================================================
