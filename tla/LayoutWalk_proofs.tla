------------------------- MODULE LayoutWalk_proofs -------------------------
(***************************************************************************)
(* What LayoutWalk checks of the layout and of the encodings, proved for   *)
(* words of any width, for any configuration that                          *)
(* hdr_calculate_bucket_config accepts, and for groups and digits of any   *)
(* width that divides the words and the bytes as the code's does.          *)
(***************************************************************************)
EXTENDS LayoutWalk, Recording_proofs

\* The walk stays at one configuration, and at values that it tracks.
WalkInv ==
    /\ \E a \in Accepted : config = BucketConfig(a[1], a[2], a[3])
    /\ value \in 0 .. config.highest_trackable_value

LEMMA WalkFacts ==
    ASSUME WalkInv
    PROVE  /\ IsConfig(config)
           /\ config.lowest_discernible_value \in 1 .. MaxWord
           /\ config.highest_trackable_value \in 2 .. MaxWord
           /\ config.significant_figures \in 1 .. 5
           /\ Pow10[config.significant_figures] \in Nat
           /\ Pow10[config.significant_figures] <= config.sub_bucket_half_count
           /\ config.lowest_discernible_value + 1 < Pow2[LogBits] =>
                 Pow2[config.unit_magnitude] <= config.lowest_discernible_value
           /\ \A b, s : Place(config, config.highest_trackable_value, b, s) =>
                 config.bucket_count = b + 1
           /\ config.counts_len = (config.bucket_count + 1) * config.sub_bucket_half_count
           /\ value \in 0 .. MaxWord /\ value <= config.highest_trackable_value
<1>1. PICK lowest \in Lowests, highest \in Highests, f \in Figures :
         /\ ~Rejected(lowest, highest, f)
         /\ config = BucketConfig(lowest, highest, f)
  <2>1. PICK a \in Accepted : config = BucketConfig(a[1], a[2], a[3])
    BY DEF WalkInv
  <2>2. /\ a[1] \in Lowests /\ a[2] \in Highests /\ a[3] \in Figures
        /\ ~Rejected(a[1], a[2], a[3])
    BY DEF Accepted
  <2> QED
    BY <2>1, <2>2
<1>2. /\ lowest \in WordRange /\ highest \in WordRange /\ f \in Int
      /\ f \in 1 .. 5 => 2 * Pow10[f] <= MaxWord
  <2>1. -MaxWord - 1 .. MaxWord = WordRange
    BY WordFacts DEF WordRange
  <2> QED
    BY <2>1, WalkAssumption
<1> DEFINE c == config
<1>3. /\ IsConfig(c)
      /\ c.lowest_discernible_value = lowest /\ lowest \in 1 .. MaxWord
      /\ c.highest_trackable_value = highest /\ highest \in 2 .. MaxWord
      /\ c.significant_figures = f /\ f \in 1 .. 5
      /\ Pow10[f] <= c.sub_bucket_half_count
      /\ lowest + 1 < Pow2[LogBits] => Pow2[c.unit_magnitude] <= lowest
      /\ \A b, s : Place(c, highest, b, s) => c.bucket_count = b + 1
      /\ c.counts_len = (c.bucket_count + 1) * c.sub_bucket_half_count
  BY <1>1, <1>2, BucketConfigFacts
<1>4. value \in 0 .. MaxWord /\ value <= config.highest_trackable_value
  BY <1>3, WordFacts DEF WalkInv
<1>5. Pow10[f] \in Nat
  BY <1>3, Pow10Facts
<1> QED
  BY <1>3, <1>4, <1>5

\* The walk itself.
THEOREM WalkInvariant == WalkSpec => []WalkInv
<1>1. WalkInit => WalkInv
  <2> SUFFICES ASSUME WalkInit PROVE value \in 0 .. config.highest_trackable_value
    BY DEF WalkInit, WalkInv
  <2>1. PICK lowest \in Lowests, highest \in Highests, f \in Figures :
           /\ ~Rejected(lowest, highest, f)
           /\ config = BucketConfig(lowest, highest, f)
    <3>1. PICK a \in Accepted : config = BucketConfig(a[1], a[2], a[3])
      BY DEF WalkInit
    <3>2. /\ a[1] \in Lowests /\ a[2] \in Highests /\ a[3] \in Figures
          /\ ~Rejected(a[1], a[2], a[3])
      BY DEF Accepted
    <3> QED
      BY <3>1, <3>2
  <2>2. /\ lowest \in WordRange /\ highest \in WordRange /\ f \in Int
        /\ f \in 1 .. 5 => 2 * Pow10[f] <= MaxWord
    <3>1. -MaxWord - 1 .. MaxWord = WordRange
      BY WordFacts DEF WordRange
    <3> QED
      BY <3>1, WalkAssumption
  <2>3. config.highest_trackable_value \in 2 .. MaxWord
    BY <2>1, <2>2, BucketConfigFacts
  <2> QED
    BY <2>3 DEF WalkInit
<1>2. WalkInv /\ [Step]_walk_vars => WalkInv'
  <2> SUFFICES ASSUME WalkInv, [Step]_walk_vars PROVE WalkInv'
    OBVIOUS
  <2>1. UNCHANGED config
    BY DEF Step, walk_vars
  <2>2. config.highest_trackable_value \in Int /\ value \in Int
    BY WalkFacts
  <2>3. value' \in 0 .. config.highest_trackable_value
    BY <2>2 DEF Step, walk_vars, WalkInv
  <2> QED
    BY <2>1, <2>3 DEF WalkInv
<1> QED
  BY <1>1, <1>2, PTL DEF WalkSpec

-----------------------------------------------------------------------------
\* No field of a configuration leaves its type.
THEOREM ConfigTypeCorrect == WalkSpec => []ConfigTypeOK
<1>1. WalkInv => ConfigTypeOK
  <2> SUFFICES ASSUME WalkInv PROVE ConfigTypeOK
    OBVIOUS
  <2> DEFINE c == config
             u == c.unit_magnitude
             m == c.sub_bucket_half_count_magnitude
             t == u + m + 1
  <2>1. /\ IsConfig(c) /\ c.highest_trackable_value \in 0 .. MaxWord
        /\ WordBits \in Nat /\ MaxWord \in Nat
    BY WalkFacts, WordFacts
  <2>2. u \in Nat /\ m \in Nat /\ u + m <= WordBits - 3
    BY <2>1 DEF IsConfig
  <2>3. c.sub_bucket_mask \in 1 .. MaxWord
    <3>1. /\ t \in Nat /\ u < t /\ t <= WordBits - 1
          /\ t \in Exponents /\ WordBits - 1 \in Exponents
      BY <2>1, <2>2, WordFacts
    <3>2. Pow2[u] < Pow2[t] /\ Pow2[u] \in Nat \ {0} /\ Pow2[t] \in Nat
      BY <2>2, <3>1, Pow2Less, Pow2Type
    <3>3. Pow2[t] <= MaxWord + 1
      BY <3>1, Pow2Grows, WordFacts
    <3>4. c.sub_bucket_mask = Pow2[t] - Pow2[u]
      BY <2>1 DEF IsConfig
    <3> HIDE DEF c, u, t
    <3> QED
      BY <2>1, <3>2, <3>3, <3>4
  <2>4. PICK b, s : Place(c, c.highest_trackable_value, b, s)
    BY <2>1, PlaceExists
  <2>5. /\ b \in Buckets(c) /\ c.bucket_count = b + 1
        /\ c.counts_len = (c.bucket_count + 1) * c.sub_bucket_half_count
    BY <2>4, WalkFacts DEF Place
  <2>6. c.bucket_count \in 1 .. WordBits - 1 /\ c.bucket_count + 1 = b + 2
    BY <2>1, <2>2, <2>5 DEF Buckets
  <2>7. c.counts_len \in 1 .. MaxWord
    BY <2>1, <2>5, <2>6, ArrayLength
  <2>8. u \in 0 .. WordBits - 3
    BY <2>1, <2>2
  <2> QED
    BY <2>3, <2>6, <2>7, <2>8 DEF ConfigTypeOK, WalkInv
<1> QED
  BY <1>1, WalkInvariant, PTL

\* Every trackable value has a count in the array, and the array ends where the highest one
\* needs it.
THEOREM IndexInRangeCorrect == WalkSpec => []IndexInRange
<1>1. WalkInv => IndexInRange
  <2> SUFFICES ASSUME WalkInv PROVE IndexInRange
    OBVIOUS
  <2> DEFINE c == config
             highest == c.highest_trackable_value
             half == c.sub_bucket_half_count
  <2>1. /\ IsConfig(c) /\ highest \in 0 .. MaxWord /\ value \in 0 .. MaxWord
        /\ value <= highest
    BY WalkFacts, WordFacts
  <2>2. PICK b, s : Place(c, value, b, s)
    BY <2>1, PlaceExists
  <2>3. PICK d, t : Place(c, highest, d, t)
    BY <2>1, PlaceExists
  <2>4. /\ b \in Buckets(c) /\ s \in SubBuckets(c, b) /\ d \in Buckets(c) /\ t \in SubBuckets(c, d)
        /\ b \in Nat /\ d \in Nat
    BY <2>2, <2>3 DEF Place, Buckets
  <2>5. b <= d
    BY <2>1, <2>2, <2>3, BucketsInOrder
  <2>6. c.bucket_count = d + 1 /\ c.counts_len = (d + 2) * half
    <3>1. c.bucket_count = d + 1 /\ c.counts_len = (c.bucket_count + 1) * half
      BY <2>3, WalkFacts
    <3>2. c.bucket_count + 1 = d + 2
      BY <2>4, <3>1
    <3> QED
      BY <3>1, <3>2
  <2>7. Index(value) = IndexOf(c, b, s) /\ Index(highest) = IndexOf(c, d, t)
    BY <2>1, <2>2, <2>3, PlaceIs DEF Index
  <2>8. Index(value) \in 0 .. c.counts_len - 1
    <3>1. b \in 0 .. d
      BY <2>4, <2>5
    <3> QED
      BY <2>1, <2>4, <2>6, <2>7, <3>1, ArrayLength
  <2>9. c.bucket_count > 1 => c.bucket_count * half <= Index(highest)
    <3>1. c.bucket_count > 1 => d > 0
      BY <2>4, <2>6
    <3> QED
      BY <2>1, <2>4, <2>6, <2>7, <3>1, ArrayLength
  <2>10. Index(highest) \in Int /\ c.bucket_count * half \in Int
    <3>1. half \in Nat /\ d \in Nat /\ t \in Nat /\ d * half \in Nat /\ (d + 1) * half \in Nat
      BY <2>1, <2>4, WidthFacts DEF SubBuckets
    <3> QED
      BY <2>6, <2>7, <3>1 DEF IndexOf
  <2> QED
    BY <2>8, <2>9, <2>10 DEF IndexInRange
<1> QED
  BY <1>1, WalkInvariant, PTL

\* The ranges that the equivalence functions report partition the values, in the order of
\* their indexes.
THEOREM RangesAreExactCorrect == WalkSpec => []RangesAreExact
<1>1. WalkInv => RangesAreExact
  <2> SUFFICES ASSUME WalkInv PROVE RangesAreExact
    OBVIOUS
  <2> DEFINE c == config
  <2>1. IsConfig(c) /\ value \in 0 .. MaxWord /\ MaxWord \in Nat
    BY WalkFacts, WordFacts
  <2>2. PICK b, s : Place(c, value, b, s)
    BY <2>1, PlaceExists
  <2> DEFINE w == Width(c, b)
             low == w * s
             high == w * s + w - 1
  <2>3. /\ b \in Buckets(c) /\ s \in SubBuckets(c, b) /\ low <= value /\ value < low + w
    BY <2>2 DEF Place
  <2>4. /\ LowestEquivalentValue(c, value) = low /\ HighestEquivalentValue(c, value) = high
        /\ SizeOfEquivalentValueRange(c, value) = w
    BY <2>1, <2>2, EquivalentRange
  <2>5. /\ w \in Nat \ {0} /\ low \in Nat /\ low + w <= MaxWord + 1
        /\ \A v \in Int : low <= v /\ v < low + w => v \in 0 .. MaxWord /\ Place(c, v, b, s)
    BY <2>1, <2>3, PlaceRange
  <2> HIDE DEF w, low
  <2>6. high = (low + w) - 1 /\ high + 1 = low + w /\ high \in Int
    BY <2>5 DEF low
  <2> HIDE DEF high
  <2>7. /\ low \in 0 .. MaxWord /\ Place(c, low, b, s)
        /\ high \in 0 .. MaxWord /\ Place(c, high, b, s)
    BY <2>5, <2>6
  <2>8. /\ Index(value) = IndexOf(c, b, s) /\ Index(low) = IndexOf(c, b, s)
        /\ Index(high) = IndexOf(c, b, s)
    BY <2>1, <2>2, <2>7, PlaceIs DEF Index
  <2>9. ValueAtIndex(c, Index(value)) = low
    BY <2>1, <2>3, <2>8, ValueAtIndexIs DEF low, w
  <2>10. low <= value /\ value <= high
    BY <2>1, <2>3, <2>5, <2>6
  <2>11. ASSUME low > 0 PROVE Index(low - 1) = Index(value) - 1
    <3>1. PICK d, t : Place(c, low - 1, d, t) /\ IndexOf(c, d, t) = IndexOf(c, b, s) - 1
      BY <2>1, <2>3, <2>11, PlaceBefore DEF low, w
    <3>2. low - 1 \in 0 .. MaxWord
      BY <2>1, <2>7, <2>11
    <3> QED
      BY <2>1, <2>8, <3>1, <3>2, PlaceIs DEF Index
  <2>12. ASSUME high < MaxWord PROVE Index(high + 1) = Index(value) + 1
    <3>1. low + w <= MaxWord
      BY <2>1, <2>5, <2>6, <2>12
    <3>2. PICK d, t : Place(c, low + w, d, t) /\ IndexOf(c, d, t) = IndexOf(c, b, s) + 1
      BY <2>1, <2>3, <3>1, PlaceAfter DEF low, w
    <3>3. low + w \in 0 .. MaxWord
      BY <2>1, <2>5, <3>1
    <3> QED
      BY <2>1, <2>6, <2>8, <3>2, <3>3, PlaceIs DEF Index
  <2>13. MedianEquivalentValue(c, value) \in low .. high
    <3>1. \A x \in Nat \ {0} : x \div 2 \in Nat /\ x \div 2 <= x - 1
      BY Z3
    <3>2. w \div 2 \in Nat /\ w \div 2 <= w - 1
      BY <2>5, <3>1
    <3>3. MedianEquivalentValue(c, value) = low + (w \div 2)
      BY <2>4 DEF MedianEquivalentValue
    <3> QED
      BY <2>5, <2>6, <3>2, <3>3
  <2> QED
    BY <2>4, <2>8, <2>9, <2>10, <2>11, <2>12, <2>13 DEF RangesAreExact
<1> QED
  BY <1>1, WalkInvariant, PTL

\* The precision that the header promises, for a lowest value that log() tells from the
\* next power of 2.
THEOREM PrecisionCorrect ==
    WalkSpec => [](config.lowest_discernible_value + 1 < Pow2[LogBits] => Precision)
<1>1. WalkInv => (config.lowest_discernible_value + 1 < Pow2[LogBits] => Precision)
  <2> SUFFICES ASSUME WalkInv, config.lowest_discernible_value + 1 < Pow2[LogBits]
               PROVE  Precision
    OBVIOUS
  <2> DEFINE c == config
             ten == Pow10[c.significant_figures]
             lowest == c.lowest_discernible_value
             half == c.sub_bucket_half_count
  <2>1. /\ IsConfig(c) /\ value \in 0 .. MaxWord /\ lowest \in 0 .. MaxWord /\ lowest >= 1
        /\ ten \in Nat /\ ten <= half /\ Pow2[c.unit_magnitude] <= lowest
        /\ MaxWord \in Nat
    BY WalkFacts, WordFacts
  <2>2. PICK b, s : Place(c, value, b, s)
    BY <2>1, PlaceExists
  <2> DEFINE w == Width(c, b)
  <2>3. /\ b \in Buckets(c) /\ s \in SubBuckets(c, b) /\ w * s <= value
        /\ b \in Nat /\ s \in Nat /\ (b > 0 => half <= s)
    BY <2>2 DEF Place, Buckets, SubBuckets
  <2>4. w \in Nat \ {0} /\ half \in Nat \ {0}
    BY <2>1, <2>3, WidthFacts
  <2>5. SizeOfEquivalentValueRange(c, value) = w
    BY <2>1, <2>2, EquivalentRange
  <2>6. ASSUME b = 0 PROVE w <= lowest
    <3>1. w = Pow2[c.unit_magnitude]
      <4>1. 0 + c.unit_magnitude = c.unit_magnitude
        BY <2>1 DEF IsConfig
      <4> QED
        BY <2>6, <4>1 DEF Width
    <3> QED
      BY <2>1, <3>1
  <2>7. ASSUME b > 0 PROVE w * ten <= value
    <3>1. \A x, y, z \in Nat : y <= z => x * y <= x * z /\ x * y \in Nat /\ x * z \in Nat
      BY Z3
    <3>2. ten <= s
      <4> HIDE DEF ten, half
      <4> QED
        BY <2>1, <2>3, <2>4, <2>7
    <3> HIDE DEF w, ten
    <3>3. w * ten <= w * s /\ w * ten \in Nat /\ w * s \in Nat
      BY <2>1, <2>3, <2>4, <3>1, <3>2
    <3>4. w * ten <= value
      BY <2>1, <2>3, <3>3
    <3> QED
      BY <3>4
  <2>8. Index(lowest) > 0
    <3>1. PICK d, t : Place(c, lowest, d, t)
      BY <2>1, PlaceExists
    <3>2. /\ d \in Buckets(c) /\ d \in Nat /\ t \in Nat /\ (d > 0 => half <= t)
          /\ lowest < Width(c, d) * t + Width(c, d)
      BY <3>1 DEF Place, Buckets, SubBuckets
    <3>3. Index(lowest) = d * half + t
      BY <2>1, <3>1, PlaceIs DEF Index, IndexOf
    <3>4. t > 0
      <4>1. CASE d > 0
        <5> HIDE DEF half
        <5> QED
          BY <2>4, <3>2, <4>1
      <4>2. CASE d = 0 /\ t = 0
        <5>1. 0 + c.unit_magnitude = c.unit_magnitude /\ Width(c, d) \in Nat
          BY <2>1, <3>2, WidthFacts DEF IsConfig
        <5>2. Width(c, d) = Pow2[c.unit_magnitude]
          BY <4>2, <5>1 DEF Width
        <5>3. lowest < Width(c, d)
          BY <2>1, <3>2, <4>2, <5>1
        <5> QED
          BY <2>1, <5>1, <5>2, <5>3
      <4> QED
        BY <3>2, <4>1, <4>2
    <3>5. d * half \in Nat
      BY <2>4, <3>2
    <3> HIDE DEF half
    <3> QED
      BY <3>2, <3>3, <3>4, <3>5
  <2>9. b = 0 \/ b > 0
    BY <2>3
  <2>10. w * ten <= value \/ w <= lowest
    BY <2>6, <2>7, <2>9
  <2> HIDE DEF w
  <2> QED
    BY <2>5, <2>8, <2>10 DEF Precision
<1> QED
  BY <1>1, WalkInvariant, PTL

-----------------------------------------------------------------------------
(***************************************************************************)
(* Numbers as bytes, for words of any width that is cut into groups.       *)
(***************************************************************************)
\* The power that shifts by k groups.
Groups(k) == Pow2[GroupBits * k]

LEMMA GroupFacts ==
    /\ GroupBits \in Nat \ {0} /\ MaxBytes \in Nat \ {0}
    /\ \A k \in 0 .. MaxBytes : Groups(k) \in Nat \ {0}
    /\ \A k \in 1 .. MaxBytes : Groups(k) = Groups(k - 1) * Pow2[GroupBits]
    /\ Groups(0) = 1 /\ Pow2[GroupBits] \in Nat \ {0}
    /\ 2 * MaxWord + 2 = 2 * Groups(MaxBytes)
    /\ Pow2[ByteBits] = 2 * Pow2[GroupBits]
<1>1. /\ GroupBits \in Nat /\ MaxBytes \in Nat \ {0} /\ WordBits = GroupBits * MaxBytes + 1
      /\ WordBits \in Nat /\ WordBits >= 8 /\ LogBits \in Nat
  BY EncodingAssumption, LayoutAssumption
<1>2. GroupBits # 0
  BY <1>1
<1>3. ASSUME NEW k \in 0 .. MaxBytes
      PROVE  GroupBits * k \in Nat /\ GroupBits * k <= WordBits - 1 /\ GroupBits * k \in Exponents
  <2>1. \A x, y, z \in Nat : y <= z => x * y \in Nat /\ x * y <= x * z
    BY Z3
  <2>2. k \in Nat /\ k <= MaxBytes
    BY <1>1
  <2>3. GroupBits * k \in Nat /\ GroupBits * k <= GroupBits * MaxBytes
    BY <1>1, <2>1, <2>2
  <2>4. GroupBits * k <= WordBits - 1
    BY <1>1, <2>3
  <2> QED
    BY <1>1, <2>3, <2>4 DEF Exponents
<1>4. ASSUME NEW k \in 0 .. MaxBytes PROVE Groups(k) \in Nat \ {0}
  BY <1>3, Pow2Type DEF Groups
<1>5. ASSUME NEW k \in 1 .. MaxBytes PROVE Groups(k) = Groups(k - 1) * Pow2[GroupBits]
  <2>1. k - 1 \in 0 .. MaxBytes /\ k \in 0 .. MaxBytes /\ k - 1 \in Nat
    BY <1>1
  <2>2. GroupBits * (k - 1) \in Nat /\ GroupBits * (k - 1) + GroupBits = GroupBits * k
    BY <1>1, <2>1
  <2>3. GroupBits * (k - 1) + GroupBits \in Exponents
    BY <1>3, <2>1, <2>2
  <2>4. Pow2[GroupBits * (k - 1) + GroupBits] = Pow2[GroupBits * (k - 1)] * Pow2[GroupBits]
    BY <1>1, <2>2, <2>3, Pow2Sum
  <2> QED
    BY <2>2, <2>4 DEF Groups
<1>6. Groups(0) = 1
  <2>1. GroupBits * 0 = 0
    BY <1>1
  <2> QED
    BY <2>1, Pow2Next DEF Groups
<1>7. Pow2[GroupBits] \in Nat \ {0} /\ Pow2[ByteBits] = 2 * Pow2[GroupBits]
  <2>1. 1 \in 0 .. MaxBytes /\ GroupBits * 1 = GroupBits
    BY <1>1
  <2>2. GroupBits <= WordBits - 1
    BY <1>3, <2>1
  <2>3. GroupBits + 1 \in Exponents
    BY <1>1, <2>2 DEF Exponents
  <2> QED
    BY <1>1, <2>3, Pow2Next DEF ByteBits
<1>8. 2 * MaxWord + 2 = 2 * Groups(MaxBytes)
  <2>1. WordBits - 1 = GroupBits * MaxBytes /\ MaxWord \in Nat
        /\ MaxWord + 1 = Pow2[WordBits - 1]
    BY <1>1, WordFacts
  <2>2. MaxWord + 1 = Groups(MaxBytes)
    BY <2>1 DEF Groups
  <2> QED
    BY <2>1, <2>2
<1> QED
  BY <1>1, <1>2, <1>4, <1>5, <1>6, <1>7, <1>8

\* The value shifted by all groups below the k-th one.
Shifted(v, k) == v \div Groups(k - 1)

\* The quotient, as an operator of its own.
Over(x, d) == x \div d

LEMMA Deeper ==
    \A x \in Nat, a, b \in Nat \ {0} :
        /\ a * b \in Nat \ {0}
        /\ Over(x, a * b) = Over(Over(x, a), b)
        /\ x < a * b => x \div a < b
<1> TAKE x \in Nat, a, b \in Nat \ {0}
<1> DEFINE y == x \div a
           q == y \div b
<1>1. y \in Nat /\ x = a * y + (x % a) /\ x % a \in Nat /\ x % a < a
  BY Division
<1>2. q \in Nat /\ y = b * q + (y % b) /\ y % b \in Nat /\ y % b < b
  <2> HIDE DEF y
  <2> QED
    BY <1>1, Division
<1> HIDE DEF y, q
<1>3. b * q <= y /\ y + 1 <= b * q + b /\ b * q \in Nat
  BY <1>1, <1>2, Z3
<1>4. a * (b * q) <= a * y /\ a * (y + 1) <= a * (b * q + b)
  <2>1. \A s, t, w \in Nat : s <= t => w * s <= w * t
    BY Z3
  <2> QED
    BY <1>1, <1>3, <2>1
<1>5. a * (b * q) = (a * b) * q /\ a * (b * q + b) = (a * b) * q + a * b
  BY <1>2, Z3
<1>6. a * (y + 1) = a * y + a /\ a * b \in Nat \ {0} /\ a * y \in Nat /\ (a * b) * q \in Nat
  <2>1. \A s, t \in Nat \ {0} : s * t \in Nat \ {0}
    BY Z3
  <2>2. \A s, t \in Nat : s * t \in Nat /\ s * (t + 1) = s * t + s
    BY Z3
  <2> QED
    BY <1>1, <1>2, <2>1, <2>2
<1>7. (a * b) * q <= x /\ x < (a * b) * q + a * b
  BY <1>1, <1>4, <1>5, <1>6
<1>8. x \div (a * b) = q
  <2> DEFINE d == a * b
  <2>1. d \in Nat \ {0} /\ d * q <= x /\ x < d * q + d /\ q \in Int
    BY <1>2, <1>6, <1>7
  <2> HIDE DEF d
  <2>2. x \div d = q
    BY <2>1, Quotient
  <2> QED
    BY <2>2 DEF d
<1>9. ASSUME x < a * b PROVE y < b
  <2>1. a * y < a * b
    BY <1>1, <1>6, <1>9
  <2>2. \A s, t, w \in Nat : w * s < w * t => s < t
    BY Z3
  <2> QED
    BY <1>1, <2>1, <2>2
<1> QED
  BY <1>6, <1>8, <1>9 DEF q, y, Over

LEMMA ShiftedFacts ==
    ASSUME NEW v \in Nat, v < 2 * Groups(MaxBytes), NEW k \in 1 .. MaxBytes
    PROVE  /\ Shifted(v, k) \in Nat
           /\ k = 1 => Shifted(v, k) = v
           /\ Shifted(v, k) % Pow2[GroupBits] \in 0 .. Pow2[GroupBits] - 1
           /\ k < MaxBytes => Shifted(v, k) = Pow2[GroupBits] * Shifted(v, k + 1)
                                                + (Shifted(v, k) % Pow2[GroupBits])
           /\ v < Groups(k) => Shifted(v, k) < Pow2[GroupBits]
           /\ k = MaxBytes => Shifted(v, k) < Pow2[ByteBits]
<1> DEFINE G == Pow2[GroupBits]
           a == Groups(k - 1)
<1>1. /\ MaxBytes \in Nat \ {0} /\ k \in 1 .. MaxBytes /\ k - 1 \in 0 .. MaxBytes
      /\ a \in Nat \ {0} /\ G \in Nat \ {0} /\ Groups(k) = a * G /\ Groups(0) = 1
      /\ Pow2[ByteBits] = 2 * G
  <2>1. MaxBytes \in Nat \ {0} /\ k - 1 \in 0 .. MaxBytes
    BY GroupFacts
  <2> QED
    BY <2>1, GroupFacts
<1> DEFINE s == Shifted(v, k)
<1>3. s = v \div a
  BY DEF Shifted
<1>4. k < MaxBytes => Shifted(v, k + 1) = v \div Groups(k)
  <2>1. (k + 1) - 1 = k
    BY <1>1
  <2> QED
    BY <1>1, <2>1 DEF Shifted
<1>5. k = 1 => s = v
  <2>1. v \div 1 = v
    BY Quotient
  <2> QED
    BY <1>1, <1>3, <2>1
<1> HIDE DEF a, s, G
<1>6. s \in Nat
  BY <1>1, <1>3, Division
<1>7. s = G * (s \div G) + (s % G) /\ s % G \in Nat /\ s % G < G
  BY <1>1, <1>6, Division
<1>8. k < MaxBytes => s = G * Shifted(v, k + 1) + (s % G)
  <2>1. Over(v, a * G) = Over(Over(v, a), G)
    BY <1>1, Deeper
  <2>2. Over(v, a) = s
    BY <1>3 DEF Over
  <2>3. Over(v, Groups(k)) = Over(s, G)
    BY <1>1, <2>1, <2>2
  <2> QED
    BY <1>4, <1>7, <2>3 DEF Over
<1>9. v < Groups(k) => s < G
  <2>1. v < a * G => v \div a < G
    BY <1>1, Deeper, Zenon
  <2> QED
    BY <1>1, <1>3, <2>1
<1>10. k = MaxBytes => s < 2 * G
  <2>1. 2 * G \in Nat \ {0}
    BY <1>1
  <2>2. 2 * (a * G) = a * (2 * G)
    BY <1>1, Z3
  <2>3. v < a * (2 * G) => v \div a < 2 * G
    BY <1>1, <2>1, Deeper
  <2> QED
    BY <1>1, <1>3, <2>2, <2>3
<1>11. s % G \in 0 .. G - 1
  BY <1>1, <1>7
<1> QED
  BY <1>1, <1>5, <1>6, <1>8, <1>9, <1>10, <1>11 DEF s, G


\* b has the groups of v, from the lowest one on, the last one at n.
IsLeb(b, v, n) ==
    /\ n \in 1 .. MaxBytes /\ (n = MaxBytes \/ v < Groups(n))
    /\ \A k \in 1 .. n : b[k] = IF k = n THEN Shifted(v, k)
                                ELSE (Shifted(v, k) % Pow2[GroupBits]) + Pow2[GroupBits]

LEMMA LebIs ==
    ASSUME NEW v \in Nat, v < 2 * Groups(MaxBytes)
    PROVE  \E n \in 1 .. MaxBytes : /\ IsLeb(Leb(v, MaxBytes), v, n)
                                    /\ Leb(v, MaxBytes) \in [1 .. n -> Byte]
<1> DEFINE S == {MaxBytes} \union {k \in 1 .. MaxBytes : v < Pow2[GroupBits * k]}
           n == Min(S)
           G == Pow2[GroupBits]
<1>1. MaxBytes \in Nat \ {0} /\ G \in Nat \ {0} /\ Pow2[ByteBits] = 2 * G
  BY GroupFacts
<1>2. n \in S
  <2>1. S \in SUBSET (0 .. MaxBytes) /\ S # {} /\ MaxBytes \in Nat
    BY <1>1
  <2> HIDE DEF S
  <2> QED
    BY <2>1, FirstAndLast
<1>3. n \in 1 .. MaxBytes /\ (n = MaxBytes \/ v < Groups(n))
  <2> HIDE DEF n
  <2> QED
    BY <1>1, <1>2 DEF Groups
<1> DEFINE b == Leb(v, MaxBytes)
<1>4. b = [k \in 1 .. n |-> IF k = n THEN Shifted(v, k) ELSE (Shifted(v, k) % G) + G]
  BY DEF Leb, Shifted, Groups
<1> HIDE DEF n, b, G
<1>5. IsLeb(b, v, n)
  BY <1>3, <1>4 DEF IsLeb, G
<1>6. ASSUME NEW k \in 1 .. n
      PROVE  (IF k = n THEN Shifted(v, k) ELSE (Shifted(v, k) % G) + G) \in 0 .. 2 * G - 1
  <2>1. k \in 1 .. MaxBytes /\ n \in Nat
    BY <1>1, <1>3
  <2>2. /\ Shifted(v, k) \in Nat /\ Shifted(v, k) % G \in 0 .. G - 1
        /\ v < Groups(k) => Shifted(v, k) < G
        /\ k = MaxBytes => Shifted(v, k) < 2 * G
    BY <1>1, <2>1, ShiftedFacts DEF G
  <2>3. k = n => Shifted(v, k) < 2 * G
    BY <1>1, <1>3, <2>2
  <2>4. k # n => (Shifted(v, k) % G) + G \in 0 .. 2 * G - 1
    BY <1>1, <2>2
  <2>5. k = n => Shifted(v, k) \in 0 .. 2 * G - 1
    BY <1>1, <2>2, <2>3
  <2> QED
    BY <2>4, <2>5
<1>7. b \in [1 .. n -> Byte]
  <2>1. Byte = 0 .. 2 * G - 1
    BY <1>1 DEF Byte
  <2> QED
    BY <1>4, <1>6, <2>1
<1> QED
  BY <1>3, <1>5, <1>7 DEF b

\* A buffer that begins with the groups of v: the decoder stops after the last of them.
LEMMA StopsAtLast ==
    ASSUME NEW v \in Nat, v < 2 * Groups(MaxBytes), NEW b, NEW n, IsLeb(b, v, n),
           NEW length \in Nat, n <= length, NEW buffer, DOMAIN buffer = 1 .. length,
           \A k \in 1 .. n : buffer[k] = b[k]
    PROVE  BytesRead(buffer) = n
<1> DEFINE G == Pow2[GroupBits]
           S == {MaxBytes} \union {k \in DOMAIN buffer : k < MaxBytes /\ buffer[k] < G}
<1>1. /\ MaxBytes \in Nat \ {0} /\ G \in Nat \ {0}
      /\ n \in 1 .. MaxBytes /\ (n = MaxBytes \/ v < Groups(n))
      /\ \A k \in 1 .. n : buffer[k] = IF k = n THEN Shifted(v, k) ELSE (Shifted(v, k) % G) + G
  BY GroupFacts DEF IsLeb
<1>2. S \in SUBSET Int
  BY <1>1
<1>3. n \in S
  <2>1. CASE n = MaxBytes
    BY <2>1
  <2>2. CASE n # MaxBytes
    <3>1. n \in 1 .. length /\ n < MaxBytes /\ buffer[n] = Shifted(v, n)
      BY <1>1, <2>2
    <3>2. Shifted(v, n) < G
      BY <1>1, <2>2, ShiftedFacts
    <3> QED
      BY <3>1, <3>2
  <2> QED
    BY <2>1, <2>2
<1>4. ASSUME NEW y \in S PROVE n <= y
  <2>1. CASE y = MaxBytes
    BY <1>1, <2>1
  <2>2. CASE y # MaxBytes
    <3>1. y \in 1 .. length /\ y < MaxBytes /\ buffer[y] < G
      BY <2>2
    <3>2. ASSUME y < n PROVE FALSE
      <4>1. y \in 1 .. n /\ y \in 1 .. MaxBytes /\ y # n
        BY <1>1, <3>1, <3>2
      <4>2. buffer[y] = (Shifted(v, y) % G) + G
        BY <1>1, <4>1
      <4>3. Shifted(v, y) % G \in 0 .. G - 1
        BY <4>1, ShiftedFacts
      <4> QED
        BY <1>1, <3>1, <4>2, <4>3
    <3> QED
      BY <1>1, <3>1, <3>2
  <2> QED
    BY <2>1, <2>2
<1>5. BytesRead(buffer) = Min(S)
  BY DEF BytesRead
<1> HIDE DEF S
<1> QED
  BY <1>2, <1>3, <1>4, <1>5, LeastIs


\* A group that is marked as followed by another is the same once the mark is cut off.
LEMMA Unmarked ==
    \A g \in Nat \ {0} : \A x \in 0 .. g - 1 : (x + g) % g = x /\ x % g = x
<1> TAKE g \in Nat \ {0}
<1> TAKE x \in 0 .. g - 1
<1>1. PICK one \in Int, zero \in Int : one = 1 /\ zero = 0
  OBVIOUS
<1>2. g * one = g /\ g * zero = 0
  BY <1>1
<1>3. (x + g) % g = (x + g) - g * one
  <2>1. g * one <= x + g /\ x + g < g * one + g /\ x + g \in Int
    BY <1>2
  <2> QED
    BY <2>1, Quotient
<1>4. x % g = x - g * zero
  <2>1. g * zero <= x /\ x < g * zero + g /\ x \in Int
    BY <1>2
  <2> QED
    BY <2>1, Quotient
<1> QED
  BY <1>2, <1>3, <1>4

\* What has been read of the value and what is left of it.
LEMMA PartialSums ==
    ASSUME NEW v \in Nat, v < 2 * Groups(MaxBytes), NEW n \in 1 .. MaxBytes,
           NEW f, \A k \in 1 .. n : f[k] = (IF k = n THEN Shifted(v, k)
                                            ELSE Shifted(v, k) % Pow2[GroupBits]) * Groups(k - 1)
    PROVE  SumFunctionOnSet(f, 1 .. n) = v
<1> DEFINE G == Pow2[GroupBits]
           Part(m) == SumFunctionOnSet(f, 1 .. m)
           Rest(m) == Shifted(v, m + 1)
           Bad == {m \in 0 .. n - 1 : Part(m) \notin Nat \/ Part(m) + Groups(m) * Rest(m) # v}
<1>1. /\ MaxBytes \in Nat \ {0} /\ n \in Nat \ {0} /\ n <= MaxBytes /\ G \in Nat \ {0}
      /\ \A k \in 1 .. n : k \in 1 .. MaxBytes /\ k - 1 \in 0 .. MaxBytes
  BY GroupFacts
<1>2. \A k \in 1 .. n : /\ Groups(k - 1) \in Nat \ {0} /\ Groups(k) = Groups(k - 1) * G
                        /\ Shifted(v, k) \in Nat /\ Shifted(v, k) % G \in 0 .. G - 1
  BY <1>1, GroupFacts, ShiftedFacts
<1>3. \A s, t \in Nat : s * t \in Nat
  BY Z3
<1>4. ASSUME NEW k \in 1 .. n PROVE f[k] \in Nat
  <2>1. (IF k = n THEN Shifted(v, k) ELSE Shifted(v, k) % G) \in Nat
    BY <1>1, <1>2
  <2> DEFINE x == IF k = n THEN Shifted(v, k) ELSE Shifted(v, k) % G
  <2>2. f[k] = x * Groups(k - 1) /\ x \in Nat
    BY <2>1
  <2> HIDE DEF x
  <2> QED
    BY <1>2, <1>3, <2>2
<1>5. ASSUME NEW m \in 0 .. n - 1 PROVE Part(m + 1) = f[m + 1] + Part(m)
  <2>1. 1 .. m + 1 = (1 .. m) \union {m + 1} /\ m + 1 \notin 1 .. m
    BY <1>1
  <2>2. IsFiniteSet(1 .. m)
    BY <1>1, FS_Interval
  <2>3. \A x \in (1 .. m) \union {m + 1} : f[x] \in Int
    BY <1>1, <1>4
  <2> QED
    BY <2>1, <2>2, <2>3, SumAdd
<1>6. 0 \notin Bad
  <2>1. 1 .. 0 = {}
    OBVIOUS
  <2>2. Part(0) = 0
    BY <2>1, SumEmpty
  <2>3. Groups(0) = 1 /\ Rest(0) = v
    <3>1. 0 + 1 = 1 /\ 1 \in 1 .. MaxBytes
      BY <1>1
    <3>2. Shifted(v, 1) = v
      BY <3>1, ShiftedFacts
    <3> QED
      BY <3>1, <3>2, GroupFacts
  <2> HIDE DEF Part, Rest
  <2> QED
    BY <2>2, <2>3
<1>7. ASSUME NEW m \in 0 .. n - 1, m \notin Bad, m + 1 \in 0 .. n - 1 PROVE m + 1 \notin Bad
  <2> DEFINE r == Shifted(v, m + 1) % G
  <2>1. Part(m) \in Nat /\ Part(m) + Groups(m) * Rest(m) = v
    BY <1>7
  <2>2. /\ m + 1 \in 1 .. n /\ m + 1 # n /\ (m + 1) - 1 = m /\ m + 1 \in 1 .. MaxBytes
        /\ m + 1 < MaxBytes
    BY <1>1, <1>7
  <2>3. /\ Groups(m) \in Nat \ {0} /\ Groups(m + 1) = Groups(m) * G
        /\ r \in Nat /\ f[m + 1] = r * Groups(m)
    BY <1>1, <1>2, <2>2
  <2>4. Rest(m) = G * Rest(m + 1) + r
    BY <2>2, ShiftedFacts
  <2>5. Rest(m + 1) \in Nat
    <3>1. (m + 1) + 1 \in 1 .. n
      BY <1>1, <1>7
    <3> QED
      BY <1>2, <3>1
  <2>6. Part(m + 1) = f[m + 1] + Part(m)
    BY <1>5
  <2>7. f[m + 1] \in Nat
    BY <1>4, <2>2
  <2> HIDE DEF Part, Rest, r, Bad, G
  <2>8. \A a, g, x, y \in Nat : a * (g * x + y) = y * a + (a * g) * x
    BY Z3
  <2>9. Groups(m) * Rest(m) = r * Groups(m) + (Groups(m) * G) * Rest(m + 1)
    BY <1>1, <2>3, <2>4, <2>5, <2>8
  <2> DEFINE A == r * Groups(m)
             B == Groups(m + 1) * Rest(m + 1)
  <2>10. A \in Nat /\ B \in Nat /\ Groups(m) * Rest(m) = A + B
    <3>1. Groups(m + 1) \in Nat
      BY <1>1, <1>3, <2>3
    <3> QED
      BY <1>3, <2>3, <2>5, <2>9, <3>1
  <2>11. Part(m + 1) = A + Part(m)
    BY <2>3, <2>6
  <2>12. Part(m) + (A + B) = v
    BY <2>1, <2>10
  <2> HIDE DEF A
  <2>13. Part(m + 1) \in Nat /\ Part(m + 1) + B = v
    <3> HIDE DEF B
    <3> QED
      BY <2>1, <2>10, <2>11, <2>12
  <2> QED
    BY <2>13 DEF Bad, B
<1>8. Bad = {}
  <2>1. SUFFICES ASSUME Bad # {} PROVE FALSE
    OBVIOUS
  <2>2. Bad \in SUBSET (0 .. n) /\ n \in Nat
    BY <1>1
  <2> HIDE DEF Bad
  <2>3. PICK k \in Bad : \A j \in Bad : k <= j
    BY <2>1, <2>2, LeastNatural
  <2>4. k \in 0 .. n - 1
    BY DEF Bad
  <2>5. k # 0
    BY <1>6
  <2>6. k - 1 \in 0 .. n - 1 /\ (k - 1) + 1 = k /\ k - 1 \notin Bad
    BY <1>1, <2>3, <2>4, <2>5
  <2> QED
    BY <1>7, <2>4, <2>6
<1>9. n - 1 \in 0 .. n - 1 /\ (n - 1) + 1 = n /\ n \in 1 .. n
  BY <1>1
<1>10. Part(n - 1) \in Nat /\ Part(n - 1) + Groups(n - 1) * Shifted(v, n) = v
  <2>1. n - 1 \notin Bad
    BY <1>8
  <2> QED
    BY <1>9, <2>1
<1>11. Part(n) = f[n] + Part(n - 1)
  BY <1>5, <1>9
<1>12. f[n] = Shifted(v, n) * Groups(n - 1)
  BY <1>9
<1>13. Shifted(v, n) * Groups(n - 1) = Groups(n - 1) * Shifted(v, n) /\ f[n] \in Nat
  <2>1. \A s, t \in Nat : s * t = t * s
    BY Z3
  <2> QED
    BY <1>2, <1>4, <1>9, <2>1
<1> HIDE DEF Part
<1>14. Part(n) = v
  BY <1>10, <1>11, <1>12, <1>13
<1> QED
  BY <1>14 DEF Part

\* The decoder reads the value back.
LEMMA ReadsValue ==
    ASSUME NEW v \in Nat, v < 2 * Groups(MaxBytes), NEW b, NEW n, IsLeb(b, v, n),
           NEW length \in Nat, n <= length, NEW buffer, DOMAIN buffer = 1 .. length,
           \A k \in 1 .. n : buffer[k] = b[k]
    PROVE  ZigZagDecode(buffer) = UnZigZag(v)
<1> DEFINE G == Pow2[GroupBits]
           Group(k) == IF k < MaxBytes THEN buffer[k] % G ELSE buffer[k]
           f == [k \in 1 .. n |-> Group(k) * Pow2[GroupBits * (k - 1)]]
<1>1. BytesRead(buffer) = n
  BY StopsAtLast
<1>2. /\ MaxBytes \in Nat \ {0} /\ G \in Nat \ {0}
      /\ n \in 1 .. MaxBytes /\ (n = MaxBytes \/ v < Groups(n))
      /\ \A k \in 1 .. n : buffer[k] = IF k = n THEN Shifted(v, k) ELSE (Shifted(v, k) % G) + G
  BY GroupFacts DEF IsLeb
<1>3. ASSUME NEW k \in 1 .. n
      PROVE  Group(k) = IF k = n THEN Shifted(v, k) ELSE Shifted(v, k) % G
  <2>1. /\ k \in 1 .. MaxBytes /\ Shifted(v, k) \in Nat /\ Shifted(v, k) % G \in 0 .. G - 1
        /\ v < Groups(k) => Shifted(v, k) < G
    <3>1. k \in 1 .. MaxBytes
      BY <1>2
    <3> QED
      BY <3>1, ShiftedFacts
  <2>2. CASE k = MaxBytes
    <3>1. k = n
      BY <1>2, <2>2
    <3> QED
      BY <1>2, <2>2, <3>1
  <2>3. CASE k # MaxBytes /\ k = n
    <3>1. Group(k) = Shifted(v, k) % G /\ Shifted(v, k) \in 0 .. G - 1
      BY <1>2, <2>1, <2>3
    <3> QED
      BY <1>2, <2>3, <3>1, Unmarked
  <2>4. CASE k # n
    <3> DEFINE r == Shifted(v, k) % G
    <3>1. k < MaxBytes /\ buffer[k] = r + G
      BY <1>2, <2>4
    <3>2. r \in 0 .. G - 1
      BY <2>1
    <3> HIDE DEF r
    <3>3. (r + G) % G = r
      BY <1>2, <3>2, Unmarked
    <3>4. Group(k) = r
      BY <3>1, <3>3
    <3> QED
      BY <2>4, <3>4 DEF r
  <2> QED
    BY <2>2, <2>3, <2>4
<1>4. ZigZagDecode(buffer) = UnZigZag(SumFunctionOnSet(f, 1 .. n))
  <2>1. ZigZagDecode(buffer) = UnZigZag(SumFunction(f))
    BY <1>1 DEF ZigZagDecode
  <2>2. DOMAIN f = 1 .. n
    OBVIOUS
  <2> HIDE DEF f
  <2> QED
    BY <2>1, <2>2 DEF SumFunction, SumFunctionOnSet, FoldFunction, FoldFunctionOnSet
<1>5. \A k \in 1 .. n : f[k] = Group(k) * Groups(k - 1)
  BY DEF Groups
<1> HIDE DEF f, Group
<1>6. \A k \in 1 .. n : f[k] = (IF k = n THEN Shifted(v, k) ELSE Shifted(v, k) % G) * Groups(k - 1)
  BY <1>3, <1>5
<1>7. SumFunctionOnSet(f, 1 .. n) = v
  BY <1>2, <1>6, PartialSums
<1> QED
  BY <1>4, <1>7


\* The sign moves to the lowest bit and back.
LEMMA ZigZagFacts ==
    ASSUME NEW x \in -MaxWord - 1 .. MaxWord
    PROVE  /\ ZigZag(x) \in Nat /\ ZigZag(x) < 2 * Groups(MaxBytes)
           /\ UnZigZag(ZigZag(x)) = x
<1>1. MaxWord \in Nat /\ 2 * MaxWord + 2 = 2 * Groups(MaxBytes)
  BY GroupFacts, WordFacts
<1>2. x \in Int /\ -MaxWord - 1 <= x /\ x <= MaxWord
  BY <1>1
<1>3. CASE x < 0
  <2>1. ZigZag(x) = 2 * (-x - 1) + 1 /\ -x - 1 \in Nat
    BY <1>2, <1>3 DEF ZigZag
  <2>2. ZigZag(x) \in Nat /\ ZigZag(x) < 2 * MaxWord + 2
    BY <1>1, <1>2, <2>1
  <2>3. \A y \in Nat : (2 * y + 1) % 2 = 1 /\ (2 * y + 1 + 1) \div 2 = y + 1
    BY Z3
  <2>4. UnZigZag(2 * (-x - 1) + 1) = -(-x - 1 + 1)
    BY <2>1, <2>3 DEF UnZigZag
  <2> QED
    BY <1>1, <1>2, <2>1, <2>2, <2>4
<1>4. CASE ~(x < 0)
  <2>1. ZigZag(x) = 2 * x /\ x \in Nat
    BY <1>2, <1>4 DEF ZigZag
  <2>2. ZigZag(x) \in Nat /\ ZigZag(x) < 2 * MaxWord + 2
    BY <1>1, <1>2, <2>1
  <2>3. \A y \in Nat : (2 * y) % 2 = 0 /\ (2 * y) \div 2 = y
    BY Z3
  <2>4. UnZigZag(2 * x) = x
    BY <2>1, <2>3 DEF UnZigZag
  <2> QED
    BY <1>1, <2>1, <2>2, <2>4
<1> QED
  BY <1>3, <1>4

\* The bytes of a number, and what is read where they begin a buffer.
LEMMA EncodedFacts ==
    ASSUME NEW x \in -MaxWord - 1 .. MaxWord
    PROVE  /\ ZigZagEncode(x) \in Seq(Byte) /\ Len(ZigZagEncode(x)) \in 1 .. MaxBytes
           /\ \A follows \in Seq(Byte) :
                 LET buffer == ZigZagEncode(x) \o follows
                 IN  BytesRead(buffer) = Len(ZigZagEncode(x)) /\ ZigZagDecode(buffer) = x
<1> DEFINE v == ZigZag(x)
           b == ZigZagEncode(x)
<1>1. v \in Nat /\ v < 2 * Groups(MaxBytes) /\ UnZigZag(v) = x
  BY ZigZagFacts
<1>2. b = Leb(v, MaxBytes)
  BY DEF ZigZagEncode
<1> HIDE DEF v, b
<1>3. PICK n \in 1 .. MaxBytes : IsLeb(b, v, n) /\ b \in [1 .. n -> Byte]
  BY <1>1, <1>2, LebIs
<1>4. n \in Nat /\ n >= 1 /\ MaxBytes \in Nat
  BY GroupFacts
<1>5. b \in Seq(Byte) /\ Len(b) = n
  BY <1>3, <1>4
<1>6. ASSUME NEW follows \in Seq(Byte)
      PROVE  BytesRead(b \o follows) = n /\ ZigZagDecode(b \o follows) = x
  <2> DEFINE buffer == b \o follows
             length == n + Len(follows)
  <2>1. /\ length \in Nat /\ n <= length /\ DOMAIN buffer = 1 .. length
        /\ \A k \in 1 .. n : buffer[k] = b[k]
    BY <1>4, <1>5
  <2> HIDE DEF buffer, length
  <2>2. BytesRead(buffer) = n
    BY <1>1, <1>3, <2>1, StopsAtLast
  <2>3. ZigZagDecode(buffer) = UnZigZag(v)
    BY <1>1, <1>3, <2>1, ReadsValue
  <2> QED
    BY <1>1, <2>2, <2>3 DEF buffer
<1> QED
  BY <1>3, <1>5, <1>6 DEF b

\* A number survives its encoding, whichever bytes follow.
THEOREM NumbersSurviveCorrect == WalkSpec => []NumbersSurvive
<1>1. WalkInv => NumbersSurvive
  <2> SUFFICES ASSUME WalkInv,
                      NEW x \in Words, NEW follows \in {<<>>, << 0 >>, <<Pow2[ByteBits] - 1>>}
               PROVE  LET bytes == ZigZagEncode(x)
                      IN  /\ ToSet(bytes) \subseteq Byte /\ Len(bytes) <= MaxBytes
                          /\ BytesRead(bytes \o follows) = Len(bytes)
                          /\ ZigZagDecode(bytes \o follows) = x
    BY DEF NumbersSurvive
  <2>1. value \in 0 .. MaxWord /\ MaxWord \in Nat
    BY WalkFacts, WordFacts
  <2>2. x \in -MaxWord - 1 .. MaxWord
    BY <2>1 DEF Words
  <2>3. follows \in Seq(Byte)
    <3>1. 0 \in Byte /\ Pow2[ByteBits] - 1 \in Byte
      <4>1. Pow2[GroupBits] \in Nat \ {0} /\ Pow2[ByteBits] = 2 * Pow2[GroupBits]
        BY GroupFacts
      <4> QED
        BY <4>1 DEF Byte
    <3>2. \A y \in Byte : <<y>> \in Seq(Byte)
      OBVIOUS
    <3>3. <<>> \in Seq(Byte)
      OBVIOUS
    <3>4. <<0>> \in Seq(Byte) /\ <<Pow2[ByteBits] - 1>> \in Seq(Byte)
      BY <3>1, <3>2
    <3> HIDE DEF Byte
    <3> QED
      BY <3>3, <3>4
  <2> DEFINE bytes == ZigZagEncode(x)
  <2>4. /\ bytes \in Seq(Byte) /\ Len(bytes) \in 1 .. MaxBytes
        /\ BytesRead(bytes \o follows) = Len(bytes) /\ ZigZagDecode(bytes \o follows) = x
    BY <2>2, <2>3, EncodedFacts
  <2> HIDE DEF bytes
  <2>5. ToSet(bytes) \subseteq Byte /\ Len(bytes) <= MaxBytes
    <3>1. MaxBytes \in Nat
      BY GroupFacts
    <3> QED
      BY <2>4, <3>1 DEF ToSet
  <2> QED
    BY <2>4, <2>5 DEF bytes
<1> QED
  BY <1>1, WalkInvariant, PTL


-----------------------------------------------------------------------------
(***************************************************************************)
(* Bytes as characters, for bytes of any width that four digits share.     *)
(***************************************************************************)
\* Three bytes are four digits: both are powers of one number.
LEMMA DigitFacts ==
    \E t \in Nat \ {0} :
        LET D == t * (t * t)
            B == t * D
        IN  /\ Pow2[DigitBits] = D /\ Pow2[ByteBits] = B
            /\ Pow2[0] = 1 /\ 0 * DigitBits = 0 /\ 1 * DigitBits = DigitBits
            /\ Pow2[2 * DigitBits] = D * D /\ Pow2[3 * DigitBits] = D * (D * D)
            /\ Pow2[2 * ByteBits] = B * B
<1>1. /\ WordBits \in Nat /\ WordBits >= 8 /\ LogBits \in Nat /\ GroupBits \in Nat
      /\ ByteBits = GroupBits + 1 /\ ByteBits % 4 = 0 /\ 3 * DigitBits <= WordBits
  BY EncodingAssumption, LayoutAssumption DEF ByteBits
<1>2. PICK m \in Nat : ByteBits = 4 * m
  <2>1. ByteBits = 4 * (ByteBits \div 4) + (ByteBits % 4) /\ ByteBits \div 4 \in Nat
    BY <1>1
  <2> QED
    BY <1>1, <2>1
<1>3. DigitBits = 3 * m /\ 9 * m <= WordBits
  BY <1>1, <1>2 DEF DigitBits
<1>4. \A k \in 0 .. 9 : k * m \in Nat /\ k * m \in Exponents
  <2>1. \A k \in 0 .. 9 : k * m \in Nat /\ k * m <= 9 * m
    BY Z3
  <2> QED
    BY <1>1, <1>3, <2>1 DEF Exponents
<1> DEFINE t == Pow2[m]
<1>5. \A a \in Nat, b \in Nat : a + b \in 0 .. 9 => Pow2[a * m + b * m] = Pow2[a * m] * Pow2[b * m]
  <2> TAKE a \in Nat, b \in Nat
  <2> SUFFICES ASSUME a + b \in 0 .. 9 PROVE Pow2[a * m + b * m] = Pow2[a * m] * Pow2[b * m]
    OBVIOUS
  <2>1. a * m + b * m = (a + b) * m
    BY Z3
  <2>2. a \in 0 .. 9 /\ b \in 0 .. 9
    OBVIOUS
  <2>3. a * m \in Nat /\ b * m \in Nat /\ (a + b) * m \in Exponents
    BY <1>4, <2>2
  <2> DEFINE x == a * m
             y == b * m
  <2>4. x \in Nat /\ y \in Nat /\ x + y \in Exponents
    BY <2>1, <2>3
  <2> HIDE DEF x, y
  <2>5. Pow2[x + y] = Pow2[x] * Pow2[y]
    BY <2>4, Pow2Sum
  <2> QED
    BY <2>5 DEF x, y
<1>6. /\ 1 * m = m /\ 1 * m + 1 * m = 2 * m /\ 1 * m + 2 * m = 3 * m /\ 1 * m + 3 * m = 4 * m
      /\ 3 * m + 3 * m = 6 * m /\ 3 * m + 6 * m = 9 * m /\ 4 * m + 4 * m = 8 * m
  OBVIOUS
<1>7. /\ Pow2[2 * m] = t * t /\ Pow2[3 * m] = t * Pow2[2 * m] /\ Pow2[4 * m] = t * Pow2[3 * m]
      /\ Pow2[6 * m] = Pow2[3 * m] * Pow2[3 * m] /\ Pow2[9 * m] = Pow2[3 * m] * Pow2[6 * m]
      /\ Pow2[8 * m] = Pow2[4 * m] * Pow2[4 * m]
  <2>1. Pow2[1 * m + 1 * m] = Pow2[1 * m] * Pow2[1 * m]
    BY <1>5
  <2>2. Pow2[1 * m + 2 * m] = Pow2[1 * m] * Pow2[2 * m]
    BY <1>5
  <2>3. Pow2[1 * m + 3 * m] = Pow2[1 * m] * Pow2[3 * m]
    BY <1>5
  <2>4. Pow2[3 * m + 3 * m] = Pow2[3 * m] * Pow2[3 * m]
    BY <1>5
  <2>5. Pow2[3 * m + 6 * m] = Pow2[3 * m] * Pow2[6 * m]
    BY <1>5
  <2>6. Pow2[4 * m + 4 * m] = Pow2[4 * m] * Pow2[4 * m]
    BY <1>5
  <2> QED
    BY <1>6, <2>1, <2>2, <2>3, <2>4, <2>5, <2>6
<1>8. t \in Nat \ {0} /\ Pow2[0] = 1
  <2>1. m \in Exponents
    BY <1>4, <1>6
  <2> QED
    BY <2>1, Pow2Type, Pow2Next
<1>9. 2 * DigitBits = 6 * m /\ 3 * DigitBits = 9 * m /\ 2 * ByteBits = 8 * m
      /\ 0 * DigitBits = 0 /\ 1 * DigitBits = DigitBits
  BY <1>2, <1>3
<1> DEFINE D == t * (t * t)
           B == t * D
<1>10. Pow2[DigitBits] = D /\ Pow2[ByteBits] = B
  BY <1>2, <1>3, <1>7
<1>11. Pow2[2 * DigitBits] = D * D /\ Pow2[3 * DigitBits] = D * (D * D) /\ Pow2[2 * ByteBits] = B * B
  BY <1>2, <1>3, <1>7, <1>9, <1>10
<1> HIDE DEF t
<1> QED
  BY <1>8, <1>9, <1>10, <1>11

\* What is left of a number, and what is cut off.
LEMMA CutIn ==
    \A d \in Nat \ {0}, q \in Nat : \A r \in 0 .. d - 1 :
        /\ d * q + r \in Nat /\ Over(d * q + r, d) = q /\ (d * q + r) % d = r
<1> TAKE d \in Nat \ {0}, q \in Nat
<1> TAKE r \in 0 .. d - 1
<1>1. d * q \in Nat
  BY Z3
<1> DEFINE x == d * q + r
<1>2. x \in Int /\ d * q <= x /\ x < d * q + d /\ x - d * q = r
  BY <1>1
<1> HIDE DEF x
<1>3. x \div d = q /\ x % d = r
  BY <1>2, Quotient
<1> QED
  BY <1>1, <1>3 DEF x, Over

\* The number of four digits, and what is cut out of it.
OfDigits(D, r0, r1, r2, r3) == D * (D * (D * r3 + r2) + r1) + r0

AreDigits(bits, D, r0, r1, r2, r3) ==
    /\ bits % D = r0 /\ (bits \div 1) % D = r0 /\ (bits \div D) % D = r1
    /\ (bits \div (D * D)) % D = r2
    /\ (bits \div (D * (D * D))) % D = r3
    /\ bits = r3 * (D * (D * D)) + r2 * (D * D) + r1 * D + r0

LEMMA FourDigits ==
    ASSUME NEW D \in Nat \ {0}, NEW r0 \in 0 .. D - 1, NEW r1 \in 0 .. D - 1,
           NEW r2 \in 0 .. D - 1, NEW r3 \in 0 .. D - 1, NEW bits,
           bits = OfDigits(D, r0, r1, r2, r3)
    PROVE  AreDigits(bits, D, r0, r1, r2, r3)
<1> DEFINE q3 == r3
           q2 == D * r3 + r2
           q1 == D * q2 + r1
<1>1. r3 \in Nat /\ r3 % D = r3
  BY Unmarked
<1>2. q2 \in Nat /\ Over(q2, D) = r3 /\ q2 % D = r2
  BY <1>1, CutIn
<1> HIDE DEF q2
<1>3. q1 \in Nat /\ Over(q1, D) = q2 /\ q1 % D = r1
  BY <1>2, CutIn
<1> HIDE DEF q1
<1>4. bits = D * q1 + r0
  BY DEF q1, q2, OfDigits
<1>5. bits \in Nat /\ Over(bits, D) = q1 /\ bits % D = r0
  <2>1. /\ D * q1 + r0 \in Nat /\ Over(D * q1 + r0, D) = q1
        /\ (D * q1 + r0) % D = r0
    BY <1>3, CutIn
  <2> QED
    BY <1>4, <2>1
<1>6. Over(bits, D * D) = q2 /\ D * D \in Nat \ {0}
  <2>1. Over(bits, D * D) = Over(Over(bits, D), D) /\ D * D \in Nat \ {0}
    BY <1>5, Deeper
  <2> QED
    BY <1>3, <1>5, <2>1
<1>7. Over(bits, D * (D * D)) = r3
  <2> DEFINE E == D * D
  <2>1. Over(bits, D * E) = Over(Over(bits, D), E) /\ E \in Nat \ {0}
    <3>1. E \in Nat \ {0}
      BY <1>6
    <3> HIDE DEF E
    <3> QED
      BY <1>5, <3>1, Deeper
  <2>2. Over(q1, D * D) = Over(Over(q1, D), D)
    BY <1>3, Deeper
  <2> QED
    BY <1>2, <1>3, <1>5, <2>1, <2>2
<1>8. bits \div 1 = bits
  BY <1>5
<1>9. bits = r3 * (D * (D * D)) + r2 * (D * D) + r1 * D + r0
  <2>1. \A d, w, x, y, z \in Nat :
           d * (d * (d * w + x) + y) + z = w * (d * (d * d)) + x * (d * d) + y * d + z
    BY Z3
  <2> QED
    BY <1>1, <2>1 DEF OfDigits
<1> QED
  BY <1>1, <1>2, <1>3, <1>5, <1>6, <1>7, <1>8, <1>9 DEF Over, AreDigits


\* A number below D ^ 4 has four digits.
LEMMA DigitsExist ==
    ASSUME NEW D \in Nat \ {0}, NEW bits \in Nat, bits < D * (D * (D * D))
    PROVE  \E r0, r1, r2, r3 \in 0 .. D - 1 : bits = OfDigits(D, r0, r1, r2, r3)
<1> DEFINE q1 == bits \div D
           q2 == q1 \div D
           q3 == q2 \div D
           r0 == bits % D
           r1 == q1 % D
           r2 == q2 % D
<1>1. q1 \in Nat /\ bits = D * q1 + r0 /\ r0 \in 0 .. D - 1
  BY Division
<1>2. q2 \in Nat /\ q1 = D * q2 + r1 /\ r1 \in 0 .. D - 1
  <2> HIDE DEF q1
  <2> QED
    BY <1>1, Division
<1>3. q3 \in Nat /\ q2 = D * q3 + r2 /\ r2 \in 0 .. D - 1
  <2> HIDE DEF q2
  <2> QED
    BY <1>2, Division
<1> HIDE DEF q1, q2, q3, r0, r1, r2
<1>4. q3 < D
  <2> DEFINE E == D * D
             F == D * E
  <2>1. E \in Nat \ {0}
    BY Deeper
  <2>2. F \in Nat \ {0}
    <3> HIDE DEF E
    <3> QED
      BY <2>1, Deeper
  <2>3. bits < D * F
    OBVIOUS
  <2> HIDE DEF F
  <2>4. q1 < F
    BY <2>2, <2>3, Deeper DEF q1
  <2>5. q1 < D * E
    BY <2>4 DEF F
  <2> HIDE DEF E
  <2>6. q2 < E
    BY <1>1, <2>1, <2>5, Deeper DEF q2
  <2>7. q2 < D * D
    BY <2>6 DEF E
  <2> QED
    BY <1>2, <2>7, Deeper DEF q3
<1>5. bits = OfDigits(D, r0, r1, r2, q3)
  BY <1>1, <1>2, <1>3 DEF OfDigits
<1>6. q3 \in 0 .. D - 1
  BY <1>3, <1>4
<1>7. r0 \in 0 .. D - 1 /\ r1 \in 0 .. D - 1 /\ r2 \in 0 .. D - 1
  BY <1>1, <1>2, <1>3
<1> USE <1>6, <1>7
<1> WITNESS r0 \in 0 .. D - 1, r1 \in 0 .. D - 1, r2 \in 0 .. D - 1, q3 \in 0 .. D - 1
<1> QED
  BY <1>5

\* The number of three bytes, and what is cut out of it.
OfBytes(B, x, y, z) == x * (B * B) + y * B + z

AreBytes(bits, B, x, y, z) ==
    /\ bits \in Nat /\ bits = B * (B * x + y) + z /\ bits < B * (B * B)
    /\ bits \div (B * B) = x /\ (bits \div B) % B = y /\ bits % B = z

LEMMA ThreeBytes ==
    ASSUME NEW B \in Nat \ {0}, NEW x \in 0 .. B - 1, NEW y \in 0 .. B - 1, NEW z \in 0 .. B - 1,
           NEW bits, bits = OfBytes(B, x, y, z)
    PROVE  AreBytes(bits, B, x, y, z)
<1> DEFINE q == B * x + y
<1>1. q \in Nat /\ Over(q, B) = x /\ q % B = y
  <2>1. x \in Nat
    OBVIOUS
  <2> QED
    BY <2>1, CutIn
<1>2. bits = B * q + z
  <2>1. \A a, b, c, d \in Nat : a * (d * d) + b * d + c = d * (d * a + b) + c
    BY Z3
  <2> QED
    BY <2>1 DEF OfBytes
<1>3. q < B * B
  <2>1. \A a, d \in Nat : a + 1 <= d => d * a + d <= d * d
    BY Z3
  <2>2. B * x + B <= B * B /\ B * x \in Nat /\ B * B \in Nat
    <3>1. \A a, d \in Nat : d * a \in Nat
      BY Z3
    <3> QED
      BY <2>1, <3>1
  <2> QED
    BY <2>2
<1> HIDE DEF q
<1>4. bits \in Nat /\ Over(bits, B) = q /\ bits % B = z
  <2>1. B * q + z \in Nat /\ Over(B * q + z, B) = q /\ (B * q + z) % B = z
    BY <1>1, CutIn
  <2> QED
    BY <1>2, <2>1
<1>5. Over(bits, B * B) = x
  <2>1. Over(bits, B * B) = Over(Over(bits, B), B)
    BY <1>4, Deeper
  <2> QED
    BY <1>1, <1>4, <2>1
<1>6. bits < B * (B * B)
  <2> DEFINE E == B * B
  <2>1. E \in Nat
    BY Deeper
  <2>2. q + 1 <= E
    BY <1>1, <1>3, <2>1
  <2> HIDE DEF E
  <2>3. \A a, d, e \in Nat : a + 1 <= e => d * a \in Nat /\ d * e \in Nat /\ d * a + d <= d * e
    BY Z3
  <2>4. B * q \in Nat /\ B * E \in Nat /\ B * q + B <= B * E
    BY <1>1, <2>1, <2>2, <2>3
  <2>5. bits < B * E
    BY <1>2, <2>4
  <2> QED
    BY <2>5 DEF E
<1> QED
  BY <1>1, <1>2, <1>4, <1>5, <1>6 DEF Over, q, AreBytes

\* Where the last byte is a zero, so is the last digit; where two are, two are.
LEMMA ZeroLast ==
    ASSUME NEW t \in Nat \ {0}, NEW D \in Nat \ {0}, NEW a \in Nat, NEW b \in Nat,
           NEW r \in 0 .. D - 1, D * a + r = (t * D) * b
    PROVE  r = 0 /\ a = t * b
<1> DEFINE c == t * b
<1>1. c \in Nat
  BY Z3
<1>2. (t * D) * b = D * (t * b)
  BY Z3
<1> HIDE DEF c
<1>3. D * c + 0 = D * a + r /\ D * c + 0 \in Nat
  <2>1. D * c \in Nat
    BY <1>1, Z3
  <2> QED
    BY <1>2, <2>1 DEF c
<1>4. Over(D * c + 0, D) = c /\ (D * c + 0) % D = 0
  <2>1. 0 \in 0 .. D - 1
    OBVIOUS
  <2> QED
    BY <1>1, <2>1, CutIn
<1>5. Over(D * a + r, D) = a /\ (D * a + r) % D = r
  BY CutIn
<1> QED
  BY <1>3, <1>4, <1>5 DEF c

LEMMA ZerosLast ==
    ASSUME NEW t \in Nat \ {0}, NEW D \in Nat \ {0}, NEW p \in Nat, NEW q \in Nat,
           NEW r1 \in 0 .. D - 1, NEW r0 \in 0 .. D - 1,
           D * (D * p + r1) + r0 = (t * D) * ((t * D) * q)
    PROVE  r1 = 0
<1> DEFINE a == D * p + r1
           b == (t * D) * q
<1>1. a \in Nat /\ b \in Nat
  <2>1. \A g, h \in Nat : g * h \in Nat
    BY Z3
  <2>2. D * p \in Nat /\ t * D \in Nat
    BY <2>1
  <2> QED
    BY <2>1, <2>2
<1>2. D * a + r0 = (t * D) * b
  OBVIOUS
<1> HIDE DEF a, b
<1>3. a = t * b
  BY ZeroLast, <1>1, <1>2
<1>4. t * b = (t * D) * (t * q)
  <2>1. \A g, h, i \in Nat : g * ((g * h) * i) = (g * h) * (g * i)
    BY Z3
  <2> QED
    BY <2>1 DEF b
<1> DEFINE c == t * q
<1>5. c \in Nat /\ D * p + r1 = (t * D) * c
  <2>1. c \in Nat
    BY Z3
  <2> QED
    BY <1>3, <1>4, <2>1 DEF a
<1> HIDE DEF c
<1> QED
  BY ZeroLast, <1>5

\* The table is read back.
LEMMA CharFacts ==
    /\ \A d \in 0 .. Pow2[DigitBits] - 1 : FromBase64(Alphabet[d + 1]) = d
    /\ FromBase64(Pad) = 0
<1>1. /\ DOMAIN Alphabet = 1 .. Pow2[DigitBits] /\ Pad \notin {Alphabet[i] : i \in DOMAIN Alphabet}
      /\ \A a, b \in DOMAIN Alphabet : Alphabet[a] = Alphabet[b] => a = b
  BY EncodingAssumption DEF IsInjective, ToSet
<1>2. Pow2[DigitBits] \in Nat
  <2>1. PICK t \in Nat \ {0} : Pow2[DigitBits] = t * (t * t)
    BY DigitFacts
  <2>2. \A a, b \in Nat : a * b \in Nat
    BY Z3
  <2> QED
    BY <2>1, <2>2
<1>3. ASSUME NEW d \in 0 .. Pow2[DigitBits] - 1 PROVE FromBase64(Alphabet[d + 1]) = d
  <2> DEFINE digit == {i \in DOMAIN Alphabet : Alphabet[i] = Alphabet[d + 1]}
  <2>1. d + 1 \in DOMAIN Alphabet /\ d \in Int
    BY <1>1, <1>2
  <2>2. digit = {d + 1} /\ Alphabet[d + 1] # Pad
    BY <1>1, <2>1
  <2>3. (CHOOSE i \in digit : TRUE) = d + 1
    <3> HIDE DEF digit
    <3> QED
      BY <2>2
  <2>4. digit # {}
    BY <2>2
  <2>5. FromBase64(Alphabet[d + 1]) = (d + 1) - 1
    BY <2>2, <2>3, <2>4, Zenon DEF FromBase64
  <2> QED
    BY <2>1, <2>5
<1>4. FromBase64(Pad) = 0
  BY DEF FromBase64
<1> QED
  BY <1>3, <1>4

\* A block of characters that was made of up to three bytes of the input decodes to them, and
\* to zeros.
LEMMA BlockSurvives ==
    ASSUME NEW input \in Seq(Byte), NEW i \in Nat, i < Len(input), NEW chars, NEW j \in Nat,
           \A k \in 1 .. 4 : chars[j + k] = EncodeBlock(input, i)[k]
    PROVE  \A r \in 1 .. 3 :
              DecodeBlock(chars, j)[r] = IF i + r <= Len(input) THEN input[i + r] ELSE 0
<1> DEFINE At(k) == IF i + k <= Len(input) THEN input[i + k] ELSE 0
           x == At(1)
           y == At(2)
           z == At(3)
           bits == x * Pow2[2 * ByteBits] + y * Pow2[ByteBits] + z
           Digit(k) == FromBase64(chars[j + k])
           back == Digit(1) * Pow2[3 * DigitBits] + Digit(2) * Pow2[2 * DigitBits]
                     + Digit(3) * Pow2[DigitBits] + Digit(4)
<1>1. PICK t \in Nat \ {0} :
         LET D == t * (t * t)
             B == t * D
         IN  /\ Pow2[DigitBits] = D /\ Pow2[ByteBits] = B
             /\ Pow2[0] = 1 /\ 0 * DigitBits = 0 /\ 1 * DigitBits = DigitBits
             /\ Pow2[2 * DigitBits] = D * D /\ Pow2[3 * DigitBits] = D * (D * D)
             /\ Pow2[2 * ByteBits] = B * B
  BY DigitFacts
<1> DEFINE D == t * (t * t)
           B == t * D
<1>2. D \in Nat \ {0} /\ B \in Nat \ {0} /\ B * (B * B) = D * (D * (D * D))
  <2>1. \A a, b \in Nat \ {0} : a * b \in Nat \ {0}
    BY Z3
  <2>2. D \in Nat \ {0} /\ B \in Nat \ {0}
    BY <2>1
  <2>3. B * (B * B) = D * (D * (D * D))
    BY Z3
  <2> QED
    BY <2>2, <2>3
<1>3. /\ Pow2[DigitBits] = D /\ Pow2[ByteBits] = B
      /\ Pow2[0] = 1 /\ 0 * DigitBits = 0 /\ 1 * DigitBits = DigitBits
      /\ Pow2[2 * DigitBits] = D * D /\ Pow2[3 * DigitBits] = D * (D * D)
      /\ Pow2[2 * ByteBits] = B * B
  BY <1>1
<1>4. Byte = 0 .. B - 1
  BY <1>3 DEF Byte
<1>5. \A k \in 1 .. 3 : At(k) \in 0 .. B - 1
  <2> TAKE k \in 1 .. 3
  <2>1. i + k \in Nat /\ i + k >= 1
    OBVIOUS
  <2>2. \A h \in 1 .. Len(input) : input[h] \in 0 .. B - 1
    BY <1>4
  <2>3. 0 \in 0 .. B - 1
    BY <1>2
  <2> HIDE DEF B
  <2>4. CASE i + k <= Len(input)
    <3>1. i + k \in 1 .. Len(input)
      BY <2>1, <2>4
    <3> QED
      BY <2>2, <2>4, <3>1
  <2>5. CASE ~(i + k <= Len(input))
    BY <2>3, <2>5
  <2> QED
    BY <2>4, <2>5
<1>6. x \in 0 .. B - 1 /\ y \in 0 .. B - 1 /\ z \in 0 .. B - 1
  BY <1>5
<1>7. /\ i + 2 > Len(input) => y = 0 /\ z = 0
      /\ i + 3 > Len(input) => z = 0
  OBVIOUS
<1>8. EncodeBlock(input, i) =
         [k \in 1 .. 4 |-> IF i + k <= Len(input) + 1 THEN GetBase64(bits, (4 - k) * DigitBits)
                           ELSE Pad]
  BY DEF EncodeBlock
<1>9. DecodeBlock(chars, j) =
         <<back \div Pow2[2 * ByteBits], (back \div Pow2[ByteBits]) % Pow2[ByteBits],
           back % Pow2[ByteBits]>>
  BY DEF DecodeBlock
<1> HIDE DEF x, y, z
<1>10. bits = OfBytes(B, x, y, z)
  BY <1>3 DEF OfBytes
<1>11. back = Digit(1) * (D * (D * D)) + Digit(2) * (D * D) + Digit(3) * D + Digit(4)
  BY <1>3
<1> HIDE DEF D, bits, back, Digit
<1>12. AreBytes(bits, B, x, y, z)
  <2> HIDE DEF B
  <2> QED
    BY <1>2, <1>6, <1>10, ThreeBytes
<1>13. PICK r0, r1, r2, r3 \in 0 .. D - 1 : bits = OfDigits(D, r0, r1, r2, r3)
  <2>1. bits \in Nat /\ bits < D * (D * (D * D))
    BY <1>2, <1>12 DEF AreBytes
  <2> QED
    BY <1>2, <2>1, DigitsExist
<1>14. AreDigits(bits, D, r0, r1, r2, r3)
  BY <1>2, <1>13, FourDigits
<1>15. /\ GetBase64(bits, 0 * DigitBits) = Alphabet[r0 + 1]
       /\ GetBase64(bits, 1 * DigitBits) = Alphabet[r1 + 1]
       /\ GetBase64(bits, 2 * DigitBits) = Alphabet[r2 + 1]
       /\ GetBase64(bits, 3 * DigitBits) = Alphabet[r3 + 1]
  BY <1>3, <1>14 DEF AreDigits, GetBase64
<1>16. /\ z = 0 => r0 = 0
       /\ y = 0 /\ z = 0 => r1 = 0
  <2> DEFINE p2 == D * r3 + r2
             p1 == D * p2 + r1
             q == B * x + y
  <2>1. p1 \in Nat /\ p2 \in Nat /\ q \in Nat
    <3>1. \A g, h \in Nat : g * h \in Nat
      BY Z3
    <3>2. p2 \in Nat /\ q \in Nat
      BY <1>2, <1>6, <3>1
    <3> HIDE DEF p2
    <3>3. p1 \in Nat
      BY <1>2, <3>1, <3>2
    <3> QED
      BY <3>2, <3>3
  <2>2. D * p1 + r0 = B * q + z
    BY <1>12, <1>13 DEF OfDigits, AreBytes
  <2>3. ASSUME z = 0 PROVE r0 = 0
    <3> HIDE DEF p1, q
    <3>1. D * p1 + r0 = (t * D) * q
      <4>1. B * q \in Nat
        <5> HIDE DEF B
        <5> QED
          BY <1>2, <2>1, Z3
      <4>2. D * p1 + r0 = B * q
        <5> HIDE DEF B
        <5> QED
          BY <2>2, <2>3, <4>1
      <4> QED
        BY <4>2
    <3> QED
      BY <1>2, <2>1, <3>1, ZeroLast
  <2>4. ASSUME y = 0, z = 0 PROVE r1 = 0
    <3>1. B * x + 0 = B * x /\ B * x \in Nat /\ B * (B * x) \in Nat
      <4> HIDE DEF B
      <4> QED
        BY <1>2, <1>6, Z3
    <3>2. D * (D * p2 + r1) + r0 = B * (B * x)
      <4> HIDE DEF B, p2
      <4> QED
        BY <2>2, <2>4, <3>1
    <3>3. D * (D * p2 + r1) + r0 = (t * D) * ((t * D) * x) /\ x \in Nat
      BY <1>6, <3>2
    <3> HIDE DEF p2, B
    <3> QED
      BY <1>2, <2>1, <3>3, ZerosLast
  <2> QED
    BY <2>3, <2>4
<1>17. /\ Digit(1) = r3 /\ Digit(2) = r2 /\ Digit(3) = r1 /\ Digit(4) = r0
  <2>1. /\ FromBase64(Alphabet[r0 + 1]) = r0 /\ FromBase64(Alphabet[r1 + 1]) = r1
        /\ FromBase64(Alphabet[r2 + 1]) = r2 /\ FromBase64(Alphabet[r3 + 1]) = r3
        /\ FromBase64(Pad) = 0
    BY <1>3, CharFacts
  <2> DEFINE e == EncodeBlock(input, i)
  <2>2. /\ chars[j + 1] = e[1] /\ chars[j + 2] = e[2] /\ chars[j + 3] = e[3]
        /\ chars[j + 4] = e[4]
    OBVIOUS
  <2>3. /\ e[1] = Alphabet[r3 + 1] /\ e[2] = Alphabet[r2 + 1]
        /\ e[3] = IF i + 2 <= Len(input) THEN Alphabet[r1 + 1] ELSE Pad
        /\ e[4] = IF i + 3 <= Len(input) THEN Alphabet[r0 + 1] ELSE Pad
    <3>1. /\ i + 1 <= Len(input) + 1 /\ i + 2 <= Len(input) + 1
          /\ i + 3 <= Len(input) + 1 <=> i + 2 <= Len(input)
          /\ i + 4 <= Len(input) + 1 <=> i + 3 <= Len(input)
      OBVIOUS
    <3>2. /\ e[1] = GetBase64(bits, 3 * DigitBits) /\ e[2] = GetBase64(bits, 2 * DigitBits)
          /\ e[3] = IF i + 2 <= Len(input) THEN GetBase64(bits, 1 * DigitBits) ELSE Pad
          /\ e[4] = IF i + 3 <= Len(input) THEN GetBase64(bits, 0 * DigitBits) ELSE Pad
      BY <1>8, <3>1
    <3> QED
      BY <1>15, <3>2
  <2> HIDE DEF e
  <2>4. /\ FromBase64(chars[j + 1]) = r3 /\ FromBase64(chars[j + 2]) = r2
    BY <2>1, <2>2, <2>3
  <2>5. FromBase64(chars[j + 3]) = r1
    <3>1. CASE i + 2 <= Len(input)
      BY <2>1, <2>2, <2>3, <3>1
    <3>2. CASE ~(i + 2 <= Len(input))
      <4>1. r1 = 0
        BY <1>7, <1>16, <3>2
      <4> QED
        BY <2>1, <2>2, <2>3, <3>2, <4>1
    <3> QED
      BY <3>1, <3>2
  <2>6. FromBase64(chars[j + 4]) = r0
    <3>1. CASE i + 3 <= Len(input)
      BY <2>1, <2>2, <2>3, <3>1
    <3>2. CASE ~(i + 3 <= Len(input))
      <4>1. r0 = 0
        BY <1>7, <1>16, <3>2
      <4> QED
        BY <2>1, <2>2, <2>3, <3>2, <4>1
    <3> QED
      BY <3>1, <3>2
  <2> QED
    BY <2>4, <2>5, <2>6 DEF Digit
<1>18. back = bits
  BY <1>11, <1>14, <1>17 DEF AreDigits
<1>19. DecodeBlock(chars, j) = <<x, y, z>>
  <2>1. /\ bits \div Pow2[2 * ByteBits] = x /\ (bits \div Pow2[ByteBits]) % Pow2[ByteBits] = y
        /\ bits % Pow2[ByteBits] = z
    BY <1>3, <1>12 DEF AreBytes
  <2> QED
    BY <1>9, <1>18, <2>1
<1>20. <<x, y, z>>[1] = At(1) /\ <<x, y, z>>[2] = At(2) /\ <<x, y, z>>[3] = At(3)
  BY DEF x, y, z
<1>21. \A r \in 1 .. 3 : DecodeBlock(chars, j)[r] = At(r)
  <2> HIDE DEF At
  <2> QED
    BY <1>19, <1>20
<1> QED
  BY <1>21


\* Any bytes survive, but for zeros that fill up the last three.
LEMMA Base64Survives ==
    ASSUME NEW input \in Seq(Byte), Len(input) >= 1
    PROVE  LET chars == Base64Encode(input)
               decoded == Base64Decode(chars)
           IN  /\ Len(chars) = EncodedLen(Len(input)) /\ DecodesBase64(chars)
               /\ Len(decoded) = DecodedLen(Len(chars))
               /\ decoded = [k \in 1 .. Len(decoded) |->
                                IF k <= Len(input) THEN input[k] ELSE 0]
<1> DEFINE n == Len(input)
           blocks == (n + 2) \div 3
           chars == Base64Encode(input)
           decoded == Base64Decode(chars)
<1>1. n \in Nat /\ blocks \in Nat /\ blocks >= 1 /\ 3 * blocks <= n + 2 /\ n <= 3 * blocks
  OBVIOUS
<1> HIDE DEF blocks
<1>2. EncodedLen(n) = blocks * 4 /\ (blocks * 4) \in Nat
  BY <1>1 DEF EncodedLen, blocks
<1>3. chars = [k \in 1 .. blocks * 4 |-> EncodeBlock(input, 3 * ((k - 1) \div 4))[((k - 1) % 4) + 1]]
  BY <1>2 DEF Base64Encode
<1>4. Len(chars) = blocks * 4
  BY <1>2, <1>3
<1>5. DecodesBase64(chars)
  <2>1. \A b \in Nat : (b * 4) % 4 = 0 /\ (b >= 1 => b * 4 >= 4)
    OBVIOUS
  <2> QED
    BY <1>1, <1>4, <2>1 DEF DecodesBase64
<1>6. DecodedLen(Len(chars)) = blocks * 3 /\ blocks * 3 \in Nat
  <2>1. \A b \in Nat : (b * 4) \div 4 = b
    OBVIOUS
  <2> QED
    BY <1>1, <1>4, <2>1 DEF DecodedLen
<1>7. decoded = [k \in 1 .. blocks * 3 |-> DecodeBlock(chars, 4 * ((k - 1) \div 3))[((k - 1) % 3) + 1]]
  BY <1>6 DEF Base64Decode
<1>8. Len(decoded) = blocks * 3
  BY <1>6, <1>7
<1> HIDE DEF chars, n
<1>9. ASSUME NEW q \in 0 .. blocks - 1, NEW r \in 1 .. 3
      PROVE  DecodeBlock(chars, 4 * q)[r] = IF 3 * q + r <= n THEN input[3 * q + r] ELSE 0
  <2>1. q \in Nat /\ 3 * q \in Nat /\ 4 * q \in Nat /\ 3 * q < n
    BY <1>1
  <2>2. ASSUME NEW k \in 1 .. 4 PROVE chars[4 * q + k] = EncodeBlock(input, 3 * q)[k]
    <3>1. 4 * q + k \in 1 .. blocks * 4
      BY <1>1, <2>1
    <3>2. ((4 * q + k) - 1) \div 4 = q /\ (((4 * q + k) - 1) % 4) + 1 = k
      BY <2>1
    <3> QED
      BY <1>3, <3>1, <3>2
  <2> DEFINE i == 3 * q
             j == 4 * q
  <2>3. i \in Nat /\ j \in Nat /\ i < Len(input) /\ \A k \in 1 .. 4 : chars[j + k] = EncodeBlock(input, i)[k]
    BY <2>1, <2>2 DEF n
  <2> HIDE DEF i, j
  <2>4. DecodeBlock(chars, j)[r] = IF i + r <= Len(input) THEN input[i + r] ELSE 0
    BY <2>3, BlockSurvives
  <2> QED
    BY <2>4 DEF i, j, n
<1>10. ASSUME NEW k \in 1 .. blocks * 3
       PROVE  DecodeBlock(chars, 4 * ((k - 1) \div 3))[((k - 1) % 3) + 1]
                 = IF k <= n THEN input[k] ELSE 0
  <2> DEFINE q == (k - 1) \div 3
             r == ((k - 1) % 3) + 1
  <2>1. q \in 0 .. blocks - 1 /\ r \in 1 .. 3 /\ 3 * q + r = k
    BY <1>1
  <2> HIDE DEF q, r
  <2>2. DecodeBlock(chars, 4 * q)[r] = IF 3 * q + r <= n THEN input[3 * q + r] ELSE 0
    BY <1>9, <2>1
  <2>3. DecodeBlock(chars, 4 * q)[r] = IF k <= n THEN input[k] ELSE 0
    BY <2>1, <2>2
  <2> QED
    BY <2>3 DEF q, r
<1>11. decoded = [k \in 1 .. blocks * 3 |-> IF k <= n THEN input[k] ELSE 0]
  BY <1>7, <1>10
<1> HIDE DEF decoded
<1> QED
  BY <1>2, <1>4, <1>5, <1>6, <1>8, <1>11 DEF chars, decoded, n

\* Bytes survive base64, in arrays as long as the length functions say.
THEOREM BytesSurviveCorrect == WalkSpec => []BytesSurvive
<1>1. WalkInv => BytesSurvive
  <2> SUFFICES ASSUME WalkInv PROVE BytesSurvive
    OBVIOUS
  <2> DEFINE bytes == ZigZagEncode(value) \o ZigZagEncode(-value - 1)
  <2>1. bytes \in Seq(Byte)
    <3>1. value \in 0 .. MaxWord /\ MaxWord \in Nat
      BY WalkFacts, WordFacts
    <3>2. value \in -MaxWord - 1 .. MaxWord /\ -value - 1 \in -MaxWord - 1 .. MaxWord
      BY <3>1
    <3>3. ZigZagEncode(value) \in Seq(Byte) /\ ZigZagEncode(-value - 1) \in Seq(Byte)
      BY <3>2, EncodedFacts
    <3> QED
      BY <3>3
  <2> HIDE DEF bytes
  <2> SUFFICES ASSUME NEW n \in 1 .. Len(bytes)
               PROVE  LET chars == Base64Encode(SubSeq(bytes, 1, n))
                          decoded == Base64Decode(chars)
                      IN  /\ Len(chars) = EncodedLen(n)
                          /\ DecodesBase64(chars)
                          /\ Len(decoded) = DecodedLen(Len(chars))
                          /\ decoded = [k \in 1 .. Len(decoded) |->
                                           IF k <= n THEN bytes[k] ELSE 0]
    BY DEF BytesSurvive, bytes
  <2> DEFINE input == SubSeq(bytes, 1, n)
             chars == Base64Encode(input)
             decoded == Base64Decode(chars)
  <2>2. input \in Seq(Byte) /\ Len(input) = n /\ n >= 1 /\ n \in Nat
        /\ \A k \in 1 .. n : input[k] = bytes[k]
    BY <2>1
  <2> HIDE DEF input
  <2>3. /\ Len(chars) = EncodedLen(n) /\ DecodesBase64(chars)
        /\ Len(decoded) = DecodedLen(Len(chars))
        /\ decoded = [k \in 1 .. Len(decoded) |-> IF k <= n THEN input[k] ELSE 0]
    BY <2>2, Base64Survives
  <2> HIDE DEF chars, decoded
  <2>4. \A k \in 1 .. Len(decoded) : (IF k <= n THEN input[k] ELSE 0) = IF k <= n THEN bytes[k] ELSE 0
    BY <2>2
  <2>5. decoded = [k \in 1 .. Len(decoded) |-> IF k <= n THEN bytes[k] ELSE 0]
    BY <2>3, <2>4
  <2> QED
    BY <2>3, <2>5 DEF chars, decoded, input
<1> QED
  BY <1>1, WalkInvariant, PTL
=============================================================================
