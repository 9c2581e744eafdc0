-------------------------- MODULE Recording_proofs --------------------------
(***************************************************************************)
(* Laws of HistogramLayout and Recording, for words of any width: of       *)
(* powers of 2 and bit lengths, of the place that a value has, its bucket  *)
(* and the sub-bucket in it, and of what a recorded value changes.         *)
(***************************************************************************)
EXTENDS Recording, SumLemmas

\* Induction over an interval: among its numbers without a law there is a least one.
LEMMA LeastNatural ==
    ASSUME NEW N \in Nat, NEW K \in SUBSET (0 .. N), K # {}
    PROVE  \E k \in K : \A j \in K : k <= j
<1> DEFINE S == 0 .. N
           F == {0 .. k : k \in K}
<1>1. F \in SUBSET SUBSET S /\ F # {}
  <2>1. \A k \in K : 0 .. k \in SUBSET S
    OBVIOUS
  <2>2. \A T \in F : T \in SUBSET S
    BY <2>1
  <2> HIDE DEF S
  <2>3. F \in SUBSET SUBSET S
    <3> HIDE DEF F
    <3> QED
      BY <2>2
  <2> QED
    BY <2>3
<1>2. IsFiniteSet(S)
  BY FS_Interval
<1>3. PICK T \in F : \A U \in F : U \subseteq T => U = T
  <2> HIDE DEF F, S
  <2> QED
    BY <1>1, <1>2, MinimalSubset
<1>4. PICK k \in K : T = 0 .. k
  OBVIOUS
<1>5. ASSUME NEW j \in K, j < k PROVE FALSE
  <2>1. 0 .. j \in F /\ 0 .. j \subseteq T
    BY <1>4, <1>5
  <2>2. 0 .. j = T
    BY <1>3, <2>1
  <2> QED
    BY <1>4, <1>5, <2>2
<1> QED
  BY <1>5

-----------------------------------------------------------------------------
(***************************************************************************)
(* Powers.                                                                 *)
(***************************************************************************)
Powers(base, k, f) == f = [n \in 0 .. k |-> IF n = 0 THEN 1 ELSE base * f[n - 1]]

LEMMA PowersExist ==
    ASSUME NEW base, NEW N \in Nat
    PROVE  \E f : Powers(base, N, f)
<1> DEFINE Bad == {k \in 0 .. N : ~ \E f : Powers(base, k, f)}
<1>1. SUFFICES ASSUME Bad # {} PROVE FALSE
  OBVIOUS
<1>2. PICK k \in Bad : \A j \in Bad : k <= j
  <2>1. Bad \in SUBSET (0 .. N)
    OBVIOUS
  <2> HIDE DEF Bad
  <2> QED
    BY <1>1, <2>1, LeastNatural
<1>3. k # 0
  <2>1. Powers(base, 0, [n \in 0 .. 0 |-> 1])
    BY DEF Powers
  <2> QED
    BY <1>2, <2>1
<1>4. PICK f : Powers(base, k - 1, f)
  <2>1. k - 1 \in 0 .. N /\ ~(k <= k - 1)
    BY <1>2, <1>3
  <2> QED
    BY <1>2, <2>1
<1> DEFINE g == [n \in 0 .. k |-> IF n = k THEN base * f[k - 1] ELSE f[n]]
<1>5. \A n \in 0 .. k : g[n] = IF n = 0 THEN 1 ELSE base * g[n - 1]
  <2> SUFFICES ASSUME NEW n \in 0 .. k PROVE g[n] = IF n = 0 THEN 1 ELSE base * g[n - 1]
    OBVIOUS
  <2>1. k \in Nat /\ n \in Nat
    BY <1>2
  <2>2. CASE n = k
    BY <1>3, <2>1, <2>2
  <2>3. CASE n # k
    <3>1. n \in 0 .. (k - 1) /\ g[n] = f[n] /\ (n # 0 => g[n - 1] = f[n - 1])
      BY <2>1, <2>3
    <3> HIDE DEF g
    <3> QED
      BY <1>4, <3>1 DEF Powers
  <2> QED
    BY <2>2, <2>3
<1>6. g = [n \in 0 .. k |-> g[n]]
  OBVIOUS
<1>7. Powers(base, k, g)
  <2> HIDE DEF g
  <2> QED
    BY <1>5, <1>6 DEF Powers
<1> QED
  BY <1>2, <1>7

Exponents == 0 .. WordBits + LogBits

LEMMA Pow2Recursion ==
    \A n \in Exponents : Pow2[n] = IF n = 0 THEN 1 ELSE 2 * Pow2[n - 1]
<1>1. WordBits + LogBits \in Nat
  BY LayoutAssumption
<1>2. Powers(2, WordBits + LogBits, Pow2)
  BY <1>1, PowersExist DEF Pow2, Powers
<1> QED
  BY <1>2 DEF Powers, Exponents


\* What is true of 0 and carries over to the next exponent.
LEMMA Pow2Type == \A n \in Exponents : Pow2[n] \in Nat \ {0}
<1> DEFINE Bad == {n \in Exponents : Pow2[n] \notin Nat \ {0}}
           N == WordBits + LogBits
<1>1. SUFFICES ASSUME Bad # {} PROVE FALSE
  OBVIOUS
<1>2. PICK n \in Bad : \A j \in Bad : n <= j
  <2>1. Bad \in SUBSET (0 .. N) /\ N \in Nat
    BY LayoutAssumption DEF Exponents
  <2> HIDE DEF Bad, N
  <2> QED
    BY <1>1, <2>1, LeastNatural
<1>3. n \in Exponents /\ n \in Nat
  BY DEF Exponents
<1>4. CASE n = 0
  BY <1>2, <1>4, Pow2Recursion
<1>5. CASE n # 0
  <2>1. n - 1 \in Exponents /\ ~(n <= n - 1)
    BY <1>3, <1>5, LayoutAssumption DEF Exponents
  <2>2. Pow2[n - 1] \in Nat \ {0}
    BY <1>2, <2>1
  <2>3. Pow2[n] = 2 * Pow2[n - 1]
    BY <1>3, <1>5, Pow2Recursion
  <2> QED
    BY <1>2, <2>2, <2>3
<1> QED
  BY <1>4, <1>5

LEMMA Pow2Next ==
    /\ Pow2[0] = 1
    /\ \A n \in Nat : n + 1 \in Exponents =>
          n \in Exponents /\ Pow2[n] \in Nat \ {0} /\ Pow2[n + 1] = 2 * Pow2[n]
<1>1. WordBits + LogBits \in Nat
  BY LayoutAssumption
<1>2. Pow2[0] = 1
  BY <1>1, Pow2Recursion DEF Exponents
<1>3. ASSUME NEW n \in Nat, n + 1 \in Exponents
      PROVE  n \in Exponents /\ Pow2[n] \in Nat \ {0} /\ Pow2[n + 1] = 2 * Pow2[n]
  <2>1. n \in Exponents /\ n + 1 # 0 /\ (n + 1) - 1 = n
    BY <1>1, <1>3 DEF Exponents
  <2> QED
    BY <1>3, <2>1, Pow2Recursion, Pow2Type
<1> QED
  BY <1>2, <1>3

\* The shift by a sum of distances is the one shift after the other.
LEMMA Pow2Sum ==
    ASSUME NEW a \in Nat, NEW b \in Nat, a + b \in Exponents
    PROVE  /\ Pow2[a + b] = Pow2[a] * Pow2[b]
           /\ {Pow2[a], Pow2[b], Pow2[a + b]} \subseteq Nat \ {0}
<1> DEFINE N == WordBits + LogBits
           Bad == {j \in 0 .. N : a + j \in Exponents /\ Pow2[a + j] # Pow2[a] * Pow2[j]}
<1>1. /\ N \in Nat /\ \A i \in Nat : i \in Exponents <=> i <= N
      /\ a \in Exponents /\ b \in Exponents
  BY LayoutAssumption DEF Exponents
<1>2. {Pow2[a], Pow2[b], Pow2[a + b]} \subseteq Nat \ {0}
  BY <1>1, Pow2Type
<1>3. ASSUME Bad # {} PROVE FALSE
  <2>1. PICK j \in Bad : \A i \in Bad : j <= i
    <3>1. Bad \in SUBSET (0 .. N)
      OBVIOUS
    <3> HIDE DEF Bad, N
    <3> QED
      BY <1>1, <1>3, <3>1, LeastNatural
  <2>2. j \in Nat /\ a + j \in Exponents /\ Pow2[a + j] # Pow2[a] * Pow2[j]
    OBVIOUS
  <2>3. j # 0
    BY <1>1, <1>2, <2>2, Pow2Next
  <2>4. PICK i \in Nat : j = i + 1
    <3>1. j - 1 \in Nat /\ j = (j - 1) + 1
      BY <2>2, <2>3
    <3> QED
      BY <3>1
  <2>5. Pow2[a + i] = Pow2[a] * Pow2[i] /\ j \in Exponents
    <3>1. i \in 0 .. N /\ a + i \in Exponents /\ j \in Exponents /\ ~(j <= i)
      BY <1>1, <2>2, <2>4
    <3> QED
      BY <2>1, <3>1
  <2>6. /\ Pow2[j] = 2 * Pow2[i] /\ Pow2[i] \in Nat
        /\ Pow2[a + j] = 2 * Pow2[a + i]
    <3>1. a + i \in Nat /\ (a + i) + 1 = a + j
      BY <2>4
    <3> QED
      BY <2>2, <2>4, <2>5, <3>1, Pow2Next
  <2>7. \A x, y \in Nat : 2 * (x * y) = x * (2 * y)
    BY Z3
  <2>8. 2 * (Pow2[a] * Pow2[i]) = Pow2[a] * (2 * Pow2[i])
    BY <1>2, <2>6, <2>7
  <2> QED
    BY <2>2, <2>5, <2>6, <2>8
<1> QED
  <2>1. b \in 0 .. N
    BY <1>1
  <2> QED
    BY <1>2, <1>3, <2>1

\* Shifting further gives at least the double, and more than one bit for each bit shifted.
LEMMA Pow2Less ==
    ASSUME NEW a \in Nat, NEW b \in Exponents, a < b
    PROVE  2 * Pow2[a] <= Pow2[b] /\ Pow2[a] < Pow2[b] /\ Pow2[a] \in Nat \ {0}
<1> DEFINE p == Pow2[a]
           q == Pow2[b - (a + 1)]
<1>1. /\ b \in Nat /\ a + 1 \in Exponents /\ b - (a + 1) \in Nat
      /\ (a + 1) + (b - (a + 1)) = b
  BY LayoutAssumption DEF Exponents
<1>2. Pow2[a + 1] = 2 * p /\ p \in Nat \ {0}
  BY <1>1, Pow2Next
<1>3. Pow2[b] = (2 * p) * q /\ q \in Nat \ {0}
  BY <1>1, <1>2, Pow2Sum
<1>4. \A x, y \in Nat : y # 0 => x <= x * y
  BY Z3
<1>5. 2 * p <= (2 * p) * q
  <2>1. 2 * p \in Nat /\ q \in Nat /\ q # 0
    BY <1>2, <1>3
  <2> HIDE DEF p, q
  <2> QED
    BY <1>4, <2>1
<1> QED
  BY <1>2, <1>3, <1>5

LEMMA Pow2Grows ==
    ASSUME NEW a \in Nat, NEW b \in Exponents, a <= b
    PROVE  Pow2[a] <= Pow2[b] /\ Pow2[a] \in Nat \ {0} /\ Pow2[b] \in Nat \ {0}
<1>1. b \in Nat /\ a \in Exponents
  BY LayoutAssumption DEF Exponents
<1>2. CASE a = b
  BY <1>1, <1>2, Pow2Type
<1>3. CASE a # b
  BY <1>1, <1>3, Pow2Less, Pow2Type
<1> QED
  BY <1>2, <1>3


-----------------------------------------------------------------------------
(***************************************************************************)
(* Words.                                                                  *)
(***************************************************************************)
LEMMA WordFacts ==
    /\ WordBits \in Nat /\ WordBits >= 8 /\ LogBits \in Nat
    /\ \A k \in Nat : k <= WordBits => k \in Exponents /\ Pow2[k] \in Nat \ {0}
    /\ MaxWord \in Nat /\ MaxWord + 1 = Pow2[WordBits - 1] /\ MaxWord >= 127
    /\ Pow2[WordBits] = 2 * (MaxWord + 1)
<1>1. /\ WordBits \in Nat /\ WordBits >= 8 /\ LogBits \in Nat
      /\ \A k \in Nat : k <= WordBits => k \in Exponents
  BY LayoutAssumption DEF Exponents
<1>2. \A k \in Nat : k <= WordBits => Pow2[k] \in Nat \ {0}
  BY <1>1, Pow2Type
<1>3. Pow2[WordBits] = 2 * Pow2[WordBits - 1]
  <2>1. WordBits - 1 \in Nat /\ (WordBits - 1) + 1 = WordBits /\ WordBits \in Exponents
    BY <1>1
  <2> QED
    BY <2>1, Pow2Next
<1>4. Pow2[7] = 128
  <2>1. \A k \in {1, 2, 3, 4, 5, 6, 7} : k \in Exponents
    BY <1>1
  <2>2. /\ 0 + 1 = 1 /\ 1 + 1 = 2 /\ 2 + 1 = 3 /\ 3 + 1 = 4 /\ 4 + 1 = 5 /\ 5 + 1 = 6 /\ 6 + 1 = 7
    OBVIOUS
  <2>3. /\ Pow2[1] = 2 * Pow2[0] /\ Pow2[2] = 2 * Pow2[1] /\ Pow2[3] = 2 * Pow2[2]
        /\ Pow2[4] = 2 * Pow2[3] /\ Pow2[5] = 2 * Pow2[4] /\ Pow2[6] = 2 * Pow2[5]
        /\ Pow2[7] = 2 * Pow2[6] /\ Pow2[0] = 1
    BY <2>1, <2>2, Pow2Next
  <2> QED
    BY <2>3
<1>5. Pow2[7] <= Pow2[WordBits - 1]
  <2>1. WordBits - 1 \in Exponents /\ 7 <= WordBits - 1
    BY <1>1
  <2> QED
    BY <2>1, Pow2Grows
<1>6. Pow2[WordBits - 1] \in Nat
  <2>1. WordBits - 1 \in Nat /\ WordBits - 1 <= WordBits
    BY <1>1
  <2> QED
    BY <1>2, <2>1
<1>7. MaxWord = Pow2[WordBits - 1] - 1
  BY DEF MaxWord
<1> HIDE DEF MaxWord
<1> QED
  BY <1>1, <1>2, <1>3, <1>4, <1>5, <1>6, <1>7

\* What is in the word stays as it is; what exceeds it by one comes out at the other end.
LEMMA WrapFacts ==
    /\ \A n \in Int : -(MaxWord + 1) <= n /\ n <= MaxWord => Wrap(n) = n
    /\ Wrap(MaxWord + 1) = -(MaxWord + 1)
    /\ Wrap(-(MaxWord + 1) - 1) = MaxWord
<1>1. \A x, d \in Int : 0 <= x /\ x < d => x % d = x
  BY Z3
<1>2. \A d \in Nat \ {0} : d % d = 0
  BY Z3
<1>3. \A d \in Nat \ {0} : (-1) % d = d - 1
  BY Z3
<1>4. MaxWord \in Nat
  BY WordFacts
<1>5. ASSUME NEW n \in Int, -(MaxWord + 1) <= n, n <= MaxWord PROVE Wrap(n) = n
  <2>1. (n + MaxWord + 1) % (2 * (MaxWord + 1)) = n + MaxWord + 1
    <3>1. n + MaxWord + 1 \in Int /\ 0 <= n + MaxWord + 1 /\ n + MaxWord + 1 < 2 * (MaxWord + 1)
      BY <1>4, <1>5
    <3>2. 2 * (MaxWord + 1) \in Int
      BY <1>4
    <3> QED
      BY <1>1, <3>1, <3>2
  <2> QED
    BY <1>4, <1>5, <2>1 DEF Wrap
<1>6. Wrap(MaxWord + 1) = -(MaxWord + 1)
  <2>1. /\ (MaxWord + 1) + MaxWord + 1 = 2 * (MaxWord + 1)
        /\ 2 * (MaxWord + 1) \in Nat \ {0}
    BY <1>4
  <2>2. (2 * (MaxWord + 1)) % (2 * (MaxWord + 1)) = 0
    BY <1>2, <2>1
  <2>3. ((MaxWord + 1) + MaxWord + 1) % (2 * (MaxWord + 1)) = 0
    BY <2>1, <2>2
  <2> QED
    BY <1>4, <2>3 DEF Wrap
<1>7. Wrap(-(MaxWord + 1) - 1) = MaxWord
  <2>1. (-(MaxWord + 1) - 1) + MaxWord + 1 = -1 /\ 2 * (MaxWord + 1) \in Nat \ {0}
    BY <1>4
  <2>2. (-1) % (2 * (MaxWord + 1)) = 2 * (MaxWord + 1) - 1
    BY <1>3, <2>1
  <2>3. ((-(MaxWord + 1) - 1) + MaxWord + 1) % (2 * (MaxWord + 1)) = 2 * (MaxWord + 1) - 1
    BY <2>1, <2>2
  <2> QED
    BY <1>4, <2>3 DEF Wrap
<1> QED
  BY <1>5, <1>6, <1>7

\* The bit length is between the powers of 2 around the number, and nothing else is.
LEMMA BitLengthIs ==
    ASSUME NEW n \in Nat, NEW k \in Nat, k <= WordBits,
           n < Pow2[k], k > 0 => Pow2[k - 1] <= n
    PROVE  BitLength(n) = k
<1> DEFINE Around(j) == n < Pow2[j] /\ (j > 0 => Pow2[j - 1] <= n)
<1>1. k \in 0 .. WordBits /\ Around(k)
  BY WordFacts
<1>2. ASSUME NEW j \in 0 .. WordBits, Around(j) PROVE j = k
  <2>1. \A i \in Nat, l \in Nat : i < l /\ l <= WordBits => Pow2[i] <= Pow2[l - 1]
    <3> SUFFICES ASSUME NEW i \in Nat, NEW l \in Nat, i < l, l <= WordBits
                 PROVE  Pow2[i] <= Pow2[l - 1]
      OBVIOUS
    <3>1. l - 1 \in Exponents /\ i <= l - 1
      BY WordFacts
    <3> QED
      BY <3>1, Pow2Grows
  <2>2. \A i \in 0 .. WordBits : i \in Nat /\ Pow2[i] \in Nat /\ (i > 0 => Pow2[i - 1] \in Nat)
    BY WordFacts
  <2>3. ~(j < k)
    <3>1. j < k => Pow2[j] <= Pow2[k - 1]
      BY <2>1
    <3> QED
      BY <1>1, <1>2, <2>2, <3>1
  <2>4. ~(k < j)
    <3>1. k < j => Pow2[k] <= Pow2[j - 1]
      BY <1>2, <2>1, WordFacts
    <3> QED
      BY <1>1, <1>2, <2>2, <3>1
  <2> QED
    BY <2>3, <2>4
<1>3. BitLength(n) = CHOOSE j \in 0 .. WordBits : Around(j)
  BY DEF BitLength
<1> HIDE DEF Around
<1> QED
  BY <1>1, <1>2, <1>3

LEMMA BitLengthFacts ==
    ASSUME NEW n \in Nat, n < Pow2[WordBits]
    PROVE  /\ BitLength(n) \in 0 .. WordBits
           /\ n < Pow2[BitLength(n)]
           /\ BitLength(n) > 0 => Pow2[BitLength(n) - 1] <= n
           /\ \A k \in Nat : k <= WordBits /\ n < Pow2[k] => BitLength(n) <= k
           /\ \A k \in Nat : k < WordBits /\ Pow2[k] <= n => k < BitLength(n)
<1> DEFINE Above == {k \in 0 .. WordBits : n < Pow2[k]}
<1>1. PICK k \in Above : \A j \in Above : k <= j
  <2>1. Above # {} /\ Above \in SUBSET (0 .. WordBits) /\ WordBits \in Nat
    BY WordFacts
  <2> HIDE DEF Above
  <2> QED
    BY <2>1, LeastNatural
<1>2. k \in Nat /\ k <= WordBits /\ n < Pow2[k]
  BY WordFacts
<1>3. k > 0 => Pow2[k - 1] <= n
  <2> SUFFICES ASSUME k > 0 PROVE Pow2[k - 1] <= n
    OBVIOUS
  <2>1. k - 1 \in 0 .. WordBits /\ ~(k <= k - 1) /\ Pow2[k - 1] \in Nat
    BY <1>2, WordFacts
  <2> QED
    BY <1>1, <2>1
<1>4. BitLength(n) = k
  BY <1>2, <1>3, BitLengthIs
<1>5. \A j \in Nat : j <= WordBits /\ n < Pow2[j] => k <= j
  BY <1>1, WordFacts
<1>6. ASSUME NEW j \in Nat, j < WordBits, Pow2[j] <= n PROVE j < k
  <2>1. k <= j => Pow2[k] <= Pow2[j]
    BY <1>2, <1>6, WordFacts, Pow2Grows
  <2>2. Pow2[k] \in Nat /\ Pow2[j] \in Nat
    BY <1>2, <1>6, WordFacts
  <2> QED
    BY <1>2, <1>6, <2>1, <2>2
<1> QED
  BY <1>2, <1>3, <1>4, <1>5, <1>6, WordFacts


-----------------------------------------------------------------------------
(***************************************************************************)
(* The place of a value: bucket b and sub-bucket s of a configuration c.   *)
(***************************************************************************)

\* What the index arithmetic needs of a configuration.
IsConfig(c) ==
    /\ c.unit_magnitude \in Nat /\ c.sub_bucket_half_count_magnitude \in Nat
    /\ c.unit_magnitude + c.sub_bucket_half_count_magnitude <= WordBits - 3
    /\ c.sub_bucket_half_count = Pow2[c.sub_bucket_half_count_magnitude]
    /\ c.sub_bucket_count = 2 * c.sub_bucket_half_count
    /\ c.sub_bucket_mask = Pow2[c.unit_magnitude + c.sub_bucket_half_count_magnitude + 1]
                              - Pow2[c.unit_magnitude]

\* Of the sub-buckets, all but those of bucket 0 are in the upper half.
SubBuckets(c, b) ==
    {s \in Nat : s < 2 * c.sub_bucket_half_count /\ (b > 0 => c.sub_bucket_half_count <= s)}

\* The width of the sub-buckets of bucket b.
Width(c, b) == Pow2[b + c.unit_magnitude]

Buckets(c) ==
    {b \in Nat : b + c.unit_magnitude + c.sub_bucket_half_count_magnitude + 1 <= WordBits - 1}

Place(c, v, b, s) ==
    /\ b \in Buckets(c) /\ s \in SubBuckets(c, b)
    /\ Width(c, b) * s <= v /\ v < Width(c, b) * s + Width(c, b)

\* The array has the buckets one after the other, of which bucket 0 is as long as two.
IndexOf(c, b, s) == b * c.sub_bucket_half_count + s

LEMMA Quotient ==
    ASSUME NEW d \in Nat \ {0}, NEW q \in Int, NEW x \in Int, d * q <= x, x < d * q + d
    PROVE  x \div d = q /\ x % d = x - d * q
BY Z3

\* The powers of 2 that bound a bucket.
LEMMA WidthFacts ==
    ASSUME NEW c, IsConfig(c), NEW b \in Buckets(c)
    PROVE  /\ Width(c, b) \in Nat \ {0} /\ c.sub_bucket_half_count \in Nat \ {0}
           /\ Pow2[b + c.unit_magnitude + c.sub_bucket_half_count_magnitude]
                 = Width(c, b) * c.sub_bucket_half_count
           /\ Pow2[b + c.unit_magnitude + c.sub_bucket_half_count_magnitude + 1]
                 = Width(c, b) * (2 * c.sub_bucket_half_count)
           /\ Width(c, b) * (2 * c.sub_bucket_half_count) <= MaxWord + 1
<1> DEFINE u == c.unit_magnitude
           m == c.sub_bucket_half_count_magnitude
           e == b + u
<1>1. /\ u \in Nat /\ m \in Nat /\ e \in Nat /\ e + m \in Nat /\ e + m + 1 \in Nat
      /\ e + m + 1 <= WordBits - 1
  BY DEF IsConfig, Buckets
<1>2. e + m \in Exponents /\ e + m + 1 \in Exponents
  BY <1>1, WordFacts
<1>3. /\ Pow2[e + m] = Pow2[e] * Pow2[m]
      /\ Pow2[e] \in Nat \ {0} /\ Pow2[m] \in Nat \ {0} /\ Pow2[e + m] \in Nat \ {0}
  BY <1>1, <1>2, Pow2Sum
<1>4. Pow2[e + m + 1] = 2 * Pow2[e + m]
  BY <1>1, <1>2, Pow2Next
<1>5. Pow2[e + m + 1] <= Pow2[WordBits - 1]
  BY <1>1, WordFacts, Pow2Grows
<1>6. c.sub_bucket_half_count = Pow2[m] /\ Width(c, b) = Pow2[e]
  BY DEF IsConfig, Width
<1>7. \A x, y \in Nat : 2 * (x * y) = x * (2 * y)
  BY Z3
<1>8. 2 * (Pow2[e] * Pow2[m]) = Pow2[e] * (2 * Pow2[m])
  BY <1>3, <1>7
<1> QED
  BY <1>3, <1>4, <1>5, <1>6, <1>8, WordFacts

\* The mask makes every value at least as long as those of bucket 0.
LEMMA MaskFacts ==
    ASSUME NEW c, IsConfig(c)
    PROVE  BitLength(c.sub_bucket_mask)
              = c.unit_magnitude + c.sub_bucket_half_count_magnitude + 1
<1> DEFINE u == c.unit_magnitude
           m == c.sub_bucket_half_count_magnitude
<1>1. u \in Nat /\ m \in Nat /\ u + m \in Nat /\ u + m + 1 \in Nat /\ u + m + 1 <= WordBits
  BY WordFacts DEF IsConfig
<1>2. u + m + 1 \in Exponents /\ u + m \in Exponents /\ Pow2[u] \in Nat \ {0}
  BY <1>1, WordFacts
<1>3. Pow2[u + m + 1] = 2 * Pow2[u + m] /\ Pow2[u + m] \in Nat
  BY <1>1, <1>2, Pow2Next
<1>4. Pow2[u] <= Pow2[u + m]
  BY <1>1, <1>2, Pow2Grows
<1>5. c.sub_bucket_mask = Pow2[u + m + 1] - Pow2[u]
  BY DEF IsConfig
<1>6. /\ c.sub_bucket_mask \in Nat /\ c.sub_bucket_mask < Pow2[u + m + 1]
      /\ Pow2[(u + m + 1) - 1] <= c.sub_bucket_mask
  <2>1. (u + m + 1) - 1 = u + m
    BY <1>1
  <2> HIDE DEF u, m
  <2> QED
    BY <1>2, <1>3, <1>4, <1>5, <2>1
<1> HIDE DEF u, m
<1>7. BitLength(c.sub_bucket_mask) = u + m + 1
  BY <1>1, <1>6, BitLengthIs
<1> QED
  BY <1>7 DEF u, m

LEMMA LargerIs ==
    ASSUME NEW a \in Int, NEW b \in Int
    PROVE  Max({a, b}) = IF a >= b THEN a ELSE b
<1>1. \A x \in {a, b} : (\A y \in {a, b} : x >= y) <=> x = IF a >= b THEN a ELSE b
  OBVIOUS
<1>2. (IF a >= b THEN a ELSE b) \in {a, b}
  OBVIOUS
<1> HIDE DEF Max
<1>3. Max({a, b}) = CHOOSE x \in {a, b} : \A y \in {a, b} : x >= y
  BY DEF Max
<1> QED
  BY <1>1, <1>2, <1>3

\* The functions of the code find the place of a value.
LEMMA PlaceIs ==
    ASSUME NEW c, IsConfig(c), NEW v \in 0 .. MaxWord, NEW b, NEW s, Place(c, v, b, s)
    PROVE  /\ GetBucketIndex(c, v) = b
           /\ GetSubBucketIndex(v, b, c.unit_magnitude) = s
           /\ CountsIndexFor(c, v) = IndexOf(c, b, s)
<1> DEFINE u == c.unit_magnitude
           m == c.sub_bucket_half_count_magnitude
           w == Width(c, b)
           half == c.sub_bucket_half_count
           top == b + u + m + 1
<1>1. /\ b \in Buckets(c) /\ s \in SubBuckets(c, b) /\ w * s <= v /\ v < w * s + w
  BY DEF Place
<1>2. /\ u \in Nat /\ m \in Nat /\ b \in Nat /\ s \in Nat /\ v \in Nat
      /\ top \in Nat /\ top <= WordBits - 1
      /\ s < 2 * half /\ (b > 0 => half <= s)
  BY <1>1, WordFacts DEF IsConfig, Buckets, SubBuckets
<1>3. /\ w \in Nat \ {0} /\ half \in Nat \ {0}
      /\ Pow2[b + u + m] = w * half /\ Pow2[top] = w * (2 * half)
  BY <1>1, WidthFacts
<1>4. v < Pow2[top]
  <2>1. \A x, y, z \in Nat : y < z => x * y + x <= x * z
    BY Z3
  <2>2. w * s + w <= w * (2 * half)
    <3>1. 2 * half \in Nat
      BY <1>3
    <3> HIDE DEF w, half
    <3> QED
      BY <1>2, <1>3, <2>1, <3>1
  <2>3. w * s \in Nat /\ w * (2 * half) \in Nat
    <3> HIDE DEF w, half
    <3> QED
      BY <1>2, <1>3
  <2> HIDE DEF w, half
  <2> QED
    BY <1>1, <1>2, <1>3, <2>2, <2>3
<1>5. b > 0 => Pow2[b + u + m] <= v
  <2>1. \A x, y, z \in Nat : y <= z => x * y <= x * z
    BY Z3
  <2>2. w * s \in Nat /\ w * half \in Nat
    <3> HIDE DEF w, half
    <3> QED
      BY <1>2, <1>3
  <2> HIDE DEF w, half
  <2>3. b > 0 => w * half <= w * s
    BY <1>2, <1>3, <2>1
  <2> QED
    BY <1>1, <1>2, <1>3, <2>2, <2>3
<1>6. GetBucketIndex(c, v) = b
  <2>1. /\ BitLength(v) \in Nat /\ BitLength(v) <= top
        /\ b > 0 => BitLength(v) = top
    <3>1. v < Pow2[WordBits]
      BY WordFacts
    <3>2. BitLength(v) \in Nat /\ BitLength(v) <= top
      BY <1>2, <1>4, <3>1, WordFacts, BitLengthFacts
    <3>3. b > 0 => b + u + m < BitLength(v)
      BY <1>2, <1>5, <3>1, WordFacts, BitLengthFacts
    <3> QED
      BY <1>2, <3>2, <3>3
  <2>2. BitLength(c.sub_bucket_mask) = u + m + 1 /\ u + m + 1 \in Int
    BY <1>2, MaskFacts
  <2>3. Max({BitLength(v), BitLength(c.sub_bucket_mask)}) = top
    BY <1>2, <2>1, <2>2, LargerIs
  <2>4. GetBucketIndex(c, v) = top - u - (m + 1)
    BY <2>3 DEF GetBucketIndex
  <2> QED
    BY <1>2, <2>4
<1>7. GetSubBucketIndex(v, b, u) = s
  <2>1. GetSubBucketIndex(v, b, u) = v \div w
    BY DEF GetSubBucketIndex, Width
  <2>2. w \in Nat \ {0} /\ s \in Int /\ v \in Int /\ w * s <= v /\ v < w * s + w
    BY <1>1, <1>2, <1>3
  <2> HIDE DEF w
  <2>3. v \div w = s
    BY <2>2, Quotient
  <2> QED
    BY <2>1, <2>3
<1>8. CountsIndexFor(c, v) = IndexOf(c, b, s)
  <2>1. half = Pow2[m]
    BY DEF IsConfig
  <2>2. CountsIndexFor(c, v) = (b + 1) * half + (s - half)
    BY <1>6, <1>7, <2>1 DEF CountsIndexFor, CountsIndex
  <2>3. \A x, y, z \in Int : (x + 1) * y + (z - y) = x * y + z
    BY Z3
  <2> QED
    BY <1>2, <1>3, <2>2, <2>3 DEF IndexOf
<1> QED
  BY <1>6, <1>7, <1>8

\* Every value has a place.
LEMMA PlaceExists ==
    ASSUME NEW c, IsConfig(c), NEW v \in 0 .. MaxWord
    PROVE  \E b, s : Place(c, v, b, s)
<1> DEFINE u == c.unit_magnitude
           m == c.sub_bucket_half_count_magnitude
           half == c.sub_bucket_half_count
           long == BitLength(v)
           b == IF long <= u + m + 1 THEN 0 ELSE long - (u + m + 1)
           w == Width(c, b)
           s == v \div w
<1>1. u \in Nat /\ m \in Nat /\ v \in Nat /\ u + m <= WordBits - 3
  BY WordFacts DEF IsConfig
<1>2. /\ long \in Nat /\ long <= WordBits - 1 /\ v < Pow2[long]
      /\ long > 0 => Pow2[long - 1] <= v
  <2>1. v < Pow2[WordBits] /\ v < Pow2[WordBits - 1]
    BY WordFacts
  <2>2. WordBits - 1 \in Nat /\ WordBits - 1 <= WordBits
    BY WordFacts
  <2> QED
    BY <1>1, <2>1, <2>2, BitLengthFacts
<1>3. b \in Buckets(c) /\ b \in Nat /\ b + u + m + 1 \in Nat /\ b + u + m + 1 <= WordBits - 1
  BY <1>1, <1>2, WordFacts DEF Buckets
<1>4. /\ w \in Nat \ {0} /\ half \in Nat \ {0}
      /\ Pow2[b + u + m] = w * half /\ Pow2[b + u + m + 1] = w * (2 * half)
  <2> HIDE DEF b
  <2> QED
    BY <1>3, WidthFacts
<1>5. v < Pow2[b + u + m + 1]
  <2>1. long <= b + u + m + 1 /\ b + u + m + 1 \in Exponents
    BY <1>1, <1>2, <1>3, WordFacts
  <2>2. Pow2[long] <= Pow2[b + u + m + 1] /\ Pow2[long] \in Nat /\ Pow2[b + u + m + 1] \in Nat
    <3> HIDE DEF b, long
    <3> QED
      BY <1>2, <2>1, Pow2Grows
  <2> QED
    BY <1>1, <1>2, <2>2
<1>6. b > 0 => Pow2[b + u + m] <= v
  <2>1. b > 0 => b + u + m = long - 1 /\ long > 0
    BY <1>1, <1>2
  <2> QED
    BY <1>2, <2>1
<1> HIDE DEF b, w, half, u, m
<1>7. s \in Nat /\ w * s <= v /\ v < w * s + w
  <2>1. \A x \in Nat, d \in Nat \ {0} :
           x \div d \in Nat /\ d * (x \div d) <= x /\ x < d * (x \div d) + d
    BY Z3
  <2> QED
    BY <1>1, <1>4, <2>1
<1> HIDE DEF s
<1>8. s < 2 * half
  <2>1. \A x, y, z \in Nat : x * y < x * z => y < z
    BY Z3
  <2>2. w * s < w * (2 * half) /\ 2 * half \in Nat
    BY <1>1, <1>4, <1>5, <1>7
  <2> QED
    BY <1>4, <1>7, <2>1, <2>2
<1>9. b > 0 => half <= s
  <2>1. \A x, y, z \in Nat : x * z < x * y + x => z <= y
    BY Z3
  <2>2. b > 0 => w * half < w * s + w
    BY <1>1, <1>4, <1>6, <1>7
  <2> QED
    BY <1>4, <1>7, <2>1, <2>2
<1> QED
  BY <1>3, <1>7, <1>8, <1>9 DEF Place, SubBuckets, b, w, half, u, m


-----------------------------------------------------------------------------
(***************************************************************************)
(* The range of a place.                                                   *)
(***************************************************************************)

\* It is inside the word, and each value in it has that place.
LEMMA PlaceRange ==
    ASSUME NEW c, IsConfig(c), NEW b \in Buckets(c), NEW s \in SubBuckets(c, b)
    PROVE  /\ Width(c, b) \in Nat \ {0} /\ Width(c, b) * s \in Nat /\ s \in Nat
           /\ Width(c, b) * s + Width(c, b) <= MaxWord + 1
           /\ \A v \in Int : Width(c, b) * s <= v /\ v < Width(c, b) * s + Width(c, b) =>
                 v \in 0 .. MaxWord /\ Place(c, v, b, s)
<1> DEFINE w == Width(c, b)
           n == 2 * c.sub_bucket_half_count
<1>1. /\ w \in Nat \ {0} /\ n \in Nat /\ w * n <= MaxWord + 1
      /\ s \in Nat /\ s < n /\ MaxWord \in Nat
  BY WidthFacts, WordFacts DEF SubBuckets
<1>2. \A x, y, z \in Nat : y < z => x * y + x <= x * z /\ x * y \in Nat /\ x * z \in Nat
  BY Z3
<1> HIDE DEF w, n
<1>3. w * s + w <= MaxWord + 1 /\ w * s \in Nat
  <2>1. w * s + w <= w * n /\ w * s \in Nat /\ w * n \in Nat
    BY <1>1, <1>2
  <2> QED
    BY <1>1, <2>1
<1>4. ASSUME NEW v \in Int, w * s <= v, v < w * s + w PROVE v \in 0 .. MaxWord /\ Place(c, v, b, s)
  <2>1. v \in 0 .. MaxWord
    BY <1>1, <1>3, <1>4
  <2> QED
    BY <1>4, <2>1 DEF Place, w
<1> QED
  BY <1>1, <1>3, <1>4 DEF w

LEMMA ValueFromIndexIs ==
    ASSUME NEW c, IsConfig(c), NEW b \in Buckets(c), NEW s \in SubBuckets(c, b)
    PROVE  ValueFromIndex(b, s, c.unit_magnitude) = Width(c, b) * s
<1> DEFINE w == Width(c, b)
<1>1. w \in Nat \ {0} /\ w * s \in Nat /\ w * s + w <= MaxWord + 1 /\ s \in Nat /\ MaxWord \in Nat
  BY PlaceRange, WordFacts
<1>2. ValueFromIndex(b, s, c.unit_magnitude) = Wrap(s * w)
  BY DEF ValueFromIndex, Width
<1>3. \A x, y \in Nat : x * y = y * x
  BY Z3
<1> HIDE DEF w
<1>4. s * w = w * s /\ -(MaxWord + 1) <= w * s /\ w * s <= MaxWord
  BY <1>1, <1>3
<1>5. Wrap(w * s) = w * s
  BY <1>1, <1>4, WrapFacts
<1> QED
  BY <1>2, <1>4, <1>5 DEF w

\* What the equivalence functions report of a value is the range of its place.  The
\* end of the last range wraps, and comes back by the subtraction of 1.
LEMMA EquivalentRange ==
    ASSUME NEW c, IsConfig(c), NEW v \in 0 .. MaxWord, NEW b, NEW s, Place(c, v, b, s)
    PROVE  /\ LowestEquivalentValue(c, v) = Width(c, b) * s
           /\ SizeOfEquivalentValueRange(c, v) = Width(c, b)
           /\ HighestEquivalentValue(c, v) = Width(c, b) * s + Width(c, b) - 1
<1> DEFINE w == Width(c, b)
<1>1. b \in Buckets(c) /\ s \in SubBuckets(c, b)
  BY DEF Place
<1>2. w \in Nat \ {0} /\ w * s \in Nat /\ w * s + w <= MaxWord + 1 /\ MaxWord \in Nat
  BY <1>1, PlaceRange, WordFacts
<1>3. GetBucketIndex(c, v) = b /\ GetSubBucketIndex(v, b, c.unit_magnitude) = s
  BY PlaceIs
<1>4. LowestEquivalentValue(c, v) = w * s
  BY <1>1, <1>3, ValueFromIndexIs DEF LowestEquivalentValue
<1>5. SizeOfEquivalentValueRange(c, v) = w
  <2>1. ~(s >= c.sub_bucket_count) /\ b \in Nat /\ c.unit_magnitude \in Nat
    <3>1. s \in Nat /\ c.sub_bucket_half_count \in Nat /\ s < 2 * c.sub_bucket_half_count
      BY <1>1, WidthFacts DEF SubBuckets
    <3> QED
      BY <1>1, <3>1 DEF IsConfig, Buckets
  <2>2. c.unit_magnitude + b = b + c.unit_magnitude
    BY <2>1
  <2>3. SizeOfEquivalentValueRange(c, v) = Pow2[c.unit_magnitude + b]
    BY <1>3, <2>1 DEF SizeOfEquivalentValueRange
  <2> QED
    BY <2>2, <2>3 DEF Width
<1>6. HighestEquivalentValue(c, v) = w * s + w - 1
  <2>1. HighestEquivalentValue(c, v) = Wrap(Wrap(w * s + w) - 1)
    BY <1>4, <1>5 DEF HighestEquivalentValue, NextNonEquivalentValue
  <2> HIDE DEF w
  <2>2. CASE w * s + w <= MaxWord
    <3> DEFINE n == w * s + w
    <3>0. n \in Int /\ n - 1 \in Int /\ -(MaxWord + 1) <= n - 1 /\ n <= MaxWord
      BY <1>2, <2>2
    <3> HIDE DEF n
    <3>1. Wrap(n) = n
      BY <1>2, <3>0, WrapFacts
    <3>2. Wrap(n - 1) = n - 1
      BY <1>2, <3>0, WrapFacts
    <3>3. HighestEquivalentValue(c, v) = Wrap(Wrap(n) - 1)
      BY <2>1 DEF n
    <3>4. HighestEquivalentValue(c, v) = n - 1
      BY <3>1, <3>2, <3>3
    <3> QED
      BY <1>2, <3>4 DEF n
  <2>3. CASE w * s + w = MaxWord + 1
    <3>1. Wrap(Wrap(w * s + w) - 1) = MaxWord
      BY <2>3, WrapFacts
    <3> QED
      BY <1>2, <2>1, <2>3, <3>1
  <2> QED
    BY <1>2, <2>2, <2>3
<1> QED
  BY <1>4, <1>5, <1>6

\* hdr_value_at_index finds the place of an index.
LEMMA ValueAtIndexIs ==
    ASSUME NEW c, IsConfig(c), NEW b \in Buckets(c), NEW s \in SubBuckets(c, b)
    PROVE  ValueAtIndex(c, IndexOf(c, b, s)) = Width(c, b) * s
<1> DEFINE half == c.sub_bucket_half_count
           index == IndexOf(c, b, s)
<1>1. /\ half \in Nat \ {0} /\ b \in Nat /\ s \in Nat /\ s < 2 * half
      /\ (b > 0 => half <= s) /\ index = b * half + s
  BY WidthFacts DEF Buckets, SubBuckets, IndexOf
<1>2. ValueFromIndex(b, s, c.unit_magnitude) = Width(c, b) * s
  BY ValueFromIndexIs
<1>3. ValueAtIndex(c, index) =
         IF (index \div half) - 1 < 0
         THEN ValueFromIndex(0, ((index % half) + half) - half, c.unit_magnitude)
         ELSE ValueFromIndex((index \div half) - 1, (index % half) + half, c.unit_magnitude)
  BY DEF ValueAtIndex
<1>4. CASE s < half
  <2>1. b = 0 /\ index = s
    BY <1>1, <1>4
  <2> HIDE DEF half, index
  <2>2. index \div half = 0 /\ index % half = index - half * 0
    <3>1. half * 0 <= index /\ index < half * 0 + half /\ 0 \in Int /\ index \in Int
      BY <1>1, <1>4, <2>1
    <3> QED
      BY <1>1, <3>1, Quotient
  <2>3. (index \div half) - 1 < 0 /\ ((index % half) + half) - half = s
    BY <1>1, <2>1, <2>2
  <2> QED
    BY <1>2, <1>3, <2>1, <2>3 DEF index
<1>5. CASE half <= s
  <2>1. \A x, y, z \in Int : x * y + z = y * (x + 1) + (z - y)
    BY Z3
  <2> HIDE DEF half, index
  <2>2. index = half * (b + 1) + (s - half) /\ half * (b + 1) \in Int
    BY <1>1, <2>1
  <2>3. index \div half = b + 1 /\ index % half = index - half * (b + 1)
    <3>1. half * (b + 1) <= index /\ index < half * (b + 1) + half /\ b + 1 \in Int /\ index \in Int
      BY <1>1, <1>5, <2>2
    <3> QED
      BY <1>1, <3>1, Quotient
  <2>4. ~((index \div half) - 1 < 0) /\ (index \div half) - 1 = b /\ (index % half) + half = s
    BY <1>1, <2>2, <2>3
  <2> QED
    BY <1>2, <1>3, <2>4 DEF index
<1> QED
  BY <1>1, <1>4, <1>5

\* The ranges next to that of a place are the places with the indexes next to its index.
LEMMA PlaceBefore ==
    ASSUME NEW c, IsConfig(c), NEW b \in Buckets(c), NEW s \in SubBuckets(c, b),
           Width(c, b) * s > 0
    PROVE  \E d, t : /\ Place(c, Width(c, b) * s - 1, d, t)
                     /\ IndexOf(c, d, t) = IndexOf(c, b, s) - 1
<1> DEFINE w == Width(c, b)
           half == c.sub_bucket_half_count
<1>1. /\ half \in Nat \ {0} /\ b \in Nat /\ s \in Nat /\ s < 2 * half
      /\ (b > 0 => half <= s) /\ w \in Nat \ {0} /\ w * s \in Nat /\ b * half \in Nat
  BY WidthFacts, PlaceRange DEF Buckets, SubBuckets
<1>2. CASE s > 0 /\ (b > 0 => half < s)
  <2>1. s - 1 \in SubBuckets(c, b)
    BY <1>1, <1>2 DEF SubBuckets
  <2>2. w * (s - 1) = w * s - w
    <3>1. \A x, y \in Int : x * (y - 1) = x * y - x
      BY Z3
    <3> HIDE DEF w
    <3> QED
      BY <1>1, <3>1
  <2>3. Place(c, w * s - 1, b, s - 1)
    <3>1. w * (s - 1) <= w * s - 1 /\ w * s - 1 < w * (s - 1) + w /\ w * s - 1 \in Int
      <4> HIDE DEF w
      <4> QED
        BY <1>1, <2>2
    <3> QED
      BY <2>1, <3>1, PlaceRange
  <2>4. IndexOf(c, b, s - 1) = IndexOf(c, b, s) - 1
    BY <1>1 DEF IndexOf
  <2> QED
    BY <2>3, <2>4
<1>3. CASE s = 0
  BY <1>1, <1>3
<1>4. CASE b > 0 /\ s = half
  <2> DEFINE t == 2 * half - 1
             w1 == Width(c, b - 1)
  <2>1. b - 1 \in Buckets(c) /\ t \in SubBuckets(c, b - 1) /\ b - 1 \in Nat
    BY <1>1, <1>4, WordFacts DEF SubBuckets, Buckets, IsConfig
  <2>2. w * half = w1 * (2 * half) /\ w1 \in Nat \ {0}
    <3>1. /\ c.unit_magnitude \in Nat /\ c.sub_bucket_half_count_magnitude \in Nat
      BY DEF IsConfig
    <3>2. b + c.unit_magnitude + c.sub_bucket_half_count_magnitude
            = (b - 1) + c.unit_magnitude + c.sub_bucket_half_count_magnitude + 1
      BY <1>1, <3>1
    <3> QED
      BY <2>1, <3>2, WidthFacts
  <2>3. w1 * t = w1 * (2 * half) - w1 /\ w1 * (2 * half) \in Int /\ w1 * t \in Int
    <3>1. \A x, y \in Int : x * (y - 1) = x * y - x /\ x * y \in Int /\ x * (y - 1) \in Int
      BY Z3
    <3>2. 2 * half \in Int /\ w1 \in Int
      BY <1>1, <2>2
    <3> HIDE DEF w1
    <3> QED
      BY <3>1, <3>2
  <2>4. Place(c, w * s - 1, b - 1, t)
    <3>1. w1 * t <= w * s - 1 /\ w * s - 1 < w1 * t + w1 /\ w * s - 1 \in Int
      <4> HIDE DEF w, w1, half, t
      <4> QED
        BY <1>1, <1>4, <2>2, <2>3
    <3> QED
      BY <2>1, <3>1, PlaceRange
  <2>5. IndexOf(c, b - 1, t) = IndexOf(c, b, s) - 1
    <3>1. \A x, y \in Int : (x - 1) * y + (2 * y - 1) = (x * y + y) - 1
      BY Z3
    <3> QED
      BY <1>1, <1>4, <3>1 DEF IndexOf
  <2> QED
    BY <2>4, <2>5
<1> QED
  BY <1>1, <1>2, <1>3, <1>4

LEMMA PlaceAfter ==
    ASSUME NEW c, IsConfig(c), NEW b \in Buckets(c), NEW s \in SubBuckets(c, b),
           Width(c, b) * s + Width(c, b) <= MaxWord
    PROVE  \E d, t : /\ Place(c, Width(c, b) * s + Width(c, b), d, t)
                     /\ IndexOf(c, d, t) = IndexOf(c, b, s) + 1
<1> DEFINE w == Width(c, b)
           half == c.sub_bucket_half_count
<1>1. /\ half \in Nat \ {0} /\ b \in Nat /\ s \in Nat /\ s < 2 * half
      /\ (b > 0 => half <= s) /\ w \in Nat \ {0} /\ w * s \in Nat /\ b * half \in Nat
  BY WidthFacts, PlaceRange DEF Buckets, SubBuckets
<1>2. w * (s + 1) = w * s + w
  <2>1. \A x, y \in Int : x * (y + 1) = x * y + x
    BY Z3
  <2> HIDE DEF w
  <2> QED
    BY <1>1, <2>1
<1>3. CASE s + 1 < 2 * half
  <2>1. s + 1 \in SubBuckets(c, b)
    BY <1>1, <1>3 DEF SubBuckets
  <2>2. Place(c, w * s + w, b, s + 1)
    <3>1. w * (s + 1) <= w * s + w /\ w * s + w < w * (s + 1) + w /\ w * s + w \in Int
      <4> HIDE DEF w
      <4> QED
        BY <1>1, <1>2
    <3> QED
      BY <2>1, <3>1, PlaceRange
  <2>3. IndexOf(c, b, s + 1) = IndexOf(c, b, s) + 1
    BY <1>1 DEF IndexOf
  <2> QED
    BY <2>2, <2>3
<1>4. CASE s + 1 = 2 * half
  <2> DEFINE w1 == Width(c, b + 1)
             u == c.unit_magnitude
             m == c.sub_bucket_half_count_magnitude
             top == b + u + m + 1
  <2>1. u \in Nat /\ m \in Nat /\ top \in Nat /\ top <= WordBits - 1
    BY <1>1 DEF IsConfig, Buckets
  <2>2. w * s + w = Pow2[top]
    <3>1. w * (s + 1) = Pow2[top]
      BY <1>4, WidthFacts
    <3> QED
      BY <1>2, <3>1
  <2>3. top # WordBits - 1
    <3>1. Pow2[WordBits - 1] = MaxWord + 1 /\ MaxWord \in Nat
      BY WordFacts
    <3> QED
      BY <2>2, <3>1
  <2>4. b + 1 \in Buckets(c) /\ half \in SubBuckets(c, b + 1)
    BY <1>1, <2>1, <2>3, WordFacts DEF SubBuckets, Buckets
  <2>5. w1 * half = w * s + w /\ w1 \in Nat \ {0}
    <3>1. (b + 1) + u + m = top
      BY <1>1, <2>1
    <3> QED
      BY <2>2, <2>4, <3>1, WidthFacts
  <2>6. Place(c, w * s + w, b + 1, half)
    <3>1. w1 * half <= w * s + w /\ w * s + w < w1 * half + w1 /\ w * s + w \in Int
      <4> HIDE DEF w, w1, half
      <4> QED
        BY <1>1, <2>5
    <3> QED
      BY <2>4, <3>1, PlaceRange
  <2>7. IndexOf(c, b + 1, half) = IndexOf(c, b, s) + 1
    <3>1. \A x, y, z \in Int : z + 1 = 2 * y => (x + 1) * y + y = (x * y + z) + 1
      BY Z3
    <3>2. IndexOf(c, b + 1, half) = (b + 1) * half + half /\ IndexOf(c, b, s) = b * half + s
      BY DEF IndexOf
    <3> HIDE DEF half
    <3>3. b \in Int /\ half \in Int /\ s \in Int /\ s + 1 = 2 * half
      BY <1>1, <1>4
    <3>4. (b + 1) * half + half = (b * half + s) + 1
      BY <3>1, <3>3
    <3> QED
      BY <3>2, <3>4
  <2> QED
    BY <2>6, <2>7
<1>5. s + 1 < 2 * half \/ s + 1 = 2 * half
  <2> HIDE DEF half
  <2> QED
    BY <1>1
<1> QED
  BY <1>3, <1>4, <1>5


-----------------------------------------------------------------------------
(***************************************************************************)
(* The configuration that hdr_calculate_bucket_config derives.             *)
(***************************************************************************)
WordRange == -(MaxWord + 1) .. MaxWord

LEMMA LeastIs ==
    ASSUME NEW S \in SUBSET Int, NEW x \in S, \A y \in S : x <= y
    PROVE  Min(S) = x
<1>1. \A z \in S : (\A y \in S : z <= y) => z = x
  OBVIOUS
<1>2. Min(S) = CHOOSE z \in S : \A y \in S : z <= y
  BY DEF Min
<1> HIDE DEF Min
<1> QED
  BY <1>1, <1>2

LEMMA Pow10Facts == \A f \in 1 .. 5 : Pow10[f] \in Nat /\ Pow10[f] >= 10
<1>1. Powers(10, 5, Pow10)
  BY PowersExist DEF Pow10, Powers
<1>2. /\ Pow10[0] = 1 /\ Pow10[1] = 10 * Pow10[0] /\ Pow10[2] = 10 * Pow10[1]
      /\ Pow10[3] = 10 * Pow10[2] /\ Pow10[4] = 10 * Pow10[3] /\ Pow10[5] = 10 * Pow10[4]
  BY <1>1 DEF Powers
<1>3. /\ Pow10[1] = 10 /\ Pow10[2] = 100 /\ Pow10[3] = 1000
      /\ Pow10[4] = 10000 /\ Pow10[5] = 100000
  BY <1>2
<1>4. \A f \in 1 .. 5 : f \in {1, 2, 3, 4, 5}
  OBVIOUS
<1> QED
  BY <1>3, <1>4

\* 2^k is more than k + 1, from k = 2 on.
LEMMA Pow2Above ==
    ASSUME NEW k \in Exponents, k >= 2
    PROVE  k + 1 < Pow2[k]
<1> DEFINE N == WordBits + LogBits
           Bad == {j \in 0 .. N : j >= 2 /\ ~(j + 1 < Pow2[j])}
<1>1. N \in Nat /\ \A i \in Nat : i \in Exponents <=> i <= N
  BY LayoutAssumption DEF Exponents
<1>2. ASSUME Bad # {} PROVE FALSE
  <2>1. PICK j \in Bad : \A i \in Bad : j <= i
    <3>1. Bad \in SUBSET (0 .. N)
      OBVIOUS
    <3> HIDE DEF Bad, N
    <3> QED
      BY <1>1, <1>2, <3>1, LeastNatural
  <2>2. j \in Nat /\ j \in Exponents /\ j >= 2 /\ ~(j + 1 < Pow2[j])
    BY <1>1
  <2>3. CASE j = 2
    <3>1. 1 \in Exponents /\ 2 \in Exponents /\ 0 + 1 = 1 /\ 1 + 1 = 2
      BY WordFacts
    <3>2. Pow2[2] = 4
      BY <3>1, Pow2Next
    <3> QED
      BY <2>2, <2>3, <3>2
  <2>4. CASE j > 2
    <3>1. j - 1 \in 0 .. N /\ j - 1 >= 2 /\ ~(j <= j - 1) /\ (j - 1) + 1 = j /\ j - 1 \in Nat
      BY <1>1, <2>2, <2>4
    <3>2. j < Pow2[j - 1]
      BY <2>1, <3>1
    <3>3. Pow2[j] = 2 * Pow2[j - 1] /\ Pow2[j - 1] \in Nat
      BY <2>2, <3>1, Pow2Next
    <3> QED
      BY <2>2, <3>2, <3>3
  <2> QED
    BY <2>2, <2>3, <2>4
<1>3. k \in 0 .. N
  BY DEF Exponents
<1> QED
  BY <1>2, <1>3

\* The significant figures fit the lower half of the sub-buckets.
LEMMA MagnitudeFacts ==
    ASSUME NEW f \in 1 .. 5, 2 * Pow10[f] <= MaxWord,
           NEW m, m = SubBucketHalfCountMagnitude(f)
    PROVE  m \in Nat /\ m <= WordBits - 2 /\ Pow10[f] <= Pow2[m] /\ Pow2[m] \in Nat
<1> DEFINE n == 2 * Pow10[f] - 1
<1>1. n \in Nat /\ n >= 19 /\ n <= MaxWord /\ Pow10[f] \in Nat
  BY Pow10Facts, WordFacts
<1>2. /\ n < Pow2[WordBits] /\ n < Pow2[WordBits - 1]
      /\ WordBits \in Nat /\ WordBits - 1 \in Nat /\ WordBits - 1 <= WordBits
  BY <1>1, WordFacts
<1>3. m + 1 = BitLength(n)
  <2>1. BitLength(n) \in Nat
    BY <1>1, <1>2, BitLengthFacts
  <2> QED
    BY <2>1 DEF SubBucketHalfCountMagnitude
<1> HIDE DEF n
<1>4. /\ m + 1 \in Nat /\ m + 1 <= WordBits - 1 /\ m \in Int /\ n < Pow2[m + 1]
      /\ 0 < BitLength(n)
  <2>1. BitLength(n) \in Nat /\ BitLength(n) <= WordBits - 1 /\ n < Pow2[BitLength(n)]
    BY <1>1, <1>2, BitLengthFacts
  <2>2. Pow2[0] <= n
    BY <1>1, Pow2Next
  <2>3. 0 < BitLength(n)
    BY <1>1, <1>2, <2>2, BitLengthFacts
  <2> QED
    BY <1>3, <2>1, <2>3 DEF SubBucketHalfCountMagnitude, n
<1>5. m \in Nat /\ m + 1 \in Exponents
  BY <1>3, <1>4, WordFacts
<1>6. Pow2[m + 1] = 2 * Pow2[m] /\ Pow2[m] \in Nat
  BY <1>5, Pow2Next
<1> QED
  BY <1>1, <1>2, <1>4, <1>5, <1>6 DEF n

\* The unit is the number of bits of the lowest value below its highest one, or one more
\* where log() rounds up; below what log() tells from a power of 2, the unit is not larger
\* than the lowest value.
LEMMA UnitFacts ==
    ASSUME NEW lowest \in Nat, lowest >= 1, lowest <= MaxWord,
           NEW u, u = UnitMagnitude(lowest)
    PROVE  /\ u \in Nat /\ u <= WordBits - 1
           /\ u < WordBits - 2 => 2 * lowest <= MaxWord
           /\ lowest + 1 < Pow2[LogBits] => Pow2[u] <= lowest
<1> DEFINE k == BitLength(lowest)
<1>1. /\ lowest < Pow2[WordBits] /\ lowest < Pow2[WordBits - 1]
      /\ WordBits \in Nat /\ WordBits - 1 \in Nat /\ WordBits - 1 <= WordBits
  BY WordFacts
<1>2. k \in Nat /\ k <= WordBits - 1 /\ lowest < Pow2[k] /\ (k > 0 => Pow2[k - 1] <= lowest)
  BY <1>1, BitLengthFacts
<1>3. 0 < k
  <2>1. Pow2[0] <= lowest
    BY Pow2Next
  <2> QED
    BY <1>1, <2>1, BitLengthFacts
<1>4. u = IF Pow2[k] - lowest <= Pow2[k] \div Pow2[LogBits] THEN k ELSE k - 1
  BY DEF UnitMagnitude
<1> HIDE DEF k
<1>5. u \in Nat /\ u <= WordBits - 1 /\ (u = k \/ u = k - 1)
  BY <1>1, <1>2, <1>3, <1>4
<1>6. ASSUME u < WordBits - 2 PROVE 2 * lowest <= MaxWord
  <2>1. k <= WordBits - 2 /\ WordBits - 2 \in Nat /\ (WordBits - 2) + 1 = WordBits - 1
    BY <1>1, <1>2, <1>5, <1>6, WordFacts
  <2>2. /\ WordBits - 2 \in Exponents /\ WordBits - 1 \in Exponents
    BY <1>1, <2>1, WordFacts
  <2>3. Pow2[WordBits - 1] = 2 * Pow2[WordBits - 2]
    BY <2>1, <2>2, Pow2Next
  <2>4. Pow2[k] <= Pow2[WordBits - 2] /\ Pow2[k] \in Nat /\ Pow2[WordBits - 2] \in Nat
    BY <1>2, <2>1, <2>2, Pow2Grows
  <2> QED
    BY <1>2, <2>3, <2>4, WordFacts
<1>7. ASSUME lowest + 1 < Pow2[LogBits] PROVE Pow2[u] <= lowest
  <2>1. LogBits \in Exponents /\ LogBits \in Nat /\ Pow2[LogBits] \in Nat \ {0}
    BY LayoutAssumption, Pow2Type DEF Exponents
  <2>2. k <= LogBits
    <3> SUFFICES ASSUME LogBits <= k - 1 PROVE FALSE
      BY <1>2, <2>1
    <3>1. k - 1 \in Exponents
      BY <1>1, <1>2, <1>3, LayoutAssumption DEF Exponents
    <3>2. Pow2[LogBits] <= Pow2[k - 1] /\ Pow2[k - 1] \in Nat
      BY <2>1, <3>1, Pow2Grows
    <3> QED
      BY <1>2, <1>3, <1>7, <2>1, <3>2
  <2>3. Pow2[k] <= Pow2[LogBits] /\ Pow2[k] \in Nat /\ (k < LogBits => Pow2[k] < Pow2[LogBits])
    BY <1>2, <2>1, <2>2, Pow2Grows, Pow2Less
  <2>4. \A x \in Nat, d \in Nat \ {0} : x < d => x \div d = 0
    BY Z3
  <2>5. \A d \in Nat \ {0} : d \div d = 1
    BY Z3
  <2>6. ~(Pow2[k] - lowest <= Pow2[k] \div Pow2[LogBits])
    <3>1. CASE k < LogBits
      <4>1. Pow2[k] \div Pow2[LogBits] = 0
        BY <2>1, <2>3, <2>4, <3>1
      <4> QED
        BY <1>2, <2>3, <4>1
    <3>2. CASE k = LogBits
      <4>1. Pow2[k] \div Pow2[LogBits] = 1
        BY <2>1, <2>5, <3>2
      <4> QED
        BY <1>7, <2>3, <3>2, <4>1
    <3> QED
      BY <1>2, <2>1, <2>2, <3>1, <3>2
  <2> QED
    BY <1>2, <1>3, <1>4, <2>6
<1> QED
  BY <1>5, <1>6, <1>7

\* The loop counts the buckets up to the one of the value.
LEMMA BucketsNeededIs ==
    ASSUME NEW c, IsConfig(c), NEW v \in 0 .. MaxWord, NEW b, NEW s, Place(c, v, b, s)
    PROVE  BucketsNeeded(v, c.sub_bucket_count, c.unit_magnitude) = b + 1
<1> DEFINE u == c.unit_magnitude
           m == c.sub_bucket_half_count_magnitude
           t == u + m + 1
           start == Pow2[t]
           large == MaxWord \div 2
           last == IF b + t <= WordBits - 2 THEN b ELSE b - 1
           Ends(k) == start * Pow2[k] > v \/ start * Pow2[k] > large
           S == {k \in 0 .. WordBits - 1 : Ends(k)}
<1>1. /\ u \in Nat /\ m \in Nat /\ t \in Nat /\ t <= WordBits - 2 /\ b \in Nat
      /\ b + t <= WordBits - 1 /\ v \in Nat /\ WordBits \in Nat /\ b \in Buckets(c)
      /\ b + u + m + 1 = b + t /\ s \in SubBuckets(c, b)
  BY WordFacts DEF IsConfig, Place, Buckets
<1> HIDE DEF u, m
<1>2. /\ \A k \in Nat : k <= WordBits => k \in Exponents /\ Pow2[k] \in Nat \ {0}
      /\ \A k \in Nat : t + k <= WordBits =>
            Pow2[t + k] = start * Pow2[k] /\ Pow2[t + k] \in Nat
  <2>1. \A k \in Nat : k <= WordBits => k \in Exponents /\ Pow2[k] \in Nat \ {0}
    BY WordFacts
  <2>2. ASSUME NEW k \in Nat, t + k <= WordBits
        PROVE  Pow2[t + k] = start * Pow2[k] /\ Pow2[t + k] \in Nat
    <3>1. t + k \in Exponents
      BY <1>1, <2>1, <2>2
    <3> QED
      BY <1>1, <3>1, Pow2Sum
  <2> QED
    BY <2>1, <2>2
<1>3. Wrap(c.sub_bucket_count * Pow2[u]) = start /\ start \in Nat \ {0}
  <2>1. c.sub_bucket_count * Pow2[u] = start
    <3>1. 0 \in Buckets(c) /\ 0 + u = u /\ 0 + u + m + 1 = t
      BY <1>1 DEF Buckets, u, m
    <3>2. start = Width(c, 0) * (2 * c.sub_bucket_half_count) /\ Width(c, 0) = Pow2[u]
          /\ Width(c, 0) \in Nat /\ c.sub_bucket_half_count \in Nat
      BY <3>1, WidthFacts DEF Width, u, m
    <3>3. \A x, y \in Nat : x * y = y * x
      BY Z3
    <3>4. c.sub_bucket_count = 2 * c.sub_bucket_half_count
      BY DEF IsConfig
    <3> HIDE DEF start
    <3> QED
      BY <3>2, <3>3, <3>4
  <2>2. start \in Nat \ {0} /\ start <= MaxWord
    <3>1. t < WordBits - 1 /\ WordBits - 1 \in Exponents
      BY <1>1, <1>2
    <3>2. start < Pow2[WordBits - 1] /\ start \in Nat \ {0}
      BY <1>1, <3>1, Pow2Less
    <3> QED
      BY <3>2, WordFacts
  <2> HIDE DEF start
  <2>3. Wrap(start) = start
    BY <2>2, WrapFacts, WordFacts
  <2> QED
    BY <2>1, <2>2, <2>3
<1>4. /\ large = Pow2[WordBits - 2] - 1 /\ Pow2[WordBits - 2] \in Nat
      /\ \A k \in Nat : k <= WordBits - 3 => Pow2[k] <= large
  <2>1. /\ WordBits - 2 \in Nat /\ (WordBits - 2) + 1 = WordBits - 1
        /\ WordBits - 2 \in Exponents /\ WordBits - 1 \in Exponents
    BY <1>2, WordFacts
  <2>2. Pow2[WordBits - 1] = 2 * Pow2[WordBits - 2] /\ Pow2[WordBits - 2] \in Nat
    BY <2>1, Pow2Next
  <2>3. \A x \in Nat : (2 * x - 1) \div 2 = x - 1
    BY Z3
  <2>4. MaxWord = 2 * Pow2[WordBits - 2] - 1
    BY <2>2, WordFacts
  <2>5. large = Pow2[WordBits - 2] - 1
    BY <2>2, <2>3, <2>4
  <2>6. ASSUME NEW k \in Nat, k <= WordBits - 3 PROVE Pow2[k] <= large
    <3>1. Pow2[k] < Pow2[WordBits - 2] /\ Pow2[k] \in Nat
      BY <2>1, <2>6, Pow2Less, WordFacts
    <3> HIDE DEF large
    <3> QED
      BY <2>2, <2>5, <3>1
  <2> QED
    BY <2>2, <2>5, <2>6
<1>5. v < Pow2[b + t] /\ (b > 0 => Pow2[b + t - 1] <= v)
  <2>1. /\ b + u + m = b + t - 1
        /\ Width(c, b) * s <= v /\ v < Width(c, b) * s + Width(c, b)
    BY <1>1 DEF Place
  <2>2. /\ Pow2[b + t] = Width(c, b) * (2 * c.sub_bucket_half_count)
        /\ Pow2[b + t - 1] = Width(c, b) * c.sub_bucket_half_count
        /\ Width(c, b) \in Nat /\ c.sub_bucket_half_count \in Nat
    BY <1>1, <2>1, WidthFacts DEF u, m
  <2>3. s \in Nat /\ s < 2 * c.sub_bucket_half_count /\ (b > 0 => c.sub_bucket_half_count <= s)
    BY <1>1 DEF SubBuckets
  <2>4. \A x, y, z \in Nat : /\ y < z => x * y + x <= x * z
                             /\ z <= y => x * z <= x * y
                             /\ x * y \in Nat /\ x * z \in Nat
    BY Z3
  <2>5. /\ Width(c, b) * s + Width(c, b) <= Width(c, b) * (2 * c.sub_bucket_half_count)
        /\ Width(c, b) * s \in Nat /\ Width(c, b) * (2 * c.sub_bucket_half_count) \in Nat
    BY <2>2, <2>3, <2>4
  <2>6. /\ b > 0 => Width(c, b) * c.sub_bucket_half_count <= Width(c, b) * s
        /\ Width(c, b) * c.sub_bucket_half_count \in Nat
    BY <2>2, <2>3, <2>4
  <2> QED
    BY <1>1, <2>1, <2>2, <2>5, <2>6
<1>6. last \in 0 .. WordBits - 1 /\ last \in Nat /\ (b + t > WordBits - 2 => b > 0)
  BY <1>1
<1>7. Ends(last) /\ (start * Pow2[last] > v <=> b + t <= WordBits - 2)
  <2>1. CASE b + t <= WordBits - 2
    <3>1. Pow2[t + b] = start * Pow2[b] /\ t + b = b + t
      BY <1>1, <1>2, <2>1
    <3> QED
      BY <1>5, <2>1, <3>1
  <2>2. CASE b + t > WordBits - 2
    <3>1. b - 1 \in Nat /\ t + (b - 1) = WordBits - 2 /\ b + t - 1 = WordBits - 2 /\ last = b - 1
      BY <1>1, <1>6, <2>2
    <3>2. Pow2[WordBits - 2] = start * Pow2[b - 1]
      BY <1>1, <1>2, <3>1
    <3>3. Pow2[WordBits - 2] > large
      <4> HIDE DEF large
      <4> QED
        BY <1>4
    <3>4. Pow2[WordBits - 2] <= v
      BY <1>5, <1>6, <2>2, <3>1
    <3> HIDE DEF start, large, last
    <3> QED
      BY <1>1, <1>4, <2>2, <3>1, <3>2, <3>3, <3>4
  <2> QED
    BY <1>1, <2>1, <2>2
<1>8. ASSUME NEW k \in S PROVE last <= k
  <2> SUFFICES ASSUME k < last PROVE FALSE
    BY <1>1, <1>6
  <2>1. k \in Nat /\ k < b /\ t + k <= WordBits - 3 /\ b > 0
    BY <1>1, <1>6
  <2>2. Pow2[t + k] = start * Pow2[k] /\ Pow2[t + k] \in Nat
    BY <1>1, <1>2, <2>1
  <2>3. Pow2[t + k] <= large
    BY <1>1, <1>4, <2>1
  <2>4. Pow2[t + k] <= v
    <3>1. t + k <= b + t - 1 /\ b + t - 1 \in Exponents /\ t + k \in Nat /\ b + t - 1 \in Nat
      BY <1>1, <1>2, <2>1
    <3>2. Pow2[t + k] <= Pow2[b + t - 1] /\ Pow2[b + t - 1] \in Nat
      BY <3>1, Pow2Grows
    <3>3. Pow2[b + t - 1] <= v
      BY <1>5, <2>1
    <3> QED
      BY <1>1, <2>2, <3>2, <3>3
  <2>5. large \in Int
    BY <1>4
  <2> HIDE DEF large, start
  <2> QED
    BY <1>1, <2>2, <2>3, <2>4, <2>5
<1>9. Min(S) = last
  <2>1. S \in SUBSET Int /\ last \in S
    BY <1>6, <1>7
  <2> HIDE DEF S, last
  <2> QED
    BY <1>8, <2>1, LeastIs
<1>10. BucketsNeeded(v, c.sub_bucket_count, u)
          = IF start <= 0 THEN Endless ELSE IF start * Pow2[Min(S)] > v THEN Min(S) + 1 ELSE Min(S) + 2
  BY <1>3 DEF BucketsNeeded
<1> HIDE DEF S, start
<1>11. BucketsNeeded(v, c.sub_bucket_count, u) = IF b + t <= WordBits - 2 THEN last + 1 ELSE last + 2
  BY <1>3, <1>7, <1>9, <1>10
<1> QED
  BY <1>1, <1>11 DEF u


\* What is not rejected is a configuration, of as many buckets as the highest value needs.
LEMMA BucketConfigFacts ==
    ASSUME NEW lowest \in WordRange, NEW highest \in WordRange, NEW f \in Int,
           f \in 1 .. 5 => 2 * Pow10[f] <= MaxWord,
           ~Rejected(lowest, highest, f),
           NEW c, c = BucketConfig(lowest, highest, f)
    PROVE  /\ IsConfig(c)
           /\ c.lowest_discernible_value = lowest /\ lowest \in 1 .. MaxWord
           /\ c.highest_trackable_value = highest /\ highest \in 2 .. MaxWord
           /\ c.significant_figures = f /\ f \in 1 .. 5
           /\ Pow10[f] <= c.sub_bucket_half_count
           /\ lowest + 1 < Pow2[LogBits] => Pow2[c.unit_magnitude] <= lowest
           /\ \A b, s : Place(c, highest, b, s) => c.bucket_count = b + 1
           /\ c.counts_len = (c.bucket_count + 1) * c.sub_bucket_half_count
<1> DEFINE m == SubBucketHalfCountMagnitude(f)
           u == UnitMagnitude(lowest)
           count == Pow2[m + 1]
           buckets == BucketsNeeded(highest, count, u)
<1>1. /\ lowest >= 1 /\ f \in 1 .. 5 /\ ~(Wrap(lowest * 2) > highest) /\ u + m <= WordBits - 3
      /\ MaxWord \in Nat /\ WordBits \in Nat /\ WordBits >= 8
  <2>1. /\ ~(lowest < 1) /\ f \in 1 .. 5 /\ ~(Wrap(lowest * 2) > highest)
        /\ ~(u + m > WordBits - 3)
    BY DEF Rejected
  <2>2. lowest \in Int /\ MaxWord \in Nat
    BY WordFacts DEF WordRange
  <2>3. m \in Nat /\ u \in Nat
    <3>1. lowest \in Nat /\ lowest >= 1 /\ lowest <= MaxWord
      BY <2>1, <2>2 DEF WordRange
    <3> QED
      BY <2>1, <3>1, MagnitudeFacts, UnitFacts
  <2> HIDE DEF m, u
  <2> QED
    BY <2>1, <2>2, <2>3, WordFacts
<1>2. lowest \in Nat /\ lowest <= MaxWord /\ lowest \in 1 .. MaxWord
  BY <1>1 DEF WordRange
<1>3. m \in Nat /\ Pow10[f] <= Pow2[m] /\ Pow2[m] \in Nat
  BY <1>1, MagnitudeFacts
<1>4. /\ u \in Nat /\ u <= WordBits - 3
      /\ u < WordBits - 2 => 2 * lowest <= MaxWord
      /\ lowest + 1 < Pow2[LogBits] => Pow2[u] <= lowest
  <2>1. u \in Nat /\ (u < WordBits - 2 => 2 * lowest <= MaxWord)
        /\ (lowest + 1 < Pow2[LogBits] => Pow2[u] <= lowest)
    BY <1>1, <1>2, UnitFacts
  <2> HIDE DEF u, m
  <2> QED
    BY <1>1, <1>3, <2>1
<1>5. highest \in 2 .. MaxWord
  <2>1. Wrap(lowest * 2) = lowest * 2
    <3>1. lowest * 2 \in Int /\ -(MaxWord + 1) <= lowest * 2 /\ lowest * 2 <= MaxWord
      <4> HIDE DEF u
      <4> QED
        BY <1>1, <1>2, <1>4
    <3> QED
      BY <3>1, WrapFacts
  <2> QED
    BY <1>1, <1>2, <2>1 DEF WordRange
<1>6. /\ c.lowest_discernible_value = lowest /\ c.highest_trackable_value = highest
      /\ c.significant_figures = f /\ c.unit_magnitude = u
      /\ c.sub_bucket_half_count_magnitude = m /\ c.sub_bucket_count = count
      /\ c.sub_bucket_half_count = count \div 2
      /\ c.sub_bucket_mask = Wrap((count - 1) * Pow2[u])
      /\ c.bucket_count = buckets /\ c.counts_len = (buckets + 1) * (count \div 2)
  <2> HIDE DEF m, u
  <2>1. c = [lowest_discernible_value |-> lowest,
             highest_trackable_value |-> highest,
             significant_figures |-> f,
             unit_magnitude |-> u,
             sub_bucket_half_count_magnitude |-> m,
             sub_bucket_count |-> count,
             sub_bucket_half_count |-> count \div 2,
             sub_bucket_mask |-> Wrap((count - 1) * Pow2[u]),
             bucket_count |-> buckets,
             counts_len |-> (buckets + 1) * (count \div 2)]
    BY DEF BucketConfig, m, u
  <2> HIDE DEF count, buckets
  <2> QED
    BY <2>1
<1> HIDE DEF m, u, buckets
<1>7. count = 2 * Pow2[m] /\ count \div 2 = Pow2[m]
  <2>1. m + 1 \in Exponents
    BY <1>1, <1>3, <1>4, WordFacts
  <2>2. count = 2 * Pow2[m]
    BY <1>3, <2>1, Pow2Next
  <2>3. \A x \in Nat : (2 * x) \div 2 = x
    BY Z3
  <2> QED
    BY <1>3, <2>2, <2>3
<1>8. Wrap((count - 1) * Pow2[u]) = Pow2[u + m + 1] - Pow2[u]
  <2> DEFINE t == u + m + 1
             p == Pow2[u]
             q == Pow2[t]
  <2>1. /\ t \in Nat /\ (m + 1) + u = t /\ t \in Exponents /\ u \in Exponents
        /\ m + 1 \in Nat /\ u <= t /\ t <= WordBits - 1 /\ WordBits - 1 \in Exponents
    BY <1>1, <1>3, <1>4, WordFacts
  <2>2. q = count * p /\ count \in Nat /\ p \in Nat /\ q \in Nat
    BY <1>4, <2>1, Pow2Sum
  <2>3. p <= q /\ q <= MaxWord + 1 /\ p > 0
    <3>1. p <= q /\ p \in Nat \ {0}
      BY <1>4, <2>1, Pow2Grows
    <3>2. q <= Pow2[WordBits - 1]
      BY <2>1, Pow2Grows
    <3> QED
      BY <3>1, <3>2, WordFacts
  <2>4. \A x, y \in Int : (x - 1) * y = x * y - y
    BY Z3
  <2> HIDE DEF count, p, q, t
  <2>5. (count - 1) * p = q - p
    BY <2>2, <2>4
  <2>6. q - p \in Int /\ -(MaxWord + 1) <= q - p /\ q - p <= MaxWord
    BY <1>1, <2>2, <2>3
  <2>7. Wrap(q - p) = q - p
    BY <2>6, WrapFacts
  <2> QED
    BY <2>5, <2>7 DEF p, q, t
<1>9. IsConfig(c)
  BY <1>1, <1>3, <1>4, <1>6, <1>7, <1>8 DEF IsConfig
<1> HIDE DEF count
<1>10. ASSUME NEW b, NEW s, Place(c, highest, b, s) PROVE c.bucket_count = b + 1
  <2>1. highest \in 0 .. MaxWord
    BY <1>5
  <2>2. BucketsNeeded(highest, c.sub_bucket_count, c.unit_magnitude) = b + 1
    BY <1>9, <1>10, <2>1, BucketsNeededIs
  <2> QED
    BY <1>6, <2>2 DEF buckets
<1> QED
  BY <1>1, <1>2, <1>3, <1>4, <1>5, <1>6, <1>7, <1>9, <1>10


\* A larger value is not in a lower bucket.
LEMMA BucketsInOrder ==
    ASSUME NEW c, IsConfig(c), NEW v \in 0 .. MaxWord, NEW x \in 0 .. MaxWord, v <= x,
           NEW b, NEW s, Place(c, v, b, s), NEW d, NEW t, Place(c, x, d, t)
    PROVE  b <= d
<1> DEFINE u == c.unit_magnitude
           m == c.sub_bucket_half_count_magnitude
           half == c.sub_bucket_half_count
<1>1. /\ b \in Buckets(c) /\ s \in SubBuckets(c, b) /\ Width(c, b) * s <= v
      /\ d \in Buckets(c) /\ t \in SubBuckets(c, d) /\ x < Width(c, d) * t + Width(c, d)
  BY DEF Place
<1>2. /\ b \in Nat /\ d \in Nat /\ s \in Nat /\ t \in Nat /\ u \in Nat /\ m \in Nat
      /\ b > 0 => half <= s
      /\ t < 2 * half /\ v \in Nat /\ x \in Nat
      /\ b + u + m + 1 <= WordBits - 1
  BY <1>1, WordFacts DEF Buckets, SubBuckets, IsConfig
<1>3. SUFFICES ASSUME b > d PROVE FALSE
  BY <1>2
<1>4. /\ Width(c, b) \in Nat /\ Width(c, d) \in Nat /\ half \in Nat
      /\ Pow2[b + u + m] = Width(c, b) * half
      /\ Pow2[d + u + m + 1] = Width(c, d) * (2 * half)
  BY <1>1, WidthFacts
<1>5. \A i, j, k \in Nat : /\ j <= k => i * j <= i * k
                           /\ j < k => i * j + i <= i * k
                           /\ i * j \in Nat /\ i * k \in Nat
  BY Z3
<1>6. Width(c, b) * half <= Width(c, b) * s /\ Width(c, b) * half \in Nat
      /\ Width(c, b) * s \in Nat
  <2> HIDE DEF half
  <2> QED
    BY <1>2, <1>3, <1>4, <1>5
<1>7. /\ Width(c, d) * t + Width(c, d) <= Width(c, d) * (2 * half)
      /\ Width(c, d) * t \in Nat /\ Width(c, d) * (2 * half) \in Nat
  <2> HIDE DEF half
  <2>1. 2 * half \in Nat
    BY <1>4
  <2> QED
    BY <1>2, <1>4, <1>5, <2>1
<1>8. Pow2[d + u + m + 1] <= Pow2[b + u + m]
  <2>1. d + u + m + 1 \in Nat /\ b + u + m \in Exponents /\ d + u + m + 1 <= b + u + m
    BY <1>2, <1>3, WordFacts
  <2> QED
    BY <2>1, Pow2Grows
<1> HIDE DEF half
<1> QED
  BY <1>1, <1>2, <1>4, <1>6, <1>7, <1>8

\* The array is long enough for a value, and no longer than a word counts.
LEMMA ArrayLength ==
    ASSUME NEW c, IsConfig(c), NEW b \in Buckets(c)
    PROVE  /\ \A d \in 0 .. b : \A s \in SubBuckets(c, d) :
                 IndexOf(c, d, s) \in 0 .. (b + 2) * c.sub_bucket_half_count - 1
           /\ \A s \in SubBuckets(c, b) :
                 b > 0 => (b + 1) * c.sub_bucket_half_count <= IndexOf(c, b, s)
           /\ (b + 2) * c.sub_bucket_half_count \in 1 .. MaxWord
<1> DEFINE u == c.unit_magnitude
           m == c.sub_bucket_half_count_magnitude
           half == c.sub_bucket_half_count
<1>1. /\ b \in Nat /\ u \in Nat /\ m \in Nat /\ b + u + m + 1 <= WordBits - 1
      /\ u + m <= WordBits - 3 /\ half \in Nat \ {0} /\ half = Pow2[m] /\ WordBits \in Nat
  BY WidthFacts, WordFacts DEF Buckets, IsConfig
<1>2. ASSUME NEW d \in 0 .. b, NEW s \in SubBuckets(c, d)
      PROVE  IndexOf(c, d, s) \in 0 .. (b + 2) * half - 1
  <2>1. d \in Nat /\ s \in Nat /\ s < 2 * half /\ d <= b
    BY <1>1 DEF SubBuckets
  <2>2. IndexOf(c, d, s) = d * half + s
    BY DEF IndexOf
  <2>3. \A i, j, k \in Nat : i <= j => i * k <= j * k /\ i * k \in Nat /\ j * k \in Nat
                                       /\ (j + 2) * k = j * k + 2 * k
    BY Z3
  <2> HIDE DEF half
  <2>4. d * half <= b * half /\ d * half \in Nat /\ b * half \in Nat
        /\ (b + 2) * half = b * half + 2 * half
    BY <1>1, <2>1, <2>3
  <2> QED
    BY <1>1, <2>1, <2>2, <2>4
<1>3. ASSUME NEW s \in SubBuckets(c, b), b > 0 PROVE (b + 1) * half <= IndexOf(c, b, s)
  <2>1. s \in Nat /\ half <= s
    BY <1>3 DEF SubBuckets
  <2>2. IndexOf(c, b, s) = b * half + s
    BY DEF IndexOf
  <2>3. \A i, k \in Nat : (i + 1) * k = i * k + k /\ i * k \in Nat
    BY Z3
  <2> HIDE DEF half
  <2>4. (b + 1) * half = b * half + half /\ b * half \in Nat
    BY <1>1, <2>3
  <2> QED
    BY <1>1, <2>1, <2>2, <2>4
<1>4. (b + 2) * half \in 1 .. MaxWord
  <2> DEFINE k == WordBits - 1 - m
             p == Pow2[k]
  <2>1. /\ k \in Nat /\ k >= 2 /\ k + m = WordBits - 1 /\ k \in Exponents
        /\ b + 2 <= k + 1 /\ m + k = WordBits - 1 /\ WordBits - 1 \in Exponents
    BY <1>1, WordFacts
  <2>2. k + 1 < p /\ p \in Nat
    BY <2>1, Pow2Above, Pow2Type
  <2>3. MaxWord + 1 = half * p /\ MaxWord \in Nat
    BY <1>1, <2>1, Pow2Sum, WordFacts
  <2>4. \A i, j, h \in Nat : i < j /\ h > 0 /\ i > 0 =>
           i * h <= h * j - 1 /\ i * h \in Nat /\ i * h > 0
    BY Z3
  <2> HIDE DEF k, p, half
  <2>5. (b + 2) * half <= half * p - 1 /\ (b + 2) * half \in Nat /\ (b + 2) * half > 0
    <3>1. b + 2 \in Nat /\ b + 2 < p /\ b + 2 > 0 /\ half \in Nat /\ half > 0
      BY <1>1, <2>1, <2>2
    <3> QED
      BY <2>2, <2>4, <3>1
  <2> QED
    BY <2>3, <2>5
<1> QED
  BY <1>2, <1>3, <1>4

-----------------------------------------------------------------------------
(***************************************************************************)
(* Indexes, without their places: what a histogram needs of the layout.    *)
(***************************************************************************)

\* A configuration with an array that ends where the highest value needs it.
IsLayout(c) ==
    /\ IsConfig(c)
    /\ c.highest_trackable_value \in 0 .. MaxWord
    /\ \A b, s : Place(c, c.highest_trackable_value, b, s) => c.bucket_count = b + 1
    /\ c.counts_len = (c.bucket_count + 1) * c.sub_bucket_half_count

\* Greater values have no lower index.
LEMMA IndexGrows ==
    ASSUME NEW c, IsConfig(c), NEW v \in 0 .. MaxWord, NEW x \in 0 .. MaxWord, v <= x
    PROVE  /\ CountsIndexFor(c, v) \in Nat /\ CountsIndexFor(c, x) \in Nat
           /\ CountsIndexFor(c, v) <= CountsIndexFor(c, x)
<1> DEFINE half == c.sub_bucket_half_count
<1>1. PICK b, s : Place(c, v, b, s)
  BY PlaceExists
<1>2. PICK d, t : Place(c, x, d, t)
  BY PlaceExists
<1>3. /\ CountsIndexFor(c, v) = b * half + s /\ CountsIndexFor(c, x) = d * half + t
  BY <1>1, <1>2, PlaceIs DEF IndexOf
<1>4. /\ b \in Buckets(c) /\ d \in Buckets(c) /\ b \in Nat /\ d \in Nat /\ s \in Nat /\ t \in Nat
      /\ s < 2 * half /\ (d > 0 => half <= t) /\ half \in Nat \ {0} /\ b <= d
      /\ Width(c, b) * s <= v /\ x < Width(c, d) * t + Width(c, d)
      /\ Width(c, b) \in Nat \ {0} /\ v \in Nat /\ x \in Nat
  <2>1. /\ b \in Buckets(c) /\ d \in Buckets(c) /\ s \in SubBuckets(c, b) /\ t \in SubBuckets(c, d)
        /\ Width(c, b) * s <= v /\ x < Width(c, d) * t + Width(c, d)
    BY <1>1, <1>2 DEF Place
  <2>2. b <= d
    BY <1>1, <1>2, BucketsInOrder
  <2>3. half \in Nat \ {0} /\ Width(c, b) \in Nat \ {0}
    BY <2>1, WidthFacts
  <2> QED
    BY <2>1, <2>2, <2>3, WordFacts DEF Buckets, SubBuckets
<1> HIDE DEF half
<1>5. b * half \in Nat /\ d * half \in Nat
  BY <1>4
<1>6. CASE b = d
  <2>1. \A w, i, j \in Nat : w > 0 /\ w * i < w * j + w => i <= j
    BY Z3
  <2>2. Width(c, b) * s < Width(c, b) * t + Width(c, b)
    <3>1. Width(c, b) * s \in Nat /\ Width(c, b) * t + Width(c, b) \in Nat
      BY <1>4
    <3> QED
      BY <1>4, <1>6, <3>1
  <2>3. s <= t
    BY <1>4, <2>1, <2>2
  <2> QED
    BY <1>3, <1>4, <1>5, <1>6, <2>3
<1>7. CASE b < d
  <2>1. \A i, j, h \in Nat : i < j => i * h + h <= j * h
    BY Z3
  <2>2. b * half + half <= d * half
    BY <1>4, <1>7, <2>1
  <2> QED
    BY <1>3, <1>4, <1>5, <1>7, <2>2
<1> QED
  BY <1>4, <1>6, <1>7

\* The values that share the index of a value.
LEMMA RangeOfValue ==
    ASSUME NEW c, IsConfig(c), NEW v \in 0 .. MaxWord,
           NEW low, low = LowestEquivalentValue(c, v),
           NEW high, high = HighestEquivalentValue(c, v)
    PROVE  /\ low \in 0 .. MaxWord /\ high \in 0 .. MaxWord /\ low <= v /\ v <= high
           /\ CountsIndexFor(c, low) = CountsIndexFor(c, v)
           /\ CountsIndexFor(c, high) = CountsIndexFor(c, v)
           /\ ValueAtIndex(c, CountsIndexFor(c, v)) = low
<1>1. PICK b, s : Place(c, v, b, s)
  BY PlaceExists
<1> DEFINE w == Width(c, b)
<1>2. b \in Buckets(c) /\ s \in SubBuckets(c, b) /\ w * s <= v /\ v < w * s + w
  BY <1>1 DEF Place
<1>3. /\ low = w * s /\ high = w * s + w - 1
      /\ CountsIndexFor(c, v) = IndexOf(c, b, s)
      /\ ValueAtIndex(c, IndexOf(c, b, s)) = w * s
  BY <1>1, <1>2, EquivalentRange, PlaceIs, ValueAtIndexIs
<1>4. /\ w \in Nat \ {0} /\ w * s \in Nat /\ w * s + w <= MaxWord + 1 /\ MaxWord \in Nat
      /\ \A x \in Int : w * s <= x /\ x < w * s + w => x \in 0 .. MaxWord /\ Place(c, x, b, s)
  BY <1>2, PlaceRange, WordFacts
<1> DEFINE p == w * s
<1>5. /\ low = p /\ high = p + w - 1 /\ p \in Nat /\ w \in Nat \ {0} /\ p <= v /\ v < p + w
      /\ \A x \in Int : p <= x /\ x < p + w => x \in 0 .. MaxWord /\ Place(c, x, b, s)
  BY <1>2, <1>3, <1>4
<1> HIDE DEF p, w
<1>6. low \in Int /\ high \in Int /\ high < p + w /\ p <= high /\ low < p + w
      /\ low <= v /\ v <= high
  BY <1>5
<1>7. low \in 0 .. MaxWord /\ Place(c, low, b, s) /\ high \in 0 .. MaxWord /\ Place(c, high, b, s)
  BY <1>5, <1>6
<1> QED
  BY <1>3, <1>6, <1>7, PlaceIs DEF p

\* Tracked values have their index in the array, and no index above that of the highest one.
LEMMA IndexOfTracked ==
    ASSUME NEW c, IsLayout(c), NEW v \in 0 .. c.highest_trackable_value
    PROVE  /\ c.counts_len \in 1 .. MaxWord
           /\ CountsIndexFor(c, v) \in 0 .. c.counts_len - 1
           /\ CountsIndexFor(c, v) <= CountsIndexFor(c, c.highest_trackable_value)
<1> DEFINE highest == c.highest_trackable_value
           half == c.sub_bucket_half_count
<1>1. /\ IsConfig(c) /\ highest \in 0 .. MaxWord /\ v \in 0 .. MaxWord /\ v <= highest
      /\ c.counts_len = (c.bucket_count + 1) * half
  BY WordFacts DEF IsLayout
<1>2. PICK b, s : Place(c, highest, b, s)
  BY <1>1, PlaceExists
<1>3. /\ b \in Buckets(c) /\ b \in Nat /\ s \in SubBuckets(c, b) /\ c.bucket_count + 1 = b + 2
      /\ CountsIndexFor(c, highest) = IndexOf(c, b, s)
  <2>1. b \in Buckets(c) /\ s \in SubBuckets(c, b) /\ c.bucket_count = b + 1
    BY <1>2 DEF IsLayout, Place
  <2> QED
    BY <1>1, <1>2, <2>1, PlaceIs DEF Buckets
<1>4. c.counts_len \in 1 .. MaxWord /\ CountsIndexFor(c, highest) \in 0 .. c.counts_len - 1
  <2>1. b \in 0 .. b
    BY <1>3
  <2> QED
    BY <1>1, <1>3, <2>1, ArrayLength
<1>5. CountsIndexFor(c, v) \in Nat /\ CountsIndexFor(c, v) <= CountsIndexFor(c, highest)
  BY <1>1, IndexGrows
<1> HIDE DEF highest
<1>6. c.counts_len \in Nat
  BY <1>4
<1> QED
  BY <1>4, <1>5, <1>6 DEF highest

\* Every index of the array is that of some values, the lowest of which is where it is.
LEMMA ValueOfIndex ==
    ASSUME NEW c, IsLayout(c), NEW i \in 0 .. c.counts_len - 1
    PROVE  /\ ValueAtIndex(c, i) \in 0 .. MaxWord
           /\ CountsIndexFor(c, ValueAtIndex(c, i)) = i
           /\ i > 0 => ValueAtIndex(c, i) > 0
<1> DEFINE highest == c.highest_trackable_value
           half == c.sub_bucket_half_count
<1>1. IsConfig(c) /\ highest \in 0 .. MaxWord /\ c.counts_len = (c.bucket_count + 1) * half
  BY DEF IsLayout
<1>2. PICK d, t : Place(c, highest, d, t)
  BY <1>1, PlaceExists
<1>3. d \in Buckets(c) /\ d \in Nat /\ c.counts_len = (d + 2) * half /\ half \in Nat \ {0}
  <2>1. d \in Buckets(c) /\ c.bucket_count = d + 1 /\ d \in Nat
    BY <1>2 DEF IsLayout, Place, Buckets
  <2>2. c.bucket_count + 1 = d + 2
    BY <2>1
  <2> QED
    BY <1>1, <2>1, <2>2, WidthFacts
<1>4. i \in Nat /\ i < (d + 2) * half
  <2>1. (d + 2) * half \in Nat
    BY <1>3
  <2> QED
    BY <1>3, <2>1
<1>5. PICK b, s : b \in Buckets(c) /\ s \in SubBuckets(c, b) /\ i = IndexOf(c, b, s)
  <2>1. CASE i < 2 * half
    <3>1. 0 \in Buckets(c)
      BY <1>3, WordFacts, <1>1 DEF Buckets, IsConfig
    <3>2. i \in SubBuckets(c, 0)
      BY <1>4, <2>1 DEF SubBuckets
    <3>3. IndexOf(c, 0, i) = i
      BY <1>3, <1>4 DEF IndexOf
    <3> QED
      BY <3>1, <3>2, <3>3
  <2>2. CASE i >= 2 * half
    <3>1. \A x \in Nat, h \in Nat \ {0} :
             x = h * (x \div h) + (x % h) /\ x % h \in Nat /\ x % h < h /\ x \div h \in Nat
      BY Z3
    <3> DEFINE q == i \div half
               r == i % half
    <3> HIDE DEF half
    <3>2. i = half * q + r /\ q \in Nat /\ r \in Nat /\ r < half
      BY <1>3, <1>4, <3>1
    <3> HIDE DEF q, r
    <3>3. q >= 2 /\ q <= d + 1
      <4>1. \A h, x, y, z \in Nat : z < h /\ h * x + z >= 2 * h => x >= 2
        BY Z3
      <4>2. \A h, x, y, z \in Nat : h * x + z < y * h => x < y
        BY Z3
      <4>3. d + 2 \in Nat /\ q < d + 2
        BY <1>3, <1>4, <3>2, <4>2
      <4> QED
        BY <1>3, <2>2, <3>2, <4>1, <4>3
    <3>4. q - 1 \in Nat /\ q - 1 <= d /\ q - 1 > 0
      BY <1>3, <3>2, <3>3
    <3>5. q - 1 \in Buckets(c)
      BY <1>1, <1>3, <3>4, WordFacts DEF Buckets, IsConfig
    <3>6. r + half \in SubBuckets(c, q - 1)
      BY <1>3, <3>2 DEF SubBuckets, half
    <3>7. IndexOf(c, q - 1, r + half) = i
      <4>1. \A h, x, z \in Int : (x - 1) * h + (z + h) = h * x + z
        BY Z3
      <4> QED
        BY <1>3, <3>2, <4>1 DEF IndexOf, half
    <3> QED
      BY <3>5, <3>6, <3>7
  <2> QED
    BY <1>3, <1>4, <2>1, <2>2
<1> DEFINE w == Width(c, b)
           p == w * s
<1>6. /\ p \in Nat /\ w \in Nat \ {0} /\ p \in 0 .. MaxWord /\ Place(c, p, b, s)
      /\ ValueAtIndex(c, i) = p
  <2>1. /\ w \in Nat \ {0} /\ p \in Nat /\ ValueAtIndex(c, i) = p
        /\ \A v \in Int : p <= v /\ v < p + w => v \in 0 .. MaxWord /\ Place(c, v, b, s)
    BY <1>1, <1>5, PlaceRange, ValueAtIndexIs
  <2> HIDE DEF p, w
  <2> QED
    BY <2>1
<1>7. CountsIndexFor(c, p) = i
  BY <1>1, <1>5, <1>6, PlaceIs
<1>8. i > 0 => p > 0
  <2> SUFFICES ASSUME p = 0 PROVE i = 0
    BY <1>4, <1>6
  <2>1. s = 0
    <3>1. s \in Nat /\ w * s = 0
      BY <1>5 DEF SubBuckets
    <3>2. \A x \in Nat \ {0}, y \in Nat : x * y = 0 => y = 0
      BY Z3
    <3> HIDE DEF w
    <3> QED
      BY <1>6, <3>1, <3>2
  <2>2. b = 0
    <3>1. b \in Nat /\ (b > 0 => half <= s)
      BY <1>5 DEF SubBuckets, Buckets
    <3> QED
      BY <1>3, <2>1, <3>1
  <2> QED
    BY <1>3, <1>5, <2>1, <2>2 DEF IndexOf
<1> QED
  BY <1>6, <1>7, <1>8

-----------------------------------------------------------------------------
(***************************************************************************)
(* One histogram: c is its configuration, s are its other fields.          *)
(***************************************************************************)
\* The extremes have the first and the last index in use; but 0 is never the minimum.
ExtremesFit(c, s) ==
    LET used == DOMAIN s.counts
        first == CountsIndexFor(c, s.min_value)
        last == CountsIndexFor(c, s.max_value)
    IN  /\ s.min_value \in 1 .. MaxWord /\ s.max_value \in 0 .. MaxWord
        /\ s.normalizing_index_offset = 0 =>
              /\ used = {} => s.min_value = MaxWord /\ s.max_value = 0
              /\ used # {} => last \in used /\ \A i \in used : i <= last
              /\ used # {} /\ 0 \notin used => first \in used /\ \A i \in used : first <= i

Sound(c, s) == CountsFit(c, s) /\ ExtremesFit(c, s)

LEMMA SmallerIs ==
    ASSUME NEW a \in Int, NEW b \in Int
    PROVE  Min({a, b}) = IF a <= b THEN a ELSE b
<1> DEFINE x == IF a <= b THEN a ELSE b
<1>1. x \in {a, b} /\ \A y \in {a, b} : x <= y
  OBVIOUS
<1>2. {a, b} \in SUBSET Int
  OBVIOUS
<1> HIDE DEF x
<1>3. Min({a, b}) = x
  BY <1>1, <1>2, LeastIs
<1> QED
  BY <1>3 DEF x

LEMMA GreatestIs ==
    ASSUME NEW S \in SUBSET Int, NEW x \in S, \A y \in S : y <= x
    PROVE  Max(S) = x
<1>1. \A z \in S : (\A y \in S : z >= y) => z = x
  OBVIOUS
<1>2. Max(S) = CHOOSE z \in S : \A y \in S : z >= y
  BY DEF Max
<1>3. \E z \in S : \A y \in S : z >= y
  OBVIOUS
<1> QED
  BY <1>1, <1>2, <1>3

\* 0 is counted at the first index.
LEMMA ZeroIsFirst ==
    ASSUME NEW c, IsLayout(c)
    PROVE  CountsIndexFor(c, 0) = 0
<1>1. 0 \in 0 .. MaxWord /\ IsConfig(c)
  BY WordFacts DEF IsLayout
<1>2. PICK b, t : Place(c, 0, b, t)
  BY <1>1, PlaceExists
<1>3. b = 0 /\ t = 0
  <2>1. b \in Buckets(c) /\ t \in SubBuckets(c, b) /\ Width(c, b) * t <= 0
    BY <1>2 DEF Place
  <2>2. Width(c, b) \in Nat \ {0} /\ c.sub_bucket_half_count \in Nat \ {0}
    BY <1>1, <2>1, WidthFacts
  <2>3. \A x \in Nat \ {0}, y \in Nat : x * y <= 0 => y = 0
    BY Z3
  <2>4. b \in Nat /\ t \in Nat /\ (b > 0 => c.sub_bucket_half_count <= t)
    BY <2>1 DEF Buckets, SubBuckets
  <2>5. t = 0
    BY <2>1, <2>2, <2>3, <2>4
  <2> QED
    BY <2>2, <2>4, <2>5
<1>4. CountsIndexFor(c, 0) = IndexOf(c, 0, 0)
  BY <1>1, <1>2, <1>3, PlaceIs
<1>5. 0 \in Buckets(c) /\ c.sub_bucket_half_count \in Nat
  BY <1>1, <1>2, <1>3, WidthFacts DEF Place
<1> QED
  BY <1>4, <1>5 DEF IndexOf

\* The offset rotates the indexes.
LEMMA NormalizeFacts ==
    ASSUME NEW c, c.counts_len \in Nat, NEW s,
           s.normalizing_index_offset \in -c.counts_len .. c.counts_len,
           NEW i \in 0 .. c.counts_len - 1
    PROVE  /\ NormalizeIndex(c, s, i) \in 0 .. c.counts_len - 1
           /\ s.normalizing_index_offset = 0 => NormalizeIndex(c, s, i) = i
           /\ \A j \in 0 .. c.counts_len - 1 :
                 NormalizeIndex(c, s, i) = NormalizeIndex(c, s, j) => i = j
BY DEF NormalizeIndex

\* The indexes in use are indexes of the array, finitely many.
LEMMA UsedFacts ==
    ASSUME NEW c, IsLayout(c), NEW s, CountsFit(c, s)
    PROVE  /\ LastIndex(c) \in 0 .. c.counts_len - 1 /\ c.counts_len \in Nat
           /\ DOMAIN s.counts \subseteq 0 .. c.counts_len - 1
           /\ IsFiniteSet(DOMAIN s.counts)
           /\ s.total_count \in Nat
<1>1. c.highest_trackable_value \in 0 .. c.highest_trackable_value
  BY WordFacts DEF IsLayout
<1>2. LastIndex(c) \in 0 .. c.counts_len - 1 /\ c.counts_len \in Nat
  BY <1>1, IndexOfTracked DEF LastIndex
<1>3. DOMAIN s.counts \subseteq 0 .. c.counts_len - 1
  <2> SUFFICES ASSUME NEW i \in DOMAIN s.counts PROVE i \in 0 .. c.counts_len - 1
    OBVIOUS
  <2>1. PICK j \in 0 .. LastIndex(c) : i = NormalizeIndex(c, s, j)
    BY DEF CountsFit
  <2>2. j \in 0 .. c.counts_len - 1
    BY <1>2
  <2>3. s.normalizing_index_offset \in -c.counts_len .. c.counts_len
    BY DEF CountsFit
  <2> QED
    BY <1>2, <2>1, <2>2, <2>3, NormalizeFacts
<1>4. IsFiniteSet(DOMAIN s.counts)
  <2> DEFINE last == c.counts_len - 1
  <2>1. last \in Int
    BY <1>2
  <2> HIDE DEF last
  <2>2. IsFiniteSet(0 .. last)
    BY <2>1, FS_Interval
  <2> QED
    BY <1>3, <2>2, FS_Subset DEF last
<1>5. s.total_count \in Nat
  <2>1. \A i \in DOMAIN s.counts : s.counts[i] \in Nat
    BY DEF CountsFit
  <2>2. s.total_count = SumFunctionOnSet(s.counts, DOMAIN s.counts)
    BY DEF CountsFit
  <2> QED
    BY <1>4, <2>1, <2>2, SumNat
<1> QED
  BY <1>2, <1>3, <1>4, <1>5

\* What is accepted are the tracked values.
LEMMA AcceptsTracked ==
    ASSUME NEW c, IsLayout(c), NEW value
    PROVE  Accepts(c, value) <=> value \in 0 .. c.highest_trackable_value
BY IndexOfTracked DEF Accepts, Indexes

\* The two halves of an accepted call: the counts first, the extremes last.
Added(s, more, count) == [s EXCEPT !.counts = @ (+) more, !.total_count = @ + count]

LEMMA AddedFields ==
    ASSUME NEW s, IsFields(s), NEW more, NEW count, NEW t, t = Added(s, more, count)
    PROVE  /\ IsFields(t) /\ t.counts = s.counts (+) more /\ t.total_count = s.total_count + count
           /\ t.min_value = s.min_value /\ t.max_value = s.max_value
           /\ t.normalizing_index_offset = s.normalizing_index_offset
BY DEF IsFields, Added

LEMMA ExtremeFields ==
    ASSUME NEW s, IsFields(s), NEW value, NEW u, u = UpdateMinMax(s, value)
    PROVE  /\ IsFields(u) /\ u.counts = s.counts /\ u.total_count = s.total_count
           /\ u.max_value = Max({s.max_value, value})
           /\ u.min_value = IF value # 0 THEN Min({s.min_value, value}) ELSE s.min_value
           /\ u.normalizing_index_offset = s.normalizing_index_offset
BY DEF IsFields, UpdateMinMax

\* What an accepted value changes, of which index is the index.
Recorded(s, value, count, index, u) ==
    /\ IsFields(u)
    /\ DOMAIN u.counts = DOMAIN s.counts \union {index}
    /\ u.counts[index] = (IF index \in DOMAIN s.counts THEN s.counts[index] ELSE 0) + count
    /\ \A i \in DOMAIN s.counts \ {index} : u.counts[i] = s.counts[i] + 0
    /\ u.total_count = s.total_count + count
    /\ u.max_value = Max({s.max_value, value})
    /\ u.min_value = IF value # 0 THEN Min({s.min_value, value}) ELSE s.min_value
    /\ u.normalizing_index_offset = s.normalizing_index_offset

LEMMA RecordedFields ==
    ASSUME NEW c, NEW s, IsFields(s), NEW value, Accepts(c, value), NEW count
    PROVE  Recorded(s, value, count, NormalizeIndex(c, s, CountsIndexFor(c, value)),
                    RecordValues(c, s, value, count))
<1> DEFINE index == NormalizeIndex(c, s, CountsIndexFor(c, value))
           one == [i \in {index} |-> count]
           t == Added(s, one, count)
           u == UpdateMinMax(t, value)
<1>1. u = RecordValues(c, s, value, count)
  BY DEF RecordValues, Added
<1>2. /\ IsFields(t) /\ t.counts = s.counts (+) one /\ t.total_count = s.total_count + count
      /\ t.min_value = s.min_value /\ t.max_value = s.max_value
      /\ t.normalizing_index_offset = s.normalizing_index_offset
  <2> HIDE DEF one
  <2> QED
    BY AddedFields
<1>3. s.counts (+) one = [i \in DOMAIN s.counts \union {index} |->
                            (IF i \in DOMAIN s.counts THEN s.counts[i] ELSE 0)
                              + (IF i \in {index} THEN count ELSE 0)]
  BY DEF (+)
<1> HIDE DEF t, one, index
<1>4. /\ IsFields(u) /\ u.counts = t.counts /\ u.total_count = t.total_count
      /\ u.max_value = Max({t.max_value, value})
      /\ u.min_value = IF value # 0 THEN Min({t.min_value, value}) ELSE t.min_value
      /\ u.normalizing_index_offset = t.normalizing_index_offset
  BY <1>2, ExtremeFields
<1> HIDE DEF u
<1>5. /\ DOMAIN u.counts = DOMAIN s.counts \union {index}
      /\ u.counts[index] = (IF index \in DOMAIN s.counts THEN s.counts[index] ELSE 0) + count
      /\ \A i \in DOMAIN s.counts \ {index} : u.counts[i] = s.counts[i] + 0
  BY <1>2, <1>3, <1>4
<1>6. Recorded(s, value, count, index, u)
  BY <1>2, <1>4, <1>5 DEF Recorded
<1> QED
  BY <1>1, <1>6 DEF index

\* A recorded value is added to the counts and to total_count alike.
LEMMA RecordKeepsCounts ==
    ASSUME NEW c, IsLayout(c), NEW s, CountsFit(c, s),
           NEW value \in 0 .. c.highest_trackable_value, NEW count \in Nat \ {0},
           NEW u, u = RecordValues(c, s, value, count)
    PROVE  CountsFit(c, u)
<1> DEFINE index == NormalizeIndex(c, s, CountsIndexFor(c, value))
           used == DOMAIN s.counts
<1>1. Accepts(c, value) /\ IsFields(s)
  BY AcceptsTracked DEF CountsFit
<1>2. /\ IsFields(u)
      /\ DOMAIN u.counts = used \union {index}
      /\ u.counts[index] = (IF index \in used THEN s.counts[index] ELSE 0) + count
      /\ \A i \in used \ {index} : u.counts[i] = s.counts[i] + 0
      /\ u.total_count = s.total_count + count
      /\ u.normalizing_index_offset = s.normalizing_index_offset
  <2>1. Recorded(s, value, count, index, u)
    BY <1>1, RecordedFields
  <2> HIDE DEF index
  <2> QED
    BY <2>1 DEF Recorded
<1>3. /\ \A i \in used : s.counts[i] \in Nat \ {0}
      /\ s.total_count = SumFunctionOnSet(s.counts, used)
      /\ \A i \in used : \E j \in 0 .. LastIndex(c) : i = NormalizeIndex(c, s, j)
      /\ s.normalizing_index_offset \in -c.counts_len .. c.counts_len
  BY DEF CountsFit
<1>4. IsFiniteSet(used) /\ s.total_count \in Nat
  BY UsedFacts
<1>5. CountsIndexFor(c, value) \in 0 .. LastIndex(c)
  BY IndexOfTracked DEF LastIndex
<1>6. \A j : NormalizeIndex(c, u, j) = NormalizeIndex(c, s, j)
  BY <1>2 DEF NormalizeIndex
<1>7. \A i \in used \union {index} : \E j \in 0 .. LastIndex(c) : i = NormalizeIndex(c, u, j)
  <2>1. \E j \in 0 .. LastIndex(c) : index = NormalizeIndex(c, s, j)
    BY <1>5
  <2> HIDE DEF index, used
  <2> QED
    BY <1>3, <1>6, <2>1
<1> HIDE DEF index
<1>8. \A i \in used \ {index} : u.counts[i] = s.counts[i]
  BY <1>2, <1>3
<1>9. \A i \in used \union {index} : u.counts[i] \in Nat \ {0}
  <2>1. u.counts[index] \in Nat \ {0}
    BY <1>2, <1>3
  <2> QED
    BY <1>3, <1>8, <2>1
<1>10. u.total_count = SumFunctionOnSet(u.counts, used \union {index})
  <2>1. CASE index \in used
    <3>1. SumFunctionOnSet(u.counts, used)
             = SumFunctionOnSet(s.counts, used) + u.counts[index] - s.counts[index]
      <4>1. \A i \in used : s.counts[i] \in Int
        BY <1>3
      <4>2. u.counts[index] \in Int
        BY <1>9
      <4> HIDE DEF used
      <4> QED
        BY <1>4, <1>8, <2>1, <4>1, <4>2, SumChange
    <3>2. u.counts[index] = s.counts[index] + count /\ s.counts[index] \in Nat
      BY <1>2, <1>3, <2>1
    <3>3. used \union {index} = used
      BY <2>1
    <3>4. SumFunctionOnSet(s.counts, used) = s.total_count /\ s.total_count \in Nat
      BY <1>3, <1>4
    <3> HIDE DEF used
    <3>5. SumFunctionOnSet(u.counts, used) = s.total_count + count
      BY <3>1, <3>2, <3>4
    <3> QED
      BY <1>2, <3>3, <3>5
  <2>2. CASE index \notin used
    <3>1. SumFunctionOnSet(u.counts, used \union {index})
             = u.counts[index] + SumFunctionOnSet(u.counts, used)
      <4>1. \A i \in used \union {index} : u.counts[i] \in Int
        BY <1>9
      <4> HIDE DEF used
      <4> QED
        BY <1>4, <2>2, <4>1, SumAdd
    <3>2. SumFunctionOnSet(u.counts, used) = SumFunctionOnSet(s.counts, used)
      <4>1. \A i \in used : u.counts[i] = s.counts[i]
        BY <1>8, <2>2
      <4> HIDE DEF used
      <4> QED
        BY <1>4, <4>1, SumSame
    <3>3. u.counts[index] = count
      BY <1>2, <2>2
    <3> HIDE DEF used
    <3> QED
      BY <1>2, <1>3, <1>4, <3>1, <3>2, <3>3
  <2> QED
    BY <2>1, <2>2
<1> HIDE DEF used
<1> QED
  BY <1>2, <1>3, <1>7, <1>9, <1>10 DEF CountsFit

\* A recorded value moves the extremes as far as the indexes in use.
LEMMA RecordKeepsExtremes ==
    ASSUME NEW c, IsLayout(c), NEW s, Sound(c, s),
           NEW value \in 0 .. c.highest_trackable_value, NEW count \in Nat \ {0},
           NEW u, u = RecordValues(c, s, value, count)
    PROVE  ExtremesFit(c, u)
<1> DEFINE index == NormalizeIndex(c, s, CountsIndexFor(c, value))
           used == DOMAIN s.counts
           at(v) == CountsIndexFor(c, v)
<1>1. Accepts(c, value) /\ IsFields(s)
  BY AcceptsTracked DEF Sound, CountsFit
<1>2. /\ DOMAIN u.counts = used \union {index}
      /\ u.max_value = Max({s.max_value, value})
      /\ u.min_value = IF value # 0 THEN Min({s.min_value, value}) ELSE s.min_value
      /\ u.normalizing_index_offset = s.normalizing_index_offset
  <2>1. Recorded(s, value, count, index, u)
    BY <1>1, RecordedFields
  <2> HIDE DEF index
  <2> QED
    BY <2>1 DEF Recorded
<1>3. /\ s.min_value \in 1 .. MaxWord /\ s.max_value \in 0 .. MaxWord
      /\ value \in 0 .. MaxWord /\ MaxWord \in Nat
  BY WordFacts DEF Sound, ExtremesFit, IsLayout
<1>4. /\ u.max_value = IF s.max_value >= value THEN s.max_value ELSE value
      /\ u.min_value = IF value # 0 /\ value < s.min_value THEN value ELSE s.min_value
  <2>1. s.min_value \in Int /\ s.max_value \in Int /\ value \in Int
    BY <1>3
  <2> QED
    BY <1>2, <2>1, LargerIs, SmallerIs
<1>5. u.min_value \in 1 .. MaxWord /\ u.max_value \in 0 .. MaxWord
  BY <1>3, <1>4
<1>6. ASSUME s.normalizing_index_offset = 0
      PROVE  /\ used \union {index} # {} =>
                   at(u.max_value) \in used \union {index}
                   /\ \A i \in used \union {index} : i <= at(u.max_value)
             /\ used \union {index} # {} /\ 0 \notin used \union {index} =>
                   at(u.min_value) \in used \union {index}
                   /\ \A i \in used \union {index} : at(u.min_value) <= i
  <2>1. index = at(value)
    <3>1. c.counts_len \in Nat /\ at(value) \in 0 .. c.counts_len - 1
      BY IndexOfTracked
    <3>2. s.normalizing_index_offset \in -c.counts_len .. c.counts_len
      BY DEF Sound, CountsFit
    <3> QED
      BY <1>6, <3>1, <3>2, NormalizeFacts
  <2>2. /\ used # {} => at(s.max_value) \in used /\ \A i \in used : i <= at(s.max_value)
        /\ used # {} /\ 0 \notin used =>
              at(s.min_value) \in used /\ \A i \in used : at(s.min_value) <= i
        /\ used = {} => s.min_value = MaxWord /\ s.max_value = 0
    BY <1>6 DEF Sound, ExtremesFit
  <2>3. \A i \in used : i \in Nat
    <3>1. used \subseteq 0 .. c.counts_len - 1
      BY UsedFacts DEF Sound
    <3> QED
      BY <3>1
  <2>4. \A v, w \in 0 .. MaxWord : v <= w => at(v) <= at(w) /\ at(v) \in Nat /\ at(w) \in Nat
    BY IndexGrows DEF IsLayout
  <2>5. at(s.max_value) \in Nat /\ at(s.min_value) \in Nat /\ at(value) \in Nat
    BY <1>3, <2>4
  <2>6. 0 \notin used \union {index} => value # 0
    BY <2>1, ZeroIsFirst
  <2> HIDE DEF used, index, at
  <2>7. at(u.max_value) \in used \union {index}
        /\ \A i \in used \union {index} : i <= at(u.max_value)
    <3>1. CASE s.max_value >= value
      <4>1. u.max_value = s.max_value /\ at(value) <= at(s.max_value)
        BY <1>3, <1>4, <2>4, <3>1
      <4>2. CASE used = {}
        <5>1. s.max_value = value
          BY <1>3, <2>2, <3>1, <4>2
        <5> QED
          BY <2>1, <2>5, <4>1, <4>2, <5>1
      <4>3. CASE used # {}
        BY <2>1, <2>2, <4>1, <4>3
      <4> QED
        BY <4>2, <4>3
    <3>2. CASE s.max_value < value
      <4>1. u.max_value = value /\ at(s.max_value) <= at(value)
        BY <1>3, <1>4, <2>4, <3>2
      <4>2. \A i \in used : i <= at(value)
        BY <2>2, <2>3, <2>5, <4>1
      <4> QED
        BY <2>1, <2>5, <4>1, <4>2
    <3> QED
      BY <1>3, <3>1, <3>2
  <2>8. ASSUME 0 \notin used \union {index}
        PROVE  at(u.min_value) \in used \union {index}
               /\ \A i \in used \union {index} : at(u.min_value) <= i
    <3>1. value # 0 /\ 0 \notin used
      BY <2>6, <2>8
    <3>2. CASE value < s.min_value
      <4>1. u.min_value = value /\ at(value) <= at(s.min_value)
        BY <1>3, <1>4, <2>4, <3>1, <3>2
      <4>2. \A i \in used : at(value) <= i
        BY <2>2, <2>3, <2>5, <3>1, <4>1
      <4> QED
        BY <2>1, <2>5, <4>1, <4>2
    <3>3. CASE s.min_value <= value
      <4>1. u.min_value = s.min_value /\ at(s.min_value) <= at(value)
        BY <1>3, <1>4, <2>4, <3>3
      <4>2. CASE used = {}
        <5>1. s.min_value = value
          BY <1>3, <2>2, <3>3, <4>2
        <5> QED
          BY <2>1, <2>5, <4>1, <4>2, <5>1
      <4>3. CASE used # {}
        BY <2>1, <2>2, <3>1, <4>1, <4>3
      <4> QED
        BY <4>2, <4>3
    <3> QED
      BY <1>3, <3>2, <3>3
  <2> QED
    BY <2>7, <2>8
<1> HIDE DEF used
<1>7. used \union {index} # {}
  OBVIOUS
<1> HIDE DEF index
<1> QED
  BY <1>2, <1>5, <1>6, <1>7 DEF ExtremesFit

\* A call that records one value, or refuses it.
LEMMA RecordKeeps ==
    ASSUME NEW c, IsLayout(c), NEW s, Sound(c, s), NEW value, NEW count \in Nat \ {0},
           NEW u, u = RecordValues(c, s, value, count)
    PROVE  /\ Sound(c, u)
           /\ u.normalizing_index_offset = s.normalizing_index_offset
<1>1. CASE Accepts(c, value)
  <2>1. value \in 0 .. c.highest_trackable_value /\ IsFields(s) /\ CountsFit(c, s)
    BY <1>1, AcceptsTracked DEF Sound, CountsFit
  <2>2. CountsFit(c, u)
    BY <2>1, RecordKeepsCounts
  <2>3. ExtremesFit(c, u)
    BY <2>1, RecordKeepsExtremes
  <2>4. Recorded(s, value, count, NormalizeIndex(c, s, CountsIndexFor(c, value)), u)
    BY <1>1, <2>1, RecordedFields
  <2>5. u.normalizing_index_offset = s.normalizing_index_offset
    BY <2>4 DEF Recorded
  <2> QED
    BY <2>2, <2>3, <2>5 DEF Sound
<1>2. CASE ~Accepts(c, value)
  BY <1>2 DEF RecordValues
<1> QED
  BY <1>1, <1>2

\* Quotients and remainders.
LEMMA Division ==
    \A x \in Nat, h \in Nat \ {0} :
        x = h * (x \div h) + (x % h) /\ x % h \in Nat /\ x % h < h /\ x \div h \in Nat
BY Z3

\* The extremes of a bounded set.
LEMMA FirstAndLast ==
    ASSUME NEW N \in Nat, NEW S \in SUBSET (0 .. N), S # {}
    PROVE  /\ Min(S) \in S /\ \A y \in S : Min(S) <= y
           /\ Max(S) \in S /\ \A y \in S : y <= Max(S)
<1>1. S \in SUBSET Int
  OBVIOUS
<1>2. PICK a \in S : \A y \in S : a <= y
  BY LeastNatural
<1>3. Min(S) = a
  BY <1>1, <1>2, LeastIs
<1> DEFINE R == {N - y : y \in S}
<1>4. PICK b \in R : \A y \in R : b <= y
  <2>1. R \in SUBSET (0 .. N) /\ R # {}
    OBVIOUS
  <2> HIDE DEF R
  <2> QED
    BY <2>1, LeastNatural
<1>5. PICK z \in S : b = N - z
  BY <1>4
<1>6. \A y \in S : y <= z
  <2> SUFFICES ASSUME NEW y \in S PROVE y <= z
    OBVIOUS
  <2>1. N - z <= N - y
    BY <1>4, <1>5
  <2>2. y \in Int /\ z \in Int
    OBVIOUS
  <2> QED
    BY <2>1, <2>2
<1>7. Max(S) = z
  BY <1>1, <1>6, GreatestIs
<1> QED
  BY <1>2, <1>3, <1>6, <1>7

-----------------------------------------------------------------------------
(***************************************************************************)
(* Walks over the counts in the order of their indexes.                    *)
(***************************************************************************)

\* A count that is not 0 is that of a tracked value, with any offset.
LEMMA CountedIsTracked ==
    ASSUME NEW c, IsLayout(c), NEW s, CountsFit(c, s), NEW i \in 0 .. c.counts_len - 1
    PROVE  /\ CountAtIndex(c, s, i) \in Nat
           /\ CountAtIndex(c, s, i) # 0 =>
                 ValueAtIndex(c, i) \in 0 .. c.highest_trackable_value
<1> DEFINE used == DOMAIN s.counts
           x == NormalizeIndex(c, s, i)
<1>1. CountAtIndex(c, s, i) = IF x \in used THEN s.counts[x] ELSE 0
  BY DEF CountAtIndex, BagToSet
<1>2. \A y \in used : s.counts[y] \in Nat \ {0}
  BY DEF CountsFit
<1>3. ASSUME x \in used PROVE ValueAtIndex(c, i) \in 0 .. c.highest_trackable_value
  <2> DEFINE highest == c.highest_trackable_value
             value == ValueAtIndex(c, i)
  <2>1. PICK j \in 0 .. LastIndex(c) : x = NormalizeIndex(c, s, j)
    BY <1>3 DEF CountsFit
  <2>2. LastIndex(c) \in 0 .. c.counts_len - 1 /\ c.counts_len \in Nat
    BY UsedFacts
  <2>3. i <= LastIndex(c)
    <3>1. j \in 0 .. c.counts_len - 1
      BY <2>2
    <3>2. s.normalizing_index_offset \in -c.counts_len .. c.counts_len
      BY DEF CountsFit
    <3>3. i = j
      BY <2>1, <2>2, <3>1, <3>2, NormalizeFacts
    <3> QED
      BY <3>3
  <2>4. value \in 0 .. MaxWord /\ CountsIndexFor(c, value) = i
    BY ValueOfIndex
  <2>5. highest \in 0 .. MaxWord /\ IsConfig(c) /\ MaxWord \in Nat
    BY WordFacts DEF IsLayout
  <2>6. ValueAtIndex(c, LastIndex(c)) <= highest
    BY <2>5, RangeOfValue DEF LastIndex
  <2> HIDE DEF highest, value
  <2>7. ASSUME highest < value PROVE FALSE
    <3>1. CountsIndexFor(c, highest) <= i
      BY <2>4, <2>5, <2>7, IndexGrows
    <3>2. i = LastIndex(c)
      BY <2>2, <2>3, <3>1 DEF LastIndex, highest
    <3>3. value <= highest
      BY <2>6, <3>2 DEF value
    <3> QED
      BY <2>4, <2>5, <2>7, <3>3
  <2> QED
    BY <2>4, <2>5, <2>7 DEF value, highest
<1> QED
  BY <1>1, <1>2, <1>3

\* The indexes in use that a walk over the first n indexes has not seen.
Unseen(c, s, n) == DOMAIN s.counts \ {NormalizeIndex(c, s, j) : j \in 0 .. n - 1}

\* The next index of the walk.
LEMMA UnseenNext ==
    ASSUME NEW c, IsLayout(c), NEW s, CountsFit(c, s), NEW i \in 0 .. c.counts_len - 1,
           NEW before, before = SumFunctionOnSet(s.counts, Unseen(c, s, i)),
           NEW after, after = SumFunctionOnSet(s.counts, Unseen(c, s, i + 1))
    PROVE  before \in Nat /\ after \in Nat /\ before = after + CountAtIndex(c, s, i)
<1> DEFINE used == DOMAIN s.counts
           x == NormalizeIndex(c, s, i)
           rest == Unseen(c, s, i)
<1>1. CountAtIndex(c, s, i) = IF x \in used THEN s.counts[x] ELSE 0
  BY DEF CountAtIndex, BagToSet
<1>2. (\A y \in used : s.counts[y] \in Nat) /\ IsFiniteSet(used) /\ c.counts_len \in Nat
  BY UsedFacts DEF CountsFit
<1>3. Unseen(c, s, i + 1) = rest \ {x}
  <2>1. \A j : j \in 0 .. (i + 1) - 1 <=> j \in 0 .. i - 1 \/ j = i
    BY <1>2
  <2> QED
    BY <2>1 DEF Unseen
<1>4. x \in used => x \in rest
  <2>1. \A j \in 0 .. i - 1 : j \in 0 .. c.counts_len - 1 /\ i # j
    BY <1>2
  <2>2. s.normalizing_index_offset \in -c.counts_len .. c.counts_len
    BY DEF CountsFit
  <2>3. \A j \in 0 .. i - 1 : NormalizeIndex(c, s, j) # x
    BY <1>2, <2>1, <2>2, NormalizeFacts
  <2> QED
    BY <2>3 DEF Unseen
<1>5. rest \subseteq used /\ IsFiniteSet(rest) /\ IsFiniteSet(rest \ {x})
  <2>1. rest \subseteq used
    BY DEF Unseen
  <2> QED
    BY <1>2, <2>1, FS_Subset
<1> HIDE DEF used, x, rest
<1>6. SumFunctionOnSet(s.counts, rest) \in Nat /\ SumFunctionOnSet(s.counts, rest \ {x}) \in Nat
  BY <1>2, <1>5, SumNat
<1>7. CASE x \in used
  <2>1. \A y \in rest : s.counts[y] \in Int
    BY <1>2, <1>5
  <2>2. SumFunctionOnSet(s.counts, rest)
           = s.counts[x] + SumFunctionOnSet(s.counts, rest \ {x})
    BY <1>4, <1>5, <1>7, <2>1, SumRemove
  <2>3. before = SumFunctionOnSet(s.counts, rest)
        /\ after = SumFunctionOnSet(s.counts, rest \ {x}) /\ s.counts[x] \in Nat
    BY <1>2, <1>3, <1>7 DEF rest
  <2> QED
    BY <1>1, <1>6, <1>7, <2>2, <2>3
<1>8. CASE x \notin used
  <2>1. rest \ {x} = rest
    BY <1>5, <1>8
  <2>2. before = SumFunctionOnSet(s.counts, rest) /\ after = before
    BY <1>3, <2>1 DEF rest
  <2> QED
    BY <1>1, <1>6, <1>8, <2>2
<1> QED
  BY <1>7, <1>8
=============================================================================
