-------------------------- MODULE Histogram_proofs --------------------------
(***************************************************************************)
(* That the fields of a sequential histogram agree with each other after   *)
(* every call, for words and arrays of any size, any arguments and any     *)
(* order of calls.                                                         *)
(*                                                                         *)
(* Every operation is a sequence of recorded values, or replaces all       *)
(* fields: Sound is what one recorded value keeps, and the loops keep it   *)
(* in as many rounds as they have.                                         *)
(*                                                                         *)
(* And that a histogram is a bag of rounded values, as HistogramContract   *)
(* says: the loops count at each index what the contract counts at once.   *)
(***************************************************************************)
EXTENDS Histogram, Recording_proofs, SequenceTheorems

-----------------------------------------------------------------------------
(***************************************************************************)
(* Correcting for coordinated omission: a fold over the value and the      *)
(* values that are missing below it.                                       *)
(***************************************************************************)
RecordNext(c, count, done, v) ==
    IF ~done.accepted THEN done
    ELSE [fields |-> RecordValues(c, done.fields, v, count), accepted |-> Accepts(c, v)]

\* The recursion by which FoldLeft is defined, over the sets of positions within D.
FoldsOf(c, count, start, seq, D, g) ==
    g = [T \in SUBSET D |->
            IF T = {} THEN start ELSE RecordNext(c, count, g[T \ {Max(T)}], seq[Max(T)])]

Folded(c, count, start, seq, D) == (CHOOSE g : FoldsOf(c, count, start, seq, D, g))[D]

\* What the fold begins with, and what it goes over.
Begun(s) == [fields |-> s, accepted |-> TRUE]
Row(value, interval) == <<value>> \o MissingValues(value, interval)

LEMMA CorrectedByDefinition ==
    ASSUME NEW c, NEW s, NEW value, NEW count, NEW interval
    PROVE  RecordCorrectedValues(c, s, value, count, interval)
              = Folded(c, count, Begun(s), Row(value, interval), DOMAIN Row(value, interval))
BY DEF RecordCorrectedValues, FoldLeft, MapThenFoldSet, Folded, FoldsOf, RecordNext, Begun, Row

LEMMA LastPosition ==
    ASSUME NEW k \in Nat, k > 0, NEW T \in SUBSET (1 .. k), k \in T
    PROVE  Max(T) = k
<1>1. T \in SUBSET Int /\ \A y \in T : y <= k
  OBVIOUS
<1> QED
  BY <1>1, GreatestIs

LEMMA FoldsExist ==
    ASSUME NEW c, NEW count, NEW start, NEW seq, NEW n \in Nat
    PROVE  \E g : FoldsOf(c, count, start, seq, 1 .. n, g)
<1> DEFINE Folds(k, g) == FoldsOf(c, count, start, seq, 1 .. k, g)
           Bad == {k \in 0 .. n : ~ \E g : Folds(k, g)}
           next(done, k) == RecordNext(c, count, done, seq[k])
<1>1. SUFFICES ASSUME Bad # {} PROVE FALSE
  OBVIOUS
<1>2. PICK k \in Bad : \A j \in Bad : k <= j
  <2>1. Bad \in SUBSET (0 .. n)
    OBVIOUS
  <2> HIDE DEF Bad
  <2> QED
    BY <1>1, <2>1, LeastNatural
<1>3. k # 0
  <2> SUFFICES Folds(0, [T \in SUBSET (1 .. 0) |-> start])
    BY <1>2
  <2>1. \A T \in SUBSET (1 .. 0) : T = {}
    OBVIOUS
  <2> QED
    BY <2>1 DEF FoldsOf
<1>4. k \in Nat /\ k > 0 /\ k - 1 \in Nat /\ k - 1 \in 0 .. n
  BY <1>2, <1>3
<1>5. PICK f : Folds(k - 1, f)
  <2>1. ~(k <= k - 1)
    BY <1>4
  <2> QED
    BY <1>2, <1>4, <2>1
<1> DEFINE g == [T \in SUBSET (1 .. k) |-> IF k \in T THEN next(f[T \ {k}], k) ELSE f[T]]
<1>6. ASSUME NEW T \in SUBSET (1 .. k)
      PROVE  g[T] = IF T = {} THEN start ELSE next(g[T \ {Max(T)}], Max(T))
  <2>1. CASE k \in T
    <3>1. Max(T) = k
      BY <1>4, <2>1, LastPosition
    <3>2. T \ {k} \in SUBSET (1 .. k) /\ k \notin T \ {k}
      OBVIOUS
    <3> HIDE DEF next
    <3>3. g[T \ {k}] = f[T \ {k}] /\ g[T] = next(f[T \ {k}], k)
      BY <2>1, <3>2
    <3> QED
      BY <2>1, <3>1, <3>3
  <2>2. CASE k \notin T
    <3>1. /\ T \in SUBSET (1 .. k - 1) /\ T \ {Max(T)} \in SUBSET (1 .. k)
          /\ k \notin T \ {Max(T)}
      <4>1. \A y \in T : y \in 1 .. k - 1
        BY <1>4, <2>2
      <4> QED
        BY <2>2, <4>1
    <3>2. g[T] = f[T] /\ g[T \ {Max(T)}] = f[T \ {Max(T)}]
      BY <2>2, <3>1
    <3>3. f[T] = IF T = {} THEN start ELSE next(f[T \ {Max(T)}], Max(T))
      BY <1>5, <3>1 DEF FoldsOf
    <3> HIDE DEF g, next
    <3> QED
      BY <3>2, <3>3
  <2> QED
    BY <2>1, <2>2
<1>7. g = [T \in SUBSET (1 .. k) |-> g[T]]
  OBVIOUS
<1>8. Folds(k, g)
  <2> HIDE DEF g
  <2> QED
    BY <1>6, <1>7 DEF FoldsOf
<1> QED
  BY <1>2, <1>8

\* The missing values are multiples of the interval below the value.
Descends(value, interval, seq, n) ==
    /\ DOMAIN seq = 1 .. n /\ seq[1] = value
    /\ \A k \in 1 .. n : seq[k] <= value /\ seq[k] \in Int /\ (value >= 0 => seq[k] >= 0)
    /\ n = IF interval <= 0 \/ value <= interval THEN 1 ELSE value \div interval
    /\ \A k \in 2 .. n : seq[k] = value - (k - 1) * interval

LEMMA MissingFacts ==
    ASSUME NEW value \in Int, NEW interval \in Int, NEW seq, seq = Row(value, interval)
    PROVE  \E n \in Nat \ {0} : Descends(value, interval, seq, n)
<1>1. CASE interval <= 0 \/ value <= interval
  <2>1. seq = <<value>>
    <3>1. MissingValues(value, interval) = <<>> /\ <<value>> \in Seq(Int)
      BY <1>1 DEF MissingValues
    <3> QED
      BY <3>1 DEF Row
  <2>2. DOMAIN seq = 1 .. 1 /\ seq[1] = value
    <3>1. <<value>> \in Seq(Int) /\ Len(<<value>>) = 1 /\ <<value>>[1] = value
      OBVIOUS
    <3> QED
      BY <2>1, <3>1, LenProperties
  <2>3. \A k \in 1 .. 1 : k = 1
    OBVIOUS
  <2>4. 1 \in Nat \ {0} /\ 2 .. 1 = {}
    OBVIOUS
  <2> QED
    BY <1>1, <2>2, <2>3, <2>4 DEF Descends
<1>2. CASE ~(interval <= 0 \/ value <= interval)
  <2> DEFINE n == value \div interval
             missing == [k \in 1 .. n - 1 |-> value - k * interval]
  <2>1. \A v, d \in Nat \ {0} : d < v =>
           v \div d \in Nat \ {0} /\ \A k \in Nat : k < v \div d => k * d <= v /\ k * d \in Nat
    <3>1. \A x \in Nat, h \in Nat \ {0} :
             x = h * (x \div h) + (x % h) /\ x % h \in Nat /\ x % h < h /\ x \div h \in Nat
      BY Division
    <3>2. \A d, q, r, v \in Nat : v = d * q + r /\ r < d /\ d < v => q # 0 /\ d * q <= v
      BY Z3
    <3>3. \A k, d, q \in Nat : k < q => k * d <= d * q /\ k * d \in Nat
      BY Z3
    <3>4. SUFFICES ASSUME NEW v \in Nat \ {0}, NEW d \in Nat \ {0}, d < v,
                          NEW q, q = v \div d
                   PROVE  q \in Nat \ {0}
                          /\ \A k \in Nat : k < q => k * d <= v /\ k * d \in Nat
      OBVIOUS
    <3>5. PICK r \in Nat : v = d * q + r /\ r < d /\ q \in Nat
      BY <3>1, <3>4
    <3>6. q # 0 /\ d * q <= v
      BY <3>2, <3>4, <3>5
    <3>7. ASSUME NEW k \in Nat, k < q PROVE k * d <= v /\ k * d \in Nat
      <4>1. k * d <= d * q /\ k * d \in Nat
        BY <3>3, <3>4, <3>5, <3>7
      <4>2. \A a, b \in Nat : a <= b /\ b <= v => a <= v
        BY <3>4
      <4>3. d * q \in Nat
        BY <3>5
      <4> QED
        BY <3>6, <4>1, <4>2, <4>3
    <3> QED
      BY <3>5, <3>6, <3>7
  <2>2. value \in Nat \ {0} /\ interval \in Nat \ {0} /\ interval < value
    BY <1>2
  <2>3. n \in Nat \ {0} /\ \A k \in Nat : k < n => k * interval <= value /\ k * interval \in Nat
    BY <2>1, <2>2
  <2>4. seq = <<value>> \o missing
    BY <1>2 DEF MissingValues, Row
  <2> HIDE DEF n
  <2>5. \A k \in 1 .. n - 1 : value - k * interval \in Nat /\ value - k * interval <= value
    <3> SUFFICES ASSUME NEW k \in 1 .. n - 1
                 PROVE  value - k * interval \in Nat /\ value - k * interval <= value
      OBVIOUS
    <3>1. k \in Nat /\ k < n
      BY <2>3
    <3>2. k * interval <= value /\ k * interval \in Nat
      BY <2>3, <3>1
    <3> DEFINE m == k * interval
    <3> HIDE DEF m
    <3>3. m <= value /\ m \in Nat
      BY <3>2 DEF m
    <3>4. value - m \in Nat /\ value - m <= value
      BY <2>2, <3>3
    <3> QED
      BY <3>4 DEF m
  <2>6. \A k \in 1 .. n - 1 : missing[k] \in Nat /\ missing[k] <= value
    BY <2>5
  <2>7. missing \in Seq(Nat) /\ Len(missing) = n - 1
    <3>1. n - 1 \in Nat
      BY <2>3
    <3>2. missing = [k \in 1 .. n - 1 |-> missing[k]]
      OBVIOUS
    <3> HIDE DEF missing
    <3>3. missing \in [1 .. n - 1 -> Nat]
      BY <2>6, <3>2
    <3>4. missing \in Seq(Nat)
      BY <3>1, <3>3, SeqDef
    <3>5. Len(missing) \in Nat /\ DOMAIN missing = 1 .. Len(missing)
      BY <3>4, LenProperties
    <3>6. DOMAIN missing = 1 .. n - 1
      BY <3>3
    <3> QED
      BY <3>1, <3>4, <3>5, <3>6
  <2> HIDE DEF missing
  <2>8. DOMAIN seq = 1 .. n /\ seq[1] = value /\ \A k \in 2 .. n : seq[k] = missing[k - 1]
    <3> DEFINE one == <<value>>
    <3>1. one \in Seq(Nat) /\ Len(one) = 1 /\ one[1] = value
      BY <2>2
    <3>2. seq = one \o missing
      BY <2>4
    <3> HIDE DEF one
    <3>3. /\ seq \in Seq(Nat) /\ Len(seq) = 1 + (n - 1)
          /\ \A k \in 1 .. 1 + (n - 1) : seq[k] = IF k <= 1 THEN one[k] ELSE missing[k - 1]
      <4>1. /\ one \o missing \in Seq(Nat)
            /\ Len(one \o missing) = Len(one) + Len(missing)
            /\ \A k \in 1 .. Len(one) + Len(missing) :
                  (one \o missing)[k] = IF k <= Len(one) THEN one[k] ELSE missing[k - Len(one)]
        BY <2>7, <3>1, ConcatProperties
      <4> QED
        BY <2>7, <3>1, <3>2, <4>1
    <3>4. DOMAIN seq = 1 .. Len(seq)
      BY <3>3, LenProperties
    <3>5. n \in Nat \ {0}
      BY <2>3
    <3>6. 1 + (n - 1) = n
      BY <3>5
    <3> QED
      BY <3>1, <3>3, <3>4, <3>5, <3>6
  <2>9. \A k \in 1 .. n : seq[k] <= value /\ seq[k] \in Nat
    <3> TAKE k \in 1 .. n
    <3>1. CASE k = 1
      BY <2>2, <2>8, <3>1
    <3>2. CASE k # 1
      <4>1. n \in Nat
        BY <2>3
      <4>2. k \in 2 .. n /\ k - 1 \in 1 .. n - 1
        BY <3>2, <4>1
      <4> QED
        BY <2>6, <2>8, <4>2
    <3> QED
      BY <3>1, <3>2
  <2>10. \A x \in Nat : x \in Int /\ x >= 0
    OBVIOUS
  <2>11. \A k \in 1 .. n : seq[k] <= value /\ seq[k] \in Int /\ (value >= 0 => seq[k] >= 0)
    BY <2>9, <2>10
  <2>12. \A k \in 2 .. n : seq[k] = value - (k - 1) * interval
    <3> TAKE k \in 2 .. n
    <3>1. k - 1 \in 1 .. n - 1
      BY <2>3
    <3>2. missing[k - 1] = value - (k - 1) * interval
      BY <3>1 DEF missing
    <3> QED
      BY <2>8, <3>2
  <2>13. n = IF interval <= 0 \/ value <= interval THEN 1 ELSE value \div interval
    BY <1>2 DEF n
  <2> QED
    BY <2>3, <2>8, <2>11, <2>12, <2>13 DEF Descends
<1> QED
  BY <1>1, <1>2


\* What is true of the fold after any number of values: tracked is whether the first of
\* them, and so all, can be recorded.
Corrected(c, s, tracked, done) ==
    /\ Sound(c, done.fields)
    /\ done.fields.normalizing_index_offset = s.normalizing_index_offset
    /\ done.accepted \in BOOLEAN
    /\ tracked => done.accepted

LEMMA NextKeeps ==
    ASSUME NEW c, IsLayout(c), NEW s, NEW tracked \in BOOLEAN,
           NEW done, Corrected(c, s, tracked, done),
           NEW count \in Nat \ {0}, NEW v, tracked => v \in 0 .. c.highest_trackable_value,
           NEW next, next = RecordNext(c, count, done, v)
    PROVE  Corrected(c, s, tracked, next)
<1>1. CASE ~done.accepted
  BY <1>1 DEF RecordNext
<1>2. CASE done.accepted
  <2> DEFINE t == RecordValues(c, done.fields, v, count)
  <2>1. next = [fields |-> t, accepted |-> Accepts(c, v)]
    BY <1>2 DEF RecordNext
  <2>2. Sound(c, done.fields)
    BY DEF Corrected
  <2>3. Sound(c, t) /\ t.normalizing_index_offset = done.fields.normalizing_index_offset
    BY <2>2, RecordKeeps
  <2>4. tracked => Accepts(c, v)
    BY AcceptsTracked
  <2>5. Accepts(c, v) \in BOOLEAN
    BY DEF Accepts
  <2> HIDE DEF t
  <2>6. next.fields = t /\ next.accepted = Accepts(c, v)
    BY <2>1
  <2> QED
    BY <2>3, <2>4, <2>5, <2>6 DEF Corrected
<1> QED
  BY <1>1, <1>2

\* The rounds of the fold, one for each value of the row.
RoundsOf(c, s, count, seq, n, r) ==
    /\ r[0] = Begun(s)
    /\ \A k \in 1 .. n : r[k] = RecordNext(c, count, r[k - 1], seq[k])

LEMMA CorrectedSteps ==
    ASSUME NEW c, NEW s, NEW value \in Int, NEW count, NEW interval \in Int,
           NEW seq, seq = Row(value, interval), NEW n \in Nat, DOMAIN seq = 1 .. n
    PROVE  \E r : /\ RoundsOf(c, s, count, seq, n, r)
                  /\ RecordCorrectedValues(c, s, value, count, interval) = r[n]
<1> DEFINE start == Begun(s)
<1>1. PICK g : /\ FoldsOf(c, count, start, seq, 1 .. n, g)
               /\ RecordCorrectedValues(c, s, value, count, interval) = g[1 .. n]
  <2>1. RecordCorrectedValues(c, s, value, count, interval)
           = Folded(c, count, start, seq, DOMAIN seq)
    BY CorrectedByDefinition
  <2>2. \E g : FoldsOf(c, count, start, seq, 1 .. n, g)
    <3> HIDE DEF start
    <3> QED
      BY FoldsExist
  <2> HIDE DEF start
  <2> QED
    BY <2>1, <2>2 DEF Folded
<1>2. g[1 .. 0] = start
  <2>1. 1 .. 0 \in SUBSET (1 .. n) /\ 1 .. 0 = {}
    OBVIOUS
  <2> HIDE DEF start
  <2> QED
    BY <1>1, <2>1 DEF FoldsOf
<1>3. ASSUME NEW k \in 1 .. n
      PROVE  g[1 .. k] = RecordNext(c, count, g[1 .. k - 1], seq[k])
  <2>1. 1 .. k \in SUBSET (1 .. n) /\ k \in 1 .. k /\ k \in Nat /\ k > 0
    OBVIOUS
  <2>2. Max(1 .. k) = k
    BY <2>1, LastPosition
  <2>3. (1 .. k) \ {k} = 1 .. k - 1
    <3>1. \A x : x \in (1 .. k) \ {k} <=> x \in 1 .. k - 1
      BY <2>1
    <3> QED
      BY <3>1
  <2>4. g[1 .. k] = IF 1 .. k = {} THEN start
                    ELSE RecordNext(c, count, g[(1 .. k) \ {Max(1 .. k)}], seq[Max(1 .. k)])
    BY <1>1, <2>1 DEF FoldsOf
  <2> HIDE DEF start
  <2> QED
    BY <2>1, <2>2, <2>3, <2>4
<1> DEFINE r == [k \in 0 .. n |-> g[1 .. k]]
<1>4. r[0] = start /\ r[n] = g[1 .. n]
  BY <1>2
<1>5. \A k \in 1 .. n : r[k] = RecordNext(c, count, r[k - 1], seq[k])
  <2> TAKE k \in 1 .. n
  <2>1. k \in 0 .. n /\ k - 1 \in 0 .. n
    OBVIOUS
  <2>2. r[k] = g[1 .. k] /\ r[k - 1] = g[1 .. k - 1]
    BY <2>1
  <2> QED
    BY <1>3, <2>2
<1>6. RoundsOf(c, s, count, seq, n, r)
  <2> HIDE DEF r
  <2> QED
    BY <1>4, <1>5 DEF RoundsOf
<1> QED
  BY <1>1, <1>4, <1>6

LEMMA CorrectedKeeps ==
    ASSUME NEW c, IsLayout(c), NEW s, Sound(c, s), NEW value \in Int, NEW count \in Nat \ {0},
           NEW interval \in Int
    PROVE  Corrected(c, s, value \in 0 .. c.highest_trackable_value,
                     RecordCorrectedValues(c, s, value, count, interval))
<1> DEFINE seq == Row(value, interval)
           tracked == value \in 0 .. c.highest_trackable_value
<1>1. PICK n \in Nat \ {0} :
         /\ DOMAIN seq = 1 .. n
         /\ \A k \in 1 .. n : seq[k] <= value /\ seq[k] \in Int /\ (value >= 0 => seq[k] >= 0)
  <2>1. seq = Row(value, interval)
    OBVIOUS
  <2> HIDE DEF seq
  <2>2. \E n \in Nat \ {0} : Descends(value, interval, seq, n)
    BY <2>1, MissingFacts
  <2> QED
    BY <2>2 DEF Descends
<1>2. PICK r : /\ r[0] = Begun(s)
               /\ \A k \in 1 .. n : r[k] = RecordNext(c, count, r[k - 1], seq[k])
               /\ RecordCorrectedValues(c, s, value, count, interval) = r[n]
  <2>1. seq = Row(value, interval) /\ n \in Nat /\ DOMAIN seq = 1 .. n
    BY <1>1
  <2> HIDE DEF seq
  <2>2. PICK r : /\ RoundsOf(c, s, count, seq, n, r)
                 /\ RecordCorrectedValues(c, s, value, count, interval) = r[n]
    BY <2>1, CorrectedSteps
  <2> QED
    BY <2>2 DEF RoundsOf
<1>3. \A k \in 1 .. n : tracked => seq[k] \in 0 .. c.highest_trackable_value
  <2>1. c.highest_trackable_value \in Int
    BY WordFacts DEF IsLayout
  <2>2. \A k \in 1 .. n : seq[k] <= value /\ seq[k] \in Int /\ (value >= 0 => seq[k] >= 0)
    BY <1>1
  <2> HIDE DEF seq
  <2> QED
    BY <2>1, <2>2
<1>4. Corrected(c, s, tracked, r[0])
  <2>1. r[0].fields = s /\ r[0].accepted = TRUE
    BY <1>2 DEF Begun
  <2> HIDE DEF tracked
  <2> QED
    BY <2>1 DEF Corrected
<1>5. ASSUME NEW k \in 1 .. n, Corrected(c, s, tracked, r[k - 1])
      PROVE  Corrected(c, s, tracked, r[k])
  <2>1. tracked \in BOOLEAN
    OBVIOUS
  <2> HIDE DEF seq, tracked
  <2> QED
    BY <1>2, <1>3, <1>5, <2>1, NextKeeps
<1> DEFINE Bad == {k \in 0 .. n : ~Corrected(c, s, tracked, r[k])}
<1>6. Bad = {}
  <2> SUFFICES ASSUME Bad # {} PROVE FALSE
    OBVIOUS
  <2>1. PICK k \in Bad : \A j \in Bad : k <= j
    <3>1. Bad \in SUBSET (0 .. n)
      OBVIOUS
    <3> HIDE DEF Bad
    <3> QED
      BY <3>1, LeastNatural
  <2> HIDE DEF seq, tracked
  <2>2. k # 0
    BY <1>4, <2>1
  <2>3. k \in 1 .. n /\ k - 1 \in 0 .. n /\ ~(k <= k - 1)
    BY <2>1, <2>2
  <2>4. Corrected(c, s, tracked, r[k - 1])
    BY <2>1, <2>3
  <2> QED
    BY <1>5, <2>1, <2>3, <2>4
<1>7. n \in 0 .. n
  OBVIOUS
<1>8. Corrected(c, s, tracked, r[n])
  <2> HIDE DEF seq, tracked
  <2> QED
    BY <1>6, <1>7
<1> QED
  BY <1>2, <1>8


-----------------------------------------------------------------------------
(***************************************************************************)
(* hdr_add.                                                                *)
(***************************************************************************)

\* What is true of the walk after n indexes: it has not counted what it has not seen, and
\* drops nothing when a histogram is added to itself.
Walked(c, s, from_c, from, aliased, n, done) ==
    /\ Sound(c, done.fields)
    /\ done.fields.normalizing_index_offset = s.normalizing_index_offset
    /\ done.cumulative_count \in Nat
    /\ done.dropped \in 0 .. done.cumulative_count
    /\ aliased => done.dropped = 0
    /\ ~aliased => done.cumulative_count + SumFunctionOnSet(from.counts, Unseen(from_c, from, n))
                      <= from.total_count

LEMMA VisitKeeps ==
    ASSUME NEW c, IsLayout(c), NEW s,
           NEW from_c, IsLayout(from_c), NEW from, CountsFit(from_c, from),
           NEW aliased \in BOOLEAN, aliased => c = from_c, NEW interval \in Int,
           NEW i \in 0 .. from_c.counts_len - 1,
           NEW done, Walked(c, s, from_c, from, aliased, i, done),
           NEW next, next = AddVisit(c, from_c, from, aliased, interval, done, i)
    PROVE  Walked(c, s, from_c, from, aliased, i + 1, next)
<1> DEFINE count == CountAtIndex(from_c, IF aliased THEN done.fields ELSE from, i)
           value == ValueAtIndex(from_c, i)
           recorded == RecordCorrectedValues(c, done.fields, value, count, interval)
           unseen(n) == SumFunctionOnSet(from.counts, Unseen(from_c, from, n))
           lost == IF recorded.accepted THEN 0 ELSE count
<1>1. /\ Sound(c, done.fields)
      /\ done.fields.normalizing_index_offset = s.normalizing_index_offset
      /\ done.cumulative_count \in Nat
      /\ done.dropped \in 0 .. done.cumulative_count
      /\ aliased => done.dropped = 0
      /\ ~aliased => done.cumulative_count + unseen(i) <= from.total_count
  BY DEF Walked
<1>2. /\ unseen(i) \in Nat /\ unseen(i + 1) \in Nat
      /\ unseen(i) = unseen(i + 1) + CountAtIndex(from_c, from, i)
      /\ from.total_count \in Nat
  BY UnseenNext, UsedFacts
<1>3. CountAtIndex(from_c, from, i) \in Nat
  BY CountedIsTracked
<1>4. /\ count \in Nat /\ value \in Int
      /\ aliased /\ count # 0 => value \in 0 .. c.highest_trackable_value
  <2>1. value \in Int
    BY ValueOfIndex, WordFacts
  <2>2. CASE aliased
    <3>1. CountsFit(c, done.fields) /\ c = from_c
      BY <1>1, <2>2 DEF Sound
    <3> QED
      BY <2>1, <2>2, <3>1, CountedIsTracked
  <2>3. CASE ~aliased
    BY <1>3, <2>1, <2>3
  <2> QED
    BY <2>2, <2>3
<1>5. ~aliased => count = CountAtIndex(from_c, from, i)
  OBVIOUS
<1>6. next = IF done.cumulative_count >= from.total_count \/ count = 0 THEN done
             ELSE [fields |-> recorded.fields,
                   cumulative_count |-> done.cumulative_count + count,
                   dropped |-> done.dropped + lost]
  BY DEF AddVisit
<1>7. CASE done.cumulative_count >= from.total_count \/ count = 0
  <2>1. next = done
    BY <1>6, <1>7
  <2>2. ~aliased => done.cumulative_count + unseen(i + 1) <= from.total_count
    <3> HIDE DEF unseen
    <3> QED
      BY <1>1, <1>2, <1>3
  <2> QED
    BY <1>1, <2>1, <2>2 DEF Walked
<1>8. CASE ~(done.cumulative_count >= from.total_count \/ count = 0)
  <2>1. /\ next.fields = recorded.fields
        /\ next.cumulative_count = done.cumulative_count + count
        /\ next.dropped = done.dropped + lost
    <3> HIDE DEF count, recorded, lost
    <3> QED
      BY <1>6, <1>8
  <2>2. Corrected(c, done.fields, value \in 0 .. c.highest_trackable_value, recorded)
    <3>1. count \in Nat \ {0}
      BY <1>4, <1>8
    <3> HIDE DEF count, value
    <3> QED
      BY <1>1, <1>4, <3>1, CorrectedKeeps DEF value
  <2>3. /\ Sound(c, recorded.fields)
        /\ recorded.fields.normalizing_index_offset = s.normalizing_index_offset
        /\ recorded.accepted \in BOOLEAN
        /\ value \in 0 .. c.highest_trackable_value => recorded.accepted
    <3> HIDE DEF recorded, value
    <3> QED
      BY <1>1, <2>2 DEF Corrected
  <2>4. lost \in 0 .. count /\ (aliased => lost = 0)
    <3> HIDE DEF recorded, value, count
    <3> QED
      BY <1>4, <1>8, <2>3
  <2> HIDE DEF count, recorded, value, lost, unseen
  <2>5. /\ next.cumulative_count \in Nat
        /\ next.dropped \in 0 .. next.cumulative_count
        /\ aliased => next.dropped = 0
    BY <1>1, <1>4, <2>1, <2>4
  <2>6. ~aliased => next.cumulative_count + unseen(i + 1) <= from.total_count
    BY <1>1, <1>2, <1>3, <1>5, <2>1
  <2> QED
    BY <2>1, <2>3, <2>5, <2>6 DEF Walked, unseen
<1> QED
  BY <1>7, <1>8


\* The recursion of the walk, over the first n indexes.
WalkOf(c, s, from_c, from, aliased, interval, n, w) ==
    w = [k \in 0 .. n |->
            IF k = 0 THEN [fields |-> s, cumulative_count |-> 0, dropped |-> 0]
            ELSE AddVisit(c, from_c, from, aliased, interval, w[k - 1], k - 1)]

LEMMA WalkExists ==
    ASSUME NEW c, NEW s, NEW from_c, NEW from, NEW aliased, NEW interval, NEW n \in Nat
    PROVE  \E w : WalkOf(c, s, from_c, from, aliased, interval, n, w)
<1> DEFINE Walk(k, w) == WalkOf(c, s, from_c, from, aliased, interval, k, w)
           start == [fields |-> s, cumulative_count |-> 0, dropped |-> 0]
           next(done, i) == AddVisit(c, from_c, from, aliased, interval, done, i)
           Bad == {k \in 0 .. n : ~ \E w : Walk(k, w)}
<1>1. SUFFICES ASSUME Bad # {} PROVE FALSE
  OBVIOUS
<1>2. PICK k \in Bad : \A j \in Bad : k <= j
  <2>1. Bad \in SUBSET (0 .. n)
    OBVIOUS
  <2> HIDE DEF Bad
  <2> QED
    BY <1>1, <2>1, LeastNatural
<1>3. k # 0
  <2>1. Walk(0, [j \in 0 .. 0 |-> start])
    BY DEF WalkOf
  <2> QED
    BY <1>2, <2>1
<1>4. k \in Nat /\ k > 0 /\ k - 1 \in 0 .. n /\ ~(k <= k - 1)
  BY <1>2, <1>3
<1>5. PICK f : Walk(k - 1, f)
  BY <1>2, <1>4
<1> DEFINE g == [j \in 0 .. k |-> IF j = k THEN next(f[k - 1], k - 1) ELSE f[j]]
<1>6. ASSUME NEW j \in 0 .. k
      PROVE  g[j] = IF j = 0 THEN start ELSE next(g[j - 1], j - 1)
  <2> HIDE DEF start, next
  <2>1. CASE j = k
    BY <1>4, <2>1
  <2>2. CASE j # k
    <3>1. j \in 0 .. (k - 1) /\ g[j] = f[j] /\ (j # 0 => g[j - 1] = f[j - 1])
      BY <1>4, <2>2
    <3>2. f[j] = IF j = 0 THEN start ELSE next(f[j - 1], j - 1)
      BY <1>5, <3>1 DEF WalkOf, start, next
    <3> HIDE DEF g
    <3> QED
      BY <3>1, <3>2
  <2> QED
    BY <2>1, <2>2
<1>7. g = [j \in 0 .. k |-> g[j]]
  OBVIOUS
<1>8. Walk(k, g)
  <2> HIDE DEF g
  <2> QED
    BY <1>6, <1>7 DEF WalkOf
<1> QED
  BY <1>2, <1>8

\* The same recursion as AddFields has it, in tuples.
TupledWalkOf(c, s, from_c, from, aliased, interval, n, t) ==
    t = [k \in 0 .. n |->
            IF k = 0 THEN << [fields |-> s, cumulative_count |-> 0, dropped |-> 0] >>
            ELSE [t[k - 1] EXCEPT
                     ![1] = AddVisit(c, from_c, from, aliased, interval, @, k - 1)]]

LEMMA AddFieldsIs ==
    ASSUME NEW c, NEW s, NEW from_c, NEW from, NEW aliased, NEW interval,
           NEW n \in Nat, n = from_c.counts_len
    PROVE  \E w : /\ WalkOf(c, s, from_c, from, aliased, interval, n, w)
                  /\ AddFields(c, s, from_c, from, aliased, interval) = w[n]
<1> DEFINE start == [fields |-> s, cumulative_count |-> 0, dropped |-> 0]
           next(done, i) == AddVisit(c, from_c, from, aliased, interval, done, i)
           Walk(w) == WalkOf(c, s, from_c, from, aliased, interval, n, w)
           Tupled(t) == TupledWalkOf(c, s, from_c, from, aliased, interval, n, t)
<1>1. \E t : Tupled(t)
  <2>1. PICK w : Walk(w)
    BY WalkExists
  <2> DEFINE t == [k \in 0 .. n |-> << w[k] >>]
  <2>2. ASSUME NEW k \in 0 .. n
        PROVE  t[k] = IF k = 0 THEN << start >>
                      ELSE [t[k - 1] EXCEPT ![1] = next(@, k - 1)]
    <3>1. w[k] = IF k = 0 THEN start ELSE next(w[k - 1], k - 1)
      BY <2>1 DEF WalkOf
    <3>2. k # 0 => t[k - 1] = << w[k - 1] >>
      OBVIOUS
    <3>3. \A a, b : [<< a >> EXCEPT ![1] = b] = << b >>
      OBVIOUS
    <3> HIDE DEF start, next
    <3> QED
      BY <3>1, <3>2, <3>3
  <2>3. t = [k \in 0 .. n |-> t[k]]
    OBVIOUS
  <2> HIDE DEF t
  <2>4. t = [k \in 0 .. n |-> IF k = 0 THEN << start >>
                             ELSE [t[k - 1] EXCEPT ![1] = next(@, k - 1)]]
    <3> DEFINE body(k) == IF k = 0 THEN << start >>
                          ELSE [t[k - 1] EXCEPT ![1] = next(@, k - 1)]
    <3>1. \A k \in 0 .. n : t[k] = body(k)
      BY <2>2
    <3> HIDE DEF body
    <3>2. t = [k \in 0 .. n |-> body(k)]
      BY <2>3, <3>1
    <3> QED
      BY <3>2 DEF body
  <2>5. Tupled(t)
    BY <2>4 DEF TupledWalkOf
  <2> HIDE DEF Tupled
  <2> QED
    BY <2>5
<1>2. PICK t : Tupled(t) /\ AddFields(c, s, from_c, from, aliased, interval) = t[n][1]
  <2>1. AddFields(c, s, from_c, from, aliased, interval)
           = (CHOOSE t : TupledWalkOf(c, s, from_c, from, aliased, interval, n, t))[n][1]
    BY DEF AddFields, TupledWalkOf
  <2> QED
    BY <1>1, <2>1
<1>3. \A k \in 0 .. n : t[k] = IF k = 0 THEN << start >>
                              ELSE [t[k - 1] EXCEPT ![1] = next(t[k - 1][1], k - 1)]
  BY <1>2 DEF TupledWalkOf
<1> HIDE DEF start, next
<1>4. \A k \in 0 .. n : 1 \in DOMAIN t[k]
  <2> DEFINE Bad == {k \in 0 .. n : 1 \notin DOMAIN t[k]}
  <2> SUFFICES ASSUME Bad # {} PROVE FALSE
    OBVIOUS
  <2>1. PICK k \in Bad : \A j \in Bad : k <= j
    <3>1. Bad \in SUBSET (0 .. n)
      OBVIOUS
    <3> HIDE DEF Bad
    <3> QED
      BY <3>1, LeastNatural
  <2>2. k # 0
    <3>1. 0 \in 0 .. n
      OBVIOUS
    <3>2. t[0] = << start >>
      BY <1>3, <3>1
    <3>3. 1 \in DOMAIN t[0]
      BY <3>2
    <3> QED
      BY <2>1, <3>3
  <2>3. k - 1 \in 0 .. n /\ ~(k <= k - 1)
    BY <2>1, <2>2
  <2>4. 1 \in DOMAIN t[k - 1]
    BY <2>1, <2>3
  <2>5. DOMAIN t[k] = DOMAIN t[k - 1]
    BY <1>3, <2>1, <2>2
  <2> QED
    BY <2>1, <2>4, <2>5
<1> DEFINE w == [k \in 0 .. n |-> t[k][1]]
<1>5. ASSUME NEW k \in 0 .. n
      PROVE  w[k] = IF k = 0 THEN start ELSE next(w[k - 1], k - 1)
  <2>1. CASE k = 0
    <3>1. t[k] = << start >>
      BY <1>3, <2>1
    <3> QED
      BY <2>1, <3>1
  <2>2. CASE k # 0
    <3>1. k - 1 \in 0 .. n /\ w[k - 1] = t[k - 1][1]
      BY <2>2
    <3>2. t[k] = [t[k - 1] EXCEPT ![1] = next(t[k - 1][1], k - 1)] /\ 1 \in DOMAIN t[k - 1]
      BY <1>3, <1>4, <2>2, <3>1
    <3>3. t[k][1] = next(t[k - 1][1], k - 1)
      BY <3>2
    <3> QED
      BY <2>2, <3>1, <3>3
  <2> QED
    BY <2>1, <2>2
<1>6. w = [k \in 0 .. n |-> w[k]] /\ w[n] = t[n][1]
  OBVIOUS
<1> HIDE DEF w
<1>7. Walk(w)
  BY <1>5, <1>6 DEF WalkOf, start, next
<1> QED
  BY <1>2, <1>6, <1>7

\* Before the walk nothing is seen.
LEMMA WalkStarts ==
    ASSUME NEW c, NEW s, Sound(c, s), NEW from_c, NEW from, CountsFit(from_c, from),
           IsLayout(from_c), NEW aliased \in BOOLEAN,
           NEW start, start = [fields |-> s, cumulative_count |-> 0, dropped |-> 0]
    PROVE  Walked(c, s, from_c, from, aliased, 0, start)
<1>1. Unseen(from_c, from, 0) = DOMAIN from.counts
  <2>1. 0 .. 0 - 1 = {}
    OBVIOUS
  <2> QED
    BY <2>1 DEF Unseen
<1>2. /\ from.total_count = SumFunctionOnSet(from.counts, Unseen(from_c, from, 0))
      /\ from.total_count \in Nat
  BY <1>1, UsedFacts DEF CountsFit
<1>3. 0 + from.total_count <= from.total_count
  BY <1>2
<1>4. start.fields = s /\ start.cumulative_count = 0 /\ start.dropped = 0
  OBVIOUS
<1>5. 0 \in Nat /\ 0 \in 0 .. 0
  OBVIOUS
<1> QED
  BY <1>2, <1>3, <1>4, <1>5 DEF Walked

LEMMA AddKeeps ==
    ASSUME NEW c, IsLayout(c), NEW s, Sound(c, s),
           NEW from_c, IsLayout(from_c), NEW from, CountsFit(from_c, from),
           NEW aliased \in BOOLEAN, aliased => c = from_c, NEW interval \in Int
    PROVE  Walked(c, s, from_c, from, aliased, from_c.counts_len,
                  AddFields(c, s, from_c, from, aliased, interval))
<1> DEFINE n == from_c.counts_len
           start == [fields |-> s, cumulative_count |-> 0, dropped |-> 0]
           Fine(k, done) == Walked(c, s, from_c, from, aliased, k, done)
<1>1. n \in Nat
  BY UsedFacts
<1>2. PICK w : /\ WalkOf(c, s, from_c, from, aliased, interval, n, w)
               /\ AddFields(c, s, from_c, from, aliased, interval) = w[n]
  BY <1>1, AddFieldsIs
<1> DEFINE Bad == {k \in 0 .. n : ~Fine(k, w[k])}
<1>3. Bad = {}
  <2> SUFFICES ASSUME Bad # {} PROVE FALSE
    OBVIOUS
  <2>1. PICK k \in Bad : \A j \in Bad : k <= j
    <3>1. Bad \in SUBSET (0 .. n)
      OBVIOUS
    <3> HIDE DEF Bad, n
    <3> QED
      BY <1>1, <3>1, LeastNatural
  <2>2. k # 0
    <3>1. w[0] = start
      BY <1>1, <1>2 DEF WalkOf
    <3>2. Fine(0, w[0])
      BY <3>1, WalkStarts
    <3> QED
      BY <2>1, <3>2
  <2>3. /\ k \in Nat /\ k - 1 \in 0 .. n /\ ~(k <= k - 1)
        /\ k - 1 \in 0 .. n - 1 /\ (k - 1) + 1 = k /\ k \in 0 .. n
    BY <1>1, <2>1, <2>2
  <2>4. Fine(k - 1, w[k - 1])
    BY <2>1, <2>3
  <2>5. w[k] = AddVisit(c, from_c, from, aliased, interval, w[k - 1], k - 1)
    BY <1>2, <2>2, <2>3 DEF WalkOf
  <2>6. Fine((k - 1) + 1, w[k])
    BY <2>3, <2>4, <2>5, VisitKeeps
  <2> QED
    BY <2>1, <2>3, <2>6
<1>4. n \in 0 .. n
  BY <1>1
<1> QED
  BY <1>2, <1>3, <1>4


-----------------------------------------------------------------------------
(***************************************************************************)
(* hdr_reset_internal_counters and hdr_reset.                              *)
(***************************************************************************)
LEMMA RecountedFields ==
    ASSUME NEW c, NEW s, IsFields(s), NEW used, used = DOMAIN s.counts,
           NEW u, u = RecountFields(c, s)
    PROVE  /\ IsFields(u) /\ u.counts = s.counts
           /\ u.normalizing_index_offset = s.normalizing_index_offset
           /\ u.total_count = SumFunctionOnSet(s.counts, used)
           /\ u.max_value = IF used = {} THEN 0
                            ELSE HighestEquivalentValue(c, ValueAtIndex(c, Max(used)))
           /\ u.min_value = IF used \ {0} = {} THEN MaxWord
                            ELSE ValueAtIndex(c, Min(used \ {0}))
BY DEF RecountFields, IsFields, BagToSet, SumFunction

\* A recount finds the counts that calls have added up.
LEMMA RecountKeeps ==
    ASSUME NEW c, IsLayout(c), NEW s, Sound(c, s), NEW u, u = RecountFields(c, s)
    PROVE  /\ Sound(c, u)
           /\ u.normalizing_index_offset = s.normalizing_index_offset
           /\ u.total_count = s.total_count
<1> DEFINE used == DOMAIN s.counts
           N == c.counts_len - 1
<1>1. CountsFit(c, s) /\ IsConfig(c) /\ MaxWord \in Nat /\ MaxWord >= 127
  BY WordFacts DEF Sound, IsLayout
<1>2. used \in SUBSET (0 .. N) /\ N \in Nat
  BY <1>1, UsedFacts
<1>3. /\ IsFields(u) /\ u.counts = s.counts
      /\ u.normalizing_index_offset = s.normalizing_index_offset
      /\ u.total_count = SumFunctionOnSet(s.counts, used)
      /\ u.max_value = IF used = {} THEN 0
                       ELSE HighestEquivalentValue(c, ValueAtIndex(c, Max(used)))
      /\ u.min_value = IF used \ {0} = {} THEN MaxWord ELSE ValueAtIndex(c, Min(used \ {0}))
  <2>1. used = DOMAIN s.counts /\ IsFields(s)
    BY <1>1 DEF CountsFit
  <2> HIDE DEF used
  <2> QED
    BY <2>1, RecountedFields
<1>4. u.total_count = s.total_count
  BY <1>1, <1>3 DEF CountsFit
<1>5. CountsFit(c, u)
  <2>1. \A j : NormalizeIndex(c, u, j) = NormalizeIndex(c, s, j)
    BY <1>3 DEF NormalizeIndex
  <2> QED
    BY <1>1, <1>3, <2>1 DEF CountsFit
<1>6. /\ u.max_value \in 0 .. MaxWord
      /\ used = {} => u.max_value = 0
      /\ used # {} => /\ CountsIndexFor(c, u.max_value) \in used
                      /\ \A i \in used : i <= CountsIndexFor(c, u.max_value)
  <2>1. CASE used = {}
    BY <1>1, <1>3, <2>1
  <2>2. CASE used # {}
    <3> DEFINE last == Max(used)
               value == ValueAtIndex(c, last)
               highest == HighestEquivalentValue(c, value)
    <3>1. last \in used /\ \A i \in used : i <= last
      BY <1>2, <2>2, FirstAndLast
    <3>2. last \in 0 .. c.counts_len - 1
      BY <1>2, <3>1
    <3>3. value \in 0 .. MaxWord /\ CountsIndexFor(c, value) = last
      BY <3>2, ValueOfIndex
    <3>4. highest \in 0 .. MaxWord /\ CountsIndexFor(c, highest) = last
      BY <1>1, <3>3, RangeOfValue
    <3>5. u.max_value = highest
      BY <1>3, <2>2
    <3> QED
      BY <2>2, <3>1, <3>4, <3>5
  <2> QED
    BY <2>1, <2>2
<1>7. /\ u.min_value \in 1 .. MaxWord
      /\ used = {} => u.min_value = MaxWord
      /\ used # {} /\ 0 \notin used =>
            /\ CountsIndexFor(c, u.min_value) \in used
            /\ \A i \in used : CountsIndexFor(c, u.min_value) <= i
  <2>1. CASE used \ {0} = {}
    BY <1>1, <1>3, <2>1
  <2>2. CASE used \ {0} # {}
    <3> DEFINE first == Min(used \ {0})
               value == ValueAtIndex(c, first)
    <3>1. first \in used \ {0} /\ \A i \in used \ {0} : first <= i
      <4>1. used \ {0} \in SUBSET (0 .. N)
        BY <1>2
      <4> HIDE DEF used, N
      <4> QED
        BY <1>2, <2>2, <4>1, FirstAndLast
    <3>2. first \in 0 .. c.counts_len - 1 /\ first > 0
      BY <1>2, <3>1
    <3>3. value \in 0 .. MaxWord /\ CountsIndexFor(c, value) = first /\ value > 0
      BY <3>2, ValueOfIndex
    <3>4. u.min_value = value
      BY <1>3, <2>2
    <3> HIDE DEF value, first
    <3>5. u.min_value \in 1 .. MaxWord
      BY <1>1, <3>3, <3>4
    <3> QED
      BY <2>2, <3>1, <3>3, <3>4, <3>5
  <2> QED
    BY <2>1, <2>2
<1>8. ExtremesFit(c, u)
  BY <1>3, <1>6, <1>7 DEF ExtremesFit
<1> QED
  BY <1>3, <1>4, <1>5, <1>8 DEF Sound

\* A histogram that hdr_init or hdr_reset has emptied.
LEMMA EmptyIsSound ==
    ASSUME NEW c, IsLayout(c), NEW offset \in -c.counts_len .. c.counts_len
    PROVE  /\ Sound(c, EmptyFields(offset))
           /\ EmptyFields(offset).total_count = 0
           /\ EmptyFields(offset).normalizing_index_offset = offset
<1> DEFINE s == EmptyFields(offset)
<1>1. /\ IsFields(s) /\ s.total_count = 0 /\ s.min_value = MaxWord /\ s.max_value = 0
      /\ s.normalizing_index_offset = offset /\ s.counts = EmptyBag
  BY DEF EmptyFields, IsFields
<1>2. DOMAIN EmptyBag = {}
  BY DEF EmptyBag, SetToBag
<1> HIDE DEF s
<1>3. CountsFit(c, s)
  BY <1>1, <1>2, SumEmpty DEF CountsFit
<1>4. ExtremesFit(c, s)
  <2>1. MaxWord \in 1 .. MaxWord /\ 0 \in 0 .. MaxWord
    BY WordFacts
  <2> QED
    BY <1>1, <1>2, <2>1 DEF ExtremesFit
<1> QED
  BY <1>1, <1>3, <1>4 DEF Sound, s


-----------------------------------------------------------------------------
(***************************************************************************)
(* The inductive invariant: every histogram is sound with its own          *)
(* configuration, which no call changes.                                   *)
(***************************************************************************)
AllSound(configs, hists) ==
    /\ hists = [h \in Histograms |-> hists[h]]
    /\ \A h \in Histograms :
          /\ IsLayout(configs[h])
          /\ Sound(configs[h], hists[h])
          /\ hists[h].total_count <= MaxTotal

HistogramInv == AllSound(config, hist) /\ returned \in 0 .. MaxTotal \union {1}

LEMMA InitSound == HistogramInit => HistogramInv
<1> SUFFICES ASSUME HistogramInit PROVE HistogramInv
  OBVIOUS
<1>1. PICK offset \in Offsets : hist = [h \in Histograms |-> EmptyFields(offset[h])]
  BY DEF HistogramInit
<1>2. ASSUME NEW h \in Histograms
      PROVE  /\ IsLayout(config[h])
             /\ Sound(config[h], hist[h])
             /\ hist[h].total_count <= MaxTotal
  <2> DEFINE lowest == Arguments[h][1]
             highest == Arguments[h][2]
             figures == Arguments[h][3]
             c == BucketConfig(lowest, highest, figures)
  <2>1. /\ {lowest, highest} \subseteq -MaxWord - 1 .. MaxWord /\ figures \in Int
        /\ figures \in 1 .. 5 => 2 * Pow10[figures] <= MaxWord
        /\ ~Rejected(lowest, highest, figures)
        /\ offset[h] \in -c.counts_len .. c.counts_len
    BY HistogramAssumption
  <2>2. config[h] = c /\ hist[h] = EmptyFields(offset[h])
    BY <1>1 DEF HistogramInit
  <2>3. lowest \in WordRange /\ highest \in WordRange
    BY <2>1, WordFacts DEF WordRange
  <2> HIDE DEF lowest, highest, figures
  <2>4. IsLayout(c)
    BY <2>1, <2>3, BucketConfigFacts, WordFacts DEF IsLayout
  <2> HIDE DEF c
  <2>5. Sound(c, hist[h]) /\ hist[h].total_count = 0
    BY <2>1, <2>2, <2>4, EmptyIsSound
  <2>6. MaxTotal \in Nat
    BY HistogramAssumption
  <2> QED
    BY <2>2, <2>4, <2>5, <2>6
<1>3. hist = [h \in Histograms |-> hist[h]]
  BY <1>1
<1>4. returned \in 0 .. MaxTotal \union {1}
  BY HistogramAssumption DEF HistogramInit
<1> QED
  BY <1>2, <1>3, <1>4 DEF HistogramInv, AllSound

\* A call changes one histogram.
LEMMA OneChanged ==
    ASSUME HistogramInv, NEW h \in Histograms, NEW s, Sound(config[h], s),
           s.total_count <= MaxTotal,
           NEW after, after = [hist EXCEPT ![h] = s]
    PROVE  AllSound(config, after)
<1>1. /\ hist = [g \in Histograms |-> hist[g]]
      /\ \A g \in Histograms :
            IsLayout(config[g]) /\ Sound(config[g], hist[g]) /\ hist[g].total_count <= MaxTotal
  BY DEF HistogramInv, AllSound
<1>2. \A g \in Histograms : after[g] = IF g = h THEN s ELSE hist[g]
  BY <1>1
<1>3. after = [g \in Histograms |-> after[g]]
  BY <1>1
<1> QED
  BY <1>1, <1>2, <1>3 DEF AllSound

LEMMA RecordSound ==
    ASSUME HistogramInv, NEW h \in Histograms, NEW v \in Values, NEW n \in Counts,
           NEW i \in Intervals, Record(h, v, n, i)
    PROVE  HistogramInv'
<1> DEFINE done == RecordCorrectedValues(config[h], hist[h], v, n, i)
<1>1. v \in Int /\ i \in Int /\ n \in Nat \ {0} /\ MaxTotal \in Nat
  BY HistogramAssumption
<1>2. IsLayout(config[h]) /\ Sound(config[h], hist[h]) /\ hist = [g \in Histograms |-> hist[g]]
  BY DEF HistogramInv, AllSound
<1>3. Corrected(config[h], hist[h], v \in 0 .. config[h].highest_trackable_value, done)
  BY <1>1, <1>2, CorrectedKeeps
<1>4. /\ hist' = [hist EXCEPT ![h] = done.fields]
      /\ returned' = IF done.accepted THEN 1 ELSE 0
      /\ config' = config
      /\ \A g \in Histograms : hist'[g].total_count <= MaxTotal
  BY DEF Record, Bounded
<1> HIDE DEF done
<1>5. Sound(config[h], done.fields)
  BY <1>3 DEF Corrected
<1>6. done.fields.total_count <= MaxTotal
  <2>1. hist'[h] = done.fields
    BY <1>2, <1>4
  <2> QED
    BY <1>4, <2>1
<1>7. AllSound(config, hist')
  BY <1>4, <1>5, <1>6, OneChanged
<1>8. returned' \in 0 .. MaxTotal \union {1}
  BY <1>1, <1>4
<1> QED
  BY <1>4, <1>7, <1>8 DEF HistogramInv

LEMMA AddSound ==
    ASSUME HistogramInv, NEW h \in Histograms, NEW from \in Histograms, NEW i \in Intervals,
           Add(h, from, i)
    PROVE  HistogramInv'
<1> DEFINE aliased == h = from
           walk == AddFields(config[h], hist[h], config[from], hist[from], h = from, i)
           n == config[from].counts_len
<1>1. i \in Int /\ MaxTotal \in Nat
  BY HistogramAssumption
<1>2. /\ IsLayout(config[h]) /\ Sound(config[h], hist[h]) /\ hist = [g \in Histograms |-> hist[g]]
      /\ IsLayout(config[from]) /\ CountsFit(config[from], hist[from])
      /\ hist[from].total_count <= MaxTotal
  BY DEF HistogramInv, AllSound, Sound
<1>3. aliased \in BOOLEAN /\ (aliased => config[h] = config[from])
  OBVIOUS
<1>4. Walked(config[h], hist[h], config[from], hist[from], aliased, n, walk)
  <2> HIDE DEF n
  <2> QED
    BY <1>1, <1>2, <1>3, AddKeeps DEF n
<1>5. /\ hist' = [hist EXCEPT ![h] = walk.fields]
      /\ returned' = walk.dropped
      /\ config' = config
      /\ \A g \in Histograms : hist'[g].total_count <= MaxTotal
  BY DEF Add, Bounded
<1> HIDE DEF walk, n
<1>6. /\ Sound(config[h], walk.fields)
      /\ walk.cumulative_count \in Nat /\ walk.dropped \in 0 .. walk.cumulative_count
      /\ aliased => walk.dropped = 0
      /\ ~aliased => walk.cumulative_count
                       + SumFunctionOnSet(hist[from].counts, Unseen(config[from], hist[from], n))
                          <= hist[from].total_count
  BY <1>4 DEF Walked
<1>7. walk.dropped \in 0 .. MaxTotal
  <2> DEFINE rest == SumFunctionOnSet(hist[from].counts, Unseen(config[from], hist[from], n))
  <2>1. rest \in Nat /\ hist[from].total_count \in Nat
    <3>1. IsFiniteSet(DOMAIN hist[from].counts) /\ hist[from].total_count \in Nat
      BY <1>2, UsedFacts
    <3>2. Unseen(config[from], hist[from], n) \subseteq DOMAIN hist[from].counts
      BY DEF Unseen
    <3>3. \A x \in Unseen(config[from], hist[from], n) : hist[from].counts[x] \in Nat
      BY <1>2, <3>2 DEF CountsFit
    <3>4. IsFiniteSet(Unseen(config[from], hist[from], n))
      BY <3>1, <3>2, FS_Subset
    <3> QED
      BY <3>1, <3>3, <3>4, SumNat
  <2> HIDE DEF rest, aliased
  <2>2. ~aliased => walk.cumulative_count + rest <= hist[from].total_count
    BY <1>6 DEF rest
  <2> QED
    BY <1>1, <1>2, <1>6, <2>1, <2>2
<1>8. walk.fields.total_count <= MaxTotal
  <2>1. hist'[h] = walk.fields
    BY <1>2, <1>5
  <2> QED
    BY <1>5, <2>1
<1>9. AllSound(config, hist')
  BY <1>5, <1>6, <1>8, OneChanged
<1> QED
  BY <1>5, <1>7, <1>9 DEF HistogramInv

LEMMA RecountSound ==
    ASSUME HistogramInv, NEW h \in Histograms, ResetInternalCounters(h)
    PROVE  HistogramInv'
<1> DEFINE s == RecountFields(config[h], hist[h])
<1>1. /\ IsLayout(config[h]) /\ Sound(config[h], hist[h])
      /\ hist[h].total_count <= MaxTotal /\ MaxTotal \in Nat
  BY HistogramAssumption DEF HistogramInv, AllSound
<1>2. Sound(config[h], s) /\ s.total_count <= MaxTotal
  BY <1>1, RecountKeeps
<1>3. hist' = [hist EXCEPT ![h] = s] /\ returned' = 0 /\ config' = config
  BY DEF ResetInternalCounters
<1> HIDE DEF s
<1>4. AllSound(config, hist')
  BY <1>2, <1>3, OneChanged
<1>5. returned' \in 0 .. MaxTotal \union {1}
  BY <1>1, <1>3
<1> QED
  BY <1>3, <1>4, <1>5 DEF HistogramInv

LEMMA ResetSound ==
    ASSUME HistogramInv, NEW h \in Histograms, Reset(h)
    PROVE  HistogramInv'
<1> DEFINE offset == hist[h].normalizing_index_offset
           s == EmptyFields(offset)
<1>1. /\ IsLayout(config[h]) /\ Sound(config[h], hist[h]) /\ MaxTotal \in Nat
      /\ offset \in -config[h].counts_len .. config[h].counts_len
  BY HistogramAssumption DEF HistogramInv, AllSound, Sound, CountsFit
<1>2. hist' = [hist EXCEPT ![h] = s] /\ returned' = 0 /\ config' = config
  BY DEF Reset
<1> HIDE DEF offset
<1>3. Sound(config[h], s) /\ s.total_count <= MaxTotal
  BY <1>1, EmptyIsSound
<1> HIDE DEF s
<1>4. AllSound(config, hist')
  BY <1>2, <1>3, OneChanged
<1>5. returned' \in 0 .. MaxTotal \union {1}
  BY <1>1, <1>2
<1> QED
  BY <1>2, <1>4, <1>5 DEF HistogramInv

LEMMA NextSound == HistogramInv /\ [HistogramNext]_histogram_vars => HistogramInv'
<1> SUFFICES ASSUME HistogramInv, [HistogramNext]_histogram_vars PROVE HistogramInv'
  OBVIOUS
<1>1. CASE HistogramNext
  <2>1. PICK h \in Histograms :
           \/ \E v \in Values, n \in Counts, i \in Intervals : Record(h, v, n, i)
           \/ \E from \in Histograms, i \in Intervals : Add(h, from, i)
           \/ ResetInternalCounters(h)
           \/ Reset(h)
    BY <1>1 DEF HistogramNext
  <2>2. CASE \E v \in Values, n \in Counts, i \in Intervals : Record(h, v, n, i)
    BY <2>2, RecordSound
  <2>3. CASE \E from \in Histograms, i \in Intervals : Add(h, from, i)
    BY <2>3, AddSound
  <2>4. CASE ResetInternalCounters(h)
    BY <2>4, RecountSound
  <2>5. CASE Reset(h)
    BY <2>5, ResetSound
  <2> QED
    BY <2>1, <2>2, <2>3, <2>4, <2>5
<1>2. CASE UNCHANGED histogram_vars
  BY <1>2 DEF histogram_vars, HistogramInv, AllSound
<1> QED
  BY <1>1, <1>2

LEMMA AlwaysSound == HistogramSpec => []HistogramInv
BY InitSound, NextSound, PTL DEF HistogramSpec

-----------------------------------------------------------------------------
(***************************************************************************)
(* The theorems.                                                           *)
(***************************************************************************)

\* The counts of a histogram are within its array whatever is recorded in it, added to it
\* or refused by it, 0 is never its minimum, and an addition drops no more than there was.
THEOREM HistogramTypeCorrect == HistogramSpec => []HistogramTypeOK
<1>1. HistogramInv => HistogramTypeOK
  <2> SUFFICES ASSUME HistogramInv PROVE HistogramTypeOK
    OBVIOUS
  <2>1. ASSUME NEW h \in Histograms
        PROVE  /\ BagToSet(hist[h].counts) \subseteq Indexes(config[h])
               /\ hist[h].total_count \in 0 .. MaxTotal
               /\ hist[h].min_value \in 1 .. MaxWord
               /\ hist[h].max_value \in 0 .. MaxWord
    <3>1. IsLayout(config[h]) /\ Sound(config[h], hist[h]) /\ hist[h].total_count <= MaxTotal
      BY DEF HistogramInv, AllSound
    <3>2. CountsFit(config[h], hist[h]) /\ ExtremesFit(config[h], hist[h])
      BY <3>1 DEF Sound
    <3>3. /\ DOMAIN hist[h].counts \subseteq 0 .. config[h].counts_len - 1
          /\ hist[h].total_count \in Nat
      BY <3>1, <3>2, UsedFacts
    <3>4. hist[h].total_count \in 0 .. MaxTotal
      BY <3>1, <3>3, HistogramAssumption
    <3> QED
      BY <3>2, <3>3, <3>4 DEF BagToSet, Indexes, ExtremesFit
  <2>2. returned \in 0 .. MaxTotal \union {1}
    BY DEF HistogramInv
  <2> QED
    BY <2>1, <2>2 DEF HistogramTypeOK
<1> QED
  BY <1>1, AlwaysSound, PTL

\* After every call total_count is the sum of the counts: a refused value, one that is
\* corrected for, an addition that drops some values, one to itself, and a recount all keep
\* the two together.
THEOREM TotalIsSumCorrect == HistogramSpec => []TotalIsSum
<1>1. HistogramInv => TotalIsSum
  BY DEF HistogramInv, AllSound, Sound, CountsFit, TotalIsSum, SumFunction
<1> QED
  BY <1>1, AlwaysSound, PTL

\* hdr_min and hdr_max find the lowest and the highest range that has a count, of every
\* histogram without an offset, however its counts came to be.
THEOREM ExtremesAgreeCorrect == HistogramSpec => []ExtremesAgree
<1>1. ASSUME NEW c, IsLayout(c), NEW s, Sound(c, s), s.normalizing_index_offset = 0,
             NEW used, used = BagToSet(s.counts)
      PROVE  IF used = {} THEN HdrMin(c, s) = MaxWord /\ HdrMax(c, s) = 0
             ELSE /\ CountsIndexFor(c, HdrMin(c, s)) = Min(used)
                  /\ CountsIndexFor(c, HdrMax(c, s)) = Max(used)
  <2> DEFINE low == LowestEquivalentValue(c, s.min_value)
             high == HighestEquivalentValue(c, s.max_value)
             N == c.counts_len - 1
  <2>1. used = DOMAIN s.counts /\ CountsFit(c, s) /\ IsConfig(c)
    BY <1>1 DEF BagToSet, Sound, IsLayout
  <2>2. /\ s.min_value \in 1 .. MaxWord /\ s.max_value \in 0 .. MaxWord
        /\ used = {} => s.min_value = MaxWord /\ s.max_value = 0
        /\ used # {} => CountsIndexFor(c, s.max_value) \in used
                        /\ \A i \in used : i <= CountsIndexFor(c, s.max_value)
        /\ used # {} /\ 0 \notin used =>
              CountsIndexFor(c, s.min_value) \in used
              /\ \A i \in used : CountsIndexFor(c, s.min_value) <= i
    BY <1>1, <2>1 DEF Sound, ExtremesFit
  <2>3. used \in SUBSET (0 .. N) /\ N \in Nat /\ 0 \in 0 .. N
    BY <1>1, <2>1, UsedFacts
  <2>4. CountAtIndex(c, s, 0) > 0 <=> 0 \in used
    <3>1. NormalizeIndex(c, s, 0) = 0
      BY <1>1 DEF NormalizeIndex
    <3>2. \A i \in used : s.counts[i] \in Nat \ {0}
      BY <2>1 DEF CountsFit
    <3> QED
      BY <2>1, <3>1, <3>2 DEF CountAtIndex, BagToSet
  <2>5. /\ CountsIndexFor(c, low) = CountsIndexFor(c, s.min_value)
        /\ CountsIndexFor(c, high) = CountsIndexFor(c, s.max_value)
    <3>1. s.min_value \in 0 .. MaxWord
      BY <2>2, WordFacts
    <3> QED
      BY <2>1, <2>2, <3>1, RangeOfValue
  <2> HIDE DEF low, high, N
  <2>6. /\ HdrMin(c, s) = IF 0 \in used THEN 0
                          ELSE IF s.min_value = MaxWord THEN MaxWord ELSE low
        /\ HdrMax(c, s) = IF s.max_value = 0 THEN 0 ELSE high
    BY <2>4 DEF HdrMin, HdrMax, low, high
  <2>7. CASE used = {}
    BY <2>2, <2>6, <2>7
  <2>8. CASE used # {}
    <3>1. CountsIndexFor(c, HdrMax(c, s)) = Max(used)
      <4>1. CountsIndexFor(c, HdrMax(c, s)) = CountsIndexFor(c, s.max_value)
        BY <2>5, <2>6
      <4>2. Max(used) = CountsIndexFor(c, s.max_value)
        <5>1. used \in SUBSET Int
          BY <2>3
        <5> QED
          BY <2>2, <2>8, <5>1, GreatestIs
      <4> QED
        BY <4>1, <4>2
    <3>2. CASE 0 \in used
      <4>1. Min(used) = 0
        <5>1. used \in SUBSET Int /\ \A i \in used : 0 <= i
          BY <2>3
        <5> QED
          BY <3>2, <5>1, LeastIs
      <4>2. CountsIndexFor(c, 0) = 0
        BY <1>1, ZeroIsFirst
      <4> QED
        BY <2>6, <2>8, <3>1, <3>2, <4>1, <4>2
    <3>3. CASE 0 \notin used
      <4>1. CountsIndexFor(c, HdrMin(c, s)) = CountsIndexFor(c, s.min_value)
        BY <2>5, <2>6, <3>3
      <4>2. Min(used) = CountsIndexFor(c, s.min_value)
        <5>1. used \in SUBSET Int
          BY <2>3
        <5> QED
          BY <2>2, <2>8, <3>3, <5>1, LeastIs
      <4> QED
        BY <2>8, <3>1, <4>1, <4>2
    <3> QED
      BY <3>2, <3>3
  <2> QED
    BY <2>7, <2>8
<1>2. HistogramInv => ExtremesAgree
  BY <1>1 DEF HistogramInv, AllSound, ExtremesAgree
<1> QED
  BY <1>2, AlwaysSound, PTL

-----------------------------------------------------------------------------
(***************************************************************************)
(* The bag of a histogram.  BagOf is the bag of the values at the indexes  *)
(* of an array, each as often as the array says.                           *)
(***************************************************************************)
Array(c) == 0 .. c.counts_len - 1

BagOf(c, f) ==
    [v \in {ValueAtIndex(c, i) : i \in {i \in Array(c) : f[i] # 0}} |-> f[CountsIndexFor(c, v)]]

CountsOf(c, s) == [i \in Array(c) |-> CountAtIndex(c, s, i)]

\* The operators that HistogramContract has from the libraries.
LEMMA SameOperators ==
    ASSUME NEW B, NEW C
    PROVE  /\ Contract!(+)(B, C) = B (+) C
           /\ Contract!Cardinality(B) = Cardinality(B)
           /\ Contract!SumFunctionOnSet(B, C) = SumFunctionOnSet(B, C)
           /\ Contract!SumFunction(B) = SumFunctionOnSet(B, DOMAIN B)
           /\ Contract!Min(B) = Min(B)
           /\ Contract!BagToSet(B) = DOMAIN B
<1>1. Contract!(+)(B, C) = B (+) C
  BY DEF Contract!(+), (+)
<1>2. Contract!Cardinality(B) = Cardinality(B)
  BY DEF Contract!Cardinality, Cardinality
<1>3. ASSUME NEW D PROVE Contract!SumFunctionOnSet(B, D) = SumFunctionOnSet(B, D)
  BY DEF Contract!SumFunctionOnSet, SumFunctionOnSet, Contract!FoldFunctionOnSet,
         FoldFunctionOnSet, MapThenFoldSet, Contract!MapThenFoldSet
<1>4. Contract!SumFunction(B) = SumFunctionOnSet(B, DOMAIN B)
  BY <1>3 DEF Contract!SumFunction
<1>5. Contract!Min(B) = Min(B)
  BY DEF Contract!Min, Min
<1>6. Contract!BagToSet(B) = DOMAIN B
  BY DEF Contract!BagToSet
<1> QED
  BY <1>1, <1>2, <1>3, <1>4, <1>5, <1>6

\* A cell of the array belongs to the index that is normalized to it.
LEMMA CellOfIndex ==
    ASSUME NEW c, c.counts_len \in Nat, NEW s,
           s.normalizing_index_offset \in -c.counts_len .. c.counts_len,
           NEW i \in 0 .. c.counts_len - 1
    PROVE  (NormalizeIndex(c, s, i) + s.normalizing_index_offset) % c.counts_len = i
<1> DEFINE n == c.counts_len
           offset == s.normalizing_index_offset
           cell == NormalizeIndex(c, s, i)
<1>1. cell + offset = i \/ cell + offset = i + n \/ cell + offset = i - n
  BY DEF NormalizeIndex
<1> HIDE DEF cell, offset, n
<1>2. n \in Nat \ {0} /\ i \in 0 .. n - 1
  BY DEF n
<1>3. /\ i % n = i - n * 0
      /\ (i + n) % n = (i + n) - n * 1
      /\ (i - n) % n = (i - n) - n * (-1)
  <2>1. ASSUME NEW q \in Int, NEW x \in Int, n * q <= x, x < n * q + n
        PROVE  x % n = x - n * q
    BY <1>2, <2>1, Quotient
  <2>2. i % n = i - n * 0
    BY <1>2, <2>1
  <2>3. (i + n) % n = (i + n) - n * 1
    BY <1>2, <2>1
  <2>4. (i - n) % n = (i - n) - n * (-1)
    BY <1>2, <2>1
  <2> QED
    BY <2>2, <2>3, <2>4
<1>4. i % n = i /\ (i + n) % n = i /\ (i - n) % n = i
  BY <1>2, <1>3
<1> QED
  BY <1>1, <1>4 DEF cell, offset, n

\* The bag that Histogram names is that of the counts at the indexes.
LEMMA BagIs ==
    ASSUME NEW c, IsLayout(c), NEW s, CountsFit(c, s)
    PROVE  Bag(c, s) = BagOf(c, CountsOf(c, s)) /\ CountsOf(c, s) \in [Array(c) -> Nat]
<1> DEFINE used == DOMAIN s.counts
           cell(i) == NormalizeIndex(c, s, i)
           value(x) == ValueAtIndex(c, (x + s.normalizing_index_offset) % c.counts_len)
           f == CountsOf(c, s)
           some == {i \in Array(c) : f[i] # 0}
<1>1. /\ c.counts_len \in Nat /\ LastIndex(c) \in Array(c)
      /\ s.normalizing_index_offset \in -c.counts_len .. c.counts_len
      /\ \A x \in used : s.counts[x] \in Nat \ {0}
      /\ \A x \in used : \E j \in 0 .. LastIndex(c) : x = cell(j)
  BY UsedFacts DEF CountsFit, Array
<1>2. \A i \in Array(c) : value(cell(i)) = ValueAtIndex(c, i)
  BY <1>1, CellOfIndex DEF Array
<1>3. \A i \in Array(c) : f[i] = IF cell(i) \in used THEN s.counts[cell(i)] ELSE 0
  BY DEF CountAtIndex, BagToSet, CountsOf
<1>4. \A i \in Array(c) : CountsIndexFor(c, ValueAtIndex(c, i)) = i
  BY ValueOfIndex DEF Array
<1>5. f \in [Array(c) -> Nat]
  <2>1. \A i \in Array(c) : CountAtIndex(c, s, i) \in Nat
    BY CountedIsTracked DEF Array
  <2> QED
    BY <2>1 DEF CountsOf
<1>6. \A x \in used : \E i \in some : x = cell(i)
  <2> SUFFICES ASSUME NEW x \in used PROVE \E i \in some : x = cell(i)
    OBVIOUS
  <2>1. PICK j \in 0 .. LastIndex(c) : x = cell(j)
    BY <1>1
  <2>2. j \in Array(c)
    BY <1>1 DEF Array
  <2>3. f[j] = s.counts[x] /\ s.counts[x] # 0
    BY <1>1, <1>3, <2>1, <2>2
  <2> HIDE DEF f, cell
  <2> QED
    BY <2>1, <2>2, <2>3
<1>7. \A i \in some : i \in Array(c) /\ cell(i) \in used /\ f[i] = s.counts[cell(i)]
  <2> HIDE DEF f, cell, used
  <2> QED
    BY <1>3
<1> HIDE DEF f, some, cell, used, value
<1>8. {value(x) : x \in used} = {ValueAtIndex(c, i) : i \in some}
  BY <1>2, <1>6, <1>7
<1>9. ASSUME NEW v \in {value(x) : x \in used}
      PROVE  s.counts[CHOOSE x \in used : value(x) = v] = f[CountsIndexFor(c, v)]
  <2>1. PICK x \in used : value(x) = v /\ x = CHOOSE y \in used : value(y) = v
    OBVIOUS
  <2>2. PICK i \in some : x = cell(i)
    BY <1>6
  <2>3. v = ValueAtIndex(c, i) /\ CountsIndexFor(c, v) = i
    BY <1>2, <1>4, <1>7, <2>1, <2>2
  <2> QED
    BY <1>7, <2>1, <2>2, <2>3
<1>10. Bag(c, s) = [v \in {value(x) : x \in used} |->
                       s.counts[CHOOSE x \in used : value(x) = v]]
  BY DEF Bag, BagToSet, value, used
<1>11. BagOf(c, f) = [v \in {ValueAtIndex(c, i) : i \in some} |-> f[CountsIndexFor(c, v)]]
  BY DEF BagOf, some
<1>12. Bag(c, s) = BagOf(c, f)
  BY <1>8, <1>9, <1>10, <1>11
<1> QED
  BY <1>5, <1>12 DEF f

\* The counts of two arrays add up to those of their bags.
LEMMA BagOfSum ==
    ASSUME NEW c, IsLayout(c), NEW f \in [Array(c) -> Nat], NEW g \in [Array(c) -> Nat],
           NEW both, both = [i \in Array(c) |-> f[i] + g[i]]
    PROVE  BagOf(c, both) = BagOf(c, f) (+) BagOf(c, g)
<1> DEFINE at(i) == ValueAtIndex(c, i)
           index(v) == CountsIndexFor(c, v)
           some(a) == {i \in Array(c) : a[i] # 0}
           values(a) == {at(i) : i \in some(a)}
<1>1. \A i \in Array(c) : index(at(i)) = i
  BY ValueOfIndex DEF Array
<1>2. \A a : BagOf(c, a) = [v \in values(a) |-> a[index(v)]]
  BY DEF BagOf
<1>3. \A i \in Array(c) : f[i] \in Nat /\ g[i] \in Nat /\ both[i] = f[i] + g[i]
  OBVIOUS
<1>4. \A i \in Array(c) : i \in some(both) <=> i \in some(f) \/ i \in some(g)
  <2>1. \A x, y \in Nat : x + y # 0 <=> x # 0 \/ y # 0
    OBVIOUS
  <2> QED
    BY <1>3, <2>1
<1>5. \A a : \A i \in some(a) : i \in Array(c)
  OBVIOUS
<1>6. \A a : \A i \in Array(c) : i \in some(a) <=> a[i] # 0
  OBVIOUS
<1> HIDE DEF at, index, some
<1>7. values(both) = values(f) \union values(g)
  BY <1>4, <1>5
<1>8. \A v : v \in values(both) => index(v) \in Array(c) /\ v = at(index(v))
  BY <1>1, <1>5
<1>9. \A a : \A i \in Array(c) : at(i) \in values(a) <=> i \in some(a)
  BY <1>1, <1>5
<1> HIDE DEF values
<1>10. ASSUME NEW v \in values(f) \union values(g)
       PROVE  both[index(v)] = (IF v \in values(f) THEN f[index(v)] ELSE 0)
                                  + (IF v \in values(g) THEN g[index(v)] ELSE 0)
  <2>1. index(v) \in Array(c) /\ v = at(index(v))
    BY <1>7, <1>8
  <2>2. /\ v \in values(f) <=> f[index(v)] # 0
        /\ v \in values(g) <=> g[index(v)] # 0
    BY <1>6, <1>9, <2>1
  <2> QED
    BY <1>3, <2>1, <2>2
<1>11. BagOf(c, f) (+) BagOf(c, g) = [v \in values(f) \union values(g) |->
                                        (IF v \in values(f) THEN f[index(v)] ELSE 0)
                                          + (IF v \in values(g) THEN g[index(v)] ELSE 0)]
  BY <1>2 DEF (+)
<1>12. BagOf(c, both) = [v \in values(f) \union values(g) |-> both[index(v)]]
  BY <1>2, <1>7
<1> QED
  BY <1>10, <1>11, <1>12, Zenon


-----------------------------------------------------------------------------
(***************************************************************************)
(* Rounding.                                                               *)
(***************************************************************************)
ConfigOf(h) == BucketConfig(Arguments[h][1], Arguments[h][2], Arguments[h][3])

LEMMA ConfigOfFacts ==
    ASSUME NEW h \in Histograms, NEW c, c = ConfigOf(h)
    PROVE  /\ IsLayout(c)
           /\ c.highest_trackable_value = Arguments[h][2]
           /\ c.unit_magnitude = UnitMagnitude(Arguments[h][1])
           /\ c.sub_bucket_half_count = Pow2[SubBucketHalfCountMagnitude(Arguments[h][3])]
<1> DEFINE lowest == Arguments[h][1]
           highest == Arguments[h][2]
           figures == Arguments[h][3]
<1>1. /\ {lowest, highest} \subseteq -MaxWord - 1 .. MaxWord /\ figures \in Int
      /\ figures \in 1 .. 5 => 2 * Pow10[figures] <= MaxWord
      /\ ~Rejected(lowest, highest, figures)
  BY HistogramAssumption
<1>2. lowest \in WordRange /\ highest \in WordRange
  BY <1>1, WordFacts DEF WordRange
<1>3. c = BucketConfig(lowest, highest, figures)
  BY DEF ConfigOf
<1> HIDE DEF lowest, highest, figures
<1>4. IsLayout(c) /\ IsConfig(c)
  BY <1>1, <1>2, <1>3, BucketConfigFacts, WordFacts DEF IsLayout
<1>5. /\ c.highest_trackable_value = highest
      /\ c.unit_magnitude = UnitMagnitude(lowest)
      /\ c.sub_bucket_half_count_magnitude = SubBucketHalfCountMagnitude(figures)
  BY <1>3 DEF BucketConfig
<1> QED
  BY <1>4, <1>5 DEF IsConfig, lowest, highest, figures

\* A value is rounded to the lowest one that is counted at its index.
LEMMA RoundIs ==
    ASSUME NEW h \in Histograms, NEW c, c = ConfigOf(h), NEW v \in 0 .. MaxWord
    PROVE  Contract!Round(h, v) = ValueAtIndex(c, CountsIndexFor(c, v))
<1> DEFINE u == c.unit_magnitude
           half == c.sub_bucket_half_count
           steps == {step \in {Pow2[k] : k \in u .. WordBits} : v < (2 * half) * step}
<1>1. IsConfig(c) /\ Contract!Step(h, v) = Min(steps)
  <2>1. /\ Resolutions[h] = {Pow2[k] : k \in u .. WordBits}
        /\ SubBucketCounts[h] = 2 * half
    BY ConfigOfFacts DEF Resolutions, SubBucketCounts
  <2>2. Contract!Step(h, v) = Contract!Min(steps)
    BY <2>1 DEF Contract!Step
  <2> QED
    BY <2>2, SameOperators, ConfigOfFacts DEF IsLayout
<1>2. PICK b, s : Place(c, v, b, s)
  BY <1>1, PlaceExists
<1> DEFINE W == Width(c, b)
<1>3. /\ b \in Buckets(c) /\ s \in SubBuckets(c, b)
      /\ W * s <= v /\ v < W * s + W
  BY <1>2 DEF Place
<1>4. /\ W \in Nat \ {0} /\ half \in Nat \ {0} /\ s \in Nat /\ u \in Nat /\ b \in Nat
      /\ s < 2 * half /\ (b > 0 => half <= s)
      /\ b + u \in u .. WordBits /\ W = Pow2[b + u]
  <2>1. b + u + c.sub_bucket_half_count_magnitude + 1 <= WordBits - 1
        /\ c.sub_bucket_half_count_magnitude \in Nat /\ u \in Nat /\ b \in Nat
    BY <1>1, <1>3 DEF Buckets, IsConfig
  <2>2. b + u \in u .. WordBits
    BY <2>1, WordFacts
  <2> QED
    BY <1>1, <1>3, <2>1, <2>2, WidthFacts DEF SubBuckets, Width
<1> HIDE DEF W, u, half
<1>5. W \in steps
  <2>1. \A w, x, n \in Nat : x < n => w * x + w <= n * w
    <3>1. \A w, x, n \in Nat : x < n => (x + 1) * w <= n * w
      BY Z3
    <3>2. \A w, x \in Nat : (x + 1) * w = w * x + w
      BY Z3
    <3> QED
      BY <3>1, <3>2
  <2>2. W * s + W <= (2 * half) * W
    BY <1>4, <2>1
  <2>3. v < (2 * half) * W
    <3>1. (2 * half) * W \in Nat /\ W * s + W \in Nat
      BY <1>4
    <3> QED
      BY <1>3, <2>2, <3>1
  <2> QED
    BY <1>4, <2>3
<1>6. ASSUME NEW x \in steps PROVE W <= x
  <2>1. PICK k \in u .. WordBits : x = Pow2[k]
    OBVIOUS
  <2>2. k \in Nat /\ k \in Exponents /\ b + u \in Exponents /\ x \in Nat
    BY <1>4, <2>1, WordFacts
  <2>3. CASE b + u <= k
    BY <1>4, <2>1, <2>2, <2>3, Pow2Grows
  <2>4. CASE k < b + u
    <3>1. 2 * x <= W
      BY <1>4, <2>1, <2>2, <2>4, Pow2Less
    <3>2. half <= s
      BY <1>4, <2>2, <2>4
    <3>3. \A w, n, y, z \in Nat : 2 * y <= w /\ n <= z => (2 * n) * y <= w * z
      <4>1. \A w, n, y \in Nat : 2 * y <= w => n * (2 * y) <= n * w
        BY Z3
      <4>2. \A w, n, z \in Nat : n <= z => n * w <= w * z
        BY Z3
      <4>3. \A n, y \in Nat : (2 * n) * y = n * (2 * y)
        BY Z3
      <4>4. SUFFICES ASSUME NEW w \in Nat, NEW n \in Nat, NEW y \in Nat, NEW z \in Nat,
                            2 * y <= w, n <= z
                     PROVE  (2 * n) * y <= w * z
        OBVIOUS
      <4>5. n * (2 * y) <= n * w /\ n * w <= w * z /\ (2 * n) * y = n * (2 * y)
        BY <4>1, <4>2, <4>3, <4>4
      <4>6. n * w \in Nat /\ w * z \in Nat /\ n * (2 * y) \in Nat
        OBVIOUS
      <4> QED
        BY <4>5, <4>6
    <3>4. (2 * half) * x <= W * s
      BY <1>4, <2>2, <3>1, <3>2, <3>3
    <3>5. (2 * half) * x \in Nat /\ W * s \in Nat
      BY <1>4, <2>2
    <3> QED
      BY <1>3, <3>4, <3>5
  <2> QED
    BY <1>4, <2>2, <2>3, <2>4
<1>7. Contract!Step(h, v) = W
  <2>1. steps \in SUBSET Int
    <3>1. \A k \in u .. WordBits : Pow2[k] \in Int
      BY <1>4, WordFacts
    <3> QED
      BY <3>1
  <2> HIDE DEF steps
  <2> QED
    BY <1>1, <1>5, <1>6, <2>1, LeastIs
<1>8. v % W = v - W * s
  <2>1. v \in Int /\ s \in Int
    BY <1>4
  <2>2. W * s <= v /\ v < W * s + W /\ W \in Nat \ {0}
    BY <1>3, <1>4
  <2> HIDE DEF steps
  <2> QED
    BY <2>1, <2>2, Quotient
<1>9. Contract!Round(h, v) = W * s
  <2>1. Contract!Round(h, v) = v - (v % W)
    BY <1>7 DEF Contract!Round
  <2>2. \A x, y \in Int : x - (x - y) = y
    OBVIOUS
  <2>3. W * s \in Int
    BY <1>4
  <2> QED
    BY <1>8, <2>1, <2>2, <2>3
<1>10. LowestEquivalentValue(c, v) = W * s
  BY <1>1, <1>2, EquivalentRange DEF W
<1> QED
  BY <1>1, <1>9, <1>10, RangeOfValue


-----------------------------------------------------------------------------
(***************************************************************************)
(* A corrected call records, one after the other, what the contract says   *)
(* at once that it stands for.                                             *)
(***************************************************************************)
Filled(value, interval) == Contract!Filled(value, interval)

Enumerates(seq, n, W) ==
    /\ DOMAIN seq = 1 .. n
    /\ \A k \in 1 .. n : seq[k] \in W
    /\ \A j, k \in 1 .. n : seq[j] = seq[k] => j = k
    /\ \A w \in W : \E k \in 1 .. n : seq[k] = w

LEMMA RowIsFilled ==
    ASSUME NEW value \in Int, NEW interval \in Int, NEW seq, seq = Row(value, interval)
    PROVE  \E n \in Nat \ {0} : Enumerates(seq, n, Filled(value, interval))
<1> DEFINE between == {v \in interval .. value - interval : (value - v) % interval = 0}
<1>1. PICK n \in Nat \ {0} :
         /\ DOMAIN seq = 1 .. n /\ seq[1] = value
         /\ n = IF interval <= 0 \/ value <= interval THEN 1 ELSE value \div interval
         /\ \A k \in 2 .. n : seq[k] = value - (k - 1) * interval
  <2>1. \E n \in Nat \ {0} : Descends(value, interval, seq, n)
    BY MissingFacts
  <2> QED
    BY <2>1 DEF Descends
<1>2. Filled(value, interval) = {value} \union (IF interval <= 0 THEN {} ELSE between)
  BY DEF Filled, Contract!Filled
<1> HIDE DEF between
<1>3. CASE interval <= 0 \/ value <= interval
  <2>1. Filled(value, interval) = {value}
    <3>1. ASSUME ~(interval <= 0) PROVE between = {}
      <4>1. interval .. value - interval = {}
        BY <1>3, <3>1
      <4> QED
        BY <4>1 DEF between
    <3> QED
      BY <1>2, <3>1
  <2>2. n = 1 /\ 1 .. 1 = {1}
    BY <1>1, <1>3
  <2> QED
    BY <1>1, <2>1, <2>2 DEF Enumerates
<1>4. CASE ~(interval <= 0 \/ value <= interval)
  <2> DEFINE d == interval
  <2>1. d \in Nat \ {0} /\ value \in Nat /\ d < value
    BY <1>4
  <2>2. PICK r \in Nat : value = d * n + r /\ r < d
    <3>1. n = value \div d
      BY <1>1, <1>4
    <3> QED
      BY <2>1, <3>1, Division
  <2>3. \A k \in Nat : k * d \in Nat
    BY <2>1
  <2>4. ASSUME NEW k \in 2 .. n PROVE seq[k] \in between
    <3> DEFINE m == (k - 1) * d
    <3>1. k - 1 \in Nat /\ k - 1 >= 1 /\ k <= n /\ seq[k] = value - m
      BY <1>1
    <3>2. m \in Nat /\ m >= d /\ m + d <= value
      <4>1. \A x, y \in Nat : 1 <= y => y * x >= x
        BY Z3
      <4>2. \A x, y, z \in Nat : y + 1 <= z => y * x + x <= x * z
        <5>1. \A x, y, z \in Nat : y + 1 <= z => (y + 1) * x <= z * x
          BY Z3
        <5>2. \A x, y, z \in Nat : (y + 1) * x = y * x + x /\ z * x = x * z
          BY Z3
        <5> QED
          BY <5>1, <5>2
      <4>3. m >= d
        BY <2>1, <3>1, <4>1
      <4>4. m + d <= d * n
        BY <2>1, <3>1, <4>2
      <4>5. d * n \in Nat /\ m \in Nat
        BY <2>1, <2>3, <3>1
      <4> HIDE DEF m
      <4> QED
        BY <2>1, <2>2, <4>3, <4>4, <4>5
    <3>3. m % d = 0
      <4>1. m = d * (k - 1)
        BY <2>1, <3>1
      <4>2. d * (k - 1) <= m /\ m < d * (k - 1) + d
        BY <2>1, <3>2, <4>1
      <4>3. m % d = m - d * (k - 1)
        <5>1. d \in Nat \ {0} /\ k - 1 \in Int /\ m \in Int
          BY <2>1, <3>2
        <5> HIDE DEF m, d
        <5> QED
          BY <4>2, <5>1, Quotient, Zenon
      <4> QED
        BY <3>2, <4>1, <4>3
    <3> HIDE DEF m
    <3>4. value - (value - m) = m /\ value - m \in d .. value - d
      BY <2>1, <3>2
    <3> QED
      BY <3>1, <3>3, <3>4 DEF between
  <2>5. ASSUME NEW w \in between PROVE \E k \in 1 .. n : seq[k] = w
    <3>1. w \in d .. value - d /\ (value - w) % d = 0
      BY DEF between
    <3> DEFINE x == value - w
    <3>2. x \in Nat /\ x >= d /\ x <= value - d /\ w = value - x
      BY <2>1, <3>1
    <3> HIDE DEF x
    <3>3. PICK m \in Nat : x = d * m
      <4>1. x % d = 0
        BY <3>1 DEF x
      <4>2. x = d * (x \div d) + (x % d) /\ x \div d \in Nat
        BY <2>1, <3>2, Division
      <4> DEFINE m == x \div d
      <4>3. x = d * m + 0 /\ m \in Nat
        BY <4>1, <4>2
      <4> HIDE DEF m
      <4>4. x = d * m
        BY <2>1, <4>3
      <4> QED
        BY <4>3, <4>4
    <3>4. m >= 1 /\ m < n
      <4>1. m # 0
        BY <2>1, <3>2, <3>3
      <4>2. ASSUME m >= n PROVE FALSE
        <5>1. \A a, b, e \in Nat : b <= e => a * b <= a * e
          BY Z3
        <5>2. d * n <= d * m
          BY <2>1, <4>2, <5>1
        <5>3. d * n \in Nat /\ d * m \in Nat
          BY <2>1
        <5> QED
          BY <2>1, <2>2, <3>2, <3>3, <5>2, <5>3
      <4> QED
        BY <4>1, <4>2
    <3>5. m + 1 \in 2 .. n /\ (m + 1) - 1 = m
      BY <3>4
    <3>6. seq[m + 1] = value - m * d
      BY <1>1, <3>5
    <3>7. m * d = x
      BY <2>1, <3>3
    <3> QED
      BY <3>2, <3>5, <3>6, <3>7
  <2>6. ASSUME NEW j \in 1 .. n, NEW k \in 1 .. n, seq[j] = seq[k] PROVE j = k
    <3>1. ASSUME NEW i \in 1 .. n PROVE seq[i] = value - (i - 1) * d /\ (i - 1) * d \in Nat
      <4>1. CASE i = 1
        BY <1>1, <2>1, <4>1
      <4>2. CASE i # 1
        <5>1. i \in 2 .. n /\ i - 1 \in Nat
          BY <4>2
        <5> QED
          BY <1>1, <2>3, <5>1
      <4> QED
        BY <4>1, <4>2
    <3>2. (j - 1) * d = (k - 1) * d
      <4>1. \A x, y \in Nat : value - x = value - y => x = y
        BY <2>1
      <4> QED
        BY <2>6, <3>1, <4>1
    <3>3. \A x, y, z \in Nat : z # 0 /\ x * z = y * z => x = y
      BY Z3
    <3>4. j - 1 \in Nat /\ k - 1 \in Nat
      OBVIOUS
    <3>5. j - 1 = k - 1
      BY <2>1, <3>2, <3>3, <3>4
    <3> QED
      BY <3>5
  <2>7. Filled(value, interval) = {value} \union between
    BY <1>2, <1>4
  <2>8. \A k \in 1 .. n : seq[k] \in Filled(value, interval)
    <3>1. \A k \in 1 .. n : k = 1 \/ k \in 2 .. n
      OBVIOUS
    <3> QED
      BY <1>1, <2>4, <2>7, <3>1
  <2>9. \A w \in Filled(value, interval) : \E k \in 1 .. n : seq[k] = w
    <3>1. 1 \in 1 .. n
      OBVIOUS
    <3> QED
      BY <1>1, <2>5, <2>7, <3>1
  <2> QED
    BY <1>1, <2>6, <2>8, <2>9 DEF Enumerates
<1> QED
  BY <1>3, <1>4

-----------------------------------------------------------------------------
(***************************************************************************)
(* How often a call counts at an index: once for each value that it        *)
(* stands for and that is kept there.                                      *)
(***************************************************************************)
\* How many of the values in W are counted at index i.
Times(c, W, i) == Cardinality({w \in W : CountsIndexFor(c, w) = i})

LEMMA FilledFacts ==
    ASSUME NEW value \in Nat, NEW interval \in Int
    PROVE  /\ IsFiniteSet(Filled(value, interval))
           /\ Filled(value, interval) \in SUBSET (0 .. value)
           /\ value \in Filled(value, interval)
<1> DEFINE between == {v \in interval .. value - interval : (value - v) % interval = 0}
<1>1. Filled(value, interval) = {value} \union (IF interval <= 0 THEN {} ELSE between)
  BY DEF Filled, Contract!Filled
<1>2. ASSUME ~(interval <= 0) PROVE between \subseteq 0 .. value
  BY <1>2
<1> HIDE DEF between
<1>3. Filled(value, interval) \in SUBSET (0 .. value) /\ value \in Filled(value, interval)
  BY <1>1, <1>2
<1>4. IsFiniteSet(0 .. value)
  BY FS_Interval
<1> QED
  BY <1>3, <1>4, FS_Subset

\* A recorded value is counted once more at its index, and nowhere else.
LEMMA RecordAdds ==
    ASSUME NEW c, IsLayout(c), NEW s, CountsFit(c, s),
           NEW value \in 0 .. c.highest_trackable_value, NEW count \in Nat \ {0},
           NEW u, u = RecordValues(c, s, value, count), NEW i \in Array(c)
    PROVE  CountAtIndex(c, u, i)
              = CountAtIndex(c, s, i) + (IF i = CountsIndexFor(c, value) THEN count ELSE 0)
<1> DEFINE used == DOMAIN s.counts
           index == CountsIndexFor(c, value)
           cell(j) == NormalizeIndex(c, s, j)
<1>1. /\ index \in Array(c) /\ i \in Array(c)
      /\ \A j \in Array(c) : cell(i) = cell(j) => i = j
  <2>1. /\ c.counts_len \in Nat /\ index \in 0 .. c.counts_len - 1
        /\ s.normalizing_index_offset \in -c.counts_len .. c.counts_len
    BY IndexOfTracked, UsedFacts DEF CountsFit
  <2> HIDE DEF index
  <2>2. \A j \in 0 .. c.counts_len - 1 :
           NormalizeIndex(c, s, i) = NormalizeIndex(c, s, j) => i = j
    BY <2>1, NormalizeFacts DEF Array
  <2> QED
    BY <2>1, <2>2 DEF Array
<1>2. /\ DOMAIN u.counts = used \union {cell(index)}
      /\ u.counts[cell(index)] = (IF cell(index) \in used THEN s.counts[cell(index)] ELSE 0) + count
      /\ \A j \in used \ {cell(index)} : u.counts[j] = s.counts[j] + 0
      /\ \A j : NormalizeIndex(c, u, j) = cell(j)
  <2>1. Accepts(c, value) /\ IsFields(s)
    BY AcceptsTracked DEF CountsFit
  <2>2. Recorded(s, value, count, cell(index), u)
    BY <2>1, RecordedFields
  <2> HIDE DEF index
  <2> QED
    BY <2>2 DEF Recorded, NormalizeIndex
<1>3. \A j \in used : s.counts[j] \in Nat
  BY DEF CountsFit
<1>4. /\ CountAtIndex(c, s, i) = IF cell(i) \in used THEN s.counts[cell(i)] ELSE 0
      /\ CountAtIndex(c, u, i) = IF cell(i) \in DOMAIN u.counts THEN u.counts[cell(i)] ELSE 0
  BY <1>2 DEF CountAtIndex, BagToSet
<1> HIDE DEF used, index, cell
<1>5. CASE i = index
  BY <1>2, <1>3, <1>4, <1>5 DEF index
<1>6. CASE i # index
  <2>1. cell(i) # cell(index)
    BY <1>1, <1>6
  <2>2. cell(i) \in DOMAIN u.counts <=> cell(i) \in used
    BY <1>2, <2>1
  <2>3. cell(i) \in used => u.counts[cell(i)] = s.counts[cell(i)] + 0
    BY <1>2, <2>1
  <2> QED
    BY <1>3, <1>4, <1>6, <2>2, <2>3 DEF index
<1> QED
  BY <1>5, <1>6

LEMMA TimesNext ==
    ASSUME NEW c, NEW W, IsFiniteSet(W), NEW i
    PROVE  /\ Times(c, W, i) \in Nat
           /\ \A w : w \notin W => Times(c, W \union {w}, i)
                                    = Times(c, W, i) + (IF i = CountsIndexFor(c, w) THEN 1 ELSE 0)
<1> DEFINE at(V) == {w \in V : CountsIndexFor(c, w) = i}
<1>1. IsFiniteSet(at(W)) /\ Cardinality(at(W)) \in Nat
  <2>1. at(W) \in SUBSET W
    OBVIOUS
  <2> HIDE DEF at
  <2> QED
    BY <2>1, FS_Subset, FS_CardinalityType
<1>2. ASSUME NEW w, w \notin W
      PROVE  Cardinality(at(W \union {w}))
                = Cardinality(at(W)) + (IF i = CountsIndexFor(c, w) THEN 1 ELSE 0)
  <2>1. w \notin at(W)
    BY <1>2
  <2>2. at(W \union {w}) = IF i = CountsIndexFor(c, w) THEN at(W) \union {w} ELSE at(W)
    OBVIOUS
  <2> HIDE DEF at
  <2>3. Cardinality(at(W) \union {w}) = Cardinality(at(W)) + 1
    BY <1>1, <2>1, FS_AddElement
  <2> QED
    BY <1>1, <2>2, <2>3
<1> QED
  BY <1>1, <1>2 DEF Times

\* What is true of a corrected call that has recorded the values in W.
Adding(c, s, count, W, done) ==
    /\ done.accepted = TRUE
    /\ Sound(c, done.fields)
    /\ \A i \in Array(c) :
          CountAtIndex(c, done.fields, i) = CountAtIndex(c, s, i) + count * Times(c, W, i)

LEMMA AddingNext ==
    ASSUME NEW c, IsLayout(c), NEW s, CountsFit(c, s), NEW count \in Nat \ {0},
           NEW W, IsFiniteSet(W), NEW done, Adding(c, s, count, W, done),
           NEW w \in 0 .. c.highest_trackable_value, w \notin W
    PROVE  Adding(c, s, count, W \union {w}, RecordNext(c, count, done, w))
<1> DEFINE t == RecordValues(c, done.fields, w, count)
           next == RecordNext(c, count, done, w)
<1>1. done.accepted = TRUE /\ Sound(c, done.fields) /\ CountsFit(c, done.fields)
  BY DEF Adding, Sound
<1>2. Accepts(c, w) = TRUE
  <2>1. Accepts(c, w) \in BOOLEAN
    BY DEF Accepts
  <2> QED
    BY <2>1, AcceptsTracked
<1>3. next.fields = t /\ next.accepted = TRUE
  <2>1. next = [fields |-> t, accepted |-> Accepts(c, w)]
    BY <1>1 DEF RecordNext
  <2> HIDE DEF next, t
  <2> QED
    BY <1>2, <2>1
<1>4. Sound(c, t)
  BY <1>1, RecordKeeps
<1>5. ASSUME NEW i \in Array(c)
      PROVE  CountAtIndex(c, t, i)
                = CountAtIndex(c, s, i) + count * Times(c, W \union {w}, i)
  <2> DEFINE one == IF i = CountsIndexFor(c, w) THEN 1 ELSE 0
             times == Times(c, W, i)
             before == CountAtIndex(c, s, i)
  <2>1. /\ CountAtIndex(c, t, i) = CountAtIndex(c, done.fields, i)
                                  + (IF i = CountsIndexFor(c, w) THEN count ELSE 0)
        /\ CountAtIndex(c, done.fields, i) = before + count * times
    <3>1. CountAtIndex(c, t, i) = CountAtIndex(c, done.fields, i)
                                  + (IF i = CountsIndexFor(c, w) THEN count ELSE 0)
      BY <1>1, RecordAdds
    <3> QED
      BY <3>1 DEF Adding
  <2>2. Times(c, W \union {w}, i) = times + one /\ times \in Nat
    BY TimesNext
  <2>3. before \in Nat
    BY CountedIsTracked DEF Array
  <2>4. (IF i = CountsIndexFor(c, w) THEN count ELSE 0) = count * one
    OBVIOUS
  <2>5. one \in Nat
    OBVIOUS
  <2> HIDE DEF t, one, times, before
  <2>6. \A x, y, z, b \in Nat : (b + z * x) + z * y = b + z * (x + y)
    BY Z3
  <2> QED
    BY <2>1, <2>2, <2>3, <2>4, <2>5, <2>6 DEF before
<1> HIDE DEF next, t
<1> QED
  BY <1>3, <1>4, <1>5 DEF Adding, next

\* A call whose value can be tracked counts each value it stands for once more.
LEMMA CorrectedAdds ==
    ASSUME NEW c, IsLayout(c), NEW s, Sound(c, s), NEW count \in Nat \ {0},
           NEW value \in Int, value \in 0 .. c.highest_trackable_value, NEW interval \in Int
    PROVE  Adding(c, s, count, Filled(value, interval),
                  RecordCorrectedValues(c, s, value, count, interval))
<1> SUFFICES ASSUME NEW seq, seq = Row(value, interval)
             PROVE  Adding(c, s, count, Filled(value, interval),
                           RecordCorrectedValues(c, s, value, count, interval))
  OBVIOUS
<1>1. value \in Nat /\ CountsFit(c, s) /\ c.highest_trackable_value \in Nat
  BY WordFacts DEF IsLayout, Sound
<1>2. PICK n \in Nat \ {0} :
         /\ DOMAIN seq = 1 .. n
         /\ \A k \in 1 .. n : seq[k] \in Filled(value, interval)
         /\ \A j, k \in 1 .. n : seq[j] = seq[k] => j = k
         /\ \A w \in Filled(value, interval) : \E k \in 1 .. n : seq[k] = w
  <2>1. \E n \in Nat \ {0} : Enumerates(seq, n, Filled(value, interval))
    BY RowIsFilled
  <2> QED
    BY <2>1 DEF Enumerates
<1>3. PICK r : /\ r[0] = Begun(s)
               /\ \A k \in 1 .. n : r[k] = RecordNext(c, count, r[k - 1], seq[k])
               /\ RecordCorrectedValues(c, s, value, count, interval) = r[n]
  <2>1. PICK r : /\ RoundsOf(c, s, count, seq, n, r)
                 /\ RecordCorrectedValues(c, s, value, count, interval) = r[n]
    BY <1>2, CorrectedSteps
  <2> QED
    BY <2>1 DEF RoundsOf
<1> DEFINE first(k) == {seq[j] : j \in 1 .. k}
<1>4. \A k \in 1 .. n : seq[k] \in 0 .. c.highest_trackable_value
  <2>1. Filled(value, interval) \in SUBSET (0 .. value)
    BY <1>1, FilledFacts
  <2> QED
    BY <1>1, <1>2, <2>1
<1>5. first(0) = {} /\ first(n) = Filled(value, interval)
  <2>1. first(0) = {}
    OBVIOUS
  <2>2. first(n) = Filled(value, interval)
    BY <1>2
  <2> QED
    BY <2>1, <2>2
<1>6. \A k \in 1 .. n : first(k) = first(k - 1) \union {seq[k]} /\ seq[k] \notin first(k - 1)
  <2> TAKE k \in 1 .. n
  <2>1. \A j : j \in 1 .. k <=> j \in 1 .. k - 1 \/ j = k
    OBVIOUS
  <2>2. first(k) = first(k - 1) \union {seq[k]}
    BY <2>1
  <2>3. \A j \in 1 .. k - 1 : j \in 1 .. n /\ j # k
    OBVIOUS
  <2>4. seq[k] \notin first(k - 1)
    BY <1>2, <2>3
  <2> QED
    BY <2>2, <2>4
<1>7. \A k \in 0 .. n : IsFiniteSet(first(k))
  <2>1. ASSUME NEW k \in 0 .. n PROVE first(k) \in SUBSET Filled(value, interval)
    <3>1. \A j \in 1 .. k : j \in 1 .. n
      OBVIOUS
    <3> QED
      BY <1>2, <3>1
  <2> HIDE DEF first
  <2> QED
    BY <1>1, <2>1, FilledFacts, FS_Subset
<1> HIDE DEF first
<1>8. Adding(c, s, count, first(0), r[0])
  <2>1. r[0].fields = s /\ r[0].accepted = TRUE
    BY <1>3 DEF Begun
  <2>2. \A i \in Array(c) : CountAtIndex(c, s, i) \in Nat /\ Times(c, {}, i) = 0
    <3>1. \A i : {w \in {} : CountsIndexFor(c, w) = i} = {}
      OBVIOUS
    <3> QED
      BY <1>1, <3>1, CountedIsTracked, FS_EmptySet DEF Times, Array
  <2>3. \A i \in Array(c) : CountAtIndex(c, s, i) = CountAtIndex(c, s, i) + count * Times(c, {}, i)
    BY <2>2
  <2> QED
    BY <1>5, <2>1, <2>3 DEF Adding
<1>9. ASSUME NEW k \in 1 .. n, Adding(c, s, count, first(k - 1), r[k - 1])
      PROVE  Adding(c, s, count, first(k), r[k])
  <2>1. k - 1 \in 0 .. n
    OBVIOUS
  <2>2. Adding(c, s, count, first(k - 1) \union {seq[k]}, RecordNext(c, count, r[k - 1], seq[k]))
    BY <1>1, <1>4, <1>6, <1>7, <1>9, <2>1, AddingNext
  <2> QED
    BY <1>3, <1>6, <2>2
<1> DEFINE Bad == {k \in 0 .. n : ~Adding(c, s, count, first(k), r[k])}
<1>10. Bad = {}
  <2> SUFFICES ASSUME Bad # {} PROVE FALSE
    OBVIOUS
  <2>1. PICK k \in Bad : \A j \in Bad : k <= j
    <3>1. Bad \in SUBSET (0 .. n)
      OBVIOUS
    <3> HIDE DEF Bad
    <3> QED
      BY <3>1, LeastNatural
  <2>2. k # 0
    BY <1>8, <2>1
  <2>3. k \in 1 .. n /\ k - 1 \in 0 .. n /\ ~(k <= k - 1)
    BY <2>1, <2>2
  <2>4. Adding(c, s, count, first(k - 1), r[k - 1])
    BY <2>1, <2>3
  <2> QED
    BY <1>9, <2>1, <2>3, <2>4
<1>11. Adding(c, s, count, first(n), r[n])
  <2>1. n \in 0 .. n
    OBVIOUS
  <2> QED
    BY <1>10, <2>1
<1> QED
  BY <1>3, <1>5, <1>11

\* A call whose value cannot be tracked changes nothing.
LEMMA CorrectedRefused ==
    ASSUME NEW c, IsLayout(c), NEW s, NEW count, NEW value \in Int,
           value \notin 0 .. c.highest_trackable_value, NEW interval \in Int
    PROVE  RecordCorrectedValues(c, s, value, count, interval)
              = [fields |-> s, accepted |-> FALSE]
<1> DEFINE seq == Row(value, interval)
           refused == [fields |-> s, accepted |-> FALSE]
<1>1. PICK n \in Nat \ {0} : DOMAIN seq = 1 .. n /\ seq[1] = value
  <2>1. seq = Row(value, interval)
    OBVIOUS
  <2> HIDE DEF seq
  <2>2. \E n \in Nat \ {0} : Descends(value, interval, seq, n)
    BY <2>1, MissingFacts
  <2> QED
    BY <2>2 DEF Descends
<1>2. PICK r : /\ r[0] = Begun(s)
               /\ \A k \in 1 .. n : r[k] = RecordNext(c, count, r[k - 1], seq[k])
               /\ RecordCorrectedValues(c, s, value, count, interval) = r[n]
  <2>1. seq = Row(value, interval) /\ n \in Nat /\ DOMAIN seq = 1 .. n
    BY <1>1
  <2> HIDE DEF seq, refused
  <2>2. PICK r : /\ RoundsOf(c, s, count, seq, n, r)
                 /\ RecordCorrectedValues(c, s, value, count, interval) = r[n]
    BY <2>1, CorrectedSteps
  <2> QED
    BY <2>2 DEF RoundsOf
<1> HIDE DEF seq
<1>3. r[1] = refused
  <2>1. 1 \in 1 .. n /\ 1 - 1 = 0
    OBVIOUS
  <2>2. r[1] = RecordNext(c, count, Begun(s), value)
    BY <1>1, <1>2, <2>1
  <2>3. ~Accepts(c, value) /\ Accepts(c, value) = FALSE
    <3>1. Accepts(c, value) \in BOOLEAN
      BY DEF Accepts
    <3> QED
      BY <3>1, AcceptsTracked
  <2> QED
    BY <2>2, <2>3 DEF RecordNext, Begun, RecordValues
<1>4. ASSUME NEW k \in 1 .. n, r[k - 1] = refused PROVE r[k] = refused
  <2>1. refused.accepted = FALSE
    OBVIOUS
  <2> HIDE DEF refused
  <2> QED
    BY <1>2, <1>4, <2>1 DEF RecordNext
<1> HIDE DEF refused
<1> DEFINE Bad == {k \in 1 .. n : r[k] # refused}
<1>5. Bad = {}
  <2> SUFFICES ASSUME Bad # {} PROVE FALSE
    OBVIOUS
  <2>1. PICK k \in Bad : \A j \in Bad : k <= j
    <3>1. Bad \in SUBSET (0 .. n)
      OBVIOUS
    <3> HIDE DEF Bad
    <3> QED
      BY <3>1, LeastNatural
  <2>2. k \in 1 .. n /\ k # 1
    BY <1>3, <2>1
  <2>3. k - 1 \in 1 .. n /\ ~(k <= k - 1)
    BY <2>2
  <2>4. r[k - 1] = refused
    BY <2>1, <2>3
  <2> QED
    BY <1>4, <2>1, <2>2, <2>4
<1>6. n \in 1 .. n
  OBVIOUS
<1> QED
  BY <1>2, <1>5, <1>6 DEF refused

-----------------------------------------------------------------------------
(***************************************************************************)
(* How often a bag of calls counts at an index, and that this is what the  *)
(* contract rounds the bag to.                                             *)
(***************************************************************************)
\* How often a bag of calls counts at each index.
Share(c, B, interval) ==
    [i \in Array(c) |->
        SumFunctionOnSet([v \in DOMAIN B |-> B[v] * Times(c, Filled(v, interval), i)], DOMAIN B)]

\* A bag of values that can be tracked.
IsBagFor(c, B) ==
    /\ IsFiniteSet(DOMAIN B)
    /\ DOMAIN B \in SUBSET (0 .. c.highest_trackable_value)
    /\ \A v \in DOMAIN B : B[v] \in Nat \ {0}

LEMMA ShareFacts ==
    ASSUME NEW c, IsLayout(c), NEW interval \in Int, NEW B, IsBagFor(c, B)
    PROVE  /\ Share(c, B, interval) \in [Array(c) -> Nat]
           /\ \A i \in Array(c) :
                 Share(c, B, interval)[i] # 0 <=>
                    \E v \in DOMAIN B : \E w \in Filled(v, interval) : CountsIndexFor(c, w) = i
<1> DEFINE D == DOMAIN B
           part(v, i) == {w \in Filled(v, interval) : CountsIndexFor(c, w) = i}
           terms(i) == [v \in D |-> B[v] * Times(c, Filled(v, interval), i)]
<1>1. /\ IsFiniteSet(D) /\ \A v \in D : B[v] \in Nat \ {0} /\ v \in Nat
      /\ \A v \in D : v <= c.highest_trackable_value
  <2>1. c.highest_trackable_value \in Nat
    BY WordFacts DEF IsLayout
  <2> QED
    BY <2>1 DEF IsBagFor
<1>2. \A v \in D : IsFiniteSet(Filled(v, interval))
  BY <1>1, FilledFacts
<1>3. \A v \in D : \A i : Times(c, Filled(v, interval), i) \in Nat
                          /\ (Times(c, Filled(v, interval), i) = 0 <=> part(v, i) = {})
  <2> SUFFICES ASSUME NEW v \in D, NEW i
               PROVE  Times(c, Filled(v, interval), i) \in Nat
                      /\ (Times(c, Filled(v, interval), i) = 0 <=> part(v, i) = {})
    OBVIOUS
  <2>1. part(v, i) \in SUBSET Filled(v, interval)
    OBVIOUS
  <2>2. Times(c, Filled(v, interval), i) = Cardinality(part(v, i))
    BY DEF Times
  <2> HIDE DEF part, D
  <2>3. IsFiniteSet(part(v, i))
    BY <1>2, <2>1, FS_Subset
  <2>4. Cardinality(part(v, i)) \in Nat /\ (Cardinality(part(v, i)) = 0 <=> part(v, i) = {})
    BY <2>3, FS_CardinalityType, FS_EmptySet
  <2> QED
    BY <2>2, <2>4
<1>4. \A i : \A v \in D : /\ terms(i)[v] \in Nat
                          /\ terms(i)[v] = 0 <=> part(v, i) = {}
  <2> SUFFICES ASSUME NEW i, NEW v \in D
               PROVE  terms(i)[v] \in Nat /\ (terms(i)[v] = 0 <=> part(v, i) = {})
    OBVIOUS
  <2> DEFINE times == Times(c, Filled(v, interval), i)
  <2>1. terms(i)[v] = B[v] * times
    OBVIOUS
  <2>2. times \in Nat /\ (times = 0 <=> part(v, i) = {}) /\ B[v] \in Nat \ {0}
    BY <1>1, <1>3
  <2>3. \A x, y \in Nat : x # 0 => (x * y = 0 <=> y = 0) /\ x * y \in Nat
    BY Z3
  <2> HIDE DEF terms, part, times
  <2> QED
    BY <2>1, <2>2, <2>3
<1>5. \A i \in Array(c) : Share(c, B, interval)[i] = SumFunctionOnSet(terms(i), D)
  BY DEF Share
<1> HIDE DEF terms, D
<1>6. \A i : SumFunctionOnSet(terms(i), D) \in Nat
  BY <1>1, <1>4, SumNat
<1>7. \A i : SumFunctionOnSet(terms(i), D) # 0 <=> \E v \in D : part(v, i) # {}
  <2> SUFFICES ASSUME NEW i
               PROVE  SumFunctionOnSet(terms(i), D) # 0 <=> \E v \in D : part(v, i) # {}
    OBVIOUS
  <2>1. ASSUME \A v \in D : part(v, i) = {} PROVE SumFunctionOnSet(terms(i), D) = 0
    <3>1. \A v \in D : terms(i)[v] = 0
      BY <1>4, <2>1
    <3> HIDE DEF part
    <3> QED
      BY <1>1, <3>1, SumZeros
  <2>2. ASSUME NEW v \in D, part(v, i) # {} PROVE SumFunctionOnSet(terms(i), D) # 0
    <3>1. \A x \in D : terms(i)[x] \in Nat /\ terms(i)[x] \in Int
      BY <1>4
    <3>2. terms(i)[v] \in Nat \ {0}
      BY <1>4, <2>2
    <3> HIDE DEF part
    <3>3. SumFunctionOnSet(terms(i), D) = terms(i)[v] + SumFunctionOnSet(terms(i), D \ {v})
      BY <1>1, <3>1, SumRemove
    <3>4. IsFiniteSet(D \ {v})
      BY <1>1, FS_RemoveElement
    <3>5. SumFunctionOnSet(terms(i), D \ {v}) \in Nat
      BY <3>1, <3>4, SumNat
    <3> QED
      BY <3>2, <3>3, <3>5
  <2> QED
    BY <2>1, <2>2
<1>8. Share(c, B, interval) \in [Array(c) -> Nat]
  <2>1. Share(c, B, interval) = [i \in Array(c) |-> Share(c, B, interval)[i]]
    BY DEF Share
  <2> QED
    BY <1>5, <1>6, <2>1
<1>9. \A v, i : part(v, i) # {} <=> \E w \in Filled(v, interval) : CountsIndexFor(c, w) = i
  OBVIOUS
<1> HIDE DEF part
<1> QED
  BY <1>5, <1>7, <1>8, <1>9 DEF D

\* A filled value has an index, and the value at that index is what it is rounded to.
LEMMA FilledRounds ==
    ASSUME NEW h \in Histograms, NEW c, c = ConfigOf(h), NEW interval \in Int,
           NEW v \in 0 .. c.highest_trackable_value, NEW w \in Filled(v, interval)
    PROVE  /\ CountsIndexFor(c, w) \in Array(c)
           /\ Contract!Round(h, w) = ValueAtIndex(c, CountsIndexFor(c, w))
<1>1. IsLayout(c) /\ c.highest_trackable_value \in 0 .. MaxWord /\ MaxWord \in Nat
  BY ConfigOfFacts, WordFacts DEF IsLayout
<1>2. w \in 0 .. v
  BY FilledFacts
<1>3. w \in 0 .. c.highest_trackable_value /\ w \in 0 .. MaxWord
  BY <1>1, <1>2
<1> QED
  BY <1>1, <1>3, IndexOfTracked, RoundIs DEF Array

\* What the contract adds to a bag for a bag of calls.
LEMMA RoundAllIs ==
    ASSUME NEW h \in Histograms, NEW c, c = ConfigOf(h), NEW interval \in Int,
           NEW B, IsBagFor(c, B)
    PROVE  Contract!RoundAll(h, B, interval) = BagOf(c, Share(c, B, interval))
<1> DEFINE D == DOMAIN B
           F(v) == Filled(v, interval)
           R(w) == Contract!Round(h, w)
           index(w) == CountsIndexFor(c, w)
           at(i) == ValueAtIndex(c, i)
           share == Share(c, B, interval)
           some == {i \in Array(c) : share[i] # 0}
           values == {R(w) : w \in UNION {F(v) : v \in D}}
<1>1. IsLayout(c)
  BY ConfigOfFacts
<1>2. \A v \in D : v \in 0 .. c.highest_trackable_value
  BY DEF IsBagFor
<1>3. \A v \in D : \A w \in F(v) : index(w) \in Array(c) /\ R(w) = at(index(w))
  BY <1>2, FilledRounds
<1>4. \A i \in Array(c) : index(at(i)) = i
  BY <1>1, ValueOfIndex DEF Array
<1>5. \A i : i \in some <=> i \in Array(c) /\ \E v \in D : \E w \in F(v) : index(w) = i
  BY <1>1, ShareFacts
<1>6. BagOf(c, share) = [r \in {at(i) : i \in some} |-> share[index(r)]]
  BY DEF BagOf
<1>7. Contract!RoundAll(h, B, interval)
         = [r \in values |-> SumFunctionOnSet(
               [v \in D |-> B[v] * Cardinality({w \in F(v) : R(w) = r})], D)]
  <2> DEFINE f(r) == [v \in D |-> B[v] * Cardinality({w \in F(v) : R(w) = r})]
  <2>1. \A x : Contract!Cardinality(x) = Cardinality(x) /\ Contract!BagToSet(x) = DOMAIN x
               /\ Contract!SumFunction(x) = SumFunctionOnSet(x, DOMAIN x)
    BY SameOperators
  <2>2. Contract!RoundAll(h, B, interval)
           = [r \in {Contract!Round(h, w) :
                       w \in UNION {Contract!Filled(v, interval) : v \in Contract!BagToSet(B)}} |->
                 Contract!SumFunction([v \in Contract!BagToSet(B) |->
                     B[v] * Contract!Cardinality({w \in Contract!Filled(v, interval) :
                                                     Contract!Round(h, w) = r})])]
    BY DEF Contract!RoundAll
  <2>3. Contract!RoundAll(h, B, interval) = [r \in values |-> Contract!SumFunction(f(r))]
    BY <2>1, <2>2 DEF Filled
  <2>4. \A r : Contract!SumFunction(f(r)) = SumFunctionOnSet(f(r), D)
    <3>1. \A r : DOMAIN f(r) = D
      OBVIOUS
    <3> HIDE DEF f
    <3> QED
      BY <2>1, <3>1
  <2> HIDE DEF f, values
  <2>5. Contract!RoundAll(h, B, interval) = [r \in values |-> SumFunctionOnSet(f(r), D)]
    BY <2>3, <2>4
  <2> QED
    BY <2>5 DEF f
<1>8. ASSUME NEW r \in values
      PROVE  /\ index(r) \in some /\ r = at(index(r))
             /\ SumFunctionOnSet([v \in D |-> B[v] * Cardinality({w \in F(v) : R(w) = r})], D)
                   = share[index(r)]
  <2>0. PICK v \in D : \E w \in F(v) : r = R(w)
    OBVIOUS
  <2>1. PICK w \in F(v) : r = R(w)
    BY <2>0
  <2>2. /\ index(w) \in Array(c) /\ r = at(index(w)) /\ index(r) = index(w)
    BY <1>3, <1>4, <2>1
  <2>3. index(r) \in some /\ r = at(index(r)) /\ index(r) \in Array(c)
    <3> HIDE DEF some, F, index, at
    <3> QED
      BY <1>5, <2>1, <2>2
  <2>4. ASSUME NEW x \in D
        PROVE  {y \in F(x) : R(y) = r} = {y \in F(x) : index(y) = index(r)}
    <3> HIDE DEF F, index, at, R, some
    <3> QED
      BY <1>3, <1>4, <2>3
  <2>5. [x \in D |-> B[x] * Cardinality({y \in F(x) : R(y) = r})]
           = [x \in D |-> B[x] * Times(c, F(x), index(r))]
    <3>1. ASSUME NEW x \in D
          PROVE  Cardinality({y \in F(x) : R(y) = r}) = Times(c, F(x), index(r))
      BY <2>4 DEF Times
    <3> QED
      BY <3>1, Zenon
  <2>6. share[index(r)]
           = SumFunctionOnSet([x \in D |-> B[x] * Times(c, F(x), index(r))], D)
    BY <2>3 DEF Share
  <2> QED
    BY <2>3, <2>5, <2>6
<1>9. values = {at(i) : i \in some}
  <2>1. \A r \in values : \E i \in some : r = at(i)
    <3> HIDE DEF values, some, at
    <3> QED
      BY <1>8
  <2>2. ASSUME NEW i \in some PROVE at(i) \in values
    <3>0. PICK v \in D : \E w \in F(v) : index(w) = i
      BY <1>5
    <3>1. PICK w \in F(v) : index(w) = i
      BY <3>0
    <3>2. R(w) = at(i)
      BY <1>3, <3>1
    <3> QED
      BY <3>1, <3>2
  <2> HIDE DEF values, some, at
  <2> QED
    BY <2>1, <2>2
<1> DEFINE sum(r) == SumFunctionOnSet(
               [v \in D |-> B[v] * Cardinality({w \in F(v) : R(w) = r})], D)
<1>10. \A r \in values : sum(r) = share[index(r)]
  BY <1>8
<1>11. Contract!RoundAll(h, B, interval) = [r \in values |-> sum(r)]
  BY <1>7
<1> HIDE DEF sum, values, some, share, at, index
<1>12. Contract!RoundAll(h, B, interval) = BagOf(c, share)
  BY <1>6, <1>9, <1>10, <1>11
<1> QED
  BY <1>12 DEF share

\* Nothing counts nowhere; one value more counts what it stands for.
LEMMA ShareNext ==
    ASSUME NEW c, IsLayout(c), NEW interval \in Int, NEW B, IsBagFor(c, B), NEW i \in Array(c)
    PROVE  /\ DOMAIN B = {} => Share(c, B, interval)[i] = 0
           /\ \A C, v : /\ IsBagFor(c, C)
                        /\ DOMAIN C = DOMAIN B \union {v} /\ v \notin DOMAIN B
                        /\ \A x \in DOMAIN B : C[x] = B[x]
                        => Share(c, C, interval)[i]
                              = Share(c, B, interval)[i] + C[v] * Times(c, Filled(v, interval), i)
<1> DEFINE terms(A) == [v \in DOMAIN A |-> A[v] * Times(c, Filled(v, interval), i)]
<1>1. \A A : Share(c, A, interval)[i] = SumFunctionOnSet(terms(A), DOMAIN A)
  BY DEF Share
<1>2. ASSUME NEW A, IsBagFor(c, A), NEW v \in DOMAIN A PROVE terms(A)[v] \in Int
  <2>1. A[v] \in Nat /\ v \in Nat
    BY <1>2 DEF IsBagFor
  <2>2. Times(c, Filled(v, interval), i) \in Nat
    BY <2>1, FilledFacts, TimesNext
  <2> DEFINE times == Times(c, Filled(v, interval), i)
  <2>3. terms(A)[v] = A[v] * times
    OBVIOUS
  <2> HIDE DEF times, terms
  <2> QED
    BY <2>1, <2>2, <2>3 DEF times
<1>3. \A A : \A v \in DOMAIN A : terms(A)[v] = A[v] * Times(c, Filled(v, interval), i)
  OBVIOUS
<1> HIDE DEF terms
<1>4. DOMAIN B = {} => Share(c, B, interval)[i] = 0
  BY <1>1, SumEmpty
<1>5. ASSUME NEW C, NEW v, IsBagFor(c, C),
             DOMAIN C = DOMAIN B \union {v}, v \notin DOMAIN B,
             \A x \in DOMAIN B : C[x] = B[x]
      PROVE  Share(c, C, interval)[i]
                = Share(c, B, interval)[i] + C[v] * Times(c, Filled(v, interval), i)
  <2> DEFINE S == DOMAIN B
             f == terms(B)
             g == terms(C)
  <2>1. IsFiniteSet(S)
    BY DEF IsBagFor
  <2>2. \A x \in S \union {v} : g[x] \in Int
    BY <1>2, <1>5
  <2>3. \A x \in S : g[x] = f[x]
    BY <1>3, <1>5
  <2>4. g[v] = C[v] * Times(c, Filled(v, interval), i)
    BY <1>3, <1>5
  <2>5. v \notin S
    BY <1>5
  <2>6. /\ Share(c, C, interval)[i] = SumFunctionOnSet(g, S \union {v})
        /\ Share(c, B, interval)[i] = SumFunctionOnSet(f, S)
    BY <1>1, <1>5
  <2>7. Share(c, B, interval)[i] \in Nat
    BY ShareFacts
  <2> HIDE DEF S, f, g
  <2>8. SumFunctionOnSet(g, S \union {v}) = g[v] + SumFunctionOnSet(g, S)
    BY <2>1, <2>2, <2>5, SumAdd
  <2>9. SumFunctionOnSet(g, S) = SumFunctionOnSet(f, S)
    BY <2>1, <2>3, SumSame
  <2>10. g[v] \in Int
    BY <2>2
  <2>11. \A x, y \in Int : x + y = y + x
    OBVIOUS
  <2> QED
    BY <2>4, <2>6, <2>7, <2>8, <2>9, <2>10, <2>11
<1> QED
  BY <1>4, <1>5

\* Counts that grow by a share are a bag that grows by what the contract says.
LEMMA BagGrows ==
    ASSUME NEW h \in Histograms, NEW c, c = ConfigOf(h), NEW interval \in Int,
           NEW B, IsBagFor(c, B), NEW s, CountsFit(c, s), NEW u, CountsFit(c, u),
           \A i \in Array(c) :
              CountAtIndex(c, u, i) = CountAtIndex(c, s, i) + Share(c, B, interval)[i]
    PROVE  Bag(c, u) = Bag(c, s) (+) Contract!RoundAll(h, B, interval)
<1> DEFINE f == CountsOf(c, s)
           g == Share(c, B, interval)
           both == CountsOf(c, u)
<1>1. IsLayout(c)
  BY ConfigOfFacts
<1>2. /\ Bag(c, s) = BagOf(c, f) /\ f \in [Array(c) -> Nat]
      /\ Bag(c, u) = BagOf(c, both)
      /\ Contract!RoundAll(h, B, interval) = BagOf(c, g) /\ g \in [Array(c) -> Nat]
  BY <1>1, BagIs, RoundAllIs, ShareFacts
<1>3. both = [i \in Array(c) |-> f[i] + g[i]]
  BY DEF CountsOf
<1> HIDE DEF f, g, both
<1> QED
  BY <1>1, <1>2, <1>3, BagOfSum

\* What the contract says of the histogram h after B has been recorded in the fields s of it.
GrownBy(h, c, s, B, interval, u) == Bag(c, u) = Bag(c, s) (+) Contract!RoundAll(h, B, interval)

\* A call that is accepted does to the bag what the contract says.
LEMMA CorrectedBag ==
    ASSUME NEW h \in Histograms, NEW c, c = ConfigOf(h), NEW s, Sound(c, s),
           NEW count \in Counts, NEW value \in Values, value \in 0 .. c.highest_trackable_value,
           NEW interval \in Intervals, NEW B, DOMAIN B = {value}, B[value] = count,
           NEW done, done = RecordCorrectedValues(c, s, value, count, interval)
    PROVE  done.accepted = TRUE /\ GrownBy(h, c, s, B, interval, done.fields)
<1> DEFINE none == [v \in {} |-> count]
<1> count \in Nat \ {0} /\ value \in Int /\ interval \in Int
  BY HistogramAssumption
<1>1. IsLayout(c) /\ CountsFit(c, s)
  BY ConfigOfFacts DEF Sound
<1>2. /\ done.accepted = TRUE /\ CountsFit(c, done.fields)
      /\ \A i \in Array(c) : CountAtIndex(c, done.fields, i)
               = CountAtIndex(c, s, i) + count * Times(c, Filled(value, interval), i)
  <2>1. Adding(c, s, count, Filled(value, interval), done)
    BY <1>1, CorrectedAdds
  <2> QED
    BY <2>1 DEF Adding, Sound
<1>3. /\ DOMAIN none = {} /\ DOMAIN B = DOMAIN none \union {value} /\ value \notin DOMAIN none
      /\ B[value] = count /\ \A x \in DOMAIN none : B[x] = none[x]
  OBVIOUS
<1>4. IsBagFor(c, none) /\ IsBagFor(c, B)
  <2>1. IsFiniteSet({}) /\ IsFiniteSet({value})
    BY FS_EmptySet, FS_Singleton
  <2> QED
    BY <2>1 DEF IsBagFor
<1> HIDE DEF none
<1>5. \A i \in Array(c) :
         Share(c, B, interval)[i] = count * Times(c, Filled(value, interval), i)
  <2> SUFFICES ASSUME NEW i \in Array(c)
               PROVE  Share(c, B, interval)[i] = count * Times(c, Filled(value, interval), i)
    OBVIOUS
  <2> DEFINE times == Times(c, Filled(value, interval), i)
  <2>1. Share(c, none, interval)[i] = 0
    BY <1>1, <1>3, <1>4, ShareNext
  <2>2. Share(c, B, interval)[i] = Share(c, none, interval)[i] + B[value] * times
    BY <1>1, <1>3, <1>4, ShareNext
  <2>3. times \in Nat
    <3>1. value \in Nat
      OBVIOUS
    <3> QED
      BY <3>1, FilledFacts, TimesNext
  <2> HIDE DEF times
  <2>4. count * times \in Nat
    BY <2>3
  <2> QED
    BY <1>3, <2>1, <2>2, <2>4 DEF times
<1>6. Bag(c, done.fields) = Bag(c, s) (+) Contract!RoundAll(h, B, interval)
  BY <1>1, <1>2, <1>4, <1>5, BagGrows
<1> QED
  BY <1>2, <1>6 DEF GrownBy

-----------------------------------------------------------------------------
(***************************************************************************)
(* hdr_add goes through the indexes of the source from the lowest on:      *)
(* before index n it has added what the source has below n, as far as the  *)
(* target can track it.                                                    *)
(***************************************************************************)
\* The values in the bag of a histogram, and their counts.
LEMMA BagFacts ==
    ASSUME NEW c, IsLayout(c), NEW s, CountsFit(c, s), NEW B, B = Bag(c, s)
    PROVE  /\ IsBagFor(c, B)
           /\ \A v \in DOMAIN B : /\ CountsIndexFor(c, v) \in Array(c)
                                  /\ v = ValueAtIndex(c, CountsIndexFor(c, v))
                                  /\ B[v] = CountAtIndex(c, s, CountsIndexFor(c, v))
           /\ \A i \in Array(c) : ValueAtIndex(c, i) \in DOMAIN B <=> CountAtIndex(c, s, i) # 0
<1> DEFINE f == CountsOf(c, s)
           at(i) == ValueAtIndex(c, i)
           index(v) == CountsIndexFor(c, v)
           some == {i \in Array(c) : f[i] # 0}
           values == {at(i) : i \in some}
<1>1. \A i \in Array(c) : index(at(i)) = i
  BY ValueOfIndex DEF Array
<1>2. B = [v \in values |-> f[index(v)]]
  BY BagIs DEF BagOf
<1>3. \A i \in Array(c) : f[i] = CountAtIndex(c, s, i) /\ f[i] \in Nat
                          /\ (f[i] # 0 => at(i) \in 0 .. c.highest_trackable_value)
  BY CountedIsTracked DEF CountsOf, Array
<1>4. \A i : i \in some <=> i \in Array(c) /\ f[i] # 0
  OBVIOUS
<1> HIDE DEF f, at, index, some
<1>5. \A v \in values : index(v) \in some /\ v = at(index(v))
  BY <1>1, <1>4
<1>6. \A i \in Array(c) : at(i) \in values <=> i \in some
  BY <1>1, <1>4
<1> HIDE DEF values
<1>7. DOMAIN B = values /\ \A v \in values : B[v] = f[index(v)]
  BY <1>2
<1>8. IsBagFor(c, B)
  <2>1. DOMAIN B \in SUBSET (0 .. c.highest_trackable_value)
    BY <1>3, <1>4, <1>5, <1>7
  <2>2. IsFiniteSet(0 .. c.highest_trackable_value)
    <3>1. c.highest_trackable_value \in Int
      BY WordFacts DEF IsLayout
    <3> QED
      BY <3>1, FS_Interval
  <2>3. \A v \in DOMAIN B : B[v] \in Nat \ {0}
    BY <1>3, <1>4, <1>5, <1>7
  <2> QED
    BY <2>1, <2>2, <2>3, FS_Subset DEF IsBagFor
<1>9. \A v \in DOMAIN B : index(v) \in Array(c) /\ v = at(index(v))
                          /\ B[v] = CountAtIndex(c, s, index(v))
  BY <1>3, <1>4, <1>5, <1>7
<1>10. \A i \in Array(c) : at(i) \in DOMAIN B <=> CountAtIndex(c, s, i) # 0
  BY <1>3, <1>4, <1>6, <1>7
<1> QED
  BY <1>8, <1>9, <1>10 DEF at, index

\* The values of a bag that are at an index below n, and of them those that fit.
SeenOf(c, B, n) == {v \in DOMAIN B : CountsIndexFor(c, v) < n}
FitsOf(c, from_c, B, n) == {v \in SeenOf(from_c, B, n) : v <= c.highest_trackable_value}
Within(B, S) == [v \in S |-> B[v]]

\* What is true of the walk of hdr_add after n indexes: it has recorded what it has seen,
\* but for the values that do not fit, which it has added up.
Adds(c, s, from_c, from, aliased, interval, n, done) ==
    LET B == Bag(from_c, from)
        fits == FitsOf(c, from_c, B, n)
    IN  /\ Walked(c, s, from_c, from, aliased, n, done)
        /\ done.cumulative_count + SumFunctionOnSet(from.counts, Unseen(from_c, from, n))
              = from.total_count
        /\ done.dropped = SumFunctionOnSet(B, SeenOf(from_c, B, n) \ fits)
        /\ \A i \in Array(c) :
              CountAtIndex(c, done.fields, i)
                 = CountAtIndex(c, s, i) + Share(c, Within(B, fits), interval)[i]

LEMMA SeenFacts ==
    ASSUME NEW c, IsLayout(c), NEW from_c, IsLayout(from_c), NEW from, CountsFit(from_c, from),
           NEW B, B = Bag(from_c, from), NEW n, NEW fits, fits = FitsOf(c, from_c, B, n)
    PROVE  /\ IsFiniteSet(SeenOf(from_c, B, n) \ fits) /\ fits \subseteq SeenOf(from_c, B, n)
           /\ \A v \in SeenOf(from_c, B, n) : v \in Nat /\ B[v] \in Nat \ {0}
           /\ IsBagFor(c, Within(B, fits))
<1> DEFINE seen == SeenOf(from_c, B, n)
<1>1. IsBagFor(from_c, B)
  BY BagFacts
<1>2. /\ IsFiniteSet(DOMAIN B)
      /\ \A v \in DOMAIN B : v \in Nat /\ B[v] \in Nat \ {0}
  <2>1. from_c.highest_trackable_value \in Nat
    BY WordFacts DEF IsLayout
  <2> QED
    BY <1>1, <2>1 DEF IsBagFor
<1>3. seen \in SUBSET DOMAIN B /\ fits \in SUBSET seen
  BY DEF SeenOf, FitsOf
<1>4. IsFiniteSet(seen)
  BY <1>2, <1>3, FS_Subset
<1>5. IsFiniteSet(fits) /\ IsFiniteSet(seen \ fits)
  BY <1>3, <1>4, FS_Subset
<1> HIDE DEF seen
<1>6. \A v \in fits : v <= c.highest_trackable_value
  BY DEF FitsOf
<1>7. c.highest_trackable_value \in Nat
  BY WordFacts DEF IsLayout
<1>8. fits \in SUBSET (0 .. c.highest_trackable_value)
  BY <1>2, <1>3, <1>6, <1>7
<1> QED
  BY <1>2, <1>3, <1>4, <1>5, <1>8 DEF IsBagFor, Within, seen

\* The next index is that of at most one value.
LEMMA SeenNext ==
    ASSUME NEW c, IsLayout(c), NEW s, CountsFit(c, s), NEW B, B = Bag(c, s),
           NEW n \in Array(c), NEW v, v = ValueAtIndex(c, n)
    PROVE  /\ v \notin SeenOf(c, B, n)
           /\ SeenOf(c, B, n + 1)
                 = SeenOf(c, B, n) \union (IF CountAtIndex(c, s, n) = 0 THEN {} ELSE {v})
           /\ CountAtIndex(c, s, n) # 0 => B[v] = CountAtIndex(c, s, n)
<1> DEFINE index(x) == CountsIndexFor(c, x)
<1>1. /\ index(v) = n /\ n \in Nat
      /\ v \in DOMAIN B <=> CountAtIndex(c, s, n) # 0
      /\ \A x \in DOMAIN B : index(x) \in Nat /\ x = ValueAtIndex(c, index(x))
                             /\ B[x] = CountAtIndex(c, s, index(x))
  <2>1. index(v) = n /\ n \in Nat
    BY ValueOfIndex DEF Array
  <2> QED
    BY <2>1, BagFacts DEF Array
<1>2. \A x \in DOMAIN B : index(x) < n + 1 <=> index(x) < n \/ x = v
  <2> HIDE DEF index
  <2>1. \A x \in DOMAIN B : index(x) = n <=> x = v
    BY <1>1
  <2> QED
    BY <1>1, <2>1
<1> HIDE DEF index
<1>3. \A m : SeenOf(c, B, m) = {x \in DOMAIN B : index(x) < m}
  BY DEF SeenOf, index
<1> QED
  BY <1>1, <1>2, <1>3

\* Whether the source is the target makes no difference to the count that is read: what was
\* recorded since for a lower index is counted at lower indexes only.
LEMMA ReadIsOld ==
    ASSUME NEW c, IsLayout(c), NEW s, CountsFit(c, s), NEW aliased \in BOOLEAN, aliased,
           NEW interval \in Int, NEW n \in Array(c), NEW done,
           Adds(c, s, c, s, aliased, interval, n, done)
    PROVE  CountAtIndex(c, done.fields, n) = CountAtIndex(c, s, n)
<1> DEFINE B == Bag(c, s)
           fits == FitsOf(c, c, B, n)
           share == Share(c, Within(B, fits), interval)
<1>1. CountAtIndex(c, done.fields, n) = CountAtIndex(c, s, n) + share[n]
  BY DEF Adds
<1>2. IsConfig(c) /\ c.highest_trackable_value \in 0 .. MaxWord /\ MaxWord \in Nat
  BY WordFacts DEF IsLayout
<1>3. DOMAIN Within(B, fits) = fits /\ IsBagFor(c, Within(B, fits))
  <2>1. B = Bag(c, s) /\ fits = FitsOf(c, c, B, n)
    OBVIOUS
  <2> HIDE DEF B, fits, share
  <2>2. IsBagFor(c, Within(B, fits))
    BY <2>1, SeenFacts
  <2> QED
    BY <2>2 DEF Within
<1>4. \A v \in fits : v \in 0 .. MaxWord /\ CountsIndexFor(c, v) < n
  <2>1. \A v \in fits : v \in 0 .. c.highest_trackable_value
    BY <1>3 DEF IsBagFor
  <2>2. \A v \in fits : CountsIndexFor(c, v) < n
    BY DEF FitsOf, SeenOf
  <2> HIDE DEF fits
  <2> QED
    BY <1>2, <2>1, <2>2
<1>5. \A v \in fits : \A w \in Filled(v, interval) : CountsIndexFor(c, w) # n
  <2> SUFFICES ASSUME NEW v \in fits, NEW w \in Filled(v, interval), CountsIndexFor(c, w) = n
               PROVE  FALSE
    OBVIOUS
  <2>1. v \in 0 .. MaxWord /\ CountsIndexFor(c, v) < n
    BY <1>4
  <2> HIDE DEF fits
  <2>2. v \in Nat /\ w \in 0 .. v
    <3>1. v \in Nat
      BY <1>2, <2>1
    <3> QED
      BY <3>1, FilledFacts
  <2>3. w \in 0 .. MaxWord /\ w <= v
    BY <1>2, <2>1, <2>2
  <2>4. /\ CountsIndexFor(c, w) <= CountsIndexFor(c, v)
        /\ CountsIndexFor(c, w) \in Nat /\ CountsIndexFor(c, v) \in Nat
    BY <1>2, <2>1, <2>3, IndexGrows
  <2> QED
    BY <2>1, <2>4
<1> HIDE DEF B, fits
<1>6. share[n] = 0
  BY <1>3, <1>5, ShareFacts
<1>7. CountAtIndex(c, s, n) \in Nat
  BY CountedIsTracked DEF Array
<1> HIDE DEF share
<1> QED
  BY <1>1, <1>6, <1>7

LEMMA AddsNext ==
    ASSUME NEW c, IsLayout(c), NEW s, CountsFit(c, s),
           NEW from_c, IsLayout(from_c), NEW from, CountsFit(from_c, from),
           NEW aliased \in BOOLEAN, aliased => c = from_c /\ s = from, NEW interval \in Int,
           NEW n \in Array(from_c),
           NEW done, Adds(c, s, from_c, from, aliased, interval, n, done),
           NEW next, next = AddVisit(c, from_c, from, aliased, interval, done, n)
    PROVE  Adds(c, s, from_c, from, aliased, interval, n + 1, next)
<1> DEFINE B == Bag(from_c, from)
           seen(m) == SeenOf(from_c, B, m)
           fits(m) == FitsOf(c, from_c, B, m)
           share(m) == Share(c, Within(B, fits(m)), interval)
           unseen(m) == SumFunctionOnSet(from.counts, Unseen(from_c, from, m))
           count == CountAtIndex(from_c, from, n)
           value == ValueAtIndex(from_c, n)
           recorded == RecordCorrectedValues(c, done.fields, value, count, interval)
<1>1. /\ Walked(c, s, from_c, from, aliased, n, done)
      /\ done.cumulative_count + unseen(n) = from.total_count
      /\ done.dropped = SumFunctionOnSet(B, seen(n) \ fits(n))
      /\ \A i \in Array(c) : CountAtIndex(c, done.fields, i)
                                = CountAtIndex(c, s, i) + share(n)[i]
  BY DEF Adds
<1>2. CountAtIndex(from_c, IF aliased THEN done.fields ELSE from, n) = count
  <2>1. ASSUME aliased PROVE CountAtIndex(c, done.fields, n) = CountAtIndex(c, s, n)
    <3>1. from_c = c /\ from = s
      BY <2>1
    <3>2. Adds(c, s, c, s, aliased, interval, n, done) /\ n \in Array(c)
      BY <3>1
    <3> HIDE DEF B, seen, fits, share, unseen, count, value, recorded
    <3> QED
      BY <2>1, <3>2, ReadIsOld
  <2> QED
    BY <2>1
<1>3. /\ count \in Nat /\ value \in 0 .. MaxWord /\ MaxWord \in Nat
      /\ n \in 0 .. from_c.counts_len - 1
  BY CountedIsTracked, ValueOfIndex, WordFacts DEF Array
<1>4. /\ unseen(n) \in Nat /\ unseen(n + 1) \in Nat /\ unseen(n) = unseen(n + 1) + count
      /\ from.total_count \in Nat
  BY <1>3, UnseenNext, UsedFacts
<1>5. Walked(c, s, from_c, from, aliased, n + 1, next)
  BY <1>1, <1>3, VisitKeeps
<1>6. next = IF done.cumulative_count >= from.total_count \/ count = 0 THEN done
             ELSE [fields |-> recorded.fields,
                   cumulative_count |-> done.cumulative_count + count,
                   dropped |-> done.dropped + (IF recorded.accepted THEN 0 ELSE count)]
  BY <1>2 DEF AddVisit
<1>7. /\ Sound(c, done.fields) /\ done.cumulative_count \in Nat /\ done.dropped \in Nat
  <2>1. Sound(c, done.fields) /\ done.cumulative_count \in Nat
        /\ done.dropped \in 0 .. done.cumulative_count
    BY <1>1 DEF Walked
  <2> QED
    BY <2>1
<1>8. /\ value \notin seen(n)
      /\ seen(n + 1) = seen(n) \union (IF count = 0 THEN {} ELSE {value})
      /\ count # 0 => B[value] = count
  BY SeenNext
<1>9. /\ fits(n) = {v \in seen(n) : v <= c.highest_trackable_value}
      /\ fits(n + 1) = {v \in seen(n + 1) : v <= c.highest_trackable_value}
  BY DEF FitsOf
<1>10. /\ IsFiniteSet(seen(n) \ fits(n))
       /\ \A v \in seen(n) : v \in Nat /\ B[v] \in Nat \ {0}
       /\ \A m \in {n, n + 1} : IsBagFor(c, Within(B, fits(m))) /\ DOMAIN Within(B, fits(m)) = fits(m)
  <2>1. IsFiniteSet(seen(n) \ fits(n)) /\ \A v \in seen(n) : v \in Nat /\ B[v] \in Nat \ {0}
    BY SeenFacts
  <2>2. ASSUME NEW m
        PROVE  IsBagFor(c, Within(B, fits(m))) /\ DOMAIN Within(B, fits(m)) = fits(m)
    <3>1. B = Bag(from_c, from) /\ fits(m) = FitsOf(c, from_c, B, m)
      OBVIOUS
    <3> HIDE DEF B, fits, share, seen, unseen, count, value, recorded
    <3>2. IsBagFor(c, Within(B, fits(m)))
      BY <3>1, SeenFacts
    <3> QED
      BY <3>2 DEF Within
  <2> QED
    BY <2>1, <2>2
<1>11. c.highest_trackable_value \in Nat
  BY WordFacts DEF IsLayout
<1> HIDE DEF B, seen, fits, unseen, count, value, recorded
<1>12. ASSUME next.cumulative_count + unseen(n + 1) = from.total_count,
              next.dropped = SumFunctionOnSet(B, seen(n + 1) \ fits(n + 1)),
              \A i \in Array(c) : CountAtIndex(c, next.fields, i)
                                     = CountAtIndex(c, s, i) + share(n + 1)[i]
       PROVE  Adds(c, s, from_c, from, aliased, interval, n + 1, next)
  BY <1>5, <1>12 DEF Adds, B, seen, fits, unseen
<1>13. CASE count = 0
  <2>1. next = done /\ seen(n + 1) = seen(n) /\ unseen(n + 1) = unseen(n)
    BY <1>4, <1>6, <1>8, <1>13
  <2>2. fits(n + 1) = fits(n)
    BY <1>9, <2>1
  <2>3. share(n + 1) = share(n)
    BY <2>2
  <2> HIDE DEF share
  <2> QED
    BY <1>1, <1>12, <2>1, <2>2, <2>3
<1>14. CASE count # 0
  <2>1. ~(done.cumulative_count >= from.total_count)
    BY <1>1, <1>3, <1>4, <1>7, <1>14
  <2>2. /\ next.fields = recorded.fields
        /\ next.cumulative_count = done.cumulative_count + count
        /\ next.dropped = done.dropped + (IF recorded.accepted THEN 0 ELSE count)
    BY <1>6, <1>14, <2>1
  <2>3. next.cumulative_count + unseen(n + 1) = from.total_count
    BY <1>1, <1>3, <1>4, <1>7, <2>2
  <2>4. /\ seen(n + 1) = seen(n) \union {value} /\ B[value] = count /\ value \notin seen(n)
        /\ fits(n) \subseteq seen(n)
    BY <1>8, <1>9, <1>14
  <2>5. value \in Int /\ count \in Nat \ {0}
    BY <1>3, <1>14
  <2>6. CASE value <= c.highest_trackable_value
    <3>1. fits(n + 1) = fits(n) \union {value} /\ value \notin fits(n)
      BY <1>9, <2>4, <2>6
    <3>2. seen(n + 1) \ fits(n + 1) = seen(n) \ fits(n)
      BY <2>4, <3>1
    <3>3. value \in 0 .. c.highest_trackable_value
      BY <1>3, <1>11, <2>6
    <3>4. Adding(c, done.fields, count, Filled(value, interval), recorded)
      BY <1>7, <2>5, <3>3, CorrectedAdds DEF recorded
    <3>5. /\ recorded.accepted = TRUE
          /\ \A i \in Array(c) : CountAtIndex(c, recorded.fields, i)
                = CountAtIndex(c, done.fields, i) + count * Times(c, Filled(value, interval), i)
      BY <3>4 DEF Adding
    <3>6. next.dropped = SumFunctionOnSet(B, seen(n + 1) \ fits(n + 1))
      <4>1. next.dropped = done.dropped + 0
        BY <2>2, <3>5
      <4> QED
        BY <1>1, <1>7, <3>2, <4>1
    <3>7. ASSUME NEW i \in Array(c)
          PROVE  CountAtIndex(c, next.fields, i) = CountAtIndex(c, s, i) + share(n + 1)[i]
      <4> DEFINE before == CountAtIndex(c, s, i)
                 more == count * Times(c, Filled(value, interval), i)
                 shared == share(n)[i]
      <4>1. share(n + 1)[i] = shared + more
        <5> DEFINE X == Within(B, fits(n))
                   Y == Within(B, fits(n + 1))
        <5>1. IsBagFor(c, X) /\ IsBagFor(c, Y) /\ DOMAIN X = fits(n) /\ DOMAIN Y = fits(n + 1)
          BY <1>10
        <5>2. /\ DOMAIN Y = DOMAIN X \union {value} /\ value \notin DOMAIN X
              /\ Y[value] = count /\ \A x \in DOMAIN X : Y[x] = X[x]
          BY <2>4, <3>1, <5>1 DEF Within
        <5> HIDE DEF X, Y
        <5>3. Share(c, Y, interval)[i]
                 = Share(c, X, interval)[i] + Y[value] * Times(c, Filled(value, interval), i)
          BY <5>1, <5>2, ShareNext
        <5> QED
          BY <5>2, <5>3 DEF X, Y
      <4>2. shared \in Nat
        <5>1. IsBagFor(c, Within(B, fits(n)))
          BY <1>10
        <5> QED
          BY <5>1, ShareFacts
      <4>3. more \in Nat
        <5>1. value \in Nat
          BY <3>3, <1>11
        <5>2. Times(c, Filled(value, interval), i) \in Nat
          BY <5>1, FilledFacts, TimesNext
        <5> DEFINE times == Times(c, Filled(value, interval), i)
        <5> HIDE DEF times
        <5>3. count * times \in Nat
          BY <2>5, <5>2 DEF times
        <5> QED
          BY <5>3 DEF times
      <4>4. before \in Nat
        BY CountedIsTracked DEF Array
      <4>5. CountAtIndex(c, next.fields, i) = (before + shared) + more
        BY <1>1, <2>2, <3>5
      <4> HIDE DEF before, more, shared
      <4>6. (before + shared) + more = before + (shared + more)
        BY <4>2, <4>3, <4>4
      <4> QED
        BY <4>1, <4>5, <4>6 DEF before
    <3> HIDE DEF share
    <3> QED
      BY <1>12, <2>3, <3>6, <3>7
  <2>7. CASE ~(value <= c.highest_trackable_value)
    <3>1. fits(n + 1) = fits(n)
      BY <1>9, <2>4, <2>7
    <3>2. seen(n + 1) \ fits(n + 1) = (seen(n) \ fits(n)) \union {value}
          /\ value \notin seen(n) \ fits(n)
      BY <2>4, <3>1
    <3>3. value \notin 0 .. c.highest_trackable_value
      BY <2>7
    <3>4. recorded = [fields |-> done.fields, accepted |-> FALSE]
      BY <2>5, <3>3, CorrectedRefused DEF recorded
    <3>5. next.fields = done.fields /\ next.dropped = done.dropped + count
      BY <2>2, <3>4
    <3>6. next.dropped = SumFunctionOnSet(B, seen(n + 1) \ fits(n + 1))
      <4> DEFINE lost == seen(n) \ fits(n)
      <4>1. \A x \in lost \union {value} : B[x] \in Int
        BY <1>10, <2>4, <2>5
      <4>2. IsFiniteSet(lost) /\ value \notin lost
        BY <1>10, <3>2
      <4>3. seen(n + 1) \ fits(n + 1) = lost \union {value}
            /\ done.dropped = SumFunctionOnSet(B, lost)
        BY <1>1, <3>2
      <4> HIDE DEF lost
      <4>4. SumFunctionOnSet(B, lost \union {value}) = B[value] + SumFunctionOnSet(B, lost)
        BY <4>1, <4>2, SumAdd
      <4>5. done.dropped + count = count + done.dropped
        BY <1>3, <1>7
      <4> QED
        BY <2>4, <3>5, <4>3, <4>4, <4>5
    <3>7. share(n + 1) = share(n)
      BY <3>1
    <3> HIDE DEF share
    <3> QED
      BY <1>1, <1>12, <2>3, <3>5, <3>6, <3>7
  <2> QED
    BY <1>11, <2>5, <2>6, <2>7
<1> QED
  BY <1>13, <1>14

LEMMA AddsFirst ==
    ASSUME NEW c, IsLayout(c), NEW s, Sound(c, s),
           NEW from_c, IsLayout(from_c), NEW from, CountsFit(from_c, from),
           NEW aliased \in BOOLEAN, NEW interval \in Int,
           NEW start, start = [fields |-> s, cumulative_count |-> 0, dropped |-> 0]
    PROVE  Adds(c, s, from_c, from, aliased, interval, 0, start)
<1> DEFINE B == Bag(from_c, from)
           seen == SeenOf(from_c, B, 0)
           fits == FitsOf(c, from_c, B, 0)
<1>1. Walked(c, s, from_c, from, aliased, 0, start)
  BY WalkStarts
<1>2. SumFunctionOnSet(from.counts, Unseen(from_c, from, 0)) = from.total_count
      /\ from.total_count \in Nat
  <2>1. Unseen(from_c, from, 0) = DOMAIN from.counts
    <3>1. 0 .. 0 - 1 = {}
      OBVIOUS
    <3> QED
      BY <3>1 DEF Unseen
  <2> QED
    BY <2>1, UsedFacts DEF CountsFit
<1>3. seen = {} /\ fits = {}
  <2>1. \A v \in DOMAIN B : CountsIndexFor(from_c, v) \in Nat
    BY BagFacts DEF Array
  <2>2. seen = {}
    BY <2>1 DEF SeenOf
  <2> QED
    BY <2>2 DEF FitsOf
<1>4. start.fields = s /\ start.cumulative_count = 0 /\ start.dropped = 0
  OBVIOUS
<1>5. IsBagFor(c, Within(B, {})) /\ DOMAIN Within(B, {}) = {}
  BY FS_EmptySet DEF IsBagFor, Within
<1> HIDE DEF B, seen, fits
<1>6. start.dropped = SumFunctionOnSet(B, seen \ fits)
  <2>1. seen \ fits = {}
    BY <1>3
  <2> QED
    BY <1>4, <2>1, SumEmpty
<1>7. ASSUME NEW i \in Array(c)
      PROVE  CountAtIndex(c, start.fields, i)
                = CountAtIndex(c, s, i) + Share(c, Within(B, fits), interval)[i]
  <2>1. Share(c, Within(B, {}), interval)[i] = 0
    BY <1>5, ShareNext
  <2>2. CountAtIndex(c, s, i) \in Nat
    BY CountedIsTracked DEF Array, Sound
  <2> QED
    BY <1>3, <1>4, <2>1, <2>2
<1>8. start.cumulative_count + SumFunctionOnSet(from.counts, Unseen(from_c, from, 0))
         = from.total_count
  BY <1>2, <1>4
<1> QED
  BY <1>1, <1>6, <1>7, <1>8 DEF Adds, B, seen, fits

LEMMA AddsAll ==
    ASSUME NEW c, IsLayout(c), NEW s, Sound(c, s),
           NEW from_c, IsLayout(from_c), NEW from, CountsFit(from_c, from),
           NEW aliased \in BOOLEAN, aliased => c = from_c /\ s = from, NEW interval \in Int
    PROVE  Adds(c, s, from_c, from, aliased, interval, from_c.counts_len,
                AddFields(c, s, from_c, from, aliased, interval))
<1> DEFINE n == from_c.counts_len
           start == [fields |-> s, cumulative_count |-> 0, dropped |-> 0]
           Fine(k, done) == Adds(c, s, from_c, from, aliased, interval, k, done)
<1>1. n \in Nat /\ CountsFit(c, s)
  BY UsedFacts DEF Sound
<1>2. PICK w : /\ WalkOf(c, s, from_c, from, aliased, interval, n, w)
               /\ AddFields(c, s, from_c, from, aliased, interval) = w[n]
  BY <1>1, AddFieldsIs
<1>3. Fine(0, w[0])
  <2>1. w[0] = start
    BY <1>1, <1>2 DEF WalkOf
  <2> QED
    BY <2>1, AddsFirst
<1>4. ASSUME NEW k \in 1 .. n, Fine(k - 1, w[k - 1]) PROVE Fine(k, w[k])
  <2>1. k - 1 \in Array(from_c) /\ (k - 1) + 1 = k
    BY <1>1 DEF Array
  <2>2. w[k] = AddVisit(c, from_c, from, aliased, interval, w[k - 1], k - 1)
    BY <1>1, <1>2 DEF WalkOf
  <2>3. Fine((k - 1) + 1, w[k])
    <3>1. Adds(c, s, from_c, from, aliased, interval, k - 1, w[k - 1])
      BY <1>4
    <3> HIDE DEF n
    <3> QED
      BY <1>1, <2>1, <2>2, <3>1, AddsNext
  <2> QED
    BY <2>1, <2>3
<1> HIDE DEF Fine, n
<1> DEFINE Bad == {k \in 0 .. n : ~Fine(k, w[k])}
<1>5. Bad = {}
  <2> SUFFICES ASSUME Bad # {} PROVE FALSE
    OBVIOUS
  <2>1. PICK k \in Bad : \A j \in Bad : k <= j
    <3>1. Bad \in SUBSET (0 .. n)
      OBVIOUS
    <3> HIDE DEF Bad
    <3> QED
      BY <1>1, <3>1, LeastNatural
  <2>2. k # 0
    BY <1>3, <2>1
  <2>3. k \in 1 .. n /\ k - 1 \in 0 .. n /\ ~(k <= k - 1)
    BY <1>1, <2>1, <2>2
  <2>4. Fine(k - 1, w[k - 1])
    BY <2>1, <2>3
  <2> QED
    BY <1>4, <2>1, <2>3, <2>4
<1>6. Fine(n, w[n])
  <2>1. n \in 0 .. n
    BY <1>1
  <2> QED
    BY <1>5, <2>1
<1> QED
  BY <1>2, <1>6 DEF Fine, n

\* An addition does to the bag, and returns, what the contract says.
LEMMA AddBag ==
    ASSUME NEW h \in Histograms, NEW c, c = ConfigOf(h), NEW s, Sound(c, s),
           NEW from_c, IsLayout(from_c), NEW from, CountsFit(from_c, from),
           NEW aliased \in BOOLEAN, aliased => c = from_c /\ s = from, NEW interval \in Int,
           NEW walk, walk = AddFields(c, s, from_c, from, aliased, interval),
           NEW B, B = Bag(from_c, from),
           NEW fits, fits = {v \in DOMAIN B : v <= c.highest_trackable_value}
    PROVE  /\ walk.dropped = SumFunctionOnSet(B, DOMAIN B \ fits)
           /\ Bag(c, walk.fields)
                 = Bag(c, s) (+) Contract!RoundAll(h, [v \in fits |-> B[v]], interval)
<1> DEFINE n == from_c.counts_len
<1>1. IsLayout(c) /\ CountsFit(c, s)
  BY ConfigOfFacts DEF Sound
<1>2. Adds(c, s, from_c, from, aliased, interval, n, walk)
  BY <1>1, AddsAll
<1>3. SeenOf(from_c, B, n) = DOMAIN B
  <2>1. \A v \in DOMAIN B : CountsIndexFor(from_c, v) \in Array(from_c)
    BY BagFacts
  <2>2. n \in Nat /\ \A k \in Array(from_c) : k < n
    BY UsedFacts DEF Array
  <2> HIDE DEF n
  <2> QED
    BY <2>1, <2>2 DEF SeenOf
<1>4. FitsOf(c, from_c, B, n) = fits
  <2> HIDE DEF n
  <2> QED
    BY <1>3 DEF FitsOf
<1> HIDE DEF n
<1>5. IsBagFor(c, Within(B, fits))
  BY <1>1, <1>4, SeenFacts
<1>6. /\ walk.dropped = SumFunctionOnSet(B, DOMAIN B \ fits)
      /\ \A i \in Array(c) : CountAtIndex(c, walk.fields, i)
               = CountAtIndex(c, s, i) + Share(c, Within(B, fits), interval)[i]
      /\ CountsFit(c, walk.fields)
  BY <1>2, <1>3, <1>4 DEF Adds, Walked, Sound
<1>7. Bag(c, walk.fields) = Bag(c, s) (+) Contract!RoundAll(h, Within(B, fits), interval)
  BY <1>1, <1>5, <1>6, BagGrows
<1> QED
  BY <1>6, <1>7 DEF Within

-----------------------------------------------------------------------------
(***************************************************************************)
(* Every call is the step of HistogramContract of the same name.           *)
(***************************************************************************)
AllBags == [h \in Histograms |-> Bag(config[h], hist[h])]
HighestOf == [h \in Histograms |-> Arguments[h][2]]

BagInv == HistogramInv /\ config = [h \in Histograms |-> ConfigOf(h)]

\* A call changes one bag.
LEMMA OneBag ==
    ASSUME BagInv, config' = config, NEW h \in Histograms, NEW s, hist' = [hist EXCEPT ![h] = s],
           NEW B, B = Bag(config[h], s)
    PROVE  AllBags' = [AllBags EXCEPT ![h] = B]
<1>1. hist = [g \in Histograms |-> hist[g]]
  BY DEF BagInv, HistogramInv, AllSound
<1>2. \A g \in Histograms : hist'[g] = IF g = h THEN s ELSE hist[g]
  BY <1>1
<1> DEFINE new(g) == Bag(config[g], hist'[g])
           old(g) == Bag(config[g], hist[g])
<1>3. AllBags' = [g \in Histograms |-> new(g)]
  BY DEF AllBags, Bag
<1>4. AllBags = [g \in Histograms |-> old(g)]
  BY DEF AllBags
<1>5. \A g \in Histograms : new(g) = IF g = h THEN B ELSE old(g)
  BY <1>2
<1> HIDE DEF new, old
<1> QED
  BY <1>3, <1>4, <1>5

LEMMA RecordRefines ==
    ASSUME BagInv, NEW h \in Histograms, NEW v \in Values, NEW n \in Counts, NEW i \in Intervals,
           Record(h, v, n, i)
    PROVE  Contract!Record(h, v, n, i)
<1> DEFINE c == config[h]
           s == hist[h]
           done == RecordCorrectedValues(c, s, v, n, i)
           B == [x \in {v} |-> n]
           more == Contract!RoundAll(h, B, i)
<1>1. v \in Int /\ i \in Int /\ n \in Nat \ {0}
  BY HistogramAssumption
<1>2. /\ IsLayout(c) /\ Sound(c, s) /\ c = ConfigOf(h)
      /\ c.highest_trackable_value = HighestOf[h]
      /\ hist = [g \in Histograms |-> hist[g]]
  <2>1. IsLayout(c) /\ Sound(c, s) /\ c = ConfigOf(h) /\ hist = [g \in Histograms |-> hist[g]]
    BY DEF BagInv, HistogramInv, AllSound
  <2> QED
    BY <2>1, ConfigOfFacts DEF HighestOf
<1>3. /\ call' = <<"record", h, v, n, i>>
      /\ hist' = [hist EXCEPT ![h] = done.fields]
      /\ returned' = IF done.accepted THEN 1 ELSE 0
      /\ config' = config
  BY DEF Record
<1>4. CASE v \in 0 .. HighestOf[h]
  <2>1. done.accepted = TRUE /\ Bag(c, done.fields) = Bag(c, s) (+) more
    <3>1. v \in 0 .. c.highest_trackable_value
      BY <1>2, <1>4
    <3>2. done = RecordCorrectedValues(c, s, v, n, i)
      OBVIOUS
    <3>3. DOMAIN B = {v} /\ B[v] = n
      OBVIOUS
    <3>4. Contract!RoundAll(h, B, i) = more
      OBVIOUS
    <3> HIDE DEF B, c, s, done, more
    <3>5. done.accepted = TRUE /\ GrownBy(h, c, s, B, i, done.fields)
      BY <1>1, <1>2, <3>1, <3>2, <3>3, CorrectedBag
    <3> QED
      BY <3>4, <3>5 DEF GrownBy
  <2>2. AllBags' = [AllBags EXCEPT ![h] = Bag(c, s) (+) more]
    <3> HIDE DEF done, more
    <3> QED
      BY <1>3, <2>1, OneBag
  <2>3. AllBags[h] = Bag(c, s)
    BY DEF AllBags
  <2>4. \A x : Contract!(+)(x, more) = x (+) more
    BY SameOperators
  <2>5. AllBags' = [AllBags EXCEPT ![h] = Contract!(+)(@, more)]
    <3> HIDE DEF more, c, s
    <3> QED
      BY <2>2, <2>3, <2>4
  <2>6. returned' = 1
    BY <1>3, <2>1
  <2>7. Contract!Recorded(h, B, i)
    BY <2>5 DEF Contract!Recorded, AllBags
  <2> HIDE DEF B
  <2>8. call' = <<"record", h, v, n, i>> /\ v \in 0 .. HighestOf[h]
    BY <1>3, <1>4
  <2> QED
    BY <2>6, <2>7, <2>8 DEF Contract!Record, HighestOf, B
<1>5. CASE v \notin 0 .. HighestOf[h]
  <2>1. done = [fields |-> s, accepted |-> FALSE]
    <3>1. v \notin 0 .. c.highest_trackable_value
      BY <1>2, <1>5
    <3> HIDE DEF c, s
    <3> QED
      BY <1>1, <1>2, <3>1, CorrectedRefused
  <2>2. returned' = 0 /\ hist' = hist
    BY <1>2, <1>3, <2>1
  <2>3. AllBags' = AllBags
    <3>1. config' = config /\ hist' = hist
      BY <1>3, <2>2
    <3> QED
      BY <3>1 DEF AllBags, Bag
  <2>4. call' = <<"record", h, v, n, i>> /\ v \notin 0 .. HighestOf[h]
    BY <1>3, <1>5
  <2> QED
    BY <2>2, <2>3, <2>4 DEF Contract!Record, HighestOf, AllBags
<1> QED
  BY <1>4, <1>5

LEMMA AddRefines ==
    ASSUME BagInv, NEW h \in Histograms, NEW from \in Histograms, NEW i \in Intervals,
           Add(h, from, i)
    PROVE  Contract!Add(h, from, i)
<1> DEFINE c == config[h]
           s == hist[h]
           walk == AddFields(c, s, config[from], hist[from], h = from, i)
           source == Bag(config[from], hist[from])
           fits == {v \in DOMAIN source : v <= HighestOf[h]}
           more == Contract!RoundAll(h, [v \in fits |-> source[v]], i)
<1>1. i \in Int /\ (h = from) \in BOOLEAN
  BY HistogramAssumption
<1>2. /\ Sound(c, s) /\ c = ConfigOf(h)
      /\ c.highest_trackable_value = HighestOf[h]
      /\ IsLayout(config[from]) /\ CountsFit(config[from], hist[from])
  <2>1. Sound(c, s) /\ c = ConfigOf(h)
        /\ IsLayout(config[from]) /\ CountsFit(config[from], hist[from])
    BY DEF BagInv, HistogramInv, AllSound, Sound
  <2> QED
    BY <2>1, ConfigOfFacts DEF HighestOf
<1>3. /\ call' = <<"add", h, from, i>>
      /\ hist' = [hist EXCEPT ![h] = walk.fields]
      /\ returned' = walk.dropped
      /\ config' = config
  BY DEF Add
<1>4. /\ walk.dropped = SumFunctionOnSet(source, DOMAIN source \ fits)
      /\ Bag(c, walk.fields) = Bag(c, s) (+) more
  <2>1. (h = from) => c = config[from] /\ s = hist[from]
    OBVIOUS
  <2>2. fits = {v \in DOMAIN source : v <= c.highest_trackable_value}
    BY <1>2
  <2> DEFINE aliased == h = from
  <2>3. aliased \in BOOLEAN /\ (aliased => c = config[from] /\ s = hist[from])
        /\ walk = AddFields(c, s, config[from], hist[from], aliased, i)
    BY <1>1, <2>1
  <2> HIDE DEF c, s, fits, walk, aliased
  <2> QED
    BY <1>1, <1>2, <2>2, <2>3, AddBag
<1>5. AllBags' = [AllBags EXCEPT ![h] = Bag(c, s) (+) more]
  <2> HIDE DEF walk, more
  <2> QED
    BY <1>3, <1>4, OneBag
<1>6. AllBags[h] = Bag(c, s) /\ AllBags[from] = source
  BY DEF AllBags
<1>7. \A x : Contract!(+)(x, more) = x (+) more
  BY SameOperators
<1>8. AllBags' = [AllBags EXCEPT ![h] = Contract!(+)(@, more)]
  <2> HIDE DEF more, c, s
  <2> QED
    BY <1>5, <1>6, <1>7
<1>9. /\ Contract!BagToSet(source) = DOMAIN source
      /\ Contract!SumFunctionOnSet(source, DOMAIN source \ fits)
            = SumFunctionOnSet(source, DOMAIN source \ fits)
  BY SameOperators
<1>10. Contract!Recorded(h, [v \in fits |-> source[v]], i)
  BY <1>8 DEF Contract!Recorded, AllBags
<1>11. returned' = Contract!SumFunctionOnSet(source, Contract!BagToSet(source) \ fits)
  BY <1>3, <1>4, <1>9
<1>12. fits = {v \in Contract!BagToSet(source) : v <= HighestOf[h]}
  BY <1>9
<1> HIDE DEF fits, source
<1> QED
  BY <1>3, <1>6, <1>10, <1>11, <1>12 DEF Contract!Add, AllBags, HighestOf

LEMMA RecountRefines ==
    ASSUME BagInv, NEW h \in Histograms, ResetInternalCounters(h)
    PROVE  Contract!Recount(h)
<1> DEFINE c == config[h]
           s == hist[h]
           u == RecountFields(c, s)
<1>1. u.counts = s.counts /\ u.normalizing_index_offset = s.normalizing_index_offset
  <2>1. IsFields(s)
    BY DEF BagInv, HistogramInv, AllSound, Sound, CountsFit
  <2> HIDE DEF s, c
  <2> QED
    BY <2>1 DEF RecountFields, IsFields
<1>2. Bag(c, u) = Bag(c, s)
  BY <1>1 DEF Bag
<1>3. /\ call' = <<"recount", h>> /\ returned' = 0 /\ config' = config
      /\ hist' = [hist EXCEPT ![h] = u]
  BY DEF ResetInternalCounters
<1> HIDE DEF u
<1>4. AllBags' = [AllBags EXCEPT ![h] = Bag(c, s)]
  BY <1>2, <1>3, OneBag
<1>5. AllBags' = AllBags
  BY <1>4 DEF AllBags
<1> QED
  BY <1>3, <1>5 DEF Contract!Recount, AllBags

\* Nothing is counted in an empty histogram.
LEMMA EmptyHasNothing == \A c, offset : Bag(c, EmptyFields(offset)) = EmptyBag
<1> TAKE c, offset
<1>1. EmptyFields(offset).counts = EmptyBag
  BY DEF EmptyFields
<1>2. EmptyBag = [x \in {} |-> 1] /\ DOMAIN EmptyBag = {}
  BY DEF EmptyBag, SetToBag
<1>3. Bag(c, EmptyFields(offset)) = [x \in {} |-> 1]
  BY <1>1, <1>2 DEF Bag, BagToSet
<1> QED
  BY <1>2, <1>3

LEMMA ResetRefines ==
    ASSUME BagInv, NEW h \in Histograms, Reset(h)
    PROVE  Contract!Reset(h)
<1>1. /\ call' = <<"reset", h>> /\ returned' = 0 /\ config' = config
      /\ hist' = [hist EXCEPT ![h] = EmptyFields(hist[h].normalizing_index_offset)]
  <2>1. hist = [g \in Histograms |-> hist[g]]
    BY DEF BagInv, HistogramInv, AllSound
  <2> QED
    BY <2>1 DEF Reset
<1>2. AllBags' = [AllBags EXCEPT ![h] = EmptyBag]
  <2> DEFINE s == EmptyFields(hist[h].normalizing_index_offset)
  <2>1. config' = config /\ hist' = [hist EXCEPT ![h] = s]
    BY <1>1
  <2>2. EmptyBag = Bag(config[h], s)
    BY EmptyHasNothing
  <2> HIDE DEF s
  <2> QED
    BY <2>1, <2>2, OneBag
<1>3. Contract!EmptyBag = EmptyBag
  BY DEF Contract!EmptyBag, EmptyBag, Contract!SetToBag, SetToBag
<1> QED
  BY <1>1, <1>2, <1>3 DEF Contract!Reset, AllBags

LEMMA AlwaysBagInv == HistogramSpec => []BagInv
<1>1. HistogramInit => config = [h \in Histograms |-> ConfigOf(h)]
  BY DEF HistogramInit, ConfigOf
<1>2. ASSUME [HistogramNext]_histogram_vars PROVE config' = config
  BY <1>2 DEF HistogramNext, Record, Add, ResetInternalCounters, Reset, histogram_vars
<1>3. HistogramInit => BagInv
  BY <1>1, InitSound DEF BagInv
<1>4. BagInv /\ [HistogramNext]_histogram_vars => BagInv'
  BY <1>2, NextSound DEF BagInv, ConfigOf
<1> QED
  BY <1>3, <1>4, PTL DEF HistogramSpec

\* A histogram is the bag of what was recorded in it, rounded to its resolution: every call,
\* with whatever arguments, configuration and offset, does to the bag and returns what
\* HistogramContract says, a corrected call and an addition to itself included.
THEOREM HistogramImplementsBag == HistogramSpec => ImplementsBag
<1>1. HistogramInit => Contract!ContractInit
  <2> SUFFICES ASSUME HistogramInit PROVE Contract!ContractInit
    OBVIOUS
  <2>1. PICK offset \in Offsets : hist = [h \in Histograms |-> EmptyFields(offset[h])]
    BY DEF HistogramInit
  <2>2. \A h \in Histograms : Bag(config[h], hist[h]) = EmptyBag
    BY <2>1, EmptyHasNothing
  <2>3. AllBags = [h \in Histograms |-> EmptyBag]
    BY <2>2 DEF AllBags
  <2>4. Contract!EmptyBag = EmptyBag
    BY DEF Contract!EmptyBag, EmptyBag, Contract!SetToBag, SetToBag
  <2>5. returned = 0 /\ call = <<>>
    BY DEF HistogramInit
  <2> QED
    BY <2>3, <2>4, <2>5 DEF Contract!ContractInit, AllBags
<1>2. BagInv /\ [HistogramNext]_histogram_vars
         => [Contract!ContractNext]_(Contract!contract_vars)
  <2> SUFFICES ASSUME BagInv, [HistogramNext]_histogram_vars
               PROVE  Contract!ContractNext \/ UNCHANGED Contract!contract_vars
    OBVIOUS
  <2>1. CASE HistogramNext
    <3>1. PICK h \in Histograms :
             \/ \E v \in Values, n \in Counts, i \in Intervals : Record(h, v, n, i)
             \/ \E from \in Histograms, i \in Intervals : Add(h, from, i)
             \/ ResetInternalCounters(h)
             \/ Reset(h)
      BY <2>1 DEF HistogramNext
    <3>2. \/ \E v \in Values, n \in Counts, i \in Intervals : Contract!Record(h, v, n, i)
          \/ \E from \in Histograms, i \in Intervals : Contract!Add(h, from, i)
          \/ Contract!Recount(h)
          \/ Contract!Reset(h)
      BY <3>1, RecordRefines, AddRefines, RecountRefines, ResetRefines
    <3> QED
      BY <3>2 DEF Contract!ContractNext
  <2>2. CASE UNCHANGED histogram_vars
    <3>1. config' = config /\ hist' = hist /\ returned' = returned /\ call' = call
      BY <2>2 DEF histogram_vars
    <3>2. AllBags' = AllBags
      BY <3>1 DEF AllBags, Bag
    <3> QED
      BY <3>1, <3>2 DEF Contract!contract_vars, AllBags
  <2> QED
    BY <2>1, <2>2
<1> QED
  BY <1>1, <1>2, AlwaysBagInv, PTL DEF HistogramSpec, ImplementsBag, Contract!ContractSpec
=============================================================================
