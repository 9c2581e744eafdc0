-------------------------- MODULE Iterators_proofs --------------------------
(***************************************************************************)
(* That the iterators count everything once and report each percentile     *)
(* where it belongs, for words and arrays of any size, any iterator and    *)
(* any values that are recorded meanwhile.                                 *)
(*                                                                         *)
(* The loops of the iterators all walk the counts in the order of their    *)
(* indexes.  What has not been walked past yet is the sum of the counts    *)
(* that are unseen, and what an iterator reports is the rest.              *)
(***************************************************************************)
EXTENDS Iterators, Recording_proofs

\* The histogram is one that calls leave behind.
Filled == IsLayout(c) /\ CountsFit(c, s)

-----------------------------------------------------------------------------
(***************************************************************************)
(* Moving, and the loop of moves.                                          *)
(***************************************************************************)
\* Two iterators at the same place, with the same report of their last step, and with
\* the same target of their next one.
SamePlace(i, u) ==
    /\ u.counts_index = i.counts_index
    /\ u.total_count = i.total_count
    /\ u.count = i.count
    /\ u.cumulative_count = i.cumulative_count
    /\ u.value = i.value

SameRange(i, u) ==
    /\ u.value_iterated_from = i.value_iterated_from
    /\ u.value_iterated_to = i.value_iterated_to

SameTarget(i, u) ==
    /\ u.next_value_reporting_level = i.next_value_reporting_level
    /\ u.seen_last_value = i.seen_last_value
    /\ u.percentile_to_iterate_to = i.percentile_to_iterate_to
    /\ u.percentile = i.percentile

\* Moving changes nothing but the place.
Unmoved(i, u) ==
    /\ u.total_count = i.total_count
    /\ u.count_added_in_this_iteration_step = i.count_added_in_this_iteration_step
    /\ SameRange(i, u) /\ SameTarget(i, u)

LEMMA MoveNextFacts ==
    ASSUME Filled, NEW i \in Iterator, HasBuckets(i), NEW u, u = MoveNext(i)
    PROVE  /\ u \in Iterator /\ Unmoved(i, u)
           /\ u.counts_index = i.counts_index + 1
           /\ u.counts_index \in 0 .. c.counts_len
           /\ u.counts_index < c.counts_len =>
                 /\ u.count = CountAtIndex(c, s, u.counts_index)
                 /\ u.cumulative_count = i.cumulative_count + u.count
                 /\ u.value = ValueAtIndex(c, u.counts_index)
           /\ u.counts_index = c.counts_len =>
                 /\ u.count = i.count
                 /\ u.cumulative_count = i.cumulative_count
                 /\ u.value = i.value
<1> DEFINE index == i.counts_index + 1
<1>1. /\ c.counts_len \in Nat /\ index \in Nat /\ index <= c.counts_len
  <2>1. c.counts_len \in Nat
    BY UsedFacts DEF Filled
  <2>2. i.counts_index \in {-1} \union Nat
    BY DEF Iterator
  <2> QED
    BY <2>1, <2>2 DEF HasBuckets
<1>2. CASE index = c.counts_len
  <2>1. u = [i EXCEPT !.counts_index = index]
    BY <1>1, <1>2 DEF MoveNext
  <2> HIDE DEF index
  <2>2. u \in Iterator
    BY <1>1, <2>1 DEF Iterator
  <2>3. u.counts_index = index /\ Unmoved(i, u)
        /\ u.count = i.count /\ u.cumulative_count = i.cumulative_count /\ u.value = i.value
    BY <2>1 DEF Iterator, Unmoved, SameRange, SameTarget
  <2> QED
    BY <1>1, <1>2, <2>2, <2>3 DEF index
<1>3. CASE index < c.counts_len
  <2> DEFINE count == CountAtIndex(c, s, index)
             value == ValueAtIndex(c, index)
  <2>1. u = [i EXCEPT !.counts_index = index, !.count = count,
                      !.cumulative_count = @ + count, !.value = value]
    BY <1>1, <1>3 DEF MoveNext
  <2>2. count \in Nat /\ value \in 0 .. MaxWord
    <3>1. index \in 0 .. c.counts_len - 1
      BY <1>1, <1>3
    <3> QED
      BY <3>1, CountedIsTracked, ValueOfIndex DEF Filled
  <2> HIDE DEF index, count, value
  <2>3. i.cumulative_count \in Nat
    BY DEF Iterator
  <2>4. u \in Iterator
    <3> DEFINE sum == i.cumulative_count + count
    <3>1. sum \in Nat /\ index \in {-1} \union Nat
      BY <1>1, <2>2, <2>3
    <3>2. u = [i EXCEPT !.counts_index = index, !.count = count,
                        !.cumulative_count = sum, !.value = value]
      BY <2>1, <2>3 DEF Iterator
    <3> HIDE DEF sum
    <3> QED
      BY <2>2, <3>1, <3>2, ZenonT(60) DEF Iterator
  <2>5. /\ u.counts_index = index /\ u.count = count /\ u.value = value
        /\ u.cumulative_count = i.cumulative_count + count /\ Unmoved(i, u)
    BY <2>1 DEF Iterator, Unmoved, SameRange, SameTarget
  <2> QED
    BY <1>1, <1>3, <2>4, <2>5 DEF index, count, value
<1> QED
  BY <1>1, <1>2, <1>3

\* The recursion of the loop, and the same for at most N rounds.
LoopOf(f, stopping) ==
    f = [i \in Iterator |-> IF i \in stopping \/ ~HasBuckets(i) THEN i ELSE f[MoveNext(i)]]

RoundOf(before, n, stopping) ==
    [i \in Iterator |-> IF n = 0 \/ i \in stopping \/ ~HasBuckets(i) THEN i
                        ELSE before[MoveNext(i)]]

RoundsOf(N, F, stopping) == F = [n \in 0 .. N |-> RoundOf(F[n - 1], n, stopping)]

LEMMA RoundsExist ==
    ASSUME NEW N \in Nat, NEW stopping
    PROVE  \E F : RoundsOf(N, F, stopping)
<1> DEFINE Bad == {k \in 0 .. N : ~ \E F : RoundsOf(k, F, stopping)}
<1>1. SUFFICES ASSUME Bad # {} PROVE FALSE
  OBVIOUS
<1>2. PICK k \in Bad : \A j \in Bad : k <= j
  <2>1. Bad \in SUBSET (0 .. N)
    OBVIOUS
  <2> HIDE DEF Bad
  <2> QED
    BY <1>1, <2>1, LeastNatural
<1>3. k # 0
  <2> DEFINE F == [n \in 0 .. 0 |-> RoundOf({}, 0, stopping)]
  <2>1. \A before : RoundOf(before, 0, stopping) = RoundOf({}, 0, stopping)
    BY DEF RoundOf
  <2>2. RoundsOf(0, F, stopping)
    BY <2>1 DEF RoundsOf
  <2> QED
    BY <1>2, <2>2
<1>4. k \in Nat /\ k > 0 /\ k - 1 \in 0 .. N /\ ~(k <= k - 1)
  BY <1>2, <1>3
<1>5. PICK f : RoundsOf(k - 1, f, stopping)
  BY <1>2, <1>4
<1> DEFINE g == [n \in 0 .. k |-> IF n = k THEN RoundOf(f[k - 1], k, stopping) ELSE f[n]]
<1>6. ASSUME NEW n \in 0 .. k PROVE g[n] = RoundOf(g[n - 1], n, stopping)
  <2>1. CASE n = k
    BY <1>4, <2>1
  <2>2. CASE n # k
    <3>1. n \in 0 .. (k - 1) /\ g[n] = f[n] /\ (n # 0 => g[n - 1] = f[n - 1])
      BY <1>4, <2>2
    <3>2. f[n] = RoundOf(f[n - 1], n, stopping)
      BY <1>5, <3>1 DEF RoundsOf
    <3>3. n = 0 => \A a, b : RoundOf(a, n, stopping) = RoundOf(b, n, stopping)
      BY DEF RoundOf
    <3> HIDE DEF g
    <3> QED
      BY <3>1, <3>2, <3>3
  <2> QED
    BY <2>1, <2>2
<1>7. g = [n \in 0 .. k |-> g[n]]
  OBVIOUS
<1>8. RoundsOf(k, g, stopping)
  <2> HIDE DEF g
  <2> QED
    BY <1>6, <1>7 DEF RoundsOf
<1> QED
  BY <1>2, <1>8

LEMMA LoopExists ==
    ASSUME Filled, NEW stopping
    PROVE  \E f : LoopOf(f, stopping)
<1> DEFINE N == c.counts_len + 1
           rank(i) == IF HasBuckets(i) THEN c.counts_len - i.counts_index ELSE 0
<1>1. c.counts_len \in Nat /\ N \in Nat
  BY UsedFacts DEF Filled
<1>2. PICK F : RoundsOf(N, F, stopping)
  <2> HIDE DEF N
  <2> QED
    BY <1>1, RoundsExist
<1> DEFINE f == [i \in Iterator |-> F[rank(i)][i]]
<1>3. ASSUME NEW i \in Iterator
      PROVE  f[i] = IF i \in stopping \/ ~HasBuckets(i) THEN i ELSE f[MoveNext(i)]
  <2>1. i.counts_index \in {-1} \union Nat
    BY DEF Iterator
  <2>2. rank(i) \in 0 .. N /\ (HasBuckets(i) => rank(i) > 0)
    BY <1>1, <2>1 DEF HasBuckets
  <2>3. F[rank(i)] = RoundOf(F[rank(i) - 1], rank(i), stopping)
    <3> HIDE DEF rank, N
    <3> QED
      BY <1>2, <2>2 DEF RoundsOf
  <2>4. f[i] = F[rank(i)][i]
    OBVIOUS
  <2>5. CASE i \in stopping \/ ~HasBuckets(i)
    <3>1. RoundOf(F[rank(i) - 1], rank(i), stopping)[i] = i
      BY <2>5 DEF RoundOf
    <3> QED
      BY <2>3, <2>4, <2>5, <3>1
  <2>6. CASE ~(i \in stopping \/ ~HasBuckets(i))
    <3> DEFINE u == MoveNext(i)
    <3>1. u \in Iterator /\ u.counts_index = i.counts_index + 1
      BY <2>6, MoveNextFacts
    <3>2. rank(i) # 0
      BY <2>2, <2>6
    <3>3. f[i] = F[rank(i) - 1][u]
      <4>1. RoundOf(F[rank(i) - 1], rank(i), stopping)[i] = F[rank(i) - 1][u]
        <5> HIDE DEF rank
        <5> QED
          BY <2>6, <3>2 DEF RoundOf
      <4> QED
        BY <2>3, <2>4, <4>1
    <3> HIDE DEF u
    <3>4. rank(u) = rank(i) - 1
      BY <1>1, <2>1, <2>6, <3>1 DEF HasBuckets
    <3>5. f[u] = F[rank(u)][u]
      BY <3>1
    <3> HIDE DEF f, rank
    <3> QED
      BY <2>6, <3>3, <3>4, <3>5 DEF u
  <2> QED
    BY <2>5, <2>6
<1>4. f = [i \in Iterator |-> f[i]]
  OBVIOUS
<1>5. LoopOf(f, stopping)
  <2> HIDE DEF f
  <2> QED
    BY <1>3, <1>4 DEF LoopOf
<1> QED
  BY <1>5

\* What every round keeps, the loop keeps; and it ends where it should.
LEMMA LoopKeeps ==
    ASSUME Filled, NEW stopping, NEW Good \in SUBSET Iterator,
           \A i \in Good : i.counts_index <= c.counts_len,
           \A i \in Good : i \notin stopping /\ HasBuckets(i) => MoveNext(i) \in Good,
           NEW start \in Good,
           NEW end, end = MovedUntil(start, stopping)
    PROVE  end \in Good /\ (end \in stopping \/ ~HasBuckets(end))
<1> DEFINE Ended(i, f) == f[i] \in Good /\ (f[i] \in stopping \/ ~HasBuckets(f[i]))
           rank(i) == c.counts_len - i.counts_index
<1>1. PICK f : LoopOf(f, stopping) /\ end = f[start]
  <2>1. MovedUntil(start, stopping) = (CHOOSE f : LoopOf(f, stopping))[start]
    BY DEF MovedUntil, LoopOf
  <2> QED
    BY <2>1, LoopExists
<1>2. \A i \in Iterator : f[i] = IF i \in stopping \/ ~HasBuckets(i) THEN i ELSE f[MoveNext(i)]
  BY <1>1 DEF LoopOf
<1>3. c.counts_len \in Nat
  BY UsedFacts DEF Filled
<1> DEFINE N == c.counts_len + 1
           Bad == {n \in 0 .. N : \E i \in Good : rank(i) = n /\ ~Ended(i, f)}
<1>4. \A i \in Good : rank(i) \in 0 .. N /\ i.counts_index \in Int /\ i \in Iterator
  BY <1>3 DEF Iterator
<1>5. Bad = {}
  <2> SUFFICES ASSUME Bad # {} PROVE FALSE
    OBVIOUS
  <2>1. PICK k \in Bad : \A j \in Bad : k <= j
    <3>1. Bad \in SUBSET (0 .. N) /\ N \in Nat
      BY <1>3
    <3> HIDE DEF Bad, N
    <3> QED
      BY <3>1, LeastNatural
  <2>2. PICK i \in Good : rank(i) = k /\ ~Ended(i, f)
    BY <2>1
  <2>3. i \notin stopping /\ HasBuckets(i)
    <3> HIDE DEF rank
    <3> QED
      BY <1>2, <1>4, <2>2
  <2> DEFINE u == MoveNext(i)
  <2>4. u \in Good /\ u.counts_index = i.counts_index + 1 /\ f[i] = f[u]
    <3> HIDE DEF rank, Ended
    <3> QED
      BY <1>2, <1>4, <2>3, MoveNextFacts
  <2> HIDE DEF u
  <2>5. rank(u) = k - 1 /\ rank(u) \in 0 .. N /\ k \in Nat
    BY <1>3, <1>4, <2>1, <2>2, <2>4
  <2>6. ~Ended(u, f)
    BY <2>2, <2>4
  <2>7. rank(u) \in Bad
    BY <2>4, <2>5, <2>6
  <2> HIDE DEF Bad, rank
  <2> QED
    BY <2>1, <2>5, <2>7
<1>6. Ended(start, f)
  <2> HIDE DEF Ended, rank
  <2> QED
    BY <1>4, <1>5
<1> QED
  BY <1>1, <1>6

-----------------------------------------------------------------------------
(***************************************************************************)
(* What has not been walked past.                                          *)
(***************************************************************************)
Rest(n) == SumFunctionOnSet(s.counts, Unseen(c, s, n))

LEMMA RestFacts ==
    ASSUME Filled
    PROVE  /\ c.counts_len \in Nat \ {0} /\ s.total_count \in Nat
           /\ Rest(0) = s.total_count
           /\ \A n \in 0 .. c.counts_len + 1 : Rest(n) \in Nat
           /\ \A i \in 0 .. c.counts_len - 1 :
                 /\ CountAtIndex(c, s, i) \in Nat
                 /\ Rest(i) = Rest(i + 1) + CountAtIndex(c, s, i)
           /\ Rest(c.counts_len) = 0 /\ Rest(c.counts_len + 1) = 0
<1> DEFINE used == DOMAIN s.counts
<1>1. /\ LastIndex(c) \in 0 .. c.counts_len - 1 /\ c.counts_len \in Nat
      /\ used \subseteq 0 .. c.counts_len - 1
      /\ IsFiniteSet(used)
      /\ s.total_count \in Nat
  BY UsedFacts DEF Filled
<1>2. /\ s.total_count = SumFunctionOnSet(s.counts, used)
      /\ \A i \in used : s.counts[i] \in Nat
      /\ \A i \in used : \E j \in 0 .. LastIndex(c) : i = NormalizeIndex(c, s, j)
  BY DEF Filled, CountsFit
<1>3. Unseen(c, s, 0) = used
  <2>1. 0 .. 0 - 1 = {}
    OBVIOUS
  <2> QED
    BY <2>1 DEF Unseen
<1>4. Unseen(c, s, c.counts_len) = {} /\ Unseen(c, s, c.counts_len + 1) = {}
  <2>1. \A j \in 0 .. LastIndex(c) : j \in 0 .. c.counts_len - 1 /\ j \in 0 .. (c.counts_len + 1) - 1
    BY <1>1
  <2> HIDE DEF used
  <2> QED
    BY <1>2, <2>1 DEF Unseen, used
<1>5. \A n : Rest(n) \in Nat
  <2> SUFFICES ASSUME NEW n PROVE Rest(n) \in Nat
    OBVIOUS
  <2>1. Unseen(c, s, n) \subseteq used
    BY DEF Unseen
  <2>2. IsFiniteSet(Unseen(c, s, n))
    BY <1>1, <2>1, FS_Subset
  <2>3. \A i \in Unseen(c, s, n) : s.counts[i] \in Nat
    BY <1>2, <2>1
  <2> QED
    BY <2>2, <2>3, SumNat DEF Rest
<1>6. ASSUME NEW i \in 0 .. c.counts_len - 1
      PROVE  CountAtIndex(c, s, i) \in Nat /\ Rest(i) = Rest(i + 1) + CountAtIndex(c, s, i)
  <2>1. CountAtIndex(c, s, i) \in Nat
    BY CountedIsTracked DEF Filled
  <2>2. Rest(i) = Rest(i + 1) + CountAtIndex(c, s, i)
    BY UnseenNext DEF Filled, Rest
  <2> QED
    BY <2>1, <2>2
<1>7. Rest(0) = s.total_count /\ Rest(c.counts_len) = 0 /\ Rest(c.counts_len + 1) = 0
  BY <1>2, <1>3, <1>4, SumEmpty DEF Rest
<1>8. c.counts_len \in Nat \ {0}
  BY <1>1
<1> HIDE DEF used
<1> QED
  BY <1>1, <1>5, <1>6, <1>7, <1>8

\* What an iterator has walked past and what it has not.
Total(i) == i.cumulative_count + Rest(i.counts_index + 1)

LEMMA TotalFacts ==
    ASSUME Filled, NEW i \in Iterator, i.counts_index <= c.counts_len
    PROVE  /\ i.counts_index \in -1 .. c.counts_len
           /\ i.total_count \in Nat /\ i.count \in Nat /\ i.cumulative_count \in Nat
           /\ Rest(i.counts_index + 1) \in Nat
           /\ Total(i) = i.cumulative_count + Rest(i.counts_index + 1)
           /\ ~HasBuckets(i) => i.counts_index = c.counts_len /\ Rest(i.counts_index + 1) = 0
<1>1. /\ i.counts_index \in {-1} \union Nat /\ i.total_count \in Nat /\ i.count \in Nat
      /\ i.cumulative_count \in Nat
  BY DEF Iterator
<1>2. c.counts_len \in Nat /\ (\A n \in 0 .. c.counts_len + 1 : Rest(n) \in Nat)
      /\ Rest(c.counts_len + 1) = 0
  BY RestFacts
<1>3. i.counts_index \in -1 .. c.counts_len /\ i.counts_index + 1 \in 0 .. c.counts_len + 1
  BY <1>1, <1>2
<1> QED
  BY <1>1, <1>2, <1>3 DEF Total, HasBuckets

\* Moving takes from the one what it adds to the other.
LEMMA MoveKeepsTotal ==
    ASSUME Filled, NEW i \in Iterator, HasBuckets(i), NEW u, u = MoveNext(i)
    PROVE  /\ Total(u) = Total(i)
           /\ i.cumulative_count <= u.cumulative_count
           /\ i.total_count <= Total(i) /\ HasNext(i) => u.counts_index < c.counts_len
<1>1. i.counts_index <= c.counts_len
  <2>1. i.counts_index \in {-1} \union Nat /\ c.counts_len \in Nat
    BY RestFacts DEF Iterator
  <2> QED
    BY <2>1 DEF HasBuckets
<1>2. /\ u \in Iterator /\ u.counts_index = i.counts_index + 1
      /\ u.counts_index \in 0 .. c.counts_len
      /\ u.counts_index < c.counts_len =>
            /\ u.count = CountAtIndex(c, s, u.counts_index)
            /\ u.cumulative_count = i.cumulative_count + u.count
      /\ u.counts_index = c.counts_len => u.cumulative_count = i.cumulative_count
  BY MoveNextFacts
<1>3. /\ i.counts_index \in -1 .. c.counts_len
      /\ i.total_count \in Nat /\ i.cumulative_count \in Nat
      /\ Rest(i.counts_index + 1) \in Nat
      /\ Total(i) = i.cumulative_count + Rest(i.counts_index + 1)
  BY <1>1, TotalFacts
<1>4. /\ u.counts_index <= c.counts_len /\ u.cumulative_count \in Nat /\ u.count \in Nat
      /\ Rest(u.counts_index + 1) \in Nat
      /\ Total(u) = u.cumulative_count + Rest(u.counts_index + 1)
  BY <1>2, TotalFacts
<1>5. CASE u.counts_index < c.counts_len
  <2>1. u.counts_index \in 0 .. c.counts_len - 1
    BY <1>2, <1>5, RestFacts
  <2>2. Rest(u.counts_index) = Rest(u.counts_index + 1) + u.count
    BY <1>2, <1>5, <2>1, RestFacts
  <2> QED
    BY <1>2, <1>3, <1>4, <1>5, <2>2
<1>6. CASE u.counts_index = c.counts_len
  <2>1. Rest(u.counts_index) = 0 /\ Rest(u.counts_index + 1) = 0
    BY <1>6, RestFacts
  <2>2. Total(u) = Total(i) /\ Total(i) = i.cumulative_count
    BY <1>2, <1>3, <1>4, <1>6, <2>1
  <2>3. ~(i.total_count <= Total(i) /\ HasNext(i))
    BY <1>3, <2>2 DEF HasNext
  <2> QED
    BY <1>2, <1>3, <1>6, <2>2, <2>3
<1>7. u.counts_index < c.counts_len \/ u.counts_index = c.counts_len
  BY <1>2, RestFacts
<1> QED
  BY <1>5, <1>6, <1>7

-----------------------------------------------------------------------------
(***************************************************************************)
(* One call of each iterator.                                              *)
(***************************************************************************)
\* What is updated at the end of a step.
LEMMA UpdateFields ==
    ASSUME NEW i \in Iterator, NEW to \in Int, NEW u, u = UpdateIteratedValues(i, to)
    PROVE  /\ u \in Iterator /\ SamePlace(i, u) /\ SameTarget(i, u)
           /\ u.count_added_in_this_iteration_step = i.count_added_in_this_iteration_step
           /\ u.value_iterated_from = i.value_iterated_to /\ u.value_iterated_to = to
BY DEF UpdateIteratedValues, Iterator, SamePlace, SameTarget

\* The iterator i, of which a step reports that count.
Adding(i, count) == [i EXCEPT !.count_added_in_this_iteration_step = count]

LEMMA AddingFields ==
    ASSUME NEW i \in Iterator, NEW count \in Nat, NEW u, u = Adding(i, count)
    PROVE  /\ u \in Iterator /\ SamePlace(i, u) /\ SameTarget(i, u) /\ SameRange(i, u)
           /\ u.count_added_in_this_iteration_step = count
BY DEF Adding, Iterator, SamePlace, SameTarget, SameRange

\* The same place has the same total.
LEMMA PlaceKeepsTotal ==
    ASSUME NEW i, NEW u, SamePlace(i, u)
    PROVE  Total(u) = Total(i)
BY DEF SamePlace, Total

\* What every call does, of which next is the outcome.
Stepped(i, next) ==
    /\ next[1] \in Iterator /\ next[1].counts_index <= c.counts_len
    /\ next[2] \in BOOLEAN
    /\ Total(next[1]) = Total(i) /\ next[1].total_count = i.total_count

\* Where an iteration is at its end.
Exhausted(i) == ~HasNext(i) \/ ~HasBuckets(i)

\* all_values_iter_next.
LEMMA AllValuesStep ==
    ASSUME Filled, NEW i \in Iterator, HasBuckets(i), NEW next, next = AllValuesIterNext(i)
    PROVE  /\ Stepped(i, next)
           /\ next[1].cumulative_count
                 = i.cumulative_count + (IF next[2] THEN next[1].count ELSE 0)
           /\ IF next[2] THEN HasBuckets(next[1]) ELSE ~HasBuckets(next[1])
<1> DEFINE u == MoveNext(i)
<1>1. /\ u \in Iterator /\ Unmoved(i, u)
      /\ u.counts_index \in 0 .. c.counts_len
      /\ u.counts_index < c.counts_len => u.cumulative_count = i.cumulative_count + u.count
      /\ u.counts_index = c.counts_len => u.cumulative_count = i.cumulative_count
  BY MoveNextFacts
<1>2. Total(u) = Total(i)
  BY MoveKeepsTotal
<1>3. c.counts_len \in Nat /\ i.cumulative_count \in Nat /\ u.value \in Int
  BY <1>1, RestFacts DEF Iterator
<1>4. next = IF HasBuckets(u) THEN <<UpdateIteratedValues(u, u.value), TRUE>> ELSE <<u, FALSE>>
  BY DEF AllValuesIterNext
<1> HIDE DEF u
<1>5. CASE HasBuckets(u)
  <2> DEFINE v == UpdateIteratedValues(u, u.value)
  <2>1. v \in Iterator /\ SamePlace(u, v)
    BY <1>1, <1>3, UpdateFields
  <2>2. next[1] = v /\ next[2] = TRUE
    BY <1>4, <1>5
  <2> HIDE DEF v
  <2>3. Total(v) = Total(u)
    BY <2>1, PlaceKeepsTotal
  <2>4. /\ v.counts_index = u.counts_index /\ v.total_count = i.total_count
        /\ v.cumulative_count = u.cumulative_count /\ v.count = u.count
    BY <1>1, <2>1 DEF SamePlace, Unmoved
  <2>5. u.counts_index < c.counts_len /\ u.counts_index <= c.counts_len
    BY <1>1, <1>5 DEF HasBuckets
  <2> QED
    BY <1>1, <1>2, <1>5, <2>1, <2>2, <2>3, <2>4, <2>5 DEF Stepped, HasBuckets
<1>6. CASE ~HasBuckets(u)
  <2>1. next[1] = u /\ next[2] = FALSE
    BY <1>4, <1>6
  <2>2. u.counts_index = c.counts_len /\ u.counts_index <= c.counts_len
    BY <1>1, <1>3, <1>6 DEF HasBuckets
  <2>3. u.cumulative_count = i.cumulative_count + 0
    BY <1>1, <1>3, <2>2
  <2> QED
    BY <1>1, <1>2, <1>6, <2>1, <2>2, <2>3 DEF Stepped, Unmoved
<1> QED
  BY <1>5, <1>6

\* recorded_iter_next, which never moves to the end of the counts.
LEMMA RecordedStep ==
    ASSUME Filled, NEW i \in Iterator, i.counts_index <= c.counts_len,
           i.total_count <= Total(i), NEW next, next = RecordedIterNext(i)
    PROVE  /\ Stepped(i, next)
           /\ next[1].cumulative_count = i.cumulative_count
                 + (IF next[2] THEN next[1].count_added_in_this_iteration_step ELSE 0)
           /\ ~next[2] => Exhausted(next[1])
<1> DEFINE stopping == {at \in Iterator : at.count # 0 \/ ~BasicIterNext(at)}
           start == MoveNext(i)
           end == MovedUntil(start, stopping)
           Good == {a \in Iterator : /\ a.counts_index < c.counts_len
                                     /\ a.total_count = i.total_count
                                     /\ Total(a) = Total(i)
                                     /\ a.cumulative_count = i.cumulative_count + a.count}
<1>1. c.counts_len \in Nat /\ i.cumulative_count \in Nat /\ i.total_count \in Nat
  BY RestFacts DEF Iterator
<1>2. CASE ~BasicIterNext(i)
  <2>1. next = <<i, FALSE>>
    BY <1>2 DEF RecordedIterNext
  <2>2. next[1] = i /\ next[2] = FALSE /\ i.cumulative_count = i.cumulative_count + 0
    BY <1>1, <2>1
  <2> QED
    BY <1>2, <2>2 DEF Stepped, Exhausted, BasicIterNext
<1>3. CASE BasicIterNext(i)
  <2>1. HasNext(i) /\ HasBuckets(i)
    BY <1>3 DEF BasicIterNext
  <2>2. start \in Good
    <3>1. /\ start \in Iterator /\ Unmoved(i, start)
          /\ start.counts_index < c.counts_len =>
                start.cumulative_count = i.cumulative_count + start.count
      BY <2>1, MoveNextFacts
    <3>2. Total(start) = Total(i) /\ start.counts_index < c.counts_len
      BY <2>1, MoveKeepsTotal
    <3> HIDE DEF start
    <3> QED
      BY <3>1, <3>2 DEF Unmoved
  <2>3. ASSUME NEW a \in Good, a \notin stopping, HasBuckets(a) PROVE MoveNext(a) \in Good
    <3> DEFINE u == MoveNext(a)
    <3>1. /\ a \in Iterator /\ a.total_count = i.total_count /\ Total(a) = Total(i)
          /\ a.cumulative_count = i.cumulative_count + a.count
      OBVIOUS
    <3>2. a.count = 0 /\ HasNext(a)
      BY <2>3, <3>1 DEF BasicIterNext
    <3>3. /\ u \in Iterator /\ Unmoved(a, u)
          /\ u.counts_index < c.counts_len => u.cumulative_count = a.cumulative_count + u.count
      BY <2>3, <3>1, MoveNextFacts
    <3>4. Total(u) = Total(a) /\ u.counts_index < c.counts_len
      BY <2>3, <3>1, <3>2, MoveKeepsTotal
    <3> HIDE DEF u
    <3>5. u.cumulative_count = i.cumulative_count + u.count
      BY <1>1, <3>1, <3>2, <3>3, <3>4
    <3>6. u \in Good
      BY <3>1, <3>3, <3>4, <3>5 DEF Unmoved
    <3> QED
      BY <3>6 DEF u
  <2>4. end \in Good /\ (end \in stopping \/ ~HasBuckets(end))
    <3>1. \A a \in Good : a.counts_index <= c.counts_len
      BY <1>1 DEF Iterator
    <3>2. Good \in SUBSET Iterator
      OBVIOUS
    <3> HIDE DEF Good, stopping, start
    <3> QED
      BY <2>2, <2>3, <3>1, <3>2, LoopKeeps
  <2>5. /\ end \in Iterator /\ end.counts_index < c.counts_len
        /\ end.total_count = i.total_count /\ Total(end) = Total(i)
        /\ end.cumulative_count = i.cumulative_count + end.count
        /\ end.count # 0 \/ ~BasicIterNext(end) \/ ~HasBuckets(end)
    <3> HIDE DEF end
    <3> QED
      BY <2>4
  <2>6. next = IF end.count = 0 THEN <<end, FALSE>>
               ELSE <<Adding(UpdateIteratedValues(end, end.value), end.count), TRUE>>
    BY <1>3 DEF RecordedIterNext, Adding
  <2> HIDE DEF end, stopping, start, Good
  <2>7. /\ end.counts_index \in Int /\ end.count \in Nat /\ end.value \in Int
        /\ end.counts_index <= c.counts_len
    BY <1>1, <2>5 DEF Iterator
  <2>8. CASE end.count = 0
    <3>1. next[1] = end /\ next[2] = FALSE
      BY <2>6, <2>8
    <3> QED
      BY <2>5, <2>7, <2>8, <3>1 DEF Stepped, Exhausted, BasicIterNext
  <2>9. CASE end.count # 0
    <3> DEFINE v == UpdateIteratedValues(end, end.value)
               w == Adding(v, end.count)
    <3>1. v \in Iterator /\ SamePlace(end, v)
      BY <2>5, <2>7, UpdateFields
    <3>2. next[1] = w /\ next[2] = TRUE
      BY <2>6, <2>9
    <3> HIDE DEF v
    <3>3. w \in Iterator /\ SamePlace(v, w)
          /\ w.count_added_in_this_iteration_step = end.count
      BY <2>7, <3>1, AddingFields
    <3> HIDE DEF w
    <3>4. Total(w) = Total(end)
      BY <3>1, <3>3, PlaceKeepsTotal
    <3>5. /\ w.counts_index = end.counts_index /\ w.total_count = end.total_count
          /\ w.cumulative_count = end.cumulative_count
      BY <3>1, <3>3 DEF SamePlace
    <3> QED
      BY <2>5, <2>7, <3>2, <3>3, <3>4, <3>5 DEF Stepped
  <2> QED
    BY <2>8, <2>9
<1> QED
  BY <1>2, <1>3

\* A level that leaves the word is still an integer.
LEMMA LevelInt ==
    ASSUME kind \in Kinds, NEW level \in Int
    PROVE  NextReportingLevel(level) \in Int
<1>1. MaxWord \in Nat
  BY WordFacts
<1>2. \A n \in Int : Wrap(n) \in Int
  <2>1. \A x \in Int, d \in Nat \ {0} : x % d \in Int
    BY Z3
  <2>2. 2 * (MaxWord + 1) \in Nat \ {0}
    BY <1>1
  <2> SUFFICES ASSUME NEW n \in Int PROVE Wrap(n) \in Int
    OBVIOUS
  <2> DEFINE x == n + MaxWord + 1
             d == 2 * (MaxWord + 1)
  <2>3. x \in Int /\ d \in Nat \ {0}
    BY <1>1, <2>2
  <2>4. Wrap(n) = (x % d) - (MaxWord + 1)
    BY DEF Wrap
  <2> HIDE DEF x, d
  <2>5. x % d \in Int
    BY <2>1, <2>3
  <2> QED
    BY <1>1, <2>4, <2>5
<1>3. kind.by \in Nat
  BY IteratorsAssumption
<1>4. RaisedLevel(level) \in Int
  BY <1>3 DEF RaisedLevel
<1> QED
  BY <1>2, <1>4 DEF NextReportingLevel

LEMMA ReportFields ==
    ASSUME kind \in Kinds, NEW i \in Iterator, NEW u, u = ReportLevel(i)
    PROVE  /\ u \in Iterator /\ SamePlace(i, u)
           /\ u.count_added_in_this_iteration_step = i.count_added_in_this_iteration_step
           /\ u.value_iterated_from = i.value_iterated_to
           /\ u.value_iterated_to = i.next_value_reporting_level
           /\ u.next_value_reporting_level = NextReportingLevel(i.next_value_reporting_level)
           /\ u.seen_last_value = i.seen_last_value
           /\ u.percentile_to_iterate_to = i.percentile_to_iterate_to
           /\ u.percentile = i.percentile
<1> DEFINE level == i.next_value_reporting_level
           raised == NextReportingLevel(level)
           v == UpdateIteratedValues(i, level)
<1>1. level \in Int /\ raised \in Int
  <2>1. level \in Int
    BY DEF Iterator
  <2> QED
    BY <2>1, LevelInt
<1>2. /\ v \in Iterator /\ SamePlace(i, v) /\ SameTarget(i, v)
      /\ v.count_added_in_this_iteration_step = i.count_added_in_this_iteration_step
      /\ v.value_iterated_from = i.value_iterated_to /\ v.value_iterated_to = level
  BY <1>1, UpdateFields
<1>3. v.next_value_reporting_level = level
  BY <1>2 DEF SameTarget
<1>4. u = [v EXCEPT !.next_value_reporting_level = NextReportingLevel(@)]
  BY DEF ReportLevel
<1> HIDE DEF v
<1>5. u = [v EXCEPT !.next_value_reporting_level = raised]
  BY <1>2, <1>3, <1>4 DEF Iterator
<1> HIDE DEF raised, level
<1>6. u \in Iterator
  BY <1>1, <1>2, <1>5 DEF Iterator
<1>7. SamePlace(v, u) /\ SameRange(v, u) /\ u.next_value_reporting_level = raised
      /\ u.count_added_in_this_iteration_step = v.count_added_in_this_iteration_step
      /\ u.seen_last_value = v.seen_last_value
      /\ u.percentile_to_iterate_to = v.percentile_to_iterate_to
      /\ u.percentile = v.percentile
  BY <1>2, <1>5 DEF Iterator, SamePlace, SameRange
<1> QED
  BY <1>2, <1>6, <1>7 DEF SamePlace, SameRange, SameTarget, raised, level

\* The loop of iter_linear_next and log_iter_next, which may run into the end.
LEMMA ReachStep ==
    ASSUME Filled, kind \in Kinds, NEW i \in Iterator, i.counts_index <= c.counts_len,
           i.count_added_in_this_iteration_step = 0, NEW u, u = ReachLevel(i)
    PROVE  /\ u \in Iterator /\ u.counts_index <= c.counts_len
           /\ Total(u) = Total(i) /\ u.total_count = i.total_count
           /\ u.cumulative_count = i.cumulative_count + u.count_added_in_this_iteration_step
<1> DEFINE level == LowestEquivalentValue(c, i.next_value_reporting_level)
           stopping == {at \in Iterator : at.value >= level}
           end == MovedUntil(i, stopping)
           Good == {a \in Iterator : /\ a.counts_index <= c.counts_len
                                     /\ Unmoved(i, a)
                                     /\ Total(a) = Total(i)
                                     /\ i.cumulative_count <= a.cumulative_count}
<1>1. c.counts_len \in Nat /\ i.cumulative_count \in Nat
  BY RestFacts DEF Iterator
<1>2. i \in Good
  BY <1>1 DEF Unmoved, SameRange, SameTarget
<1>3. ASSUME NEW a \in Good, HasBuckets(a) PROVE MoveNext(a) \in Good
  <2> DEFINE v == MoveNext(a)
  <2>1. a \in Iterator /\ Unmoved(i, a) /\ Total(a) = Total(i)
        /\ i.cumulative_count <= a.cumulative_count /\ a.cumulative_count \in Nat
    BY DEF Iterator
  <2>2. v \in Iterator /\ Unmoved(a, v) /\ v.counts_index \in 0 .. c.counts_len
    BY <1>3, <2>1, MoveNextFacts
  <2>3. Total(v) = Total(a) /\ a.cumulative_count <= v.cumulative_count
    BY <1>3, <2>1, MoveKeepsTotal
  <2>4. v.cumulative_count \in Nat
    BY <2>2 DEF Iterator
  <2> HIDE DEF v
  <2>5. Unmoved(i, v)
    BY <2>1, <2>2 DEF Unmoved, SameRange, SameTarget
  <2>6. i.cumulative_count <= v.cumulative_count /\ v.counts_index <= c.counts_len
    BY <1>1, <2>1, <2>2, <2>3, <2>4
  <2>7. v \in Good
    BY <2>1, <2>2, <2>3, <2>5, <2>6
  <2> QED
    BY <2>7 DEF v
<1>4. end \in Good
  <2>1. Good \in SUBSET Iterator /\ \A a \in Good : a.counts_index <= c.counts_len
    OBVIOUS
  <2> HIDE DEF Good, stopping
  <2> QED
    BY <1>2, <1>3, <2>1, LoopKeeps
<1>5. /\ end \in Iterator /\ end.counts_index <= c.counts_len
      /\ Unmoved(i, end) /\ Total(end) = Total(i)
      /\ i.cumulative_count <= end.cumulative_count
  <2> HIDE DEF end
  <2> QED
    BY <1>4
<1> DEFINE added == end.cumulative_count - i.cumulative_count
           counted == Adding(end, added)
<1>6. u = IF end.value >= level THEN ReportLevel(counted) ELSE counted
  <2>1. u = IF end.value >= level
            THEN ReportLevel([end EXCEPT !.count_added_in_this_iteration_step =
                                 @ + end.cumulative_count - i.cumulative_count])
            ELSE [end EXCEPT !.count_added_in_this_iteration_step =
                                 @ + end.cumulative_count - i.cumulative_count]
    BY DEF ReachLevel
  <2> HIDE DEF end
  <2>2. end.count_added_in_this_iteration_step = 0 /\ end.cumulative_count \in Nat
    BY <1>5 DEF Unmoved, Iterator
  <2>3. 0 + end.cumulative_count - i.cumulative_count = added
    BY <1>1, <2>2
  <2>4. [end EXCEPT !.count_added_in_this_iteration_step =
                                 @ + end.cumulative_count - i.cumulative_count] = counted
    BY <1>5, <2>2, <2>3 DEF Iterator, Adding
  <2> QED
    BY <2>1, <2>4
<1> HIDE DEF end, level
<1>7. end.cumulative_count \in Nat /\ added \in Nat
      /\ end.cumulative_count = i.cumulative_count + added
  <2>1. end.cumulative_count \in Nat
    BY <1>5 DEF Iterator
  <2> QED
    BY <1>1, <1>5, <2>1
<1> HIDE DEF added
<1>8. counted \in Iterator /\ SamePlace(end, counted)
      /\ counted.count_added_in_this_iteration_step = added
  BY <1>5, <1>7, AddingFields
<1> HIDE DEF counted
<1>9. u \in Iterator /\ SamePlace(end, u) /\ u.count_added_in_this_iteration_step = added
  <2>1. ReportLevel(counted) \in Iterator /\ SamePlace(counted, ReportLevel(counted))
        /\ ReportLevel(counted).count_added_in_this_iteration_step = added
    BY <1>8, ReportFields
  <2> QED
    BY <1>6, <1>8, <2>1 DEF SamePlace
<1>10. Total(u) = Total(end)
  BY <1>9, PlaceKeepsTotal
<1> QED
  BY <1>5, <1>7, <1>9, <1>10 DEF SamePlace, Unmoved

\* iter_linear_next and log_iter_next.
LEMMA LevelStep ==
    ASSUME Filled, kind \in Kinds, NEW i \in Iterator, i.counts_index <= c.counts_len,
           NEW next, next = LevelIterNext(i)
    PROVE  /\ Stepped(i, next)
           /\ next[1].cumulative_count = i.cumulative_count
                 + (IF next[2] THEN next[1].count_added_in_this_iteration_step ELSE 0)
           /\ ~next[2] => ~HasNext(next[1])
<1> DEFINE begun == Adding(i, 0)
           go == \/ HasNext(i)
                 \/ NextValueGreater(i, LowestEquivalentValue(c, i.next_value_reporting_level))
<1>1. begun \in Iterator /\ SamePlace(i, begun) /\ begun.count_added_in_this_iteration_step = 0
  BY AddingFields
<1>2. next = IF go THEN <<ReachLevel(begun), TRUE>> ELSE <<begun, FALSE>>
  BY DEF LevelIterNext, Adding
<1> HIDE DEF begun
<1>3. /\ begun.counts_index = i.counts_index /\ begun.total_count = i.total_count
      /\ begun.cumulative_count = i.cumulative_count /\ i.cumulative_count \in Nat
  BY <1>1 DEF SamePlace, Iterator
<1>4. Total(begun) = Total(i)
  BY <1>1, PlaceKeepsTotal
<1>5. CASE go
  <2> DEFINE u == ReachLevel(begun)
  <2>1. next[1] = u /\ next[2] = TRUE
    BY <1>2, <1>5
  <2>2. /\ u \in Iterator /\ u.counts_index <= c.counts_len
        /\ Total(u) = Total(begun) /\ u.total_count = begun.total_count
        /\ u.cumulative_count = begun.cumulative_count + u.count_added_in_this_iteration_step
    BY <1>1, <1>3, ReachStep
  <2> HIDE DEF u, go
  <2> QED
    BY <1>3, <1>4, <2>1, <2>2 DEF Stepped
<1>6. CASE ~go
  <2>1. next[1] = begun /\ next[2] = FALSE /\ ~HasNext(i)
    BY <1>2, <1>6
  <2>2. ~HasNext(begun) /\ i.cumulative_count = i.cumulative_count + 0
    BY <1>3, <2>1 DEF HasNext
  <2> HIDE DEF go
  <2> QED
    BY <1>1, <1>3, <1>4, <2>1, <2>2 DEF Stepped
<1> QED
  BY <1>5, <1>6

-----------------------------------------------------------------------------
(***************************************************************************)
(* A value that is recorded meanwhile.                                     *)
(***************************************************************************)
LEMMA RecordRest ==
    ASSUME Filled, NEW value, NEW u, u = RecordValues(c, s, value, 1), NEW n
    PROVE  CountsFit(c, u) /\ Rest(n) <= SumFunctionOnSet(u.counts, Unseen(c, u, n))
<1> DEFINE index == NormalizeIndex(c, s, CountsIndexFor(c, value))
           used == DOMAIN s.counts
           old == Unseen(c, s, n)
           new == Unseen(c, u, n)
           seen == {NormalizeIndex(c, s, j) : j \in 0 .. n - 1}
<1>1. IsLayout(c) /\ CountsFit(c, s)
  BY DEF Filled
<1>2. /\ IsFiniteSet(used) /\ (\A i \in used : s.counts[i] \in Nat)
      /\ old = used \ seen /\ old \subseteq used
  BY <1>1, UsedFacts DEF CountsFit, Unseen
<1>3. IsFiniteSet(old) /\ Rest(n) \in Nat
  <2>1. IsFiniteSet(old)
    BY <1>2, FS_Subset
  <2> HIDE DEF old
  <2>2. \A i \in old : s.counts[i] \in Nat
    BY <1>2
  <2>3. SumFunctionOnSet(s.counts, old) \in Nat
    BY <2>1, <2>2, SumNat
  <2> QED
    BY <2>1, <2>3 DEF Rest, old
<1>4. CASE ~Accepts(c, value)
  <2>1. u = s
    BY <1>4 DEF RecordValues
  <2>2. SumFunctionOnSet(u.counts, Unseen(c, u, n)) = Rest(n)
    BY <2>1 DEF Rest
  <2> QED
    BY <1>1, <1>3, <2>1, <2>2
<1>5. CASE Accepts(c, value)
  <2>1. value \in 0 .. c.highest_trackable_value /\ IsFields(s)
    BY <1>1, <1>5, AcceptsTracked DEF CountsFit
  <2>2. CountsFit(c, u)
    <3>1. 1 \in Nat \ {0}
      OBVIOUS
    <3> QED
      BY <1>1, <2>1, <3>1, RecordKeepsCounts
  <2>3. Recorded(s, value, 1, index, u)
    BY <1>5, <2>1, RecordedFields
  <2> HIDE DEF index
  <2>4. /\ DOMAIN u.counts = used \union {index}
        /\ u.counts[index] = (IF index \in used THEN s.counts[index] ELSE 0) + 1
        /\ \A i \in used \ {index} : u.counts[i] = s.counts[i]
        /\ u.normalizing_index_offset = s.normalizing_index_offset
    BY <1>2, <2>3 DEF Recorded
  <2>5. \A i \in used \union {index} : u.counts[i] \in Int
    BY <2>2, <2>4 DEF CountsFit
  <2>6. new = (used \union {index}) \ seen
    <3>1. \A j : NormalizeIndex(c, u, j) = NormalizeIndex(c, s, j)
      BY <2>4 DEF NormalizeIndex
    <3> HIDE DEF used
    <3> QED
      BY <2>4, <3>1 DEF Unseen
  <2> HIDE DEF seen
  <2>7. CASE index \in seen
    <3>1. new = old /\ \A i \in old : s.counts[i] = u.counts[i]
      BY <1>2, <2>4, <2>6, <2>7
    <3> HIDE DEF old, new
    <3>2. SumFunctionOnSet(s.counts, old) = SumFunctionOnSet(u.counts, old)
      BY <1>3, <3>1, SumSame
    <3>3. Rest(n) = SumFunctionOnSet(u.counts, new)
      BY <3>1, <3>2 DEF Rest, old
    <3> QED
      BY <1>3, <2>2, <3>3 DEF new
  <2>8. CASE index \notin seen /\ index \in used
    <3>1. new = old /\ index \in old
          /\ (\A i \in old : s.counts[i] \in Int)
          /\ u.counts[index] = s.counts[index] + 1 /\ s.counts[index] \in Int
          /\ \A i \in old \ {index} : u.counts[i] = s.counts[i]
      BY <1>2, <2>4, <2>6, <2>8
    <3>2. u.counts[index] \in Int
      BY <3>1
    <3> HIDE DEF old, new
    <3>3. SumFunctionOnSet(u.counts, old)
             = SumFunctionOnSet(s.counts, old) + u.counts[index] - s.counts[index]
      BY <1>3, <3>1, <3>2, SumChange
    <3>4. Rest(n) = SumFunctionOnSet(s.counts, old)
      BY DEF Rest, old
    <3>5. SumFunctionOnSet(u.counts, new) = Rest(n) + 1
      BY <1>3, <3>1, <3>3, <3>4
    <3>6. Rest(n) <= SumFunctionOnSet(u.counts, new)
      BY <1>3, <3>5
    <3> QED
      BY <2>2, <3>6 DEF new
  <2>9. CASE index \notin seen /\ index \notin used
    <3>1. new = old \union {index} /\ index \notin old
          /\ (\A i \in old : s.counts[i] = u.counts[i])
          /\ (\A i \in old \union {index} : u.counts[i] \in Int)
          /\ u.counts[index] = 1
      BY <1>2, <2>4, <2>5, <2>6, <2>9
    <3> HIDE DEF old, new
    <3>2. SumFunctionOnSet(u.counts, old \union {index})
             = u.counts[index] + SumFunctionOnSet(u.counts, old)
      BY <1>3, <3>1, SumAdd
    <3>3. SumFunctionOnSet(s.counts, old) = SumFunctionOnSet(u.counts, old)
      BY <1>3, <3>1, SumSame
    <3>4. Rest(n) = SumFunctionOnSet(s.counts, old)
      BY DEF Rest, old
    <3>5. SumFunctionOnSet(u.counts, new) = 1 + Rest(n)
      BY <3>1, <3>2, <3>3, <3>4
    <3>6. Rest(n) <= SumFunctionOnSet(u.counts, new)
      BY <1>3, <3>5
    <3> QED
      BY <2>2, <3>6 DEF new
  <2> QED
    BY <2>7, <2>8, <2>9
<1> QED
  BY <1>4, <1>5

-----------------------------------------------------------------------------
(***************************************************************************)
(* The percentiles that are reported.                                      *)
(***************************************************************************)
\* Functions for different ranges of exponents agree.
LEMMA PowersAgree ==
    ASSUME NEW M \in Nat, NEW N \in Nat, M <= N, NEW g, Powers(2, M, g), NEW h, Powers(2, N, h)
    PROVE  \A n \in 0 .. M : g[n] = h[n]
<1> DEFINE Bad == {n \in 0 .. M : g[n] # h[n]}
<1>1. SUFFICES ASSUME Bad # {} PROVE FALSE
  OBVIOUS
<1>2. PICK k \in Bad : \A j \in Bad : k <= j
  <2>1. Bad \in SUBSET (0 .. M)
    OBVIOUS
  <2> HIDE DEF Bad
  <2> QED
    BY <1>1, <2>1, LeastNatural
<1>3. /\ g[k] = IF k = 0 THEN 1 ELSE 2 * g[k - 1]
      /\ h[k] = IF k = 0 THEN 1 ELSE 2 * h[k - 1]
  <2>1. k \in 0 .. M /\ k \in 0 .. N
    BY <1>2
  <2> QED
    BY <2>1 DEF Powers
<1>4. k # 0 => k - 1 \in 0 .. M /\ ~(k <= k - 1)
  BY <1>2
<1>5. k # 0 => g[k - 1] = h[k - 1]
  BY <1>2, <1>4
<1> QED
  BY <1>2, <1>3, <1>5

LEMMA TwoToRecursion ==
    \A n \in Nat : TwoTo[n] = IF n = 0 THEN 1 ELSE 2 * TwoTo[n - 1]
<1> DEFINE upTo(n) == CHOOSE g : Powers(2, n, g)
           All(f) == f = [n \in Nat |-> IF n = 0 THEN 1 ELSE 2 * f[n - 1]]
           f == [n \in Nat |-> upTo(n)[n]]
<1>1. \A n \in Nat : Powers(2, n, upTo(n))
  BY PowersExist
<1>2. ASSUME NEW n \in Nat PROVE f[n] = IF n = 0 THEN 1 ELSE 2 * f[n - 1]
  <2>1. f[n] = upTo(n)[n] /\ n \in 0 .. n
    OBVIOUS
  <2> HIDE DEF upTo
  <2>2. upTo(n)[n] = IF n = 0 THEN 1 ELSE 2 * upTo(n)[n - 1]
    BY <1>1, <2>1 DEF Powers
  <2>3. ASSUME n # 0 PROVE f[n - 1] = upTo(n)[n - 1]
    <3>1. n - 1 \in Nat /\ n - 1 <= n /\ n - 1 \in 0 .. n - 1
      BY <2>3
    <3>2. upTo(n - 1)[n - 1] = upTo(n)[n - 1]
      BY <1>1, <3>1, PowersAgree
    <3> QED
      BY <3>1, <3>2
  <2> HIDE DEF f
  <2> QED
    BY <2>1, <2>2, <2>3
<1>3. \E h : All(h)
  <2>1. f = [n \in Nat |-> f[n]]
    OBVIOUS
  <2> HIDE DEF f
  <2>2. All(f)
    BY <1>2, <2>1
  <2> QED
    BY <2>2
<1>4. TwoTo = CHOOSE h : All(h)
  BY DEF TwoTo
<1>5. All(TwoTo)
  <2> HIDE DEF All
  <2> QED
    BY <1>3, <1>4
<1> QED
  BY <1>5

LEMMA TwoToFacts ==
    /\ TwoTo[0] = 1
    /\ \A n \in Nat : TwoTo[n] \in Nat \ {0} /\ n < TwoTo[n] /\ TwoTo[n + 1] = 2 * TwoTo[n]
<1> DEFINE P(n) == TwoTo[n] \in Nat \ {0} /\ n < TwoTo[n]
<1>1. TwoTo[0] = 1
  BY TwoToRecursion
<1>2. \A n \in Nat : TwoTo[n + 1] = 2 * TwoTo[n]
  <2> SUFFICES ASSUME NEW n \in Nat PROVE TwoTo[n + 1] = 2 * TwoTo[n]
    OBVIOUS
  <2>1. n + 1 \in Nat /\ n + 1 # 0 /\ (n + 1) - 1 = n
    OBVIOUS
  <2> QED
    BY <2>1, TwoToRecursion
<1>3. ASSUME NEW N \in Nat PROVE P(N)
  <2> DEFINE Bad == {n \in 0 .. N : ~P(n)}
  <2>1. SUFFICES Bad = {}
    <3>1. N \in 0 .. N
      OBVIOUS
    <3> QED
      BY <3>1
  <2>2. SUFFICES ASSUME Bad # {} PROVE FALSE
    OBVIOUS
  <2>3. PICK k \in Bad : \A j \in Bad : k <= j
    <3>1. Bad \in SUBSET (0 .. N)
      OBVIOUS
    <3> HIDE DEF Bad
    <3> QED
      BY <2>2, <3>1, LeastNatural
  <2>4. k # 0
    BY <1>1, <2>3
  <2>5. k - 1 \in 0 .. N /\ k - 1 \in Nat /\ ~(k <= k - 1) /\ (k - 1) + 1 = k
    BY <2>3, <2>4
  <2>6. P(k - 1)
    BY <2>3, <2>5
  <2>7. TwoTo[k] = 2 * TwoTo[k - 1]
    BY <1>2, <2>5
  <2> QED
    BY <2>3, <2>5, <2>6, <2>7
<1> QED
  BY <1>1, <1>2, <1>3

LEMMA TwoToSum ==
    ASSUME NEW a \in Nat, NEW N \in Nat
    PROVE  TwoTo[a + N] = TwoTo[a] * TwoTo[N]
<1> DEFINE Bad == {n \in 0 .. N : TwoTo[a + n] # TwoTo[a] * TwoTo[n]}
<1>1. SUFFICES Bad = {}
  <2>1. N \in 0 .. N
    OBVIOUS
  <2> QED
    BY <2>1
<1>2. SUFFICES ASSUME Bad # {} PROVE FALSE
  OBVIOUS
<1>3. PICK k \in Bad : \A j \in Bad : k <= j
  <2>1. Bad \in SUBSET (0 .. N)
    OBVIOUS
  <2> HIDE DEF Bad
  <2> QED
    BY <1>2, <2>1, LeastNatural
<1>4. k # 0
  <2>1. TwoTo[a + 0] = TwoTo[a] * TwoTo[0]
    BY TwoToFacts
  <2> QED
    BY <1>3, <2>1
<1>5. k - 1 \in 0 .. N /\ k - 1 \in Nat /\ ~(k <= k - 1) /\ (k - 1) + 1 = k
      /\ a + (k - 1) \in Nat /\ (a + (k - 1)) + 1 = a + k
  BY <1>3, <1>4
<1>6. TwoTo[a + (k - 1)] = TwoTo[a] * TwoTo[k - 1]
  BY <1>3, <1>5
<1>7. TwoTo[k] = 2 * TwoTo[k - 1] /\ TwoTo[a + k] = 2 * TwoTo[a + (k - 1)]
  BY <1>5, TwoToFacts
<1>8. TwoTo[a] \in Nat /\ TwoTo[k - 1] \in Nat
  BY <1>5, TwoToFacts
<1>9. \A x, y \in Nat : 2 * (x * y) = x * (2 * y)
  BY Z3
<1>10. TwoTo[a + k] = TwoTo[a] * TwoTo[k]
  BY <1>6, <1>7, <1>8, <1>9
<1> QED
  BY <1>3, <1>10

\* There is one power of 2 that is the largest with which rest does not exceed all.
LEMMA HalfExists ==
    ASSUME NEW all \in Nat, NEW rest \in Nat \ {0}, rest <= all
    PROVE  \E k \in 0 .. all : TwoTo[k] * rest <= all /\ TwoTo[k + 1] * rest > all
<1> DEFINE K == {k \in 0 .. all : TwoTo[k + 1] * rest > all}
<1>1. all \in K
  <2>1. all + 1 < TwoTo[all + 1] /\ TwoTo[all + 1] \in Nat /\ all \in 0 .. all
    BY TwoToFacts
  <2>2. \A x, y \in Nat : y # 0 => x <= x * y /\ x * y \in Nat
    BY Z3
  <2>3. TwoTo[all + 1] <= TwoTo[all + 1] * rest /\ TwoTo[all + 1] * rest \in Nat
    BY <2>1, <2>2
  <2>4. TwoTo[all + 1] * rest > all
    BY <2>1, <2>3
  <2> QED
    BY <2>1, <2>4
<1>2. PICK k \in K : \A j \in K : k <= j
  <2>1. K \in SUBSET (0 .. all) /\ K # {}
    BY <1>1
  <2> HIDE DEF K
  <2> QED
    BY <2>1, LeastNatural
<1>3. k \in 0 .. all /\ TwoTo[k + 1] * rest > all
  BY <1>2
<1>4. CASE k = 0
  <2>1. TwoTo[k] * rest = rest
    BY <1>4, TwoToFacts
  <2> QED
    BY <1>3, <2>1
<1>5. CASE k # 0
  <2>1. k - 1 \in 0 .. all /\ ~(k <= k - 1) /\ (k - 1) + 1 = k /\ k \in Nat
    BY <1>3, <1>5
  <2>2. k - 1 \notin K
    BY <1>2, <2>1
  <2>3. ~(TwoTo[k] * rest > all)
    BY <2>1, <2>2
  <2>4. TwoTo[k] \in Nat
    BY <2>1, TwoToFacts
  <2>5. \A x, y \in Nat : x * y \in Nat
    BY Z3
  <2>6. TwoTo[k] * rest \in Nat
    BY <2>4, <2>5
  <2>7. TwoTo[k] * rest <= all
    BY <2>3, <2>6
  <2> QED
    BY <1>3, <2>7
<1> QED
  BY <1>4, <1>5

\* A percentile is in ticks of a power of 2, and with the finest of them in the last
\* two halves that by ticks make up.
IsLevel(p, by, j) ==
    /\ j \in Nat /\ p = <<p[1], p[2]>>
    /\ p[1] \in Nat /\ p[2] = by * TwoTo[j]
    /\ p[1] < p[2]
    /\ j = 0 => p[1] = 0
    /\ j > 0 => p[2] - p[1] <= 2 * by

LEMMA NextLevel ==
    ASSUME NEW by \in Nat \ {0}, NEW p, NEW j, IsLevel(p, by, j),
           NEW q, q = NextPercentile(p, by)
    PROVE  /\ \E h : IsLevel(q, by, h)
           /\ p[1] * q[2] < q[1] * p[2]
<1> DEFINE T(n) == TwoTo[n]
           half(k) == T(k) * (p[2] - p[1]) <= p[2] /\ T(k + 1) * (p[2] - p[1]) > p[2]
           k == CHOOSE k \in 0 .. p[2] : half(k)
           a == p[1]
           all == p[2]
           rest == p[2] - p[1]
           h == k + 1
<1>1. j \in Nat /\ a \in Nat /\ all = by * T(j) /\ a < all /\ (j > 0 => rest <= 2 * by)
  BY DEF IsLevel
<1>2. /\ all \in Nat \ {0} /\ rest \in Nat \ {0} /\ rest <= all /\ all = a + rest
      /\ T(j) \in Nat \ {0}
  <2>1. T(j) \in Nat \ {0}
    BY <1>1, TwoToFacts
  <2>2. \A x, y \in Nat \ {0} : x * y \in Nat \ {0}
    BY Z3
  <2>3. all \in Nat \ {0}
    BY <1>1, <2>1, <2>2
  <2> QED
    BY <1>1, <2>1, <2>3
<1>3. k \in 0 .. all /\ T(k) * rest <= all /\ T(h) * rest > all
  <2>1. \E n \in 0 .. p[2] : half(n)
    BY <1>2, HalfExists
  <2> HIDE DEF half
  <2>2. k \in 0 .. p[2] /\ half(k)
    BY <2>1
  <2> HIDE DEF k
  <2> QED
    BY <2>2 DEF half
<1>4. q = <<a * ((by * T(h)) \div all) + 1, by * T(h)>>
  <2>1. HalfDistance(p) = TwoTo[1 + k]
    BY DEF HalfDistance
  <2>2. 1 + k = h
    <3>1. k \in Nat
      BY <1>2, <1>3
    <3> HIDE DEF k
    <3> QED
      BY <3>1
  <2> HIDE DEF k, h
  <2> QED
    BY <2>1, <2>2 DEF NextPercentile
<1> HIDE DEF k, half
<1>5. k \in Nat /\ h \in Nat /\ h > 0
  BY <1>2, <1>3
<1>6. T(h) = 2 * T(k) /\ T(k) \in Nat \ {0} /\ T(h) \in Nat \ {0}
  BY <1>5, TwoToFacts
<1> HIDE DEF h
<1>7. j <= h
  <2> SUFFICES ASSUME h < j PROVE FALSE
    BY <1>1, <1>5
  <2>1. h \in Nat /\ (j - 1) - h \in Nat /\ h + ((j - 1) - h) = j - 1 /\ j - 1 \in Nat
        /\ (j - 1) + 1 = j /\ j > 0
    BY <1>1, <1>5
  <2>2. T(j - 1) = T(h) * T((j - 1) - h) /\ T((j - 1) - h) \in Nat \ {0}
        /\ T(j) = 2 * T(j - 1) /\ T(j - 1) \in Nat
    <3> DEFINE d == (j - 1) - h
               i == j - 1
    <3>1. d \in Nat /\ h \in Nat /\ h + d = i /\ i \in Nat /\ i + 1 = j
      BY <2>1
    <3> HIDE DEF d, i
    <3>2. TwoTo[h + d] = TwoTo[h] * TwoTo[d] /\ TwoTo[d] \in Nat \ {0}
          /\ TwoTo[i + 1] = 2 * TwoTo[i] /\ TwoTo[i] \in Nat
      BY <3>1, TwoToSum, TwoToFacts
    <3>3. T(i) = T(h) * T(d) /\ T(d) \in Nat \ {0} /\ T(j) = 2 * T(i) /\ T(i) \in Nat
      BY <3>1, <3>2
    <3> QED
      BY <3>3 DEF d, i
  <2>3. \A x \in Nat, y \in Nat \ {0} : x <= x * y
    BY Z3
  <2>4. T(h) <= T(j - 1)
    BY <1>6, <2>2, <2>3
  <2>5. \A x, y, z, w \in Nat : x <= y /\ z <= 2 * w => x * z <= w * (2 * y)
    <3>1. \A x, y, z, w \in Nat : x <= y /\ z <= w => x * z <= y * w
      BY Z3
    <3>2. \A y, w \in Nat : y * (2 * w) = w * (2 * y)
      BY Z3
    <3> SUFFICES ASSUME NEW x \in Nat, NEW y \in Nat, NEW z \in Nat, NEW w \in Nat,
                        x <= y, z <= 2 * w
                 PROVE  x * z <= w * (2 * y)
      OBVIOUS
    <3>3. 2 * w \in Nat
      OBVIOUS
    <3>4. x * z <= y * (2 * w)
      BY <3>1, <3>3
    <3> QED
      BY <3>2, <3>4
  <2>6. T(h) * rest <= by * (2 * T(j - 1))
    <3>1. rest <= 2 * by /\ rest \in Nat /\ by \in Nat
      BY <1>1, <1>2, <2>1
    <3> HIDE DEF T, rest
    <3> QED
      BY <1>6, <2>2, <2>4, <2>5, <3>1
  <2>7. T(h) * rest <= all
    BY <1>1, <2>2, <2>6
  <2>8. T(h) * rest \in Int
    BY <1>2, <1>6
  <2> HIDE DEF T, rest, all
  <2> QED
    BY <1>2, <1>3, <2>7, <2>8
<1> DEFINE m == T(h - j)
<1>8. m \in Nat \ {0} /\ T(h) = T(j) * m
  <2> DEFINE d == h - j
  <2>1. d \in Nat /\ j \in Nat /\ j + d = h
    BY <1>1, <1>5, <1>7
  <2> HIDE DEF d
  <2>2. TwoTo[j + d] = TwoTo[j] * TwoTo[d] /\ TwoTo[d] \in Nat \ {0}
    BY <2>1, TwoToSum, TwoToFacts
  <2>3. T(h) = T(j) * T(d) /\ T(d) \in Nat \ {0}
    BY <2>1, <2>2
  <2> QED
    BY <2>3 DEF d
<1> HIDE DEF m, T, a, all, rest
<1>9. by * T(h) = all * m /\ all * m \in Nat
  <2>1. \A x, y, z \in Nat : x * (y * z) = (x * y) * z /\ (x * y) * z \in Nat
    BY Z3
  <2> QED
    BY <1>1, <1>2, <1>8, <2>1
<1>10. (by * T(h)) \div all = m
  <2>1. \A x \in Nat \ {0}, y \in Nat : (x * y) \div x = y
    BY Z3
  <2> QED
    BY <1>2, <1>8, <1>9, <2>1
<1>11. q = <<a * m + 1, all * m>> /\ q[1] = a * m + 1 /\ q[2] = all * m /\ q[2] = by * T(h)
  BY <1>4, <1>9, <1>10
<1> DEFINE x == m * rest
<1>12. /\ x \in Nat /\ all * m = a * m + x /\ a * m \in Nat
  <2>1. \A u, v, w \in Nat : (u + v) * w = u * w + w * v /\ u * w \in Nat /\ w * v \in Nat
    BY Z3
  <2> QED
    BY <1>1, <1>2, <1>8, <2>1, SMTT(30)
<1>13. by < x /\ x <= 2 * by
  <2>1. T(h) * rest = T(j) * x /\ all = T(j) * by
    <3>1. \A u, v, w \in Nat : (u * v) * w = u * (v * w) /\ u * v = v * u
      BY Z3
    <3> QED
      BY <1>1, <1>2, <1>8, <3>1
  <2>2. T(h) * rest <= 2 * all
    <3>1. \A u, v \in Nat : (2 * u) * v = 2 * (u * v) /\ u * v \in Nat
      BY Z3
    <3>2. T(h) * rest = 2 * (T(k) * rest) /\ T(k) * rest \in Nat
      BY <1>2, <1>6, <3>1
    <3> QED
      BY <1>2, <1>3, <3>2
  <2>3. \A u \in Nat \ {0}, v, w \in Nat : /\ u * v > u * w => v > w
                                           /\ u * v <= 2 * (u * w) => v <= 2 * w
    <3>1. \A u \in Nat \ {0}, v, w \in Nat : u * v > u * w => v > w
      BY Z3
    <3>2. \A u \in Nat \ {0}, v, w \in Nat : u * v <= u * w => v <= w
      BY Z3
    <3>3. \A u, w \in Nat : 2 * (u * w) = u * (2 * w) /\ 2 * w \in Nat
      BY Z3
    <3> QED
      BY <3>1, <3>2, <3>3
  <2> HIDE DEF x
  <2>4. T(j) * x > T(j) * by /\ T(j) * x <= 2 * (T(j) * by)
    BY <1>3, <2>1, <2>2
  <2> QED
    BY <1>2, <1>12, <2>3, <2>4
<1> HIDE DEF x
<1>14. IsLevel(q, by, h)
  <2>1. q[1] \in Nat /\ q[1] < q[2] /\ q[2] - q[1] <= 2 * by
    BY <1>11, <1>12, <1>13
  <2>2. q = <<q[1], q[2]>>
    BY <1>11
  <2> QED
    BY <1>5, <1>11, <2>1, <2>2 DEF IsLevel, T
<1>15. a * q[2] < q[1] * all
  <2>1. \A u, w \in Nat, v \in Nat \ {0} : u * (v * w) < (u * w + 1) * v
    <3>1. \A u, w, v \in Nat : u * (v * w) = (u * w) * v
      BY Z3
    <3>2. \A y \in Nat, v \in Nat \ {0} : y * v < (y + 1) * v
      BY Z3
    <3>3. \A u, w \in Nat : u * w \in Nat
      BY Z3
    <3> QED
      BY <3>1, <3>2, <3>3
  <2> QED
    BY <1>1, <1>2, <1>8, <1>11, <2>1
<1> QED
  BY <1>14, <1>15 DEF a, all

\* What an iterator by percentile is after any calls, whatever is recorded meanwhile.
AtLevel(i) ==
    /\ i.value \in 0 .. MaxWord
    /\ \E j : IsLevel(i.percentile_to_iterate_to, kind.by, j)

\* An iterator that stands at a count and has not lost any, since nothing was recorded.
Exact(i) ==
    /\ i.counts_index \in 0 .. c.counts_len - 1
    /\ i.count = CountAtIndex(c, s, i.counts_index)
    /\ i.value = ValueAtIndex(c, i.counts_index)
    /\ i.total_count = s.total_count /\ Total(i) = s.total_count
    /\ HasNext(i) \/ i.count # 0

\* The counts before that of i are less than the percentile p.
Before(i, p) ==
    \/ p[1] = 0 /\ i.cumulative_count = i.count
    \/ (i.cumulative_count - i.count) * p[2] < p[1] * s.total_count

LEMMA ExactMove ==
    ASSUME Filled, NEW a \in Iterator, Exact(a), HasNext(a), NEW p,
           p = a.percentile_to_iterate_to, ~ReachedPercentile(a), Before(a, p),
           NEW v, v = MoveNext(a)
    PROVE  Exact(v) /\ Before(v, p)
<1>1. /\ a.counts_index < c.counts_len /\ HasBuckets(a)
      /\ a.total_count <= Total(a)
      /\ a.cumulative_count \in Nat /\ a.count \in Nat
      /\ s.total_count \in Nat /\ c.counts_len \in Nat
  BY RestFacts DEF Exact, HasBuckets, Iterator
<1>2. Total(v) = Total(a) /\ v.counts_index < c.counts_len
  BY <1>1, MoveKeepsTotal
<1>3. /\ v \in Iterator /\ Unmoved(a, v)
      /\ v.counts_index \in 0 .. c.counts_len
      /\ v.count = CountAtIndex(c, s, v.counts_index)
      /\ v.cumulative_count = a.cumulative_count + v.count
      /\ v.value = ValueAtIndex(c, v.counts_index)
  BY <1>1, <1>2, MoveNextFacts
<1>4. v.cumulative_count \in Nat /\ v.count \in Nat /\ v.total_count = a.total_count
  BY <1>3 DEF Iterator, Unmoved
<1>5. HasNext(v) \/ v.count # 0
  BY <1>1, <1>3, <1>4 DEF HasNext, Exact
<1>6. v.counts_index \in 0 .. c.counts_len - 1
  BY <1>1, <1>2, <1>3
<1>7. Exact(v)
  BY <1>2, <1>3, <1>4, <1>5, <1>6 DEF Exact
<1>8. v.cumulative_count - v.count = a.cumulative_count
  BY <1>1, <1>3, <1>4
<1>9. Before(v, p)
  <2>1. CASE a.count = 0
    <3>1. a.cumulative_count - a.count = a.cumulative_count
      BY <1>1, <2>1
    <3>2. a.cumulative_count = a.count => v.cumulative_count = v.count
      BY <1>1, <1>3, <1>4, <2>1
    <3> QED
      BY <1>8, <3>1, <3>2 DEF Before
  <2>2. CASE a.count # 0
    <3>1. p[1] \in Nat /\ p[2] \in Nat
      BY DEF Iterator
    <3>2. ~(p[1] * s.total_count <= a.cumulative_count * p[2])
      BY <2>2 DEF ReachedPercentile
    <3>3. \A x, y \in Nat : x * y \in Nat
      BY Z3
    <3>4. p[1] * s.total_count \in Nat /\ a.cumulative_count * p[2] \in Nat
      BY <1>1, <3>1, <3>3
    <3>5. a.cumulative_count * p[2] < p[1] * s.total_count
      BY <3>2, <3>4
    <3> QED
      BY <1>8, <3>5 DEF Before
  <2> QED
    BY <2>1, <2>2
<1> QED
  BY <1>7, <1>9

\* An exact iterator that has seen everything has reached every percentile.
LEMMA AllReached ==
    ASSUME Filled, NEW a \in Iterator, Exact(a), ~HasNext(a),
           a.percentile_to_iterate_to[1] < a.percentile_to_iterate_to[2]
    PROVE  ReachedPercentile(a)
<1> DEFINE p == a.percentile_to_iterate_to
<1>1. /\ p[1] \in Nat /\ p[2] \in Nat /\ p[1] <= p[2]
      /\ a.cumulative_count \in Nat /\ s.total_count \in Nat
  BY RestFacts DEF Iterator
<1>2. s.total_count <= a.cumulative_count /\ a.count # 0
  BY <1>1 DEF HasNext, Exact
<1>3. \A w, x, y, z \in Nat : w <= x /\ y <= z => w * y <= z * x
  BY Z3
<1>4. p[1] * s.total_count <= a.cumulative_count * p[2]
  <2> HIDE DEF p
  <2> QED
    BY <1>1, <1>2, <1>3
<1> QED
  BY <1>2, <1>4 DEF ReachedPercentile

\* The loop of percentile_iter_next.
PercentileEnd(i) ==
    MovedUntil(i, {at \in Iterator : ReachedPercentile(at) \/ ~BasicIterNext(at)})

LEMMA PercentileLoop ==
    ASSUME Filled, NEW i \in Iterator, i.counts_index <= c.counts_len, i.value \in 0 .. MaxWord,
           NEW p, p = i.percentile_to_iterate_to, p[1] < p[2],
           NEW end, end = PercentileEnd(i)
    PROVE  /\ end \in Iterator /\ end.counts_index <= c.counts_len
           /\ Unmoved(i, end) /\ Total(end) = Total(i) /\ end.value \in 0 .. MaxWord
           /\ Exact(i) /\ Before(i, p) =>
                 Exact(end) /\ Before(end, p) /\ ReachedPercentile(end)
<1> DEFINE stopping == {at \in Iterator : ReachedPercentile(at) \/ ~BasicIterNext(at)}
           fits(a) == Exact(i) /\ Before(i, p) => Exact(a) /\ Before(a, p)
           Good == {a \in Iterator : /\ a.counts_index <= c.counts_len
                                     /\ Unmoved(i, a) /\ Total(a) = Total(i)
                                     /\ a.value \in 0 .. MaxWord
                                     /\ fits(a)}
<1>1. c.counts_len \in Nat
  BY RestFacts
<1>2. i \in Good
  BY DEF Unmoved, SameRange, SameTarget
<1>3. ASSUME NEW a \in Good, a \notin stopping, HasBuckets(a) PROVE MoveNext(a) \in Good
  <2> DEFINE v == MoveNext(a)
  <2>1. a \in Iterator /\ Unmoved(i, a) /\ Total(a) = Total(i) /\ a.value \in 0 .. MaxWord
        /\ fits(a)
    OBVIOUS
  <2>2. ~ReachedPercentile(a) /\ HasNext(a)
    BY <1>3, <2>1 DEF BasicIterNext
  <2>3. /\ v \in Iterator /\ Unmoved(a, v) /\ v.counts_index \in 0 .. c.counts_len
        /\ v.counts_index < c.counts_len => v.value = ValueAtIndex(c, v.counts_index)
        /\ v.counts_index = c.counts_len => v.value = a.value
    BY <1>3, <2>1, MoveNextFacts
  <2>4. Total(v) = Total(a)
    BY <1>3, <2>1, MoveKeepsTotal
  <2>5. a.percentile_to_iterate_to = p
    BY <2>1 DEF Unmoved, SameTarget
  <2>6. fits(v)
    BY <2>1, <2>2, <2>5, ExactMove
  <2> HIDE DEF v
  <2>7. v.value \in 0 .. MaxWord
    <3>1. CASE v.counts_index < c.counts_len
      <4>1. v.counts_index \in 0 .. c.counts_len - 1
        BY <1>1, <2>3, <3>1
      <4> QED
        BY <2>3, <3>1, <4>1, ValueOfIndex DEF Filled
    <3>2. CASE ~(v.counts_index < c.counts_len)
      <4>1. v.counts_index = c.counts_len
        BY <1>1, <2>3, <3>2
      <4> QED
        BY <2>1, <2>3, <4>1
    <3> QED
      BY <3>1, <3>2
  <2>8. Unmoved(i, v) /\ v.counts_index <= c.counts_len
    BY <1>1, <2>1, <2>3 DEF Unmoved, SameRange, SameTarget
  <2> HIDE DEF fits
  <2>9. v \in Good
    BY <2>1, <2>3, <2>4, <2>6, <2>7, <2>8
  <2> QED
    BY <2>9 DEF v
<1>4. end \in Good /\ (end \in stopping \/ ~HasBuckets(end))
  <2>1. Good \in SUBSET Iterator /\ \A a \in Good : a.counts_index <= c.counts_len
    OBVIOUS
  <2>2. end = MovedUntil(i, stopping)
    BY DEF PercentileEnd
  <2> HIDE DEF Good, stopping
  <2> QED
    BY <1>2, <1>3, <2>1, <2>2, LoopKeeps
<1>5. /\ end \in Iterator /\ end.counts_index <= c.counts_len
      /\ Unmoved(i, end) /\ Total(end) = Total(i) /\ end.value \in 0 .. MaxWord
      /\ fits(end)
      /\ ReachedPercentile(end) \/ ~BasicIterNext(end) \/ ~HasBuckets(end)
  <2> HIDE DEF fits
  <2> QED
    BY <1>4
<1>6. ASSUME Exact(i), Before(i, p) PROVE ReachedPercentile(end)
  <2>1. Exact(end) /\ HasBuckets(end)
    BY <1>1, <1>5, <1>6 DEF Exact, HasBuckets
  <2>2. end.percentile_to_iterate_to = p
    BY <1>5 DEF Unmoved, SameTarget
  <2>3. ~BasicIterNext(end) => ~HasNext(end)
    BY <2>1 DEF BasicIterNext
  <2> QED
    BY <1>5, <2>1, <2>2, <2>3, AllReached
<1> QED
  BY <1>5, <1>6

\* What an iterator says of the percentile that it has reported: so much of the counts is
\* at or before the place where it stands, and less of them before it.
Reported(i) ==
    LET p == i.percentile
        q == i.percentile_to_iterate_to
    IN  /\ i.count # 0
        /\ i.value_iterated_to = HighestEquivalentValue(c, i.value)
        /\ p[2] > 0
        /\ p[1] * s.total_count <= i.cumulative_count * p[2]
        /\ Before(i, p)
        /\ IF i.seen_last_value THEN p = <<1, 1>> /\ ~HasNext(i)
           ELSE p[1] < p[2] /\ p[1] * q[2] < q[1] * p[2]

\* The iterator with the percentile that a step reports, and the next one to go to.
Leveled(i, p, q) == [i EXCEPT !.percentile = p, !.percentile_to_iterate_to = q]

LEMMA LeveledFields ==
    ASSUME NEW i \in Iterator, NEW p \in Nat \X Nat, NEW q \in Nat \X Nat,
           NEW u, u = Leveled(i, p, q)
    PROVE  /\ u \in Iterator /\ SamePlace(i, u) /\ SameRange(i, u)
           /\ u.seen_last_value = i.seen_last_value
           /\ u.percentile = p /\ u.percentile_to_iterate_to = q
BY DEF Leveled, Iterator, SamePlace, SameRange

LEMMA ReachPercentileStep ==
    ASSUME Filled, kind \in Kinds, kind.kind = "percentile",
           NEW i \in Iterator, i.counts_index <= c.counts_len, AtLevel(i),
           NEW u, u = ReachPercentile(i)
    PROVE  /\ u \in Iterator /\ u.counts_index <= c.counts_len /\ AtLevel(u)
           /\ Total(u) = Total(i) /\ u.total_count = i.total_count
           /\ u.seen_last_value = i.seen_last_value
           /\ Exact(i) /\ Before(i, i.percentile_to_iterate_to) /\ ~i.seen_last_value =>
                 /\ Exact(u) /\ Reported(u)
                 /\ u.percentile = i.percentile_to_iterate_to
<1> DEFINE p == i.percentile_to_iterate_to
           q == NextPercentile(p, kind.by)
           end == PercentileEnd(i)
           high == HighestEquivalentValue(c, end.value)
           v == UpdateIteratedValues(end, high)
           w == Leveled(v, p, q)
<1>1. kind.by \in Nat \ {0}
  BY IteratorsAssumption
<1>2. PICK j : IsLevel(p, kind.by, j)
  BY DEF AtLevel
<1>3. /\ p[1] < p[2] /\ p[1] \in Nat /\ p[2] \in Nat /\ p \in Nat \X Nat
      /\ i.value \in 0 .. MaxWord
  <2>1. p \in Nat \X Nat
    BY DEF Iterator
  <2> QED
    BY <1>2, <2>1 DEF IsLevel, AtLevel
<1>4. /\ \E h : IsLevel(q, kind.by, h)
      /\ p[1] * q[2] < q[1] * p[2]
  BY <1>1, <1>2, NextLevel
<1>5. q \in Nat \X Nat
  <2>1. PICK h : IsLevel(q, kind.by, h)
    BY <1>4
  <2>2. q = <<q[1], q[2]>> /\ q[1] \in Nat /\ q[2] = kind.by * TwoTo[h] /\ h \in Nat
    BY <2>1 DEF IsLevel
  <2>3. TwoTo[h] \in Nat
    BY <2>2, TwoToFacts
  <2>4. \A x, y \in Nat : x * y \in Nat
    BY Z3
  <2>5. q[2] \in Nat
    BY <1>1, <2>2, <2>3, <2>4
  <2> QED
    BY <2>2, <2>5
<1>6. /\ end \in Iterator /\ end.counts_index <= c.counts_len
      /\ Unmoved(i, end) /\ Total(end) = Total(i) /\ end.value \in 0 .. MaxWord
      /\ Exact(i) /\ Before(i, p) =>
            Exact(end) /\ Before(end, p) /\ ReachedPercentile(end)
  <2> HIDE DEF p, end
  <2> QED
    BY <1>3, PercentileLoop DEF p, end
<1>7. u = IF ReachedPercentile(end) THEN w ELSE end
  <2>1. u = IF ReachedPercentile(end)
            THEN [UpdateIteratedValues(end, HighestEquivalentValue(c, end.value))
                     EXCEPT !.percentile = end.percentile_to_iterate_to,
                            !.percentile_to_iterate_to = NextPercentile(@, kind.by)]
            ELSE end
    BY DEF ReachPercentile, PercentileEnd
  <2>2. end.percentile_to_iterate_to = p
    BY <1>6 DEF Unmoved, SameTarget
  <2> HIDE DEF end, p
  <2>3. high \in Int
    BY <1>6, RangeOfValue DEF Filled, IsLayout
  <2> HIDE DEF high
  <2>4. v \in Iterator /\ SameTarget(end, v)
    BY <1>6, <2>3, UpdateFields
  <2>5. v.percentile_to_iterate_to = p
    BY <2>2, <2>4 DEF SameTarget
  <2>6. u = IF ReachedPercentile(end)
            THEN [v EXCEPT !.percentile = p, !.percentile_to_iterate_to = NextPercentile(@, kind.by)]
            ELSE end
    BY <2>1, <2>2 DEF high
  <2> HIDE DEF v
  <2>7. [v EXCEPT !.percentile = p, !.percentile_to_iterate_to = NextPercentile(@, kind.by)] = w
    BY <2>4, <2>5 DEF Leveled, Iterator
  <2> QED
    BY <2>6, <2>7
<1>8. high \in Int
  BY <1>6, RangeOfValue DEF Filled, IsLayout
<1> HIDE DEF end, p, q, high
<1>9. /\ v \in Iterator /\ SamePlace(end, v) /\ SameTarget(end, v) /\ v.value_iterated_to = high
  BY <1>6, <1>8, UpdateFields
<1> HIDE DEF v
<1>10. /\ w \in Iterator /\ SamePlace(v, w) /\ SameRange(v, w)
       /\ w.seen_last_value = v.seen_last_value
       /\ w.percentile = p /\ w.percentile_to_iterate_to = q
  BY <1>3, <1>5, <1>9, LeveledFields
<1> HIDE DEF w
<1>11. CASE ~ReachedPercentile(end)
  <2>1. u = end
    BY <1>7, <1>11
  <2>2. AtLevel(end)
    BY <1>2, <1>6 DEF AtLevel, Unmoved, SameTarget, p
  <2>3. ~(Exact(i) /\ Before(i, p))
    BY <1>6, <1>11
  <2> QED
    BY <1>6, <2>1, <2>2, <2>3 DEF Unmoved, SameTarget, p
<1>12. CASE ReachedPercentile(end)
  <2>1. u = w
    BY <1>7, <1>12
  <2>2. SamePlace(end, w) /\ w.seen_last_value = i.seen_last_value
        /\ w.value_iterated_to = high
    BY <1>6, <1>9, <1>10 DEF SamePlace, SameRange, SameTarget, Unmoved
  <2>3. Total(w) = Total(end)
    BY <2>2, PlaceKeepsTotal
  <2>4. AtLevel(w)
    BY <1>4, <1>6, <1>10, <2>2 DEF AtLevel, SamePlace
  <2>5. w.counts_index <= c.counts_len /\ w.total_count = i.total_count
    BY <1>6, <2>2 DEF SamePlace, Unmoved
  <2>6. ASSUME Exact(i), Before(i, p), ~i.seen_last_value PROVE Exact(w) /\ Reported(w)
    <3>1. Exact(end) /\ Before(end, p)
      BY <1>6, <2>6
    <3>2. Exact(w)
      BY <2>2, <2>3, <3>1 DEF Exact, SamePlace, HasNext
    <3>3. Before(w, p)
      BY <2>2, <3>1 DEF Before, SamePlace
    <3>4. end.count # 0 /\ p[1] * s.total_count <= end.cumulative_count * p[2]
      <4>1. end.percentile_to_iterate_to = p
        BY <1>6 DEF Unmoved, SameTarget, p
      <4> QED
        BY <1>12, <4>1 DEF ReachedPercentile
    <3>5. /\ w.count # 0 /\ p[1] * s.total_count <= w.cumulative_count * p[2]
          /\ w.value_iterated_to = HighestEquivalentValue(c, w.value)
      BY <2>2, <3>4 DEF SamePlace, high
    <3>6. ~w.seen_last_value /\ p[2] > 0
      BY <1>3, <2>2, <2>6
    <3> QED
      BY <1>3, <1>4, <1>10, <3>2, <3>3, <3>5, <3>6 DEF Reported
  <2> QED
    BY <1>6, <1>10, <2>1, <2>2, <2>3, <2>4, <2>5, <2>6 DEF p
<1> QED
  BY <1>11, <1>12


-----------------------------------------------------------------------------
(***************************************************************************)
(* percentile_iter_next.                                                   *)
(***************************************************************************)
\* An iterator by percentile that has not moved yet.
Fresh(i) ==
    /\ i.counts_index = -1
    /\ i.count = 0 /\ i.cumulative_count = 0
    /\ i.total_count = s.total_count /\ Total(i) = s.total_count
    /\ i.percentile_to_iterate_to = <<0, kind.by>>
    /\ i.seen_last_value => ~HasNext(i)

\* Less than a percentile is less than a higher one.
LEMMA LessThanHigher ==
    ASSUME NEW x \in Int, NEW all \in Nat, NEW a \in Nat, NEW b \in Nat \ {0},
           NEW d \in Nat, NEW e \in Nat \ {0}, x * b < a * all, a * e < d * b
    PROVE  x * e < d * all
<1>1. \A u, v \in Int, w \in Nat \ {0} : u < v => u * w < v * w
  BY Z3
<1>2. \A u, v \in Int, w \in Nat : u < v => u * w <= v * w
  BY Z3
<1>3. \A u, v \in Int, w \in Nat \ {0} : u * w < v * w => u < v
  BY Z3
<1>4. \A u, v \in Int : u * v \in Int
  BY Z3
<1>5. \A u, v, w \in Int : (u * v) * w = (u * w) * v
  BY Z3
<1>6. (x * b) * e < (a * all) * e
  BY <1>1, <1>4
<1>7. (a * e) * all <= (d * b) * all
  BY <1>2, <1>4
<1>8. (x * e) * b < (d * all) * b
  <2>1. (x * b) * e = (x * e) * b /\ (a * all) * e = (a * e) * all /\ (d * b) * all = (d * all) * b
    BY <1>5
  <2>2. (x * e) * b \in Int /\ (a * e) * all \in Int /\ (d * all) * b \in Int
    BY <1>4
  <2> QED
    BY <1>6, <1>7, <2>1, <2>2
<1> QED
  BY <1>3, <1>4, <1>8

LEMMA BeforeNext ==
    ASSUME Filled, NEW i \in Iterator, Exact(i), Reported(i), HasNext(i), AtLevel(i)
    PROVE  ~i.seen_last_value /\ Before(i, i.percentile_to_iterate_to)
<1> DEFINE p == i.percentile
           q == i.percentile_to_iterate_to
           x == i.cumulative_count - i.count
           all == s.total_count
<1>1. /\ p[1] \in Nat /\ p[2] \in Nat /\ q[1] \in Nat /\ q[2] \in Nat
      /\ i.cumulative_count \in Nat /\ i.count \in Nat /\ x \in Int /\ all \in Nat
  BY RestFacts DEF Iterator
<1>2. ~i.seen_last_value /\ p[2] > 0 /\ p[1] * q[2] < q[1] * p[2] /\ Before(i, p)
  BY DEF Reported
<1>3. q[2] \in Nat \ {0}
  <2>1. q[1] < q[2]
    BY DEF AtLevel, IsLevel
  <2> QED
    BY <1>1, <2>1
<1>4. i.cumulative_count < all
  BY DEF HasNext, Exact
<1>5. CASE p[1] = 0 /\ i.cumulative_count = i.count
  <2>1. x = 0 /\ all \in Nat \ {0}
    BY <1>1, <1>4, <1>5
  <2>2. \A u \in Nat : 0 * u = 0
    BY Z3
  <2>3. q[1] \in Nat \ {0}
    <3>1. 0 < q[1] * p[2]
      BY <1>1, <1>2, <1>5, <2>2
    <3> HIDE DEF p, q
    <3> QED
      BY <1>1, <2>2, <3>1
  <2>4. \A u, v \in Nat \ {0} : 0 < u * v
    BY Z3
  <2> HIDE DEF p, q, all, x
  <2>5. x * q[2] < q[1] * all
    BY <1>1, <2>1, <2>2, <2>3, <2>4
  <2> QED
    BY <1>2, <2>5 DEF Before, x, all, q
<1>6. CASE x * p[2] < p[1] * all
  <2>1. x * q[2] < q[1] * all
    <3>1. p[2] \in Nat \ {0}
      BY <1>1, <1>2
    <3> HIDE DEF p, q, all, x
    <3> QED
      BY <1>1, <1>2, <1>3, <1>6, <3>1, LessThanHigher
  <2> QED
    BY <1>2, <2>1 DEF Before
<1> QED
  BY <1>2, <1>5, <1>6 DEF Before


\* The first move, to the first count.
LEMMA FirstMove ==
    ASSUME Filled, NEW i \in Iterator, i.counts_index = -1, AtLevel(i),
           NEW u, u = MoveNext(i)
    PROVE  /\ u \in Iterator /\ u.counts_index <= c.counts_len /\ AtLevel(u)
           /\ Total(u) = Total(i) /\ Unmoved(i, u)
           /\ Fresh(i) /\ HasNext(i) =>
                 Exact(u) /\ Before(u, u.percentile_to_iterate_to) /\ ~u.seen_last_value
<1>1. /\ HasBuckets(i) /\ c.counts_len \in Nat \ {0} /\ i.cumulative_count \in Nat
      /\ s.total_count \in Nat
  BY RestFacts DEF HasBuckets, Iterator
<1>2. /\ u \in Iterator /\ Unmoved(i, u)
      /\ u.counts_index = 0 /\ u.counts_index < c.counts_len
      /\ u.count = CountAtIndex(c, s, u.counts_index)
      /\ u.cumulative_count = i.cumulative_count + u.count
      /\ u.value = ValueAtIndex(c, u.counts_index)
  <2>1. /\ u \in Iterator /\ Unmoved(i, u)
        /\ u.counts_index = i.counts_index + 1
        /\ u.counts_index < c.counts_len =>
              /\ u.count = CountAtIndex(c, s, u.counts_index)
              /\ u.cumulative_count = i.cumulative_count + u.count
              /\ u.value = ValueAtIndex(c, u.counts_index)
    BY <1>1, MoveNextFacts
  <2>2. u.counts_index = 0 /\ u.counts_index < c.counts_len
    BY <1>1, <2>1
  <2> QED
    BY <2>1, <2>2
<1>3. Total(u) = Total(i)
  BY <1>1, MoveKeepsTotal
<1>4. u.counts_index \in 0 .. c.counts_len - 1 /\ u.counts_index <= c.counts_len
  BY <1>1, <1>2
<1>5. u.percentile_to_iterate_to = i.percentile_to_iterate_to
      /\ u.total_count = i.total_count /\ u.seen_last_value = i.seen_last_value
  BY <1>2 DEF Unmoved, SameTarget
<1>6. AtLevel(u)
  <2>1. u.value \in 0 .. MaxWord
    BY <1>2, <1>4, ValueOfIndex DEF Filled
  <2> QED
    BY <1>5, <2>1 DEF AtLevel
<1>7. ASSUME Fresh(i), HasNext(i)
      PROVE  Exact(u) /\ Before(u, u.percentile_to_iterate_to) /\ ~u.seen_last_value
  <2>1. /\ i.cumulative_count = 0 /\ i.total_count = s.total_count
        /\ Total(i) = s.total_count /\ 0 < s.total_count
        /\ i.percentile_to_iterate_to = <<0, kind.by>> /\ ~i.seen_last_value
    BY <1>7 DEF Fresh, HasNext
  <2>2. u.count \in Nat /\ u.cumulative_count = u.count
    BY <1>2, <2>1 DEF Iterator
  <2>3. HasNext(u) \/ u.count # 0
    BY <1>5, <2>1, <2>2 DEF HasNext
  <2>4. Exact(u)
    BY <1>2, <1>3, <1>4, <1>5, <2>1, <2>3 DEF Exact
  <2>5. u.percentile_to_iterate_to[1] = 0
    BY <1>5, <2>1
  <2> QED
    BY <1>5, <2>1, <2>2, <2>4, <2>5 DEF Before
<1> QED
  BY <1>2, <1>3, <1>4, <1>6, <1>7

\* The last report, of the percentile 1.
Finished(i) == [i EXCEPT !.seen_last_value = TRUE, !.percentile = <<1, 1>>]

LEMMA FinishedFields ==
    ASSUME NEW i \in Iterator, NEW u, u = Finished(i)
    PROVE  /\ u \in Iterator /\ SamePlace(i, u) /\ SameRange(i, u)
           /\ u.percentile_to_iterate_to = i.percentile_to_iterate_to
           /\ u.seen_last_value = TRUE /\ u.percentile = <<1, 1>>
<1>1. <<1, 1>> \in Nat \X Nat
  OBVIOUS
<1> QED
  BY <1>1 DEF Finished, Iterator, SamePlace, SameRange

\* Each call reports a higher percentile, or that there is none.
LEMMA PercentileStep ==
    ASSUME Filled, kind \in Kinds, kind.kind = "percentile",
           NEW i \in Iterator, i.counts_index <= c.counts_len, AtLevel(i),
           NEW next, next = PercentileIterNext(i)
    PROVE  /\ Stepped(i, next) /\ AtLevel(next[1])
           /\ ~next[2] => next[1].seen_last_value
           /\ Fresh(i) \/ (Exact(i) /\ Reported(i)) =>
                 Fresh(next[1]) \/ (Exact(next[1]) /\ Reported(next[1]))
           /\ Exact(i) /\ Reported(i) /\ next[2] =>
                 i.percentile[1] * next[1].percentile[2]
                    < next[1].percentile[1] * i.percentile[2]
<1> DEFINE placed(u) == Fresh(u) \/ (Exact(u) /\ Reported(u))
           rises(u) == i.percentile[1] * u.percentile[2] < u.percentile[1] * i.percentile[2]
<1>1. CASE HasNext(i)
  <2> DEFINE start == IF i.counts_index = -1 THEN MoveNext(i) ELSE i
             u == ReachPercentile(start)
  <2>1. next[1] = u /\ next[2] = TRUE
    BY <1>1 DEF PercentileIterNext
  <2>2. /\ start \in Iterator /\ start.counts_index <= c.counts_len /\ AtLevel(start)
        /\ Total(start) = Total(i) /\ start.total_count = i.total_count
        /\ placed(i) =>
              Exact(start) /\ Before(start, start.percentile_to_iterate_to)
              /\ ~start.seen_last_value
        /\ i.counts_index # -1 => start = i
    <3>1. CASE i.counts_index = -1
      <4> DEFINE v == MoveNext(i)
      <4>1. /\ v \in Iterator /\ v.counts_index <= c.counts_len /\ AtLevel(v)
            /\ Total(v) = Total(i) /\ Unmoved(i, v)
            /\ Fresh(i) /\ HasNext(i) =>
                  Exact(v) /\ Before(v, v.percentile_to_iterate_to) /\ ~v.seen_last_value
        BY <3>1, FirstMove
      <4>2. start = v /\ ~Exact(i)
        BY <3>1 DEF Exact
      <4> HIDE DEF v, start
      <4> QED
        BY <1>1, <3>1, <4>1, <4>2 DEF Unmoved
    <3>2. CASE i.counts_index # -1
      <4>1. start = i /\ ~Fresh(i)
        BY <3>2 DEF Fresh
      <4>2. Exact(i) /\ Reported(i) =>
               ~i.seen_last_value /\ Before(i, i.percentile_to_iterate_to)
        BY <1>1, BeforeNext
      <4> HIDE DEF start
      <4> QED
        BY <4>1, <4>2
    <3> QED
      BY <3>1, <3>2
  <2> HIDE DEF start
  <2>3. /\ u \in Iterator /\ u.counts_index <= c.counts_len /\ AtLevel(u)
        /\ Total(u) = Total(start) /\ u.total_count = start.total_count
        /\ placed(i) => Exact(u) /\ Reported(u) /\ u.percentile = start.percentile_to_iterate_to
    <3> HIDE DEF placed, u
    <3> QED
      BY <2>2, ReachPercentileStep DEF u
  <2> HIDE DEF u
  <2>4. Exact(i) /\ Reported(i) => rises(u)
    <3> SUFFICES ASSUME Exact(i), Reported(i) PROVE rises(u)
      OBVIOUS
    <3>1. i.counts_index # -1
      <4>1. c.counts_len \in Nat
        BY RestFacts
      <4> QED
        BY <4>1 DEF Exact
    <3>2. u.percentile = i.percentile_to_iterate_to
      BY <2>2, <2>3, <3>1
    <3>3. ~i.seen_last_value
      BY <1>1 DEF Reported
    <3> QED
      BY <3>2, <3>3 DEF Reported
  <2> HIDE DEF rises
  <2>5. Stepped(i, next)
    BY <2>1, <2>2, <2>3 DEF Stepped
  <2> QED
    BY <2>1, <2>3, <2>4, <2>5 DEF rises
<1>2. CASE ~HasNext(i) /\ i.seen_last_value
  <2>1. next[1] = i /\ next[2] = FALSE
    BY <1>2 DEF PercentileIterNext
  <2> QED
    BY <1>2, <2>1 DEF Stepped
<1>3. CASE ~HasNext(i) /\ ~i.seen_last_value
  <2> DEFINE u == Finished(i)
  <2>1. next[1] = u /\ next[2] = TRUE
    BY <1>3 DEF PercentileIterNext, Finished
  <2>2. /\ u \in Iterator /\ SamePlace(i, u) /\ SameRange(i, u)
        /\ u.percentile_to_iterate_to = i.percentile_to_iterate_to
        /\ u.seen_last_value = TRUE /\ u.percentile = <<1, 1>>
    BY FinishedFields
  <2> HIDE DEF u
  <2>3. Total(u) = Total(i) /\ u.counts_index = i.counts_index /\ u.total_count = i.total_count
    BY <2>2, PlaceKeepsTotal DEF SamePlace
  <2>4. Stepped(i, next) /\ AtLevel(u)
    BY <2>1, <2>2, <2>3 DEF Stepped, AtLevel, SamePlace
  <2>5. ~HasNext(u)
    BY <1>3, <2>2 DEF HasNext, SamePlace
  <2>6. Fresh(i) => Fresh(u)
    BY <2>2, <2>3, <2>5 DEF Fresh, SamePlace
  <2>7. ASSUME Exact(i), Reported(i) PROVE Exact(u) /\ Reported(u) /\ rises(u)
    <3>1. Exact(u)
      BY <2>2, <2>3, <2>7 DEF Exact, SamePlace, HasNext
    <3>2. i.cumulative_count \in Nat /\ i.count \in Nat /\ s.total_count \in Nat
          /\ i.cumulative_count >= s.total_count
      BY <1>3, <2>7, RestFacts DEF Iterator, Exact, HasNext
    <3>3. i.percentile[1] \in Nat /\ i.percentile[2] \in Nat
      BY DEF Iterator
    <3>4. i.percentile[1] < i.percentile[2] /\ i.count # 0 /\ i.percentile[2] > 0
          /\ Before(i, i.percentile)
          /\ i.value_iterated_to = HighestEquivalentValue(c, i.value)
      BY <1>3, <2>7 DEF Reported
    <3>5. rises(u)
      BY <2>2, <3>3, <3>4
    <3>6. i.cumulative_count - i.count < s.total_count
      <4> DEFINE x == i.cumulative_count - i.count
                 all == s.total_count
                 a == i.percentile[1]
                 b == i.percentile[2]
      <4>1. a \in Nat /\ b \in Nat \ {0} /\ a < b /\ x \in Int /\ all \in Nat
        BY <3>2, <3>3, <3>4
      <4>2. \/ x = 0
            \/ x * b < a * all
        BY <3>2, <3>4 DEF Before
      <4>3. CASE x = 0
        <5>1. all # 0
          <6>1. i.count = CountAtIndex(c, s, i.counts_index) /\ Total(i) = s.total_count
            BY <2>7 DEF Exact
          <6>2. i.cumulative_count <= Total(i)
            <7>1. Rest(i.counts_index + 1) \in Nat /\ i.cumulative_count \in Nat
                  /\ Total(i) = i.cumulative_count + Rest(i.counts_index + 1)
              BY TotalFacts
            <7> QED
              BY <7>1
          <6> QED
            BY <3>2, <3>4, <4>3, <6>1, <6>2
        <5> QED
          BY <4>1, <4>3, <5>1
      <4>4. CASE x * b < a * all
        <5>1. \A u1, v1 \in Int, w1 \in Nat \ {0} : u1 * w1 < v1 * w1 => u1 < v1
          BY Z3
        <5>2. \A u1, v1, w1 \in Nat : u1 < v1 => u1 * w1 <= w1 * v1
          BY Z3
        <5>3. \A u1, v1 \in Int : u1 * v1 \in Int
          BY Z3
        <5> HIDE DEF x, all, a, b
        <5>4. a * all <= all * b /\ a * all \in Int /\ all * b \in Int /\ x * b \in Int
          BY <4>1, <5>2, <5>3
        <5>5. x * b < all * b
          BY <4>4, <5>4
        <5> QED
          BY <4>1, <5>1, <5>5 DEF x, all
      <4> QED
        BY <4>2, <4>3, <4>4
    <3>7. u.cumulative_count = i.cumulative_count /\ u.count = i.count /\ u.value = i.value
          /\ u.value_iterated_to = i.value_iterated_to
      BY <2>2 DEF SamePlace, SameRange
    <3>8. u.percentile[1] = 1 /\ u.percentile[2] = 1
      BY <2>2
    <3>9. Before(u, u.percentile)
      <4>1. (u.cumulative_count - u.count) * 1 < 1 * s.total_count
        BY <3>2, <3>6, <3>7
      <4> QED
        BY <3>8, <4>1 DEF Before
    <3>10. u.percentile[1] * s.total_count <= u.cumulative_count * u.percentile[2]
      BY <3>2, <3>7, <3>8
    <3>11. Reported(u)
      BY <2>2, <2>5, <3>4, <3>7, <3>8, <3>9, <3>10 DEF Reported
    <3> QED
      BY <3>1, <3>5, <3>11
  <2> QED
    BY <2>1, <2>2, <2>4, <2>6, <2>7
<1> QED
  BY <1>1, <1>2, <1>3


-----------------------------------------------------------------------------
(***************************************************************************)
(* The inductive invariant.                                                *)
(***************************************************************************)
\* The iterators whose steps report counts.
Counting == {"all", "recorded", "linear", "log"}

\* What has been reported and what is left make up all there was when the iteration
\* began, and more only if something was recorded since.
Accounted ==
    /\ it.total_count <= Total(it)
    /\ recordings = 0 => it.total_count = s.total_count /\ Total(it) = s.total_count
    /\ kind.kind = "all" /\ more => HasBuckets(it)
    /\ kind.kind \in Counting =>
          reported = it.cumulative_count /\ (~more => Exhausted(it))

\* Where an iterator by percentile is before its first move and after it.
Placed(i) == Fresh(i) \/ (Exact(i) /\ Reported(i))

InPlace ==
    kind.kind = "percentile" =>
        /\ AtLevel(it)
        /\ ~more => it.seen_last_value
        /\ recordings = 0 => Placed(it)

IteratorsInv ==
    /\ Filled /\ kind \in Kinds
    /\ IteratorsTypeOK
    /\ Accounted
    /\ InPlace

LEMMA InitFilled == IteratorsInit => Filled
<1> SUFFICES ASSUME IteratorsInit PROVE Filled
  OBVIOUS
<1>1. PICK h \in Contents : c = h.config /\ s = h.fields
  BY DEF IteratorsInit
<1> DEFINE lowest == h.config.lowest_discernible_value
           highest == h.config.highest_trackable_value
           figures == h.config.significant_figures
<1>2. /\ {lowest, highest} \subseteq -MaxWord - 1 .. MaxWord
      /\ figures \in 1 .. 5 /\ 2 * Pow10[figures] <= MaxWord
      /\ ~Rejected(lowest, highest, figures)
      /\ h.config = BucketConfig(lowest, highest, figures)
      /\ CountsFit(h.config, h.fields)
  BY IteratorsAssumption
<1>3. lowest \in WordRange /\ highest \in WordRange /\ figures \in Int
  BY <1>2, WordFacts DEF WordRange
<1> HIDE DEF lowest, highest, figures
<1>4. IsLayout(c)
  BY <1>1, <1>2, <1>3, BucketConfigFacts, WordFacts DEF IsLayout
<1> QED
  BY <1>1, <1>2, <1>4 DEF Filled

LEMMA InitSound == IteratorsInit => IteratorsInv
<1> SUFFICES ASSUME IteratorsInit PROVE IteratorsInv
  OBVIOUS
<1>1. /\ kind \in Kinds /\ it = IterInit(s, kind)
      /\ more = TRUE /\ reported = 0 /\ recordings = 0
  BY DEF IteratorsInit
<1>2. Filled
  BY InitFilled
<1>3. /\ c.counts_len \in Nat \ {0} /\ s.total_count \in Nat /\ Rest(0) = s.total_count
  BY <1>2, RestFacts
<1>4. /\ kind.first \in Nat /\ kind.by \in Nat
      /\ kind.kind \in {"linear", "log", "percentile"} => kind.by > 0
  BY <1>1, IteratorsAssumption
<1>5. it \in Iterator
  <2>1. <<0, kind.by>> \in Nat \X Nat /\ <<0, 1>> \in Nat \X Nat /\ 0 \in 0 .. MaxWord
    BY <1>4, WordFacts
  <2> QED
    BY <1>1, <1>3, <1>4, <2>1 DEF IterInit, Iterator
<1>6. /\ it.counts_index = -1 /\ it.total_count = s.total_count /\ it.count = 0
      /\ it.cumulative_count = 0 /\ it.value = 0 /\ ~it.seen_last_value
      /\ it.percentile_to_iterate_to = <<0, kind.by>>
  BY <1>1 DEF IterInit
<1>7. Total(it) = s.total_count
  <2>1. -1 + 1 = 0
    OBVIOUS
  <2> QED
    BY <1>3, <1>6, <2>1 DEF Total
<1>8. IteratorsTypeOK
  <2>1. MaxMeanwhile \in Nat
    BY IteratorsAssumption
  <2> QED
    BY <1>1, <1>3, <1>5, <1>6, <2>1 DEF IteratorsTypeOK
<1>9. Accounted
  BY <1>1, <1>3, <1>6, <1>7 DEF Accounted, HasBuckets
<1>10. kind.kind = "percentile" => AtLevel(it) /\ Fresh(it)
  <2> SUFFICES ASSUME kind.kind = "percentile" PROVE AtLevel(it) /\ Fresh(it)
    OBVIOUS
  <2>1. kind.by \in Nat \ {0} /\ TwoTo[0] = 1 /\ MaxWord \in Nat
    BY <1>4, TwoToFacts, WordFacts
  <2>2. IsLevel(it.percentile_to_iterate_to, kind.by, 0)
    BY <1>6, <2>1 DEF IsLevel
  <2>3. it.value \in 0 .. MaxWord
    BY <1>6, <2>1
  <2> QED
    BY <1>6, <1>7, <2>2, <2>3 DEF AtLevel, Fresh
<1>11. InPlace
  BY <1>1, <1>10 DEF InPlace, Placed
<1> QED
  BY <1>1, <1>2, <1>8, <1>9, <1>11 DEF IteratorsInv

\* A call of hdr_iter_next leaves the histogram alone.
LEMMA SameHistogram ==
    ASSUME c' = c, s' = s, kind' = kind
    PROVE  /\ Filled' <=> Filled
           /\ Total(it)' = Total(it')
           /\ HasBuckets(it)' <=> HasBuckets(it')
           /\ Exhausted(it)' <=> Exhausted(it')
           /\ AtLevel(it)' <=> AtLevel(it')
           /\ Placed(it)' <=> Placed(it')
<1>1. Filled' <=> Filled
  BY DEF Filled
<1>2. Total(it)' = Total(it')
  BY DEF Total, Rest
<1>3. (HasBuckets(it)' <=> HasBuckets(it')) /\ (Exhausted(it)' <=> Exhausted(it'))
  BY DEF HasBuckets, Exhausted, HasNext
<1>4. AtLevel(it)' <=> AtLevel(it')
  BY DEF AtLevel
<1>5. Fresh(it)' <=> Fresh(it')
  BY <1>2 DEF Fresh, HasNext
<1>6. Exact(it)' <=> Exact(it')
  BY <1>2 DEF Exact, HasNext
<1>7. Reported(it)' <=> Reported(it')
  BY DEF Reported, HasNext, Before
<1> QED
  BY <1>1, <1>2, <1>3, <1>4, <1>5, <1>6, <1>7 DEF Placed


\* One call of hdr_iter_next, whichever the iterator.
LEMMA CallSound ==
    ASSUME IteratorsInv, NEW next, NEW count, Return(next, count), Stepped(it, next),
           kind.kind \in Counting =>
               /\ next[1].cumulative_count
                     = it.cumulative_count + (IF next[2] THEN count ELSE 0)
               /\ ~next[2] => Exhausted(next[1]),
           kind.kind = "all" /\ next[2] => HasBuckets(next[1]),
           kind.kind = "percentile" =>
               /\ AtLevel(next[1])
               /\ ~next[2] => next[1].seen_last_value
               /\ Placed(it) => Placed(next[1])
    PROVE  IteratorsInv'
<1>1. /\ more /\ it' = next[1] /\ more' = next[2]
      /\ reported' = reported + (IF next[2] THEN count ELSE 0)
      /\ c' = c /\ s' = s /\ kind' = kind /\ recordings' = recordings
  BY DEF Return
<1>2. /\ Filled /\ kind \in Kinds /\ IteratorsTypeOK /\ Accounted /\ InPlace
  BY DEF IteratorsInv
<1>3. /\ it' \in Iterator /\ it'.counts_index <= c.counts_len /\ more' \in BOOLEAN
      /\ Total(it') = Total(it) /\ it'.total_count = it.total_count
  BY <1>1 DEF Stepped
<1>4. /\ Filled' <=> Filled
      /\ Total(it)' = Total(it')
      /\ HasBuckets(it)' <=> HasBuckets(it')
      /\ Exhausted(it)' <=> Exhausted(it')
      /\ AtLevel(it)' <=> AtLevel(it')
      /\ Placed(it)' <=> Placed(it')
  BY <1>1, SameHistogram
<1>5. it'.counts_index \in -1 .. c.counts_len
  BY <1>2, <1>3, TotalFacts
<1>6. IteratorsTypeOK'
  <2>1. recordings \in 0 .. MaxMeanwhile
    BY <1>2 DEF IteratorsTypeOK
  <2> QED
    BY <1>1, <1>3, <1>5, <2>1 DEF IteratorsTypeOK
<1>7. Accounted'
  <2>1. kind.kind \in Counting =>
           reported' = it'.cumulative_count /\ (~more' => Exhausted(it'))
    <3>1. kind.kind \in Counting => reported = it.cumulative_count
      BY <1>2 DEF Accounted
    <3> QED
      BY <1>1, <3>1
  <2>2. it'.total_count <= Total(it')
        /\ (recordings = 0 => it'.total_count = s.total_count /\ Total(it') = s.total_count)
    BY <1>2, <1>3 DEF Accounted
  <2>3. kind.kind = "all" /\ more' => HasBuckets(it')
    BY <1>1
  <2> QED
    BY <1>1, <1>4, <2>1, <2>2, <2>3 DEF Accounted
<1>8. InPlace'
  <2>1. kind.kind = "percentile" =>
           /\ AtLevel(it') /\ (~more' => it'.seen_last_value)
           /\ recordings = 0 => Placed(it')
    BY <1>1, <1>2 DEF InPlace
  <2> QED
    BY <1>1, <1>4, <2>1 DEF InPlace
<1> QED
  BY <1>1, <1>2, <1>4, <1>6, <1>7, <1>8 DEF IteratorsInv

LEMMA MeanwhileSound ==
    ASSUME IteratorsInv, NEW value \in Meanwhile, RecordMeanwhile(value)
    PROVE  IteratorsInv'
<1>1. /\ more /\ recordings < MaxMeanwhile
      /\ s' = RecordValues(c, s, value, 1) /\ recordings' = recordings + 1
      /\ c' = c /\ kind' = kind /\ it' = it /\ more' = more /\ reported' = reported
  BY DEF RecordMeanwhile
<1>2. /\ Filled /\ kind \in Kinds /\ IteratorsTypeOK /\ Accounted /\ InPlace
  BY DEF IteratorsInv
<1>3. CountsFit(c, s')
      /\ \A n : Rest(n) <= SumFunctionOnSet(s'.counts, Unseen(c, s', n))
  BY <1>1, <1>2, RecordRest
<1>4. Filled'
  BY <1>1, <1>2, <1>3 DEF Filled
<1>5. /\ it \in Iterator /\ it.counts_index \in -1 .. c.counts_len /\ more \in BOOLEAN
      /\ recordings \in 0 .. MaxMeanwhile /\ MaxMeanwhile \in Nat
  BY <1>2, IteratorsAssumption DEF IteratorsTypeOK
<1>6. recordings' \in 0 .. MaxMeanwhile /\ recordings' # 0
  BY <1>1, <1>5
<1>7. IteratorsTypeOK'
  BY <1>1, <1>5, <1>6 DEF IteratorsTypeOK
<1>8. it.total_count <= Total(it)'
  <2> DEFINE n == it.counts_index + 1
             before == Rest(n)
             after == SumFunctionOnSet(s'.counts, Unseen(c, s', n))
  <2>1. before \in Nat /\ it.cumulative_count \in Nat /\ it.total_count \in Nat
        /\ Total(it) = it.cumulative_count + before
        /\ c.counts_len \in Nat
    <3>1. it.counts_index <= c.counts_len /\ c.counts_len \in Nat
      BY <1>2, <1>5, RestFacts
    <3> QED
      BY <1>2, <1>5, <3>1, TotalFacts
  <2>2. Total(it)' = it.cumulative_count + after
    BY <1>1 DEF Total, Rest
  <2>3. before <= after
    BY <1>3
  <2>4. after \in Nat
    <3> DEFINE left == Unseen(c, s', n)
    <3>1. IsFiniteSet(DOMAIN s'.counts) /\ \A i \in DOMAIN s'.counts : s'.counts[i] \in Nat
      BY <1>2, <1>3, UsedFacts DEF CountsFit, Filled
    <3>2. left \subseteq DOMAIN s'.counts
      BY DEF Unseen
    <3>3. IsFiniteSet(left) /\ \A i \in left : s'.counts[i] \in Nat
      BY <3>1, <3>2, FS_Subset
    <3> HIDE DEF left
    <3>4. SumFunctionOnSet(s'.counts, left) \in Nat
      BY <3>3, SumNat
    <3> QED
      BY <3>4 DEF left
  <2> HIDE DEF before, after
  <2>5. it.total_count <= Total(it)
    BY <1>2 DEF Accounted
  <2> QED
    BY <2>1, <2>2, <2>3, <2>4, <2>5
<1>9. Accounted'
  <2>1. (HasBuckets(it)' <=> HasBuckets(it)) /\ (Exhausted(it)' <=> Exhausted(it))
    BY <1>1 DEF HasBuckets, Exhausted, HasNext
  <2>2. /\ kind.kind = "all" /\ more => HasBuckets(it)
        /\ kind.kind \in Counting =>
              reported = it.cumulative_count /\ (~more => Exhausted(it))
    BY <1>2 DEF Accounted
  <2> QED
    BY <1>1, <1>6, <1>8, <2>1, <2>2 DEF Accounted
<1>10. InPlace'
  <2>1. kind.kind = "percentile" => AtLevel(it) /\ (~more => it.seen_last_value)
    BY <1>2 DEF InPlace
  <2>2. AtLevel(it)' <=> AtLevel(it)
    BY <1>1 DEF AtLevel
  <2> QED
    BY <1>1, <1>6, <2>1, <2>2 DEF InPlace
<1> QED
  BY <1>1, <1>2, <1>4, <1>7, <1>9, <1>10 DEF IteratorsInv

LEMMA NextSound == IteratorsInv /\ [IteratorsNext]_iterators_vars => IteratorsInv'
<1> SUFFICES ASSUME IteratorsInv, [IteratorsNext]_iterators_vars PROVE IteratorsInv'
  OBVIOUS
<1>1. /\ Filled /\ kind \in Kinds /\ it \in Iterator /\ it.counts_index <= c.counts_len
      /\ Accounted /\ InPlace
  <2>1. it.counts_index \in -1 .. c.counts_len /\ it \in Iterator
        /\ Filled /\ kind \in Kinds /\ Accounted /\ InPlace
    BY DEF IteratorsInv, IteratorsTypeOK
  <2> QED
    BY <2>1, RestFacts
<1>2. ASSUME NextAll PROVE IteratorsInv'
  <2> DEFINE next == AllValuesIterNext(it)
             count == next[1].count
  <2>1. kind.kind = "all" /\ Return(next, count)
    BY <1>2 DEF NextAll
  <2>2. HasBuckets(it)
    BY <1>1, <2>1 DEF Accounted, Return
  <2>3. /\ Stepped(it, next)
        /\ next[1].cumulative_count = it.cumulative_count + (IF next[2] THEN count ELSE 0)
        /\ IF next[2] THEN HasBuckets(next[1]) ELSE ~HasBuckets(next[1])
    BY <1>1, <2>2, AllValuesStep
  <2> HIDE DEF next, count
  <2>4. ~next[2] => Exhausted(next[1])
    BY <2>3 DEF Exhausted
  <2>5. kind.kind # "percentile"
    BY <2>1
  <2> QED
    BY <2>1, <2>3, <2>4, <2>5, CallSound
<1>3. ASSUME NextRecorded PROVE IteratorsInv'
  <2> DEFINE next == RecordedIterNext(it)
             count == next[1].count_added_in_this_iteration_step
  <2>1. kind.kind = "recorded" /\ Return(next, count)
    BY <1>3 DEF NextRecorded
  <2>2. it.total_count <= Total(it)
    BY <1>1 DEF Accounted
  <2>3. /\ Stepped(it, next)
        /\ next[1].cumulative_count = it.cumulative_count + (IF next[2] THEN count ELSE 0)
        /\ ~next[2] => Exhausted(next[1])
    BY <1>1, <2>2, RecordedStep
  <2> HIDE DEF next, count
  <2>4. kind.kind # "percentile" /\ kind.kind # "all"
    BY <2>1
  <2> QED
    BY <2>1, <2>3, <2>4, CallSound
<1>4. ASSUME NextLinear \/ NextLog PROVE IteratorsInv'
  <2> DEFINE next == LevelIterNext(it)
             count == next[1].count_added_in_this_iteration_step
  <2>1. kind.kind \in {"linear", "log"} /\ Return(next, count)
    BY <1>4 DEF NextLinear, NextLog
  <2>2. /\ Stepped(it, next)
        /\ next[1].cumulative_count = it.cumulative_count + (IF next[2] THEN count ELSE 0)
        /\ ~next[2] => ~HasNext(next[1])
    BY <1>1, LevelStep
  <2> HIDE DEF next, count
  <2>3. ~next[2] => Exhausted(next[1])
    BY <2>2 DEF Exhausted
  <2>4. kind.kind # "percentile" /\ kind.kind # "all"
    BY <2>1
  <2> QED
    BY <2>1, <2>2, <2>3, <2>4, CallSound
<1>5. ASSUME NextPercentileReport PROVE IteratorsInv'
  <2> DEFINE next == PercentileIterNext(it)
  <2>1. kind.kind = "percentile" /\ Return(next, 0)
    BY <1>5 DEF NextPercentileReport
  <2>2. AtLevel(it)
    BY <1>1, <2>1 DEF InPlace
  <2>3. /\ Stepped(it, next) /\ AtLevel(next[1])
        /\ ~next[2] => next[1].seen_last_value
        /\ Placed(it) => Placed(next[1])
    BY <1>1, <2>1, <2>2, PercentileStep DEF Placed
  <2> HIDE DEF next
  <2>4. kind.kind \notin Counting /\ kind.kind # "all"
    BY <2>1 DEF Counting
  <2> QED
    BY <2>1, <2>3, <2>4, CallSound
<1>6. ASSUME Lookup PROVE IteratorsInv'
  <2>1. /\ kind.kind = "lookup" /\ more' = FALSE
        /\ c' = c /\ s' = s /\ kind' = kind /\ it' = it /\ reported' = reported
        /\ recordings' = recordings
    BY <1>6 DEF Lookup
  <2>2. /\ Filled' <=> Filled
        /\ Total(it)' = Total(it')
    BY <2>1, SameHistogram
  <2>3. kind.kind \notin Counting /\ kind.kind # "all" /\ kind.kind # "percentile"
    BY <2>1 DEF Counting
  <2>4. IteratorsTypeOK'
    BY <2>1 DEF IteratorsInv, IteratorsTypeOK
  <2>5. Accounted'
    BY <1>1, <2>1, <2>2, <2>3 DEF Accounted
  <2>6. InPlace'
    BY <2>1, <2>3 DEF InPlace
  <2> QED
    BY <1>1, <2>1, <2>2, <2>4, <2>5, <2>6 DEF IteratorsInv
<1>7. ASSUME NEW value \in Meanwhile, RecordMeanwhile(value) PROVE IteratorsInv'
  BY <1>7, MeanwhileSound
<1>8. ASSUME UNCHANGED iterators_vars PROVE IteratorsInv'
  <2>1. /\ c' = c /\ s' = s /\ kind' = kind /\ it' = it /\ more' = more
        /\ reported' = reported /\ recordings' = recordings
    BY <1>8 DEF iterators_vars
  <2>2. /\ Filled' <=> Filled
        /\ Total(it)' = Total(it)
        /\ HasBuckets(it)' <=> HasBuckets(it)
        /\ Exhausted(it)' <=> Exhausted(it)
        /\ AtLevel(it)' <=> AtLevel(it)
        /\ Placed(it)' <=> Placed(it)
    BY <2>1, SameHistogram
  <2>3. IteratorsTypeOK'
    BY <2>1 DEF IteratorsInv, IteratorsTypeOK
  <2>4. Accounted' /\ InPlace'
    BY <1>1, <2>1, <2>2 DEF Accounted, InPlace
  <2> QED
    BY <1>1, <2>1, <2>2, <2>3, <2>4 DEF IteratorsInv
<1> QED
  BY <1>2, <1>3, <1>4, <1>5, <1>6, <1>7, <1>8 DEF IteratorsNext, IterNext

LEMMA AlwaysSound == IteratorsSpec => []IteratorsInv
BY InitSound, NextSound, PTL DEF IteratorsSpec


-----------------------------------------------------------------------------
(***************************************************************************)
(* The counts below a value.                                               *)
(***************************************************************************)
\* The opposite offset finds the index of a count again.
LEMMA CellOfIndex ==
    ASSUME Filled, NEW j \in 0 .. c.counts_len - 1
    PROVE  ValueOfCell(NormalizeIndex(c, s, j)) = ValueAtIndex(c, j)
<1> DEFINE t == [s EXCEPT !.normalizing_index_offset = -@]
           offset == s.normalizing_index_offset
           cell == NormalizeIndex(c, s, j)
<1>1. c.counts_len \in Nat /\ IsFields(s) /\ offset \in -c.counts_len .. c.counts_len
  BY RestFacts DEF Filled, CountsFit
<1>2. t.normalizing_index_offset = -offset
  BY <1>1 DEF IsFields
<1> HIDE DEF t
<1>3. cell = (j - offset) + (IF offset = 0 THEN 0
                             ELSE IF j - offset < 0 THEN c.counts_len
                             ELSE IF j - offset >= c.counts_len THEN -c.counts_len
                             ELSE 0)
  BY DEF NormalizeIndex
<1>4. NormalizeIndex(c, t, cell)
         = (cell + offset) + (IF offset = 0 THEN 0
                              ELSE IF cell + offset < 0 THEN c.counts_len
                              ELSE IF cell + offset >= c.counts_len THEN -c.counts_len
                              ELSE 0)
  <2>1. cell \in Int /\ cell - (-offset) = cell + offset /\ (-offset = 0 <=> offset = 0)
    BY <1>1, <1>3
  <2> HIDE DEF cell, offset
  <2> QED
    BY <1>2, <2>1 DEF NormalizeIndex
<1>5. NormalizeIndex(c, t, cell) = j
  <2> HIDE DEF cell, offset
  <2> QED
    BY <1>1, <1>3, <1>4
<1> QED
  BY <1>5 DEF ValueOfCell, t, cell

\* Later indexes have greater values.
LEMMA ValuesGrow ==
    ASSUME Filled, NEW j \in 0 .. c.counts_len - 1, NEW n \in 0 .. c.counts_len - 1
    PROVE  ValueAtIndex(c, j) < ValueAtIndex(c, n) <=> j < n
<1> DEFINE at(k) == ValueAtIndex(c, k)
<1>1. /\ at(j) \in 0 .. MaxWord /\ CountsIndexFor(c, at(j)) = j
      /\ at(n) \in 0 .. MaxWord /\ CountsIndexFor(c, at(n)) = n
  BY ValueOfIndex DEF Filled
<1>2. IsConfig(c) /\ MaxWord \in Nat /\ c.counts_len \in Nat
  BY RestFacts, WordFacts DEF Filled, IsLayout
<1>3. at(n) <= at(j) => n <= j
  BY <1>1, <1>2, IndexGrows
<1>4. at(j) <= at(n) => j <= n
  BY <1>1, <1>2, IndexGrows
<1>5. at(j) \in Nat /\ at(n) \in Nat /\ j \in Nat /\ n \in Nat /\ (at(j) = at(n) => j = n)
  BY <1>1, <1>2
<1> QED
  BY <1>2, <1>3, <1>4, <1>5

CellsBelow(v) == {i \in BagToSet(s.counts) : ValueOfCell(i) < v}

LEMMA Below ==
    ASSUME Filled, NEW n \in 0 .. c.counts_len - 1,
           NEW below, below = MapThenSumSet(LAMBDA i : s.counts[i], CellsBelow(ValueAtIndex(c, n)))
    PROVE  below \in Nat /\ s.total_count = below + Rest(n)
<1> DEFINE used == DOMAIN s.counts
           rest == Unseen(c, s, n)
           cells == CellsBelow(ValueAtIndex(c, n))
<1>1. /\ c.counts_len \in Nat \ {0} /\ LastIndex(c) \in 0 .. c.counts_len - 1
      /\ IsFiniteSet(used) /\ \A i \in used : s.counts[i] \in Nat
      /\ \A i \in used : \E j \in 0 .. LastIndex(c) : i = NormalizeIndex(c, s, j)
      /\ s.total_count = SumFunctionOnSet(s.counts, used)
      /\ s.normalizing_index_offset \in -c.counts_len .. c.counts_len
  BY RestFacts, UsedFacts DEF Filled, CountsFit
<1>2. cells = used \ rest
  <2>1. cells \subseteq used /\ rest \subseteq used
    BY DEF CellsBelow, BagToSet, Unseen
  <2>2. ASSUME NEW i \in used PROVE i \in cells <=> i \notin rest
    <3>1. PICK j \in 0 .. c.counts_len - 1 : i = NormalizeIndex(c, s, j)
      <4>1. PICK j \in 0 .. LastIndex(c) : i = NormalizeIndex(c, s, j)
        BY <1>1
      <4>2. j \in 0 .. c.counts_len - 1
        BY <1>1
      <4> QED
        BY <4>1, <4>2
    <3>2. ValueOfCell(i) < ValueAtIndex(c, n) <=> j < n
      BY <3>1, CellOfIndex, ValuesGrow
    <3>3. i \in cells <=> j < n
      BY <3>2 DEF CellsBelow, BagToSet
    <3>4. i \notin rest <=> \E k \in 0 .. n - 1 : i = NormalizeIndex(c, s, k)
      BY DEF Unseen
    <3>5. \A k \in 0 .. n - 1 : i = NormalizeIndex(c, s, k) => k = j
      <4>1. \A k \in 0 .. n - 1 : k \in 0 .. c.counts_len - 1
        BY <1>1
      <4>2. \A k \in 0 .. c.counts_len - 1 :
               NormalizeIndex(c, s, k) = NormalizeIndex(c, s, j) => k = j
        BY <1>1, NormalizeFacts
      <4> QED
        BY <3>1, <4>1, <4>2
    <3>6. j < n <=> j \in 0 .. n - 1
      BY <1>1
    <3> QED
      BY <3>1, <3>3, <3>4, <3>5, <3>6
  <2> HIDE DEF cells, rest, used
  <2> QED
    BY <2>1, <2>2
<1>3. below = SumFunctionOnSet(s.counts, cells)
  BY DEF MapThenSumSet, SumFunctionOnSet, FoldFunctionOnSet
<1>4. rest \in SUBSET used
  BY DEF Unseen
<1> HIDE DEF used, rest, cells
<1>5. s.total_count = SumFunctionOnSet(s.counts, rest) + SumFunctionOnSet(s.counts, used \ rest)
  <2>1. \A i \in used : s.counts[i] \in Int
    BY <1>1
  <2> QED
    BY <1>1, <1>4, <2>1, SumSplit
<1>6. SumFunctionOnSet(s.counts, used \ rest) \in Nat /\ SumFunctionOnSet(s.counts, rest) \in Nat
  <2>1. IsFiniteSet(used \ rest) /\ \A i \in used \ rest : s.counts[i] \in Nat
    BY <1>1, FS_Subset
  <2>2. IsFiniteSet(rest) /\ \A i \in rest : s.counts[i] \in Nat
    BY <1>1, <1>4, FS_Subset
  <2> QED
    BY <2>1, <2>2, SumNat
<1>7. Rest(n) = SumFunctionOnSet(s.counts, rest)
  BY DEF Rest, rest
<1> QED
  BY <1>2, <1>3, <1>5, <1>6, <1>7

-----------------------------------------------------------------------------
(***************************************************************************)
(* The theorems.                                                           *)
(***************************************************************************)

\* The fields of struct hdr_iter stay in their ranges, and counts_index, by which
\* move_next reads the counts, goes to their end and no further: whatever the iterator,
\* the histogram, and what is recorded between two calls.
THEOREM IteratorsTypeCorrect == IteratorsSpec => []IteratorsTypeOK
<1>1. IteratorsInv => IteratorsTypeOK
  BY DEF IteratorsInv
<1> QED
  BY <1>1, AlwaysSound, PTL

\* What the steps of an iterator report adds up to what it walked past, and at the end,
\* if nothing was recorded meanwhile, to total_count: no count is reported twice, and
\* none is left out, however the loops of the iterators divide the counts into steps.
THEOREM EveryCountOnceCorrect == IteratorsSpec => []EveryCountOnce
<1>1. IteratorsInv => EveryCountOnce
  <2> SUFFICES ASSUME IteratorsInv, kind.kind \in Counting
               PROVE  /\ reported = it.cumulative_count
                      /\ ~more /\ recordings = 0 => reported = s.total_count
    BY DEF EveryCountOnce, Counting
  <2>1. /\ Filled /\ it \in Iterator /\ it.counts_index \in -1 .. c.counts_len /\ Accounted
    BY DEF IteratorsInv, IteratorsTypeOK
  <2>2. reported = it.cumulative_count /\ (~more => Exhausted(it))
    BY <2>1 DEF Accounted
  <2>3. ASSUME ~more, recordings = 0 PROVE it.cumulative_count = s.total_count
    <3>1. it.total_count = s.total_count /\ Total(it) = s.total_count
      BY <2>1, <2>3 DEF Accounted
    <3>2. it.counts_index <= c.counts_len
      BY <2>1, RestFacts
    <3>3. /\ it.cumulative_count \in Nat /\ Rest(it.counts_index + 1) \in Nat
          /\ it.total_count \in Nat
          /\ Total(it) = it.cumulative_count + Rest(it.counts_index + 1)
          /\ ~HasBuckets(it) => Rest(it.counts_index + 1) = 0
      BY <2>1, <3>2, TotalFacts
    <3>4. ~(it.cumulative_count < it.total_count) \/ Rest(it.counts_index + 1) = 0
      BY <2>2, <2>3, <3>3 DEF Exhausted, HasNext
    <3> QED
      BY <3>1, <3>3, <3>4
  <2> QED
    BY <2>2, <2>3
<1> QED
  BY <1>1, AlwaysSound, PTL

\* A percentile is reported with the least value that so many of the recorded values do
\* not exceed: the counts before the place where the iterator stands are fewer, those up
\* to it are enough.  The last one, 1, comes with the highest value that has a count.
THEOREM PercentileIsLeastCorrect == IteratorsSpec => []PercentileIsLeast
<1>1. IteratorsInv => PercentileIsLeast
  <2> DEFINE p == it.percentile
             n == it.counts_index
             below == MapThenSumSet(LAMBDA i : s.counts[i], CellsBelow(it.value))
             count == CountAtIndex(c, s, CountsIndexFor(c, it.value))
  <2> SUFFICES ASSUME IteratorsInv, kind.kind = "percentile", n >= 0, recordings = 0
               PROVE  /\ count > 0
                      /\ it.value_iterated_to = HighestEquivalentValue(c, it.value)
                      /\ p[1] * s.total_count <= p[2] * (below + count)
                      /\ p[1] > 0 => below * p[2] < p[1] * s.total_count
                      /\ ~more => p = <<1, 1>>
    BY DEF PercentileIsLeast, CellsBelow
  <2>1. /\ Filled /\ it \in Iterator /\ InPlace
    BY DEF IteratorsInv, IteratorsTypeOK
  <2>2. Placed(it) /\ (~more => it.seen_last_value)
    BY <2>1 DEF InPlace
  <2>3. Exact(it) /\ Reported(it)
    <3>1. ~(it.counts_index = -1)
      BY <2>1 DEF Iterator
    <3> QED
      BY <2>2, <3>1 DEF Placed, Fresh
  <2>4. /\ n \in 0 .. c.counts_len - 1 /\ it.count = CountAtIndex(c, s, n)
        /\ it.value = ValueAtIndex(c, n) /\ Total(it) = s.total_count
        /\ it.count # 0
    BY <2>3 DEF Exact, Reported
  <2>5. CountsIndexFor(c, it.value) = n /\ count = it.count
    BY <2>1, <2>4, ValueOfIndex DEF Filled
  <2>6. below \in Nat /\ s.total_count = below + Rest(n)
    BY <2>1, <2>4, Below
  <2>7. /\ it.cumulative_count \in Nat /\ it.count \in Nat /\ s.total_count \in Nat
        /\ p[1] \in Nat /\ p[2] \in Nat
        /\ Rest(n) = Rest(n + 1) + it.count /\ Rest(n + 1) \in Nat
        /\ s.total_count = it.cumulative_count + Rest(n + 1)
    <3>1. it.counts_index <= c.counts_len
      BY <2>1, <2>4, RestFacts
    <3>2. /\ it.cumulative_count \in Nat /\ it.count \in Nat /\ Rest(n + 1) \in Nat
          /\ Total(it) = it.cumulative_count + Rest(n + 1)
      BY <2>1, <3>1, TotalFacts
    <3>3. s.total_count \in Nat /\ Rest(n) = Rest(n + 1) + it.count
      BY <2>1, <2>4, RestFacts
    <3>4. p[1] \in Nat /\ p[2] \in Nat
      BY <2>1 DEF Iterator
    <3> QED
      BY <2>4, <3>2, <3>3, <3>4
  <2> HIDE DEF below, count, n
  <2>8. below = it.cumulative_count - it.count /\ below + count = it.cumulative_count
    BY <2>5, <2>6, <2>7
  <2>9. /\ it.value_iterated_to = HighestEquivalentValue(c, it.value)
        /\ p[1] * s.total_count <= it.cumulative_count * p[2]
        /\ Before(it, p)
        /\ it.seen_last_value => p = <<1, 1>>
    BY <2>3 DEF Reported
  <2> HIDE DEF p
  <2>10. p[1] * s.total_count <= p[2] * (below + count)
    <3>1. \A x, y \in Nat : x * y = y * x
      BY Z3
    <3> QED
      BY <2>7, <2>8, <2>9, <3>1
  <2>11. p[1] > 0 => below * p[2] < p[1] * s.total_count
    BY <2>7, <2>8, <2>9 DEF Before
  <2>12. count > 0
    BY <2>4, <2>5, <2>7
  <2> QED
    BY <2>2, <2>9, <2>10, <2>11, <2>12
<1> QED
  BY <1>1, AlwaysSound, PTL

\* Each step of the iterator by percentile reports a higher percentile than the one
\* before: the rounding of NextPercentile to ticks of a power of 2 always goes up, and the
\* percentile 1 is reported once, at the end.
THEOREM PercentilesRiseCorrect == IteratorsSpec => PercentilesRise
<1> DEFINE rise == kind.kind = "percentile" /\ recordings' = 0 /\ more' /\ it.counts_index >= 0 =>
               it.percentile[1] * it'.percentile[2] < it'.percentile[1] * it.percentile[2]
<1>1. IteratorsInv /\ [IteratorsNext]_iterators_vars => [rise]_iterators_vars
  <2> SUFFICES ASSUME IteratorsInv, IteratorsNext, kind.kind = "percentile",
                      recordings' = 0, more', it.counts_index >= 0
               PROVE  it.percentile[1] * it'.percentile[2]
                         < it'.percentile[1] * it.percentile[2]
    OBVIOUS
  <2>1. /\ Filled /\ kind \in Kinds /\ it \in Iterator
        /\ it.counts_index \in -1 .. c.counts_len /\ recordings \in 0 .. MaxMeanwhile
        /\ InPlace /\ MaxMeanwhile \in Nat
    BY IteratorsAssumption DEF IteratorsInv, IteratorsTypeOK
  <2>2. it.counts_index <= c.counts_len
    BY <2>1, RestFacts
  <2>3. \A value \in Meanwhile : ~RecordMeanwhile(value)
    <3>1. recordings + 1 # 0
      BY <2>1
    <3> QED
      BY <3>1 DEF RecordMeanwhile
  <2>4. NextPercentileReport
    BY <2>3 DEF IteratorsNext, IterNext, NextAll, NextRecorded, NextLinear, NextLog, Lookup
  <2> DEFINE next == PercentileIterNext(it)
  <2>5. Return(next, 0)
    BY <2>4 DEF NextPercentileReport
  <2>6. it' = next[1] /\ more' = next[2] /\ recordings' = recordings
    BY <2>5 DEF Return
  <2>7. AtLevel(it) /\ (recordings = 0 => Placed(it))
    BY <2>1 DEF InPlace
  <2>8. ~Fresh(it)
    BY <2>1 DEF Fresh
  <2>9. Exact(it) /\ Reported(it)
    BY <2>6, <2>7, <2>8 DEF Placed
  <2>10. next[2] => it.percentile[1] * next[1].percentile[2]
                       < next[1].percentile[1] * it.percentile[2]
    BY <2>1, <2>2, <2>7, <2>9, PercentileStep
  <2> HIDE DEF next
  <2> QED
    BY <2>6, <2>10
<1> QED
  BY <1>1, AlwaysSound, PTL DEF IteratorsSpec, PercentilesRise

-----------------------------------------------------------------------------
(***************************************************************************)
(* The steps of the linear and the logarithmic iterator.                   *)
(***************************************************************************)
\* Where an iterator is, as long as the loops have not run into the end of the counts.
At(i) ==
    \/ i.counts_index = -1 /\ i.value = 0
    \/ i.counts_index \in 0 .. c.counts_len - 1 /\ i.value = ValueAtIndex(c, i.counts_index)

\* The iterator stands at the range of the level it has reported, or before the first
\* range while that is the level's.
AtReportedLevel(i) ==
    LET level == LowestEquivalentValue(c, i.value_iterated_to)
    IN  IF level = 0 THEN i.counts_index = -1 /\ i.value = 0
        ELSE i.counts_index = CountsIndexFor(c, i.value_iterated_to) /\ i.value = level

\* An index that is the first one whose value is not below that of a range.
LEMMA FirstIndex ==
    ASSUME Filled, NEW v \in 0 .. MaxWord, NEW low, low = LowestEquivalentValue(c, v),
           NEW n \in 0 .. c.counts_len - 1, low <= ValueAtIndex(c, n),
           n > 0 => ValueAtIndex(c, n - 1) < low
    PROVE  n = CountsIndexFor(c, v) /\ ValueAtIndex(c, n) = low
<1> DEFINE at(k) == ValueAtIndex(c, k)
           index == CountsIndexFor(c, v)
<1>1. /\ IsConfig(c) /\ MaxWord \in Nat /\ c.counts_len \in Nat \ {0}
  BY RestFacts, WordFacts DEF Filled, IsLayout
<1>2. low \in 0 .. MaxWord /\ CountsIndexFor(c, low) = index /\ at(index) = low
  BY <1>1, RangeOfValue
<1>3. at(n) \in 0 .. MaxWord /\ CountsIndexFor(c, at(n)) = n
  BY ValueOfIndex DEF Filled
<1>4. index \in Nat /\ index <= n
  BY <1>1, <1>2, <1>3, IndexGrows
<1>5. ASSUME index < n PROVE FALSE
  <2>1. index \in 0 .. c.counts_len - 1 /\ n - 1 \in 0 .. c.counts_len - 1
        /\ n > 0 /\ ~(n - 1 < index)
    BY <1>1, <1>4, <1>5
  <2>2. at(n - 1) \in 0 .. MaxWord
    BY <2>1, ValueOfIndex DEF Filled
  <2>3. ~(at(n - 1) < at(index))
    BY <2>1, ValuesGrow
  <2> QED
    BY <1>2, <2>1, <2>3
<1>6. n = index
  BY <1>4, <1>5
<1> QED
  BY <1>2, <1>6

\* The same level from an iterator that stands at the range of a lower one.
LEMMA SameLevel ==
    ASSUME Filled, NEW v \in 0 .. MaxWord, NEW x \in 0 .. MaxWord, v <= x,
           LowestEquivalentValue(c, x) <= LowestEquivalentValue(c, v)
    PROVE  /\ LowestEquivalentValue(c, x) = LowestEquivalentValue(c, v)
           /\ CountsIndexFor(c, x) = CountsIndexFor(c, v)
<1> DEFINE low == LowestEquivalentValue(c, v)
           bottom == LowestEquivalentValue(c, x)
<1>1. IsConfig(c) /\ MaxWord \in Nat
  BY WordFacts DEF Filled, IsLayout
<1>2. /\ low \in 0 .. MaxWord /\ CountsIndexFor(c, low) = CountsIndexFor(c, v)
      /\ ValueAtIndex(c, CountsIndexFor(c, v)) = low
      /\ bottom \in 0 .. MaxWord /\ CountsIndexFor(c, bottom) = CountsIndexFor(c, x)
      /\ ValueAtIndex(c, CountsIndexFor(c, x)) = bottom
  BY <1>1, RangeOfValue
<1>3. CountsIndexFor(c, v) <= CountsIndexFor(c, x)
      /\ CountsIndexFor(c, v) \in Nat /\ CountsIndexFor(c, x) \in Nat
  BY <1>1, IndexGrows
<1>4. CountsIndexFor(c, x) <= CountsIndexFor(c, v)
  BY <1>1, <1>2, IndexGrows
<1>5. CountsIndexFor(c, v) = CountsIndexFor(c, x)
  BY <1>3, <1>4
<1> QED
  BY <1>2, <1>5

\* The loop of iter_linear_next and log_iter_next stops at the range of the level, unless
\* there is none.
LEMMA LevelLoop ==
    ASSUME Filled, NEW i \in Iterator, i.counts_index <= c.counts_len,
           NEW target \in 1 .. MaxWord, target = i.next_value_reporting_level,
           i.value_iterated_to \in 0 .. target,
           HasBuckets(i) => AtReportedLevel(i),
           NEW level, level = LowestEquivalentValue(c, target),
           NEW stopping, stopping = {at \in Iterator : at.value >= level},
           NEW end, end = MovedUntil(i, stopping)
    PROVE  /\ end \in Iterator /\ Unmoved(i, end) /\ end.counts_index <= c.counts_len
           /\ HasBuckets(end) =>
                 /\ HasBuckets(i) /\ end.value >= level
                 /\ i.counts_index <= end.counts_index
                 /\ IF level = 0 THEN end.counts_index = -1 /\ end.value = 0
                    ELSE end.counts_index = CountsIndexFor(c, target) /\ end.value = level
<1> DEFINE first == i.counts_index
           Passed(n) == n > 0 => ValueAtIndex(c, n - 1) < level
           Good == {a \in Iterator :
                      /\ a.counts_index <= c.counts_len
                      /\ Unmoved(i, a)
                      /\ HasBuckets(a) =>
                            /\ HasBuckets(i) /\ first <= a.counts_index /\ At(a)
                            /\ a.counts_index = first => a.value = i.value
                            /\ a.counts_index # first =>
                                  level > 0 /\ a.counts_index >= 0 /\ Passed(a.counts_index)}
<1>1. /\ c.counts_len \in Nat \ {0} /\ MaxWord \in Nat /\ IsConfig(c)
      /\ first \in {-1} \union Nat
  BY RestFacts, WordFacts DEF Filled, IsLayout, Iterator
<1>2. level \in 0 .. MaxWord /\ target \in 0 .. MaxWord
  BY <1>1, RangeOfValue
<1>3. HasBuckets(i) => At(i)
  <2> SUFFICES ASSUME HasBuckets(i) PROVE At(i)
    OBVIOUS
  <2> DEFINE to == i.value_iterated_to
             low == LowestEquivalentValue(c, to)
  <2>1. to \in 0 .. MaxWord
    BY <1>1
  <2>2. low \in 0 .. MaxWord /\ ValueAtIndex(c, CountsIndexFor(c, to)) = low
        /\ CountsIndexFor(c, to) \in Nat
    BY <1>1, <2>1, RangeOfValue, IndexGrows
  <2>3. CASE low = 0
    BY <2>3 DEF AtReportedLevel, At
  <2>4. CASE low # 0
    <3>1. first = CountsIndexFor(c, to) /\ i.value = low /\ first < c.counts_len
      BY <2>4 DEF AtReportedLevel, HasBuckets
    <3>2. first \in 0 .. c.counts_len - 1 /\ i.value = ValueAtIndex(c, first)
      BY <1>1, <2>2, <3>1
    <3> QED
      BY <3>2 DEF At
  <2> QED
    BY <2>3, <2>4
<1>4. i \in Good
  BY <1>1, <1>3 DEF Unmoved, SameRange, SameTarget
<1>5. ASSUME NEW a \in Good, a \notin stopping, HasBuckets(a) PROVE MoveNext(a) \in Good
  <2> DEFINE v == MoveNext(a)
  <2>1. /\ a \in Iterator /\ Unmoved(i, a) /\ HasBuckets(i) /\ At(a)
        /\ first <= a.counts_index /\ a.counts_index \in {-1} \union Nat
        /\ a.value \in Nat
    BY <1>5 DEF Iterator
  <2>2. a.value < level
    BY <1>2, <1>5, <2>1
  <2>3. /\ v \in Iterator /\ Unmoved(a, v) /\ v.counts_index = a.counts_index + 1
        /\ v.counts_index \in 0 .. c.counts_len
        /\ v.counts_index < c.counts_len => v.value = ValueAtIndex(c, v.counts_index)
    BY <1>5, <2>1, MoveNextFacts
  <2> HIDE DEF v
  <2>4. Unmoved(i, v)
    BY <2>1, <2>3 DEF Unmoved, SameRange, SameTarget
  <2>5. HasBuckets(v) => At(v)
    BY <1>1, <2>3 DEF At, HasBuckets
  <2>6. level > 0
    BY <1>2, <2>1, <2>2
  <2>7. Passed(v.counts_index)
    <3> SUFFICES ASSUME v.counts_index > 0 PROVE ValueAtIndex(c, v.counts_index - 1) < level
      OBVIOUS
    <3>1. v.counts_index - 1 = a.counts_index /\ a.counts_index # -1
      BY <2>1, <2>3
    <3> QED
      BY <2>1, <2>2, <3>1 DEF At
  <2>8. v.counts_index <= c.counts_len /\ first <= v.counts_index /\ v.counts_index # first
        /\ v.counts_index >= 0
    BY <1>1, <2>1, <2>3
  <2>9. v \in Good
    BY <2>1, <2>3, <2>4, <2>5, <2>6, <2>7, <2>8
  <2> QED
    BY <2>9 DEF v
<1>6. end \in Good /\ (end \in stopping \/ ~HasBuckets(end))
  <2>1. Good \in SUBSET Iterator /\ \A a \in Good : a.counts_index <= c.counts_len
    OBVIOUS
  <2> HIDE DEF Good
  <2> QED
    BY <1>4, <1>5, <2>1, LoopKeeps
<1> SUFFICES ASSUME HasBuckets(end)
             PROVE  /\ HasBuckets(i) /\ end.value >= level
                    /\ first <= end.counts_index
                    /\ IF level = 0 THEN end.counts_index = -1 /\ end.value = 0
                       ELSE end.counts_index = CountsIndexFor(c, target) /\ end.value = level
  BY <1>6
<1> DEFINE n == end.counts_index
<1>7. /\ end \in Iterator /\ end.value \in Nat /\ end.value >= level
      /\ HasBuckets(i) /\ first <= n /\ At(end)
      /\ n = first => end.value = i.value
      /\ n # first => level > 0 /\ n >= 0 /\ Passed(n)
  BY <1>6 DEF Iterator
<1> HIDE DEF Good
<1>8. CASE n # first
  <2>1. n \in 0 .. c.counts_len - 1 /\ end.value = ValueAtIndex(c, n)
    BY <1>7, <1>8 DEF At
  <2>2. n = CountsIndexFor(c, target) /\ ValueAtIndex(c, n) = level
    BY <1>2, <1>7, <1>8, <2>1, FirstIndex
  <2> QED
    BY <1>2, <1>7, <1>8, <2>1, <2>2
<1>9. CASE n = first
  <2> DEFINE to == i.value_iterated_to
             low == LowestEquivalentValue(c, to)
  <2>1. to \in 0 .. MaxWord /\ target \in 0 .. MaxWord /\ to <= target
    BY <1>1
  <2>2. low \in 0 .. MaxWord
    BY <1>1, <2>1, RangeOfValue
  <2>3. AtReportedLevel(i) /\ end.value = i.value
    BY <1>7, <1>9
  <2>4. end.value = low
    BY <2>3 DEF AtReportedLevel
  <2>5. level = low /\ CountsIndexFor(c, target) = CountsIndexFor(c, to)
    BY <1>7, <2>1, <2>4, SameLevel
  <2> QED
    BY <1>7, <1>9, <2>3, <2>5 DEF AtReportedLevel
<1> QED
  BY <1>8, <1>9

\* A step of iter_linear_next and log_iter_next reports a level, unless it runs into the
\* end of the counts.
LEMMA ReachLevelPlace ==
    ASSUME Filled, kind \in Kinds, NEW i \in Iterator, i.counts_index <= c.counts_len,
           NEW target \in 1 .. MaxWord, target = i.next_value_reporting_level,
           i.value_iterated_to \in 0 .. target,
           HasBuckets(i) => AtReportedLevel(i),
           NEW u, u = ReachLevel(i)
    PROVE  /\ \/ /\ u.next_value_reporting_level = target
                 /\ u.value_iterated_to = i.value_iterated_to
                 /\ ~HasBuckets(u)
              \/ /\ u.next_value_reporting_level = NextReportingLevel(target)
                 /\ u.value_iterated_to = target
                 /\ u.value_iterated_from = i.value_iterated_to
           /\ HasBuckets(u) => HasBuckets(i) /\ i.counts_index <= u.counts_index
                               /\ AtReportedLevel(u)
<1> DEFINE level == LowestEquivalentValue(c, target)
           stopping == {at \in Iterator : at.value >= level}
           end == MovedUntil(i, stopping)
           counted == [end EXCEPT !.count_added_in_this_iteration_step =
                                       @ + end.cumulative_count - i.cumulative_count]
<1>1. /\ end \in Iterator /\ Unmoved(i, end) /\ end.counts_index <= c.counts_len
      /\ HasBuckets(end) =>
            /\ HasBuckets(i) /\ end.value >= level
            /\ i.counts_index <= end.counts_index
            /\ IF level = 0 THEN end.counts_index = -1 /\ end.value = 0
               ELSE end.counts_index = CountsIndexFor(c, target) /\ end.value = level
  <2> DEFINE L == level
             S == stopping
             E == end
  <2>1. L = LowestEquivalentValue(c, target) /\ S = {at \in Iterator : at.value >= L}
        /\ E = MovedUntil(i, S)
    OBVIOUS
  <2> HIDE DEF L, S, E
  <2>2. /\ E \in Iterator /\ Unmoved(i, E) /\ E.counts_index <= c.counts_len
        /\ HasBuckets(E) =>
              /\ HasBuckets(i) /\ E.value >= L
              /\ i.counts_index <= E.counts_index
              /\ IF L = 0 THEN E.counts_index = -1 /\ E.value = 0
                 ELSE E.counts_index = CountsIndexFor(c, target) /\ E.value = L
    BY <2>1, LevelLoop
  <2> QED
    BY <2>2 DEF L, S, E
<1>2. u = IF end.value >= level THEN ReportLevel(counted) ELSE counted
  BY DEF ReachLevel
<1> HIDE DEF end, level
<1>3. /\ counted.counts_index = end.counts_index /\ counted.value = end.value
      /\ counted.value_iterated_from = i.value_iterated_from
      /\ counted.value_iterated_to = i.value_iterated_to
      /\ counted.next_value_reporting_level = target
  BY <1>1 DEF Iterator, Unmoved, SameRange, SameTarget
<1> HIDE DEF counted
<1>4. CASE end.value >= level
  <2> DEFINE raised == NextReportingLevel(target)
  <2>1. u = [UpdateIteratedValues(counted, target)
                EXCEPT !.next_value_reporting_level = NextReportingLevel(@)]
    BY <1>2, <1>3, <1>4 DEF ReportLevel
  <2>2. counted = [end EXCEPT !.count_added_in_this_iteration_step =
                       end.count_added_in_this_iteration_step
                           + end.cumulative_count - i.cumulative_count]
    BY <1>1 DEF counted, Iterator
  <2> DEFINE added == end.count_added_in_this_iteration_step
                           + end.cumulative_count - i.cumulative_count
  <2> HIDE DEF added, raised
  <2>3. counted = [end EXCEPT !.count_added_in_this_iteration_step = added]
    BY <2>2 DEF added
  <2>4. /\ UpdateIteratedValues(counted, target).value_iterated_from = i.value_iterated_to
        /\ UpdateIteratedValues(counted, target).value_iterated_to = target
        /\ UpdateIteratedValues(counted, target).counts_index = end.counts_index
        /\ UpdateIteratedValues(counted, target).value = end.value
        /\ UpdateIteratedValues(counted, target).next_value_reporting_level = target
    BY <1>1, <1>3, <2>3 DEF UpdateIteratedValues, Iterator
  <2>5. /\ u.value_iterated_from = i.value_iterated_to /\ u.value_iterated_to = target
        /\ u.counts_index = end.counts_index /\ u.value = end.value
        /\ u.next_value_reporting_level = NextReportingLevel(target)
    BY <1>1, <2>1, <2>3, <2>4 DEF UpdateIteratedValues, Iterator
  <2>6. HasBuckets(u) => HasBuckets(end)
    BY <2>5 DEF HasBuckets
  <2>7. HasBuckets(u) => AtReportedLevel(u)
    BY <1>1, <2>5, <2>6 DEF AtReportedLevel, level
  <2> QED
    BY <1>1, <2>5, <2>6, <2>7
<1>5. CASE ~(end.value >= level)
  <2>1. u = counted
    BY <1>2, <1>5
  <2>2. ~HasBuckets(end) /\ ~HasBuckets(u)
    BY <1>1, <1>3, <1>5, <2>1 DEF HasBuckets
  <2> QED
    BY <1>3, <2>1, <2>2
<1> QED
  BY <1>4, <1>5

-----------------------------------------------------------------------------
\* The cells whose values are in the range that a step says it went through.
CellsBetween(from, to) ==
    {i \in BagToSet(s.counts) : /\ ValueOfCell(i) > from \/ from = 0
                                /\ ValueOfCell(i) <= to /\ to > 0}

\* Where a step from one level to another one begins or ends.
StandsAt(n, low) ==
    \/ n = -1 /\ low = 0
    \/ n \in 0 .. c.counts_len - 1 /\ low = ValueAtIndex(c, n) /\ low > 0

LEMMA Between ==
    ASSUME Filled, NEW n, NEW from, StandsAt(n, from), NEW m, NEW to, StandsAt(m, to), n <= m,
           NEW between, between = MapThenSumSet(LAMBDA i : s.counts[i], CellsBetween(from, to))
    PROVE  between = Rest(n + 1) - Rest(m + 1)
<1> DEFINE used == DOMAIN s.counts
           cells == CellsBetween(from, to)
           before == Unseen(c, s, n + 1)
           after == Unseen(c, s, m + 1)
<1>1. /\ c.counts_len \in Nat \ {0} /\ LastIndex(c) \in 0 .. c.counts_len - 1
      /\ IsFiniteSet(used) /\ \A i \in used : s.counts[i] \in Nat
      /\ \A i \in used : \E j \in 0 .. LastIndex(c) : i = NormalizeIndex(c, s, j)
      /\ s.normalizing_index_offset \in -c.counts_len .. c.counts_len
  BY RestFacts, UsedFacts DEF Filled, CountsFit
<1>2. n \in -1 .. c.counts_len - 1 /\ m \in -1 .. c.counts_len - 1
  BY <1>1 DEF StandsAt
<1>3. ASSUME NEW k \in -1 .. c.counts_len - 1, NEW j \in 0 .. c.counts_len - 1
      PROVE  NormalizeIndex(c, s, j) \in Unseen(c, s, k + 1)
                <=> NormalizeIndex(c, s, j) \in used /\ j > k
  <2>1. \A h \in 0 .. k : h \in 0 .. c.counts_len - 1
    BY <1>1, <1>3
  <2>2. \A h \in 0 .. c.counts_len - 1 :
           NormalizeIndex(c, s, h) = NormalizeIndex(c, s, j) => h = j
    BY <1>1, NormalizeFacts
  <2>3. j > k <=> j \notin 0 .. k
    BY <1>1, <1>3
  <2>4. 0 .. (k + 1) - 1 = 0 .. k
    BY <1>1, <1>3
  <2> QED
    BY <2>1, <2>2, <2>3, <2>4 DEF Unseen
<1>4. ASSUME NEW k, NEW low, StandsAt(k, low), NEW j \in 0 .. c.counts_len - 1
      PROVE  /\ ValueAtIndex(c, j) > low \/ low = 0 <=> j > k
             /\ ValueAtIndex(c, j) <= low /\ low > 0 <=> j <= k
  <2>1. ValueAtIndex(c, j) \in 0 .. MaxWord /\ MaxWord \in Nat
    BY WordFacts, ValueOfIndex DEF Filled
  <2>2. CASE k = -1 /\ low = 0
    BY <1>4, <2>1, <2>2
  <2>3. CASE k \in 0 .. c.counts_len - 1 /\ low = ValueAtIndex(c, k) /\ low > 0
    <3>1. low \in 0 .. MaxWord
      BY <2>3, ValueOfIndex DEF Filled
    <3>2. low < ValueAtIndex(c, j) <=> k < j
      BY <1>4, <2>3, ValuesGrow
    <3> HIDE DEF Filled
    <3> QED
      BY <1>1, <1>4, <2>1, <2>3, <3>1, <3>2
  <2> QED
    BY <1>4, <2>2, <2>3 DEF StandsAt
<1>5. cells = before \ after
  <2>1. cells \subseteq used /\ before \subseteq used /\ after \subseteq used
    BY DEF CellsBetween, BagToSet, Unseen
  <2>2. ASSUME NEW i \in used PROVE i \in cells <=> i \in before /\ i \notin after
    <3>1. PICK j \in 0 .. c.counts_len - 1 : i = NormalizeIndex(c, s, j)
      <4>1. PICK j \in 0 .. LastIndex(c) : i = NormalizeIndex(c, s, j)
        BY <1>1
      <4>2. j \in 0 .. c.counts_len - 1
        BY <1>1
      <4> QED
        BY <4>1, <4>2
    <3>2. (i \in before <=> j > n) /\ (i \in after <=> j > m)
      BY <1>2, <1>3, <3>1
    <3>3. ValueOfCell(i) = ValueAtIndex(c, j)
      BY <3>1, CellOfIndex
    <3>4. /\ ValueOfCell(i) > from \/ from = 0 <=> j > n
          /\ ValueOfCell(i) <= to /\ to > 0 <=> j <= m
      BY <1>4, <3>3
    <3>5. i \in cells <=> j > n /\ j <= m
      BY <3>4 DEF CellsBetween, BagToSet
    <3>6. j <= m <=> ~(j > m)
      BY <1>1, <1>2
    <3> QED
      BY <3>2, <3>5, <3>6
  <2> HIDE DEF cells, before, after, used
  <2> QED
    BY <2>1, <2>2
<1>6. after \subseteq before
  <2>1. after \subseteq used
    BY DEF Unseen
  <2>2. ASSUME NEW i \in after PROVE i \in before
    <3>1. PICK j \in 0 .. LastIndex(c) : i = NormalizeIndex(c, s, j)
      BY <1>1, <2>1
    <3>2. j \in 0 .. c.counts_len - 1
      BY <1>1
    <3>3. i \in used /\ j > m
      BY <1>2, <1>3, <2>2, <3>1, <3>2
    <3>4. j > n
      BY <1>1, <1>2, <3>2, <3>3
    <3> QED
      BY <1>2, <1>3, <3>1, <3>2, <3>3, <3>4
  <2> QED
    BY <2>2
<1>7. between = SumFunctionOnSet(s.counts, cells)
  BY DEF MapThenSumSet, SumFunctionOnSet, FoldFunctionOnSet
<1>8. before \subseteq used
  BY DEF Unseen
<1> HIDE DEF used, cells, before, after
<1>9. /\ IsFiniteSet(before) /\ \A i \in before : s.counts[i] \in Nat
      /\ IsFiniteSet(after) /\ \A i \in after : s.counts[i] \in Nat
      /\ IsFiniteSet(cells) /\ \A i \in cells : s.counts[i] \in Nat
  BY <1>1, <1>5, <1>6, <1>8, FS_Subset
<1>10. SumFunctionOnSet(s.counts, before)
          = SumFunctionOnSet(s.counts, after) + SumFunctionOnSet(s.counts, cells)
  <2>1. \A i \in before : s.counts[i] \in Int
    BY <1>9
  <2> QED
    BY <1>5, <1>6, <1>9, <2>1, SumSplit
<1>11. SumFunctionOnSet(s.counts, after) \in Nat /\ SumFunctionOnSet(s.counts, cells) \in Nat
  BY <1>9, SumNat
<1>12. Rest(n + 1) = SumFunctionOnSet(s.counts, before)
       /\ Rest(m + 1) = SumFunctionOnSet(s.counts, after)
  BY DEF Rest, before, after
<1> QED
  BY <1>7, <1>10, <1>11, <1>12

\* Where the linear and the logarithmic iterator are between two calls, as long as the
\* reporting level has not left the word.
Aligned ==
    kind.kind \in {"linear", "log"} /\ recordings = 0 /\ ~wrapped =>
        /\ it.next_value_reporting_level \in 1 .. MaxWord
        /\ it.value_iterated_to \in 0 .. it.next_value_reporting_level
        /\ HasBuckets(it) => AtReportedLevel(it)

LEMMA InitAligned == IteratorsInit => Aligned
<1> SUFFICES ASSUME IteratorsInit, kind.kind \in {"linear", "log"}
             PROVE  /\ it.next_value_reporting_level \in 1 .. MaxWord
                    /\ it.value_iterated_to \in 0 .. it.next_value_reporting_level
                    /\ AtReportedLevel(it)
  BY DEF Aligned
<1>1. kind \in Kinds /\ it = IterInit(s, kind)
  BY DEF IteratorsInit
<1>2. /\ it.next_value_reporting_level = kind.first /\ it.value_iterated_to = 0
      /\ it.counts_index = -1 /\ it.value = 0
  BY <1>1 DEF IterInit
<1>3. kind.first \in 1 .. MaxWord /\ MaxWord \in Nat
  <2>1. kind.first \in 0 .. MaxWord /\ kind.first > 0
    BY <1>1, IteratorsAssumption
  <2> QED
    BY <2>1, WordFacts
<1>4. LowestEquivalentValue(c, 0) = 0
  <2> DEFINE low == LowestEquivalentValue(c, 0)
  <2>1. IsConfig(c) /\ 0 \in 0 .. MaxWord
    BY <1>3, InitFilled DEF Filled, IsLayout
  <2>2. low \in 0 .. MaxWord /\ low <= 0
    BY <2>1, RangeOfValue
  <2> QED
    BY <1>3, <2>2
<1> QED
  BY <1>2, <1>3, <1>4 DEF AtReportedLevel

\* One call of the linear or the logarithmic iterator.
LEMMA LevelCall ==
    ASSUME IteratorsInv, Aligned, kind.kind \in {"linear", "log"}, recordings = 0, ~wrapped,
           NextLinear \/ NextLog
    PROVE  /\ \/ /\ it'.next_value_reporting_level = it.next_value_reporting_level
                 /\ it'.value_iterated_to = it.value_iterated_to
                 /\ more' => ~HasBuckets(it')
              \/ /\ it'.next_value_reporting_level
                       = NextReportingLevel(it.next_value_reporting_level)
                 /\ it'.value_iterated_to = it.next_value_reporting_level
                 /\ it'.value_iterated_from = it.value_iterated_to
           /\ HasBuckets(it') =>
                 HasBuckets(it) /\ it.counts_index <= it'.counts_index /\ AtReportedLevel(it')
           /\ more' => it'.count_added_in_this_iteration_step
                          = Rest(it.counts_index + 1) - Rest(it'.counts_index + 1)
<1> DEFINE begun == Adding(it, 0)
           u == ReachLevel(begun)
           next == LevelIterNext(it)
           target == it.next_value_reporting_level
<1>1. /\ Filled /\ kind \in Kinds /\ it \in Iterator /\ it.counts_index <= c.counts_len
      /\ target \in 1 .. MaxWord /\ it.value_iterated_to \in 0 .. target
      /\ HasBuckets(it) => AtReportedLevel(it)
  <2>1. it.counts_index \in -1 .. c.counts_len /\ it \in Iterator /\ Filled /\ kind \in Kinds
    BY DEF IteratorsInv, IteratorsTypeOK
  <2> QED
    BY <2>1, RestFacts DEF Aligned
<1>2. it' = next[1] /\ more' = next[2]
  BY DEF NextLinear, NextLog, Return
<1>3. /\ begun \in Iterator /\ SamePlace(it, begun) /\ SameTarget(it, begun)
      /\ SameRange(it, begun) /\ begun.count_added_in_this_iteration_step = 0
  BY <1>1, AddingFields
<1>4. next = <<u, TRUE>> \/ next = <<begun, FALSE>>
  BY DEF LevelIterNext, Adding
<1> HIDE DEF next
<1>5. /\ begun.counts_index = it.counts_index /\ begun.value = it.value
      /\ begun.next_value_reporting_level = target
      /\ begun.value_iterated_to = it.value_iterated_to
      /\ begun.cumulative_count = it.cumulative_count
  BY <1>3 DEF SamePlace, SameTarget, SameRange
<1>6. /\ HasBuckets(begun) <=> HasBuckets(it)
      /\ AtReportedLevel(begun) <=> AtReportedLevel(it)
  BY <1>5 DEF HasBuckets, AtReportedLevel
<1> HIDE DEF begun
<1>7. CASE next = <<u, TRUE>>
  <2> DEFINE w == u
  <2>1. it' = w /\ more' = TRUE /\ w = ReachLevel(begun)
    BY <1>2, <1>7
  <2> HIDE DEF w, target
  <2>2. /\ \/ /\ w.next_value_reporting_level = target
              /\ w.value_iterated_to = begun.value_iterated_to
              /\ ~HasBuckets(w)
           \/ /\ w.next_value_reporting_level = NextReportingLevel(target)
              /\ w.value_iterated_to = target
              /\ w.value_iterated_from = begun.value_iterated_to
        /\ HasBuckets(w) => HasBuckets(begun) /\ begun.counts_index <= w.counts_index
                            /\ AtReportedLevel(w)
    BY <1>1, <1>3, <1>5, <1>6, <2>1, ReachLevelPlace
  <2>3. /\ w \in Iterator /\ w.counts_index <= c.counts_len /\ Total(w) = Total(begun)
        /\ w.cumulative_count = begun.cumulative_count + w.count_added_in_this_iteration_step
    BY <1>1, <1>3, <1>5, <2>1, ReachStep
  <2>4. w.count_added_in_this_iteration_step
           = Rest(it.counts_index + 1) - Rest(w.counts_index + 1)
    <3>1. /\ Total(w) = w.cumulative_count + Rest(w.counts_index + 1)
          /\ Rest(w.counts_index + 1) \in Nat
      BY <1>1, <2>3, TotalFacts
    <3>2. /\ Total(begun) = begun.cumulative_count + Rest(it.counts_index + 1)
          /\ Rest(it.counts_index + 1) \in Nat
      BY <1>1, <1>3, <1>5, TotalFacts
    <3>3. /\ w.cumulative_count \in Nat /\ w.count_added_in_this_iteration_step \in Nat
          /\ begun.cumulative_count \in Nat
      BY <1>3, <2>3 DEF Iterator
    <3> DEFINE left == Rest(it.counts_index + 1)
               rest == Rest(w.counts_index + 1)
               added == w.count_added_in_this_iteration_step
               passed == begun.cumulative_count
    <3>4. /\ left \in Nat /\ rest \in Nat /\ added \in Nat /\ passed \in Nat
          /\ (passed + added) + rest = passed + left
      BY <2>3, <3>1, <3>2, <3>3
    <3> HIDE DEF left, rest, added, passed
    <3>5. added = left - rest
      BY <3>4
    <3> QED
      BY <3>5 DEF left, rest, added
  <2> QED
    BY <1>5, <1>6, <2>1, <2>2, <2>4 DEF target
<1>8. CASE next = <<begun, FALSE>>
  <2>1. it' = begun /\ more' = FALSE
    BY <1>2, <1>8
  <2>2. it.counts_index <= it.counts_index
    BY <1>1 DEF Iterator
  <2> QED
    BY <1>1, <1>5, <1>6, <2>1, <2>2
<1> QED
  BY <1>4, <1>7, <1>8

LEMMA NextAligned ==
    IteratorsInv /\ Aligned /\ [IteratorsNext]_iterators_vars => Aligned'
<1> SUFFICES ASSUME IteratorsInv, Aligned, [IteratorsNext]_iterators_vars,
                    kind'.kind \in {"linear", "log"}, recordings' = 0, ~wrapped'
             PROVE  /\ it'.next_value_reporting_level \in 1 .. MaxWord
                    /\ it'.value_iterated_to \in 0 .. it'.next_value_reporting_level
                    /\ HasBuckets(it)' => AtReportedLevel(it)'
  BY DEF Aligned
<1>1. ASSUME UNCHANGED iterators_vars
      PROVE  /\ it'.next_value_reporting_level \in 1 .. MaxWord
             /\ it'.value_iterated_to \in 0 .. it'.next_value_reporting_level
             /\ HasBuckets(it)' => AtReportedLevel(it)'
  BY <1>1 DEF iterators_vars, Aligned, HasBuckets, AtReportedLevel
<1>2. ASSUME IteratorsNext
      PROVE  /\ it'.next_value_reporting_level \in 1 .. MaxWord
             /\ it'.value_iterated_to \in 0 .. it'.next_value_reporting_level
             /\ HasBuckets(it)' => AtReportedLevel(it)'
  <2> DEFINE target == it.next_value_reporting_level
             raised == RaisedLevel(target)
  <2>1. kind' = kind
    BY <1>2 DEF IteratorsNext, IterNext, NextAll, NextRecorded, NextLinear, NextLog,
                NextPercentileReport, Lookup, Return, RecordMeanwhile
  <2>2. \A value \in Meanwhile : ~RecordMeanwhile(value)
    <3>1. recordings + 1 # 0
      BY DEF IteratorsInv, IteratorsTypeOK
    <3> QED
      BY <3>1 DEF RecordMeanwhile
  <2>3. NextLinear \/ NextLog
    BY <1>2, <2>1, <2>2 DEF IteratorsNext, IterNext, NextAll, NextRecorded,
                            NextPercentileReport, Lookup
  <2>4. /\ c' = c /\ recordings' = recordings
        /\ ~wrapped /\ (it'.next_value_reporting_level # target => ~(raised > MaxWord))
    BY <2>3 DEF NextLinear, NextLog, Return
  <2>5. target \in 1 .. MaxWord /\ it.value_iterated_to \in 0 .. target /\ kind \in Kinds
    BY <2>1, <2>4 DEF Aligned, IteratorsInv
  <2>6. raised \in Nat /\ target <= raised
    <3>1. kind.by \in Nat \ {0}
      <4>1. kind.by \in 0 .. MaxWord /\ kind.by > 0
        BY <2>1, <2>5, IteratorsAssumption
      <4> QED
        BY <4>1, WordFacts
    <3>2. \A x, y \in Nat \ {0} : x * y \in Nat /\ x <= x * y
      BY Z3
    <3>3. target \in Nat \ {0}
      BY <2>5, WordFacts
    <3> HIDE DEF target
    <3>4. target * kind.by \in Nat /\ target <= target * kind.by
      BY <3>1, <3>2, <3>3
    <3>5. target + kind.by \in Nat /\ target <= target + kind.by
      BY <3>1, <3>3
    <3> QED
      BY <3>4, <3>5 DEF RaisedLevel
  <2> HIDE DEF raised
  <2>7. ASSUME it'.next_value_reporting_level = NextReportingLevel(target)
        PROVE  it'.next_value_reporting_level \in target .. MaxWord
    <3>1. CASE it'.next_value_reporting_level = target
      BY <2>5, <3>1, WordFacts
    <3>2. CASE it'.next_value_reporting_level # target
      <4>1. raised <= MaxWord /\ MaxWord \in Nat
        BY <2>4, <2>6, <3>2, WordFacts
      <4>2. Wrap(raised) = raised
        BY <2>6, <4>1, WrapFacts
      <4> QED
        BY <2>5, <2>6, <2>7, <4>1, <4>2 DEF NextReportingLevel, raised
    <3> QED
      BY <3>1, <3>2
  <2>8. /\ \/ /\ it'.next_value_reporting_level = target
              /\ it'.value_iterated_to = it.value_iterated_to
           \/ /\ it'.next_value_reporting_level = NextReportingLevel(target)
              /\ it'.value_iterated_to = target
        /\ HasBuckets(it') => AtReportedLevel(it')
    BY <2>1, <2>3, <2>4, LevelCall
  <2>9. (HasBuckets(it)' <=> HasBuckets(it')) /\ (AtReportedLevel(it)' <=> AtReportedLevel(it'))
    BY <2>4 DEF HasBuckets, AtReportedLevel
  <2>10. MaxWord \in Nat
    BY WordFacts
  <2> HIDE DEF target
  <2>11. /\ it'.next_value_reporting_level \in 1 .. MaxWord
         /\ it'.value_iterated_to \in 0 .. it'.next_value_reporting_level
    BY <2>5, <2>7, <2>8, <2>10
  <2> QED
    BY <2>8, <2>9, <2>11
<1> QED
  BY <1>1, <1>2

\* A linear or logarithmic step reports the counts between the range of the level before
\* and that of its own level, and no others: also where levels share a range, where a
\* step passes several ranges, and where the first levels are below the first range.
THEOREM StepsCountTheirRangeCorrect == IteratorsSpec => StepsCountTheirRange
<1> DEFINE counted == kind.kind \in {"linear", "log"} /\ recordings' = 0 /\ more' /\ ~wrapped
                        /\ it'.counts_index < c.counts_len =>
               LET from == LowestEquivalentValue(c, it'.value_iterated_from)
                   to == LowestEquivalentValue(c, it'.value_iterated_to)
                   stepped == {i \in BagToSet(s.counts) :
                                  /\ ValueOfCell(i) > from \/ from = 0
                                  /\ ValueOfCell(i) <= to /\ to > 0}
               IN  it'.count_added_in_this_iteration_step
                      = MapThenSumSet(LAMBDA i : s.counts[i], stepped)
<1>1. IteratorsInv /\ Aligned /\ [IteratorsNext]_iterators_vars => [counted]_iterators_vars
  <2> DEFINE from == LowestEquivalentValue(c, it'.value_iterated_from)
             to == LowestEquivalentValue(c, it'.value_iterated_to)
             n == it.counts_index
             m == it'.counts_index
  <2> SUFFICES ASSUME IteratorsInv, Aligned, IteratorsNext, kind.kind \in {"linear", "log"},
                      recordings' = 0, more', ~wrapped, it'.counts_index < c.counts_len
               PROVE  it'.count_added_in_this_iteration_step
                         = MapThenSumSet(LAMBDA i : s.counts[i], CellsBetween(from, to))
    BY DEF CellsBetween
  <2>1. \A value \in Meanwhile : ~RecordMeanwhile(value)
    <3>1. recordings + 1 # 0
      BY DEF IteratorsInv, IteratorsTypeOK
    <3> QED
      BY <3>1 DEF RecordMeanwhile
  <2>2. NextLinear \/ NextLog
    BY <2>1 DEF IteratorsNext, IterNext, NextAll, NextRecorded, NextPercentileReport, Lookup
  <2>3. recordings = 0 /\ HasBuckets(it')
    BY <2>2 DEF NextLinear, NextLog, Return, HasBuckets
  <2>4. /\ it'.value_iterated_to = it.next_value_reporting_level
        /\ it'.value_iterated_from = it.value_iterated_to
        /\ HasBuckets(it) /\ n <= m /\ AtReportedLevel(it')
        /\ it'.count_added_in_this_iteration_step = Rest(n + 1) - Rest(m + 1)
    BY <2>2, <2>3, LevelCall
  <2>5. /\ Filled /\ it.next_value_reporting_level \in 1 .. MaxWord
        /\ it.value_iterated_to \in 0 .. it.next_value_reporting_level
        /\ AtReportedLevel(it)
    BY <2>3, <2>4 DEF Aligned, IteratorsInv
  <2>6. ASSUME NEW i, HasBuckets(i), AtReportedLevel(i), i.value_iterated_to \in 0 .. MaxWord
        PROVE  StandsAt(i.counts_index, LowestEquivalentValue(c, i.value_iterated_to))
    <3> DEFINE v == i.value_iterated_to
               low == LowestEquivalentValue(c, v)
    <3>1. IsConfig(c) /\ c.counts_len \in Nat /\ MaxWord \in Nat
      BY <2>5, RestFacts, WordFacts DEF Filled, IsLayout
    <3>2. low \in 0 .. MaxWord /\ ValueAtIndex(c, CountsIndexFor(c, v)) = low
          /\ CountsIndexFor(c, v) \in Nat
      BY <2>6, <3>1, RangeOfValue, IndexGrows
    <3>3. CASE low = 0
      BY <2>6, <3>3 DEF AtReportedLevel, StandsAt
    <3>4. CASE low # 0
      <4>1. i.counts_index = CountsIndexFor(c, v)
        BY <2>6, <3>4 DEF AtReportedLevel
      <4>2. i.counts_index \in 0 .. c.counts_len - 1 /\ low > 0
        BY <2>6, <3>1, <3>2, <3>4, <4>1 DEF HasBuckets
      <4> QED
        BY <3>2, <4>1, <4>2 DEF StandsAt
    <3> QED
      BY <3>3, <3>4
  <2>7. it.value_iterated_to \in 0 .. MaxWord /\ it'.value_iterated_to \in 0 .. MaxWord
    BY <2>4, <2>5, WordFacts
  <2>8. StandsAt(n, from) /\ StandsAt(m, to)
    BY <2>3, <2>4, <2>5, <2>6, <2>7
  <2> HIDE DEF from, to, n, m
  <2> QED
    BY <2>4, <2>5, <2>8, Between
<1>2. IteratorsSpec => []Aligned
  <2>1. IteratorsSpec => []IteratorsInv
    BY AlwaysSound
  <2> QED
    BY <2>1, InitAligned, NextAligned, PTL DEF IteratorsSpec
<1> QED
  BY <1>1, <1>2, AlwaysSound, PTL DEF IteratorsSpec, StepsCountTheirRange

-----------------------------------------------------------------------------
(***************************************************************************)
(* Loops written as recursive functions: each round goes on to the next    *)
(* state, until a state that stops the loop has the result.                *)
(***************************************************************************)
Loops(f, S, stopping, result, next) ==
    f = [x \in S |-> IF x \in stopping THEN result[x] ELSE f[next[x]]]

\* Such a function exists when the number of rounds that are left is bounded.
LEMMA LoopsExist ==
    ASSUME NEW S, NEW stopping, NEW result, NEW next, NEW rank, NEW N \in Nat,
           \A x \in S : rank[x] \in 0 .. N,
           \A x \in S \ stopping : next[x] \in S /\ rank[next[x]] < rank[x]
    PROVE  \E f : Loops(f, S, stopping, result, next)
<1> DEFINE Within(k) == {x \in S : rank[x] <= k}
           Bad == {k \in 0 .. N : ~ \E f : Loops(f, Within(k), stopping, result, next)}
<1>1. Within(N) = S
  OBVIOUS
<1>2. SUFFICES ASSUME Bad # {} PROVE FALSE
  <2>1. N \in 0 .. N
    OBVIOUS
  <2> HIDE DEF Within
  <2> QED
    BY <1>1, <2>1
<1>3. PICK k \in Bad : \A j \in Bad : k <= j
  <2>1. Bad \in SUBSET (0 .. N)
    OBVIOUS
  <2> HIDE DEF Bad
  <2> QED
    BY <1>2, <2>1, LeastNatural
<1>4. \E f : k > 0 => Loops(f, Within(k - 1), stopping, result, next)
  <2> SUFFICES ASSUME k > 0 PROVE \E f : Loops(f, Within(k - 1), stopping, result, next)
    OBVIOUS
  <2>1. k - 1 \in 0 .. N /\ ~(k <= k - 1)
    BY <1>3
  <2> HIDE DEF Within
  <2> QED
    BY <1>3, <2>1
<1>5. PICK f : k > 0 => Loops(f, Within(k - 1), stopping, result, next)
  BY <1>4
<1> DEFINE g == [x \in Within(k) |-> IF k > 0 /\ x \in Within(k - 1) THEN f[x]
                                     ELSE IF x \in stopping THEN result[x] ELSE f[next[x]]]
<1>6. ASSUME NEW x \in Within(k)
      PROVE  g[x] = IF x \in stopping THEN result[x] ELSE g[next[x]]
  <2>1. ASSUME NEW y \in Within(k), y \notin stopping
        PROVE  k > 0 /\ next[y] \in Within(k - 1) /\ next[y] \in Within(k)
    <3>1. next[y] \in S /\ rank[next[y]] < rank[y] /\ rank[y] <= k
          /\ rank[next[y]] \in Nat /\ rank[y] \in Nat /\ k \in Nat
      BY <1>3, <2>1
    <3> QED
      BY <3>1
  <2> HIDE DEF Within
  <2>2. ASSUME k > 0, NEW y \in Within(k), y \in Within(k - 1) PROVE g[y] = f[y]
    BY <2>2
  <2>3. CASE x \in stopping
    <3>1. ASSUME k > 0, x \in Within(k - 1) PROVE f[x] = result[x]
      BY <1>5, <2>3, <3>1 DEF Loops
    <3> QED
      BY <2>3, <3>1
  <2>4. CASE x \notin stopping
    <3>1. /\ k > 0 /\ next[x] \in Within(k - 1) /\ next[x] \in Within(k)
      BY <2>1, <2>4
    <3>2. g[next[x]] = f[next[x]]
      BY <2>2, <3>1
    <3>3. ASSUME x \in Within(k - 1) PROVE f[x] = f[next[x]]
      BY <1>5, <2>4, <3>1, <3>3 DEF Loops
    <3>4. g[x] = f[next[x]]
      BY <2>4, <3>3
    <3> QED
      BY <2>4, <3>2, <3>4
  <2> QED
    BY <2>3, <2>4
<1>7. g = [x \in Within(k) |-> g[x]]
  OBVIOUS
<1>8. Loops(g, Within(k), stopping, result, next)
  <2> HIDE DEF g, Within
  <2> QED
    BY <1>6, <1>7 DEF Loops
<1> HIDE DEF g, Within
<1> QED
  BY <1>3, <1>8

\* What each round keeps holds of the state that stops the loop.
LEMMA LoopsKeep ==
    ASSUME NEW S, NEW stopping, NEW result, NEW next, NEW rank,
           \A x \in S : rank[x] \in Nat,
           \A x \in S \ stopping : next[x] \in S /\ rank[next[x]] < rank[x],
           NEW f, Loops(f, S, stopping, result, next),
           NEW Good \in SUBSET S, \A x \in Good \ stopping : next[x] \in Good,
           NEW start \in Good
    PROVE  \E end \in Good : end \in stopping /\ f[start] = result[end]
<1> DEFINE Ends(x) == \E end \in Good : end \in stopping /\ f[x] = result[end]
           Bad == {k \in 0 .. rank[start] : \E x \in Good : rank[x] = k /\ ~Ends(x)}
<1>1. \A x \in S : f[x] = IF x \in stopping THEN result[x] ELSE f[next[x]]
  BY DEF Loops
<1>2. ASSUME Bad # {} PROVE FALSE
  <2>1. PICK k \in Bad : \A j \in Bad : k <= j
    <3>1. Bad \in SUBSET (0 .. rank[start]) /\ rank[start] \in Nat
      OBVIOUS
    <3> HIDE DEF Bad
    <3> QED
      BY <1>2, <3>1, LeastNatural
  <2>2. PICK x \in Good : rank[x] = k /\ ~Ends(x)
    OBVIOUS
  <2>3. x \notin stopping
    BY <1>1, <2>2
  <2>4. next[x] \in Good /\ rank[next[x]] < rank[x] /\ rank[next[x]] \in 0 .. rank[start] /\ k \in Nat
    BY <2>2, <2>3
  <2>5. f[x] = f[next[x]]
    BY <1>1, <2>2, <2>3
  <2>6. ~Ends(next[x])
    BY <2>2, <2>5
  <2>7. rank[next[x]] \in Bad
    BY <2>4, <2>6
  <2> HIDE DEF Bad
  <2> QED
    BY <2>1, <2>2, <2>4, <2>7
<1>3. Ends(start)
  <2>1. rank[start] \in 0 .. rank[start]
    OBVIOUS
  <2> HIDE DEF Ends
  <2> QED
    BY <1>2, <2>1
<1> QED
  BY <1>3

-----------------------------------------------------------------------------
(***************************************************************************)
(* The counts of a histogram without an offset, in the order of their      *)
(* indexes.                                                                *)
(***************************************************************************)
\* The sum of the counts below an index.
Walked(n) == s.total_count - Rest(n)

\* The index whose count is the first to bring the sum up to that count.
Brings(k, count) ==
    k \in 0 .. c.counts_len - 1 /\ Walked(k) < count /\ count <= Walked(k + 1)

LEMMA WalkedFacts ==
    ASSUME Filled
    PROVE  /\ c.counts_len \in Nat \ {0} /\ s.total_count \in Nat
           /\ Walked(0) = 0 /\ Walked(c.counts_len) = s.total_count
           /\ \A n \in 0 .. c.counts_len : Walked(n) \in Nat
           /\ \A i \in 0 .. c.counts_len - 1 :
                 /\ CountAtIndex(c, s, i) \in Nat
                 /\ Walked(i + 1) = Walked(i) + CountAtIndex(c, s, i)
<1>1. /\ c.counts_len \in Nat \ {0} /\ s.total_count \in Nat
      /\ Rest(0) = s.total_count /\ Rest(c.counts_len) = 0
      /\ \A n \in 0 .. c.counts_len + 1 : Rest(n) \in Nat
      /\ \A i \in 0 .. c.counts_len - 1 :
            /\ CountAtIndex(c, s, i) \in Nat
            /\ Rest(i) = Rest(i + 1) + CountAtIndex(c, s, i)
  BY RestFacts
<1>2. ASSUME NEW i \in 0 .. c.counts_len - 1
      PROVE  /\ CountAtIndex(c, s, i) \in Nat
             /\ Walked(i + 1) = Walked(i) + CountAtIndex(c, s, i)
             /\ Walked(i) \in Int
  <2>1. i \in 0 .. c.counts_len + 1 /\ i + 1 \in 0 .. c.counts_len + 1
    BY <1>1
  <2> QED
    BY <1>1, <2>1 DEF Walked
<1>3. Walked(0) = 0 /\ Walked(c.counts_len) = s.total_count
  BY <1>1 DEF Walked
<1>4. ASSUME NEW n \in 0 .. c.counts_len PROVE Walked(n) \in Nat
  <2> DEFINE Bad == {k \in 0 .. c.counts_len : Walked(k) \notin Nat}
  <2>1. SUFFICES ASSUME Bad # {} PROVE FALSE
    OBVIOUS
  <2>2. PICK k \in Bad : \A j \in Bad : k <= j
    <3>1. Bad \in SUBSET (0 .. c.counts_len) /\ c.counts_len \in Nat
      BY <1>1
    <3> HIDE DEF Bad
    <3> QED
      BY <2>1, <3>1, LeastNatural
  <2>3. k # 0
    BY <1>3, <2>2
  <2> DEFINE i == k - 1
  <2>4. i \in 0 .. c.counts_len - 1 /\ i + 1 = k /\ ~(k <= i) /\ i \in 0 .. c.counts_len
    BY <1>1, <2>2, <2>3
  <2>5. Walked(i) \in Nat
    BY <2>2, <2>4
  <2> HIDE DEF i
  <2>6. Walked(k) = Walked(i) + CountAtIndex(c, s, i) /\ CountAtIndex(c, s, i) \in Nat
    BY <1>2, <2>4
  <2> QED
    BY <2>2, <2>5, <2>6
<1> QED
  BY <1>1, <1>2, <1>3, <1>4

LEMMA WalkedGrows ==
    ASSUME Filled, NEW a \in 0 .. c.counts_len, NEW b \in 0 .. c.counts_len, a <= b
    PROVE  Walked(a) <= Walked(b)
<1> DEFINE Bad == {k \in 0 .. c.counts_len : a <= k /\ ~(Walked(a) <= Walked(k))}
<1>1. SUFFICES ASSUME Bad # {} PROVE FALSE
  OBVIOUS
<1>2. /\ c.counts_len \in Nat /\ \A n \in 0 .. c.counts_len : Walked(n) \in Nat
      /\ \A i \in 0 .. c.counts_len - 1 :
            /\ CountAtIndex(c, s, i) \in Nat
            /\ Walked(i + 1) = Walked(i) + CountAtIndex(c, s, i)
  BY WalkedFacts
<1>3. PICK k \in Bad : \A j \in Bad : k <= j
  <2>1. Bad \in SUBSET (0 .. c.counts_len)
    OBVIOUS
  <2> HIDE DEF Bad
  <2> QED
    BY <1>1, <1>2, <2>1, LeastNatural
<1>4. k # a
  BY <1>2, <1>3
<1> DEFINE i == k - 1
<1>5. i \in 0 .. c.counts_len - 1 /\ i + 1 = k /\ ~(k <= i) /\ i \in 0 .. c.counts_len /\ a <= i
  BY <1>2, <1>3, <1>4
<1>6. Walked(a) <= Walked(i)
  BY <1>3, <1>5
<1> HIDE DEF i
<1>7. /\ Walked(k) = Walked(i) + CountAtIndex(c, s, i) /\ CountAtIndex(c, s, i) \in Nat
      /\ Walked(a) \in Nat /\ Walked(i) \in Nat /\ a <= k
  BY <1>2, <1>3, <1>5
<1> QED
  BY <1>3, <1>6, <1>7

\* There is one such index only.
LEMMA BringsOne ==
    ASSUME Filled, NEW count \in Nat, NEW k, Brings(k, count), NEW j, Brings(j, count)
    PROVE  j = k
<1>1. c.counts_len \in Nat /\ \A n \in 0 .. c.counts_len : Walked(n) \in Nat
  BY WalkedFacts
<1>2. ASSUME NEW x, Brings(x, count), NEW y, Brings(y, count), x < y PROVE FALSE
  <2>1. /\ x + 1 \in 0 .. c.counts_len /\ y \in 0 .. c.counts_len /\ x + 1 <= y
        /\ count <= Walked(x + 1) /\ Walked(y) < count
    BY <1>1, <1>2 DEF Brings
  <2>2. Walked(x + 1) <= Walked(y)
    BY <2>1, WalkedGrows
  <2> QED
    BY <1>1, <2>1, <2>2
<1>3. j \in Nat /\ k \in Nat
  BY <1>1 DEF Brings
<1> QED
  BY <1>2, <1>3

\* Without an offset the scans see the counts where the iterators see them.
LEMMA CellIs ==
    ASSUME Filled, s.normalizing_index_offset = 0
    PROVE  /\ \A i \in Nat : Cell(i) \in Nat
           /\ \A i \in 0 .. c.counts_len - 1 : Walked(i + 1) = Walked(i) + Cell(i)
<1>1. /\ c.counts_len \in Nat
      /\ \A i \in DOMAIN s.counts : s.counts[i] \in Nat
  BY RestFacts DEF Filled, CountsFit
<1>2. ASSUME NEW i \in Nat PROVE Cell(i) \in Nat
  BY <1>1 DEF Cell, BagToSet
<1>3. ASSUME NEW i \in 0 .. c.counts_len - 1 PROVE Walked(i + 1) = Walked(i) + Cell(i)
  <2>1. NormalizeIndex(c, s, i) = i
    BY DEF NormalizeIndex
  <2>2. CountAtIndex(c, s, i) = Cell(i)
    BY <2>1 DEF CountAtIndex, Cell
  <2> QED
    BY <2>2, WalkedFacts
<1> QED
  BY <1>2, <1>3

-----------------------------------------------------------------------------
(***************************************************************************)
(* The scans of hdr_value_at_percentile.                                   *)
(***************************************************************************)
LEMMA ScanFinds ==
    ASSUME Filled, s.normalizing_index_offset = 0, NEW count \in 1 .. s.total_count,
           NEW from \in 0 .. c.counts_len, Walked(from) < count
    PROVE  \E k : Brings(k, count) /\ Scan(from, Walked(from), count) = ValueAtIndex(c, k)
<1> DEFINE S == Nat \X Nat
           sum(at) == at[2] + Cell(at[1])
           stopping == {at \in S : at[1] >= c.counts_len \/ sum(at) >= count}
           result == [at \in S |-> IF at[1] >= c.counts_len THEN 0 ELSE ValueAtIndex(c, at[1])]
           next == [at \in S |-> <<at[1] + 1, sum(at)>>]
           rank == [at \in S |-> IF at[1] < c.counts_len THEN c.counts_len - at[1] ELSE 0]
           Scans(f) == f = [at \in S |->
                               IF at[1] >= c.counts_len THEN 0
                               ELSE IF sum(at) >= count THEN ValueAtIndex(c, at[1])
                               ELSE f[<<at[1] + 1, sum(at)>>]]
           f == CHOOSE f : Scans(f)
           start == <<from, Walked(from)>>
<1>1. /\ c.counts_len \in Nat \ {0} /\ s.total_count \in Nat
      /\ Walked(c.counts_len) = s.total_count
      /\ \A n \in 0 .. c.counts_len : Walked(n) \in Nat
      /\ \A i \in Nat : Cell(i) \in Nat
      /\ \A i \in 0 .. c.counts_len - 1 : Walked(i + 1) = Walked(i) + Cell(i)
  BY WalkedFacts, CellIs
<1>2. Scan(from, Walked(from), count) = f[start]
  BY DEF Scan
<1>3. \A at \in S : at[1] \in Nat /\ at[2] \in Nat /\ sum(at) \in Nat /\ <<at[1] + 1, sum(at)>> \in S
  BY <1>1
<1>4. \A at \in S : rank[at] \in 0 .. c.counts_len
  BY <1>1, <1>3
<1>5. ASSUME NEW at \in S \ stopping PROVE next[at] \in S /\ rank[next[at]] < rank[at]
  <2> DEFINE u == <<at[1] + 1, sum(at)>>
  <2>1. /\ at[1] < c.counts_len /\ next[at] = u /\ u \in S /\ u[1] = at[1] + 1
        /\ at[1] \in Nat
    BY <1>1, <1>3
  <2> HIDE DEF u, next
  <2> QED
    BY <1>1, <2>1
<1>6. \A g : Scans(g) <=> Loops(g, S, stopping, result, next)
  <2> SUFFICES ASSUME NEW g
               PROVE  [at \in S |->
                         IF at[1] >= c.counts_len THEN 0
                         ELSE IF sum(at) >= count THEN ValueAtIndex(c, at[1])
                         ELSE g[<<at[1] + 1, sum(at)>>]]
                      = [at \in S |-> IF at \in stopping THEN result[at] ELSE g[next[at]]]
    BY DEF Loops
  <2> SUFFICES ASSUME NEW at \in S
               PROVE  (IF at[1] >= c.counts_len THEN 0
                       ELSE IF sum(at) >= count THEN ValueAtIndex(c, at[1])
                       ELSE g[<<at[1] + 1, sum(at)>>])
                      = IF at \in stopping THEN result[at] ELSE g[next[at]]
    OBVIOUS
  <2> HIDE DEF sum
  <2> QED
    OBVIOUS
<1>7. Loops(f, S, stopping, result, next)
  <2>1. \E g : Loops(g, S, stopping, result, next)
    <3>1. c.counts_len \in Nat
      BY <1>1
    <3> HIDE DEF S, stopping, result, next, rank
    <3> QED
      BY <1>4, <1>5, <3>1, LoopsExist
  <2> HIDE DEF Scans, S, stopping, result, next
  <2> QED
    BY <1>6, <2>1
<1> DEFINE Good == {at \in S : /\ at[1] <= c.counts_len
                               /\ at[2] = Walked(at[1]) /\ at[2] < count}
<1>8. start \in Good
  BY <1>1
<1>9. ASSUME NEW at \in Good \ stopping PROVE next[at] \in Good
  <2> DEFINE u == <<at[1] + 1, sum(at)>>
  <2>1. /\ at \in S /\ at[1] < c.counts_len /\ at[1] \in Nat /\ at[2] = Walked(at[1])
        /\ sum(at) < count
    BY <1>1, <1>3, <1>9
  <2>2. sum(at) = Walked(at[1] + 1) /\ at[1] + 1 <= c.counts_len
    BY <1>1, <2>1
  <2>3. next[at] = u /\ u \in S /\ u[1] = at[1] + 1 /\ u[2] = sum(at)
    BY <1>3, <2>1
  <2> HIDE DEF u, next, sum, S
  <2> QED
    BY <2>1, <2>2, <2>3
<1>10. PICK end \in Good : end \in stopping /\ f[start] = result[end]
  <2>1. Good \in SUBSET S /\ \A at \in S : rank[at] \in Nat
    BY <1>1, <1>4
  <2> HIDE DEF S, stopping, result, next, rank, f, Good, start
  <2> QED
    BY <1>5, <1>7, <1>8, <1>9, <2>1, LoopsKeep
<1> DEFINE k == end[1]
<1>11. end \in S /\ k \in Nat /\ k <= c.counts_len /\ end[2] = Walked(k) /\ Walked(k) < count
  BY <1>3, <1>10
<1>12. k # c.counts_len
  BY <1>1, <1>11
<1>13. k \in 0 .. c.counts_len - 1 /\ sum(end) >= count
  <2>1. k \in 0 .. c.counts_len - 1 /\ ~(k >= c.counts_len)
    BY <1>1, <1>11, <1>12
  <2>2. k >= c.counts_len \/ sum(end) >= count
    BY <1>10
  <2> QED
    BY <2>1, <2>2
<1>14. Brings(k, count) /\ result[end] = ValueAtIndex(c, k)
  <2>1. sum(end) = Walked(k + 1)
    BY <1>1, <1>11, <1>13
  <2>2. result[end] = ValueAtIndex(c, k)
    BY <1>1, <1>11, <1>13
  <2> HIDE DEF sum, result, k
  <2> QED
    BY <1>11, <1>13, <2>1, <2>2, <1>1 DEF Brings
<1> HIDE DEF f, result, k, start
<1> QED
  BY <1>2, <1>10, <1>14

\* The scan by four finds the same index: a group of four that reaches the count is gone
\* through one by one, and so is what is left over at the end.
LEMMA ScanByFourFinds ==
    ASSUME Filled, s.normalizing_index_offset = 0, NEW count \in 1 .. s.total_count
    PROVE  \E k : Brings(k, count) /\ ValueUpToCount_AVX2(count) = ValueAtIndex(c, k)
<1> DEFINE S == Nat \X Nat
           limit == c.counts_len - (c.counts_len % 4)
           Chunk(i) == Cell(i) + Cell(i + 1) + Cell(i + 2) + Cell(i + 3)
           sum(at) == at[2] + Chunk(at[1])
           stopping == {at \in S : at[1] >= limit \/ sum(at) >= count}
           result == [at \in S |-> Scan(at[1], at[2], count)]
           next == [at \in S |-> <<at[1] + 4, sum(at)>>]
           rank == [at \in S |-> IF at[1] < limit THEN limit - at[1] ELSE 0]
           Scans(f) == f = [at \in S |->
                               IF at[1] >= limit \/ sum(at) >= count
                               THEN Scan(at[1], at[2], count)
                               ELSE f[<<at[1] + 4, sum(at)>>]]
           f == CHOOSE f : Scans(f)
           start == <<0, 0>>
<1>1. /\ c.counts_len \in Nat \ {0} /\ s.total_count \in Nat /\ Walked(0) = 0
      /\ \A n \in 0 .. c.counts_len : Walked(n) \in Nat
      /\ \A i \in Nat : Cell(i) \in Nat
      /\ \A i \in 0 .. c.counts_len - 1 : Walked(i + 1) = Walked(i) + Cell(i)
  BY WalkedFacts, CellIs
<1>2. ValueUpToCount_AVX2(count) = f[start]
  BY DEF ValueUpToCount_AVX2
<1>3. PICK groups \in Nat : limit = 4 * groups
  <2>1. \A n \in Nat : n - (n % 4) = 4 * (n \div 4) /\ n \div 4 \in Nat
    BY Z3
  <2> QED
    BY <1>1, <2>1
<1>4. limit \in Nat /\ limit <= c.counts_len
  BY <1>1
<1> HIDE DEF limit
<1>5. \A i \in Nat : Chunk(i) \in Nat
  BY <1>1
<1>6. \A i \in Nat : i + 4 <= c.counts_len => Walked(i + 4) = Walked(i) + Chunk(i)
  <2> SUFFICES ASSUME NEW i \in Nat, i + 4 <= c.counts_len
               PROVE  Walked(i + 4) = Walked(i) + Chunk(i)
    OBVIOUS
  <2>1. /\ i \in 0 .. c.counts_len - 1 /\ i + 1 \in 0 .. c.counts_len - 1
        /\ i + 2 \in 0 .. c.counts_len - 1 /\ i + 3 \in 0 .. c.counts_len - 1
        /\ (i + 1) + 1 = i + 2 /\ (i + 2) + 1 = i + 3 /\ (i + 3) + 1 = i + 4
        /\ i \in 0 .. c.counts_len
    BY <1>1
  <2>2. /\ Walked(i + 1) = Walked(i) + Cell(i)
        /\ Walked(i + 2) = Walked(i + 1) + Cell(i + 1)
        /\ Walked(i + 3) = Walked(i + 2) + Cell(i + 2)
        /\ Walked(i + 4) = Walked(i + 3) + Cell(i + 3)
        /\ Walked(i) \in Nat
    BY <1>1, <2>1
  <2>3. /\ Cell(i) \in Nat /\ Cell(i + 1) \in Nat /\ Cell(i + 2) \in Nat /\ Cell(i + 3) \in Nat
    BY <1>1
  <2> QED
    BY <2>2, <2>3
<1> HIDE DEF Chunk
<1>7. \A at \in S : at[1] \in Nat /\ at[2] \in Nat /\ sum(at) \in Nat /\ <<at[1] + 4, sum(at)>> \in S
  BY <1>5
<1>8. \A at \in S : rank[at] \in 0 .. limit
  BY <1>4, <1>7
<1>9. ASSUME NEW at \in S \ stopping PROVE next[at] \in S /\ rank[next[at]] < rank[at]
  <2> DEFINE u == <<at[1] + 4, sum(at)>>
  <2>1. /\ at[1] < limit /\ next[at] = u /\ u \in S /\ u[1] = at[1] + 4
        /\ at[1] \in Nat
    BY <1>4, <1>7
  <2> HIDE DEF u, next
  <2> QED
    BY <1>4, <2>1
<1>10. \A g : Scans(g) <=> Loops(g, S, stopping, result, next)
  <2> SUFFICES ASSUME NEW g
               PROVE  [at \in S |->
                         IF at[1] >= limit \/ sum(at) >= count
                         THEN Scan(at[1], at[2], count)
                         ELSE g[<<at[1] + 4, sum(at)>>]]
                      = [at \in S |-> IF at \in stopping THEN result[at] ELSE g[next[at]]]
    BY DEF Loops
  <2> SUFFICES ASSUME NEW at \in S
               PROVE  (IF at[1] >= limit \/ sum(at) >= count
                       THEN Scan(at[1], at[2], count)
                       ELSE g[<<at[1] + 4, sum(at)>>])
                      = IF at \in stopping THEN result[at] ELSE g[next[at]]
    OBVIOUS
  <2> HIDE DEF sum
  <2> QED
    OBVIOUS
<1>11. Loops(f, S, stopping, result, next)
  <2>1. \E g : Loops(g, S, stopping, result, next)
    <3> HIDE DEF S, stopping, result, next, rank
    <3> QED
      BY <1>4, <1>8, <1>9, LoopsExist
  <2> HIDE DEF Scans, S, stopping, result, next
  <2> QED
    BY <1>10, <2>1
<1> DEFINE Good == {at \in S : /\ at[1] <= limit
                               /\ \E q \in Nat : at[1] = 4 * q
                               /\ at[2] = Walked(at[1]) /\ at[2] < count}
<1>12. start \in Good
  <2>1. start \in S /\ start[1] = 0 /\ start[2] = 0 /\ 0 = 4 * 0
    OBVIOUS
  <2> HIDE DEF start, S
  <2> QED
    BY <1>1, <1>4, <2>1
<1>13. ASSUME NEW at \in Good \ stopping PROVE next[at] \in Good
  <2> DEFINE u == <<at[1] + 4, sum(at)>>
  <2>1. at \in S /\ at[1] <= limit /\ at[2] = Walked(at[1]) /\ at \notin stopping
    BY <1>13
  <2>2. PICK q \in Nat : at[1] = 4 * q
    BY <1>13
  <2>3. at[1] \in Nat /\ at[2] \in Nat /\ sum(at) \in Nat /\ u \in S
    BY <1>7, <2>1
  <2>4. ~(at[1] >= limit \/ sum(at) >= count)
    <3> HIDE DEF sum, S
    <3> QED
      BY <2>1
  <2>5. next[at] = u /\ u[1] = at[1] + 4 /\ u[2] = sum(at)
    BY <2>1
  <2>6. sum(at) = at[2] + Chunk(at[1])
    OBVIOUS
  <2> HIDE DEF u, next, sum, S, stopping
  <2>7. at[1] < limit /\ sum(at) < count
    BY <1>4, <2>3, <2>4
  <2>8. q + 1 <= groups /\ at[1] + 4 = 4 * (q + 1) /\ at[1] + 4 <= limit
    BY <1>3, <2>2, <2>7
  <2>9. at[1] + 4 <= c.counts_len
    BY <1>1, <1>4, <2>3, <2>8
  <2>10. Walked(at[1] + 4) = Walked(at[1]) + Chunk(at[1])
    BY <1>6, <2>3, <2>9
  <2>11. u[1] <= limit /\ u[2] = Walked(u[1]) /\ u[2] < count
    BY <2>1, <2>5, <2>6, <2>7, <2>8, <2>10
  <2>12. \E r \in Nat : u[1] = 4 * r
    BY <2>2, <2>5, <2>8
  <2> QED
    BY <2>3, <2>5, <2>11, <2>12
<1>14. PICK end \in Good : end \in stopping /\ f[start] = result[end]
  <2>1. Good \in SUBSET S /\ \A at \in S : rank[at] \in Nat
    BY <1>4, <1>8
  <2> HIDE DEF S, stopping, result, next, rank, f, Good, start
  <2> QED
    BY <1>9, <1>11, <1>12, <1>13, <2>1, LoopsKeep
<1> DEFINE from == end[1]
<1>15. /\ from \in 0 .. c.counts_len /\ Walked(from) < count
       /\ result[end] = Scan(from, Walked(from), count)
  BY <1>1, <1>4, <1>7, <1>14
<1> HIDE DEF f, result, from, start
<1>16. \E k : Brings(k, count) /\ Scan(from, Walked(from), count) = ValueAtIndex(c, k)
  BY <1>15, ScanFinds
<1> QED
  BY <1>2, <1>14, <1>15, <1>16


-----------------------------------------------------------------------------
(***************************************************************************)
(* The counts that percentiles stand for, and the property's sums.         *)
(***************************************************************************)
LEMMA CountOfPercentile ==
    ASSUME s.total_count \in Nat \ {0}, NEW p \in Nat \X (Nat \ {0})
    PROVE  \E a \in Nat, b \in Nat \ {0} :
              /\ CountAtPercentile(p) \in 1 .. s.total_count
              /\ a <= b /\ <<a, b>> = IF p[1] < p[2] THEN p ELSE <<1, 1>>
              /\ CountAtPercentile(p) = 1 \/ CountAtPercentile(p) * (2 * b) <= 2 * a * s.total_count + b
              /\ 2 * a * s.total_count + b < (CountAtPercentile(p) + 1) * (2 * b)
<1> DEFINE r == IF p[1] < p[2] THEN p ELSE <<1, 1>>
           a == r[1]
           b == r[2]
           all == s.total_count
           x == 2 * a * all + b
           q == x \div (2 * b)
<1>1. a \in Nat /\ b \in Nat \ {0} /\ a <= b /\ <<a, b>> = r
  OBVIOUS
<1>2. CountAtPercentile(p) = Max({1, q})
  BY DEF CountAtPercentile
<1> HIDE DEF r, a, b
<1>3. x \in Nat /\ x <= 2 * b * all + b
  <2>1. \A k, l, m \in Nat : k <= l => 2 * k * m + l <= 2 * l * m + l /\ 2 * k * m + l \in Nat
    BY Z3
  <2> QED
    BY <1>1, <2>1
<1>4. 2 * b \in Nat \ {0} /\ q \in Nat /\ q * (2 * b) <= x /\ x < (q + 1) * (2 * b)
  <2>1. \A k \in Nat : \A d \in Nat \ {0} :
           k \div d \in Nat /\ (k \div d) * d <= k /\ k < (k \div d + 1) * d
    <3> SUFFICES ASSUME NEW k \in Nat, NEW d \in Nat \ {0}
                 PROVE  k \div d \in Nat /\ (k \div d) * d <= k /\ k < (k \div d + 1) * d
      OBVIOUS
    <3>1. k = d * (k \div d) + (k % d) /\ k % d \in Nat /\ k % d < d /\ k \div d \in Nat
      BY Division
    <3> DEFINE n == k \div d
    <3>2. n * d = d * n /\ (n + 1) * d = d * n + d
      BY <3>1
    <3> HIDE DEF n
    <3> QED
      BY <3>1, <3>2 DEF n
  <2>2. 2 * b \in Nat \ {0}
    BY <1>1
  <2> HIDE DEF x
  <2> QED
    BY <1>3, <2>1, <2>2
<1> HIDE DEF q, x
<1>5. q <= all
  <2>1. \A n, m \in Nat : \A d \in Nat \ {0} : m < n => n * (2 * d) >= 2 * d * m + 2 * d
    BY Z3
  <2>2. q > all => q * (2 * b) >= 2 * b * all + 2 * b
    BY <1>1, <1>4, <2>1
  <2>3. 2 * b * all \in Nat /\ q * (2 * b) \in Nat
    BY <1>1, <1>4
  <2> QED
    BY <1>1, <1>3, <1>4, <2>2, <2>3
<1>6. Max({1, q}) = IF 1 >= q THEN 1 ELSE q
  BY <1>4, LargerIs
<1>7. CountAtPercentile(p) \in 1 .. all
  BY <1>2, <1>4, <1>5, <1>6
<1>8. CountAtPercentile(p) = 1 \/ CountAtPercentile(p) = q
  BY <1>2, <1>6
<1>9. x < (CountAtPercentile(p) + 1) * (2 * b)
  <2>1. \A k, n, m \in Nat : k <= n => (k + 1) * m <= (n + 1) * m
    BY Z3
  <2>2. q <= CountAtPercentile(p) /\ CountAtPercentile(p) \in Nat
    BY <1>2, <1>4, <1>6
  <2>3. (q + 1) * (2 * b) <= (CountAtPercentile(p) + 1) * (2 * b)
    BY <1>4, <2>1, <2>2
  <2>4. (q + 1) * (2 * b) \in Nat /\ (CountAtPercentile(p) + 1) * (2 * b) \in Nat
    BY <1>4, <2>2
  <2> QED
    BY <1>3, <1>4, <2>3, <2>4
<1> QED
  BY <1>1, <1>4, <1>7, <1>8, <1>9 DEF x, r

\* A higher percentile stands for no lower count.
LEMMA CountsRise ==
    ASSUME s.total_count \in Nat \ {0}, NEW p \in Nat \X (Nat \ {0}),
           NEW q \in Nat \X (Nat \ {0}), p[1] * q[2] <= q[1] * p[2]
    PROVE  CountAtPercentile(p) <= CountAtPercentile(q)
<1> DEFINE all == s.total_count
           m == CountAtPercentile(p)
           n == CountAtPercentile(q)
<1>1. PICK a \in Nat, b \in Nat \ {0} :
         /\ m \in 1 .. all /\ a <= b /\ <<a, b>> = IF p[1] < p[2] THEN p ELSE <<1, 1>>
         /\ m = 1 \/ m * (2 * b) <= 2 * a * all + b
  BY CountOfPercentile
<1>2. PICK d \in Nat, e \in Nat \ {0} :
         /\ n \in 1 .. all /\ d <= e /\ <<d, e>> = IF q[1] < q[2] THEN q ELSE <<1, 1>>
         /\ 2 * d * all + e < (n + 1) * (2 * e)
  BY CountOfPercentile
<1>3. a * e <= d * b
  <2>1. CASE q[1] >= q[2]
    BY <1>1, <1>2, <2>1
  <2>2. CASE q[1] < q[2]
    <3>1. p[1] < p[2]
      <4>1. \A k, l, x, y \in Nat : x < y /\ k >= l /\ l > 0 => k * y > x * l
        BY Z3
      <4>2. p[1] \in Nat /\ p[2] \in Nat /\ p[2] > 0 /\ q[1] \in Nat /\ q[2] \in Nat
        OBVIOUS
      <4>3. p[1] >= p[2] => p[1] * q[2] > q[1] * p[2]
        BY <2>2, <4>1, <4>2
      <4>4. p[1] * q[2] \in Nat /\ q[1] * p[2] \in Nat
        BY <4>2
      <4> QED
        BY <4>2, <4>3, <4>4
    <3>2. a = p[1] /\ b = p[2] /\ d = q[1] /\ e = q[2]
      BY <1>1, <1>2, <2>2, <3>1
    <3> QED
      BY <3>2
  <2> QED
    BY <2>1, <2>2
<1> HIDE DEF m, n
<1>4. SUFFICES ASSUME m # 1, n < m PROVE FALSE
  BY <1>1, <1>2 DEF m, n
<1>5. m * (2 * b) * e <= (2 * a * all + b) * e
  <2>1. \A k, l, x \in Nat : k <= l => k * x <= l * x
    BY Z3
  <2>2. m * (2 * b) \in Nat /\ 2 * a * all + b \in Nat /\ m * (2 * b) <= 2 * a * all + b
    BY <1>1, <1>4
  <2> HIDE DEF all
  <2> QED
    BY <2>1, <2>2
<1>6. (2 * d * all + e) * b < (n + 1) * (2 * e) * b
  <2>1. \A k, l, x \in Nat : k < l /\ x > 0 => k * x < l * x
    BY Z3
  <2>2. 2 * d * all + e \in Nat /\ (n + 1) * (2 * e) \in Nat /\ b > 0
    BY <1>1, <1>2
  <2> HIDE DEF all
  <2> QED
    BY <1>2, <2>1, <2>2
<1>7. (2 * a * all + b) * e <= (2 * d * all + e) * b
  <2>1. \A x, y, z \in Nat : x <= y => x * z <= y * z
    BY Z3
  <2>2. a * e \in Nat /\ d * b \in Nat /\ all \in Nat
    OBVIOUS
  <2>3. (a * e) * all <= (d * b) * all
    BY <1>3, <2>1, <2>2
  <2>4. \A x, y, z, w \in Nat : (2 * x * z + y) * w = 2 * ((x * w) * z) + y * w
    BY Z3
  <2>5. (2 * a * all + b) * e = 2 * ((a * e) * all) + b * e
    BY <2>2, <2>4
  <2>6. (2 * d * all + e) * b = 2 * ((d * b) * all) + e * b
    BY <2>2, <2>4
  <2>7. b * e = e * b /\ b * e \in Nat /\ (a * e) * all \in Nat /\ (d * b) * all \in Nat
    BY <2>2
  <2> HIDE DEF all
  <2> QED
    BY <2>3, <2>5, <2>6, <2>7
<1>8. (n + 1) * (2 * e) * b <= m * (2 * b) * e
  <2>1. \A x, y, z, w \in Nat : x <= y => x * (2 * z) * w <= y * (2 * w) * z
    BY Z3
  <2>2. m \in Nat /\ n + 1 \in Nat /\ n + 1 <= m
    BY <1>1, <1>2, <1>4
  <2> QED
    BY <2>1, <2>2
<1>9. /\ m * (2 * b) * e \in Nat /\ (2 * a * all + b) * e \in Nat
      /\ (2 * d * all + e) * b \in Nat /\ (n + 1) * (2 * e) * b \in Nat
  BY <1>1, <1>2
<1> DEFINE v == m * (2 * b) * e
           w == (2 * a * all + b) * e
           x == (2 * d * all + e) * b
           y == (n + 1) * (2 * e) * b
<1>10. v <= w /\ x < y /\ w <= x /\ y <= v /\ {v, w, x, y} \subseteq Nat
  BY <1>5, <1>6, <1>7, <1>8, <1>9
<1> HIDE DEF v, w, x, y
<1> QED
  BY <1>10

\* The sum of the counts up to an index is what lies before the next one.
LEMMA UpToIndex ==
    ASSUME Filled, s.normalizing_index_offset = 0, NEW k \in 0 .. c.counts_len - 1,
           NEW sum, sum = SumFunctionOnSet(s.counts, {i \in BagToSet(s.counts) : i <= k})
    PROVE  sum = Walked(k + 1)
<1> DEFINE used == DOMAIN s.counts
           rest == Unseen(c, s, k + 1)
           cells == {i \in BagToSet(s.counts) : i <= k}
<1>1. /\ c.counts_len \in Nat /\ used \subseteq 0 .. c.counts_len - 1
      /\ IsFiniteSet(used) /\ \A i \in used : s.counts[i] \in Nat
      /\ s.total_count = SumFunctionOnSet(s.counts, used)
  BY UsedFacts DEF Filled, CountsFit
<1>2. cells = used \ rest
  <2>1. cells \subseteq used /\ rest \subseteq used
    BY DEF BagToSet, Unseen
  <2>2. ASSUME NEW i \in used PROVE i \in cells <=> i \notin rest
    <3>1. i \in cells <=> i <= k
      BY DEF BagToSet
    <3>2. i \notin rest <=> \E n \in 0 .. (k + 1) - 1 : i = NormalizeIndex(c, s, n)
      BY DEF Unseen
    <3>3. \A n \in 0 .. (k + 1) - 1 : NormalizeIndex(c, s, n) = n
      BY DEF NormalizeIndex
    <3>4. i \in 0 .. (k + 1) - 1 <=> i <= k
      BY <1>1
    <3> QED
      BY <3>1, <3>2, <3>3, <3>4
  <2> HIDE DEF cells, rest, used
  <2> QED
    BY <2>1, <2>2
<1>3. sum = SumFunctionOnSet(s.counts, cells)
  OBVIOUS
<1>4. rest \in SUBSET used
  BY DEF Unseen
<1>5. Rest(k + 1) = SumFunctionOnSet(s.counts, rest)
  BY DEF Rest
<1> HIDE DEF used, rest, cells
<1>6. s.total_count = SumFunctionOnSet(s.counts, rest) + SumFunctionOnSet(s.counts, used \ rest)
  <2>1. \A i \in used : s.counts[i] \in Int
    BY <1>1
  <2> QED
    BY <1>1, <1>4, <2>1, SumSplit
<1>7. SumFunctionOnSet(s.counts, used \ rest) \in Nat /\ SumFunctionOnSet(s.counts, rest) \in Nat
  <2>1. IsFiniteSet(used \ rest) /\ \A i \in used \ rest : s.counts[i] \in Nat
    BY <1>1, FS_Subset
  <2>2. IsFiniteSet(rest) /\ \A i \in rest : s.counts[i] \in Nat
    BY <1>1, <1>4, FS_Subset
  <2> QED
    BY <2>1, <2>2, SumNat
<1> QED
  BY <1>2, <1>3, <1>5, <1>6, <1>7 DEF Walked


-----------------------------------------------------------------------------
(***************************************************************************)
(* The loop of hdr_value_at_percentiles.                                   *)
(***************************************************************************)
LEMMA NextHere ==
    ASSUME Filled, NEW i \in Iterator, NEW u, u = AllValuesIterNext(i)[1]
    PROVE  /\ HasBuckets(MoveNext(i)) =>
                 /\ u \in Iterator /\ HasBuckets(i) /\ u.counts_index = i.counts_index + 1
                 /\ u.counts_index \in 0 .. c.counts_len - 1
                 /\ u.cumulative_count
                       = i.cumulative_count + CountAtIndex(c, s, u.counts_index)
                 /\ u.value = ValueAtIndex(c, u.counts_index)
           /\ HasBuckets(MoveNext(i)) <=> i.counts_index + 1 < c.counts_len
<1> DEFINE m == MoveNext(i)
<1>1. c.counts_len \in Nat /\ i.counts_index \in {-1} \union Nat
  BY RestFacts DEF Iterator
<1>2. HasBuckets(m) <=> i.counts_index + 1 < c.counts_len
  <2>1. m.counts_index = i.counts_index + 1
    BY DEF MoveNext, Iterator
  <2> QED
    BY <2>1 DEF HasBuckets
<1> HIDE DEF m
<1>3. ASSUME HasBuckets(m)
      PROVE  /\ u \in Iterator /\ HasBuckets(i) /\ u.counts_index = i.counts_index + 1
             /\ u.counts_index \in 0 .. c.counts_len - 1
             /\ u.cumulative_count = i.cumulative_count + CountAtIndex(c, s, u.counts_index)
             /\ u.value = ValueAtIndex(c, u.counts_index)
  <2>1. HasBuckets(i)
    BY <1>1, <1>2, <1>3 DEF HasBuckets
  <2>2. /\ m \in Iterator /\ m.counts_index = i.counts_index + 1
        /\ m.counts_index \in 0 .. c.counts_len - 1
        /\ m.cumulative_count = i.cumulative_count + CountAtIndex(c, s, m.counts_index)
        /\ m.value = ValueAtIndex(c, m.counts_index)
    <3>1. /\ m \in Iterator /\ m.counts_index = i.counts_index + 1
          /\ m.counts_index \in 0 .. c.counts_len
          /\ m.counts_index < c.counts_len =>
                 /\ m.count = CountAtIndex(c, s, m.counts_index)
                 /\ m.cumulative_count = i.cumulative_count + m.count
                 /\ m.value = ValueAtIndex(c, m.counts_index)
      BY <2>1, MoveNextFacts DEF m
    <3>2. m.counts_index < c.counts_len
      BY <1>3 DEF HasBuckets
    <3> QED
      BY <1>1, <3>1, <3>2
  <2>3. u = UpdateIteratedValues(m, m.value)
    BY <1>3 DEF AllValuesIterNext, m
  <2>4. m.value \in Int
    BY <2>2, WordFacts DEF Iterator
  <2>5. u \in Iterator /\ SamePlace(m, u)
    BY <2>2, <2>3, <2>4, UpdateFields
  <2>6. /\ u.counts_index = m.counts_index /\ u.cumulative_count = m.cumulative_count
        /\ u.value = m.value
    BY <2>5 DEF SamePlace
  <2> QED
    BY <2>1, <2>2, <2>5, <2>6
<1> QED
  BY <1>2, <1>3 DEF m

LEMMA InitFields ==
    ASSUME Filled, kind \in Kinds, NEW i, i = IterInit(s, kind)
    PROVE  i \in Iterator /\ i.counts_index = -1 /\ i.cumulative_count = 0
<1>1. s.total_count \in Nat /\ kind.first \in Int /\ kind.by \in Nat /\ 0 \in 0 .. MaxWord
  BY RestFacts, WordFacts, IteratorsAssumption
<1> QED
  BY <1>1 DEF IterInit, Iterator

\* The values that hdr_value_at_percentiles has found are those of the indexes that bring
\* the counts up to what the percentiles stand for, and there are no more of them to find.
Found(values) ==
    \A j \in 1 .. Len(values) :
        \E k : /\ Brings(k, CountAtPercentile(Percentiles[j]))
               /\ values[j] = HighestEquivalentValue(c, ValueAtIndex(c, k))

LEMMA FillFinds ==
    ASSUME Filled, kind \in Kinds, s.total_count > 0
    PROVE  \E values \in Seq(Int) : /\ ValuesAtPercentiles(Percentiles) = values
                                    /\ Len(values) = Len(Percentiles) /\ Found(values)
<1> DEFINE S == Iterator \X Seq(Int)
           ps == Percentiles
           C(j) == CountAtPercentile(ps[j])
           pos(x) == Len(x[2]) + 1
           high(x) == HighestEquivalentValue(c, x[1].value)
           left(x) == x[2] \o [j \in 1 .. Len(ps) - Len(x[2]) |->
                                  CountAtPercentile(ps[Len(x[2]) + j])]
           stopping == {x \in S : \/ pos(x) > Len(ps)
                                  \/ /\ ~(x[1].cumulative_count >= C(pos(x)))
                                     /\ ~HasBuckets(MoveNext(x[1]))}
           result == [x \in S |-> IF pos(x) > Len(ps) THEN x[2] ELSE left(x)]
           next == [x \in S |-> IF x[1].cumulative_count >= C(pos(x))
                                THEN <<x[1], Append(x[2], high(x))>>
                                ELSE <<AllValuesIterNext(x[1])[1], x[2]>>]
           ahead(i) == IF HasBuckets(i) THEN c.counts_len - i.counts_index ELSE 0
           rank == [x \in S |-> IF pos(x) > Len(ps) THEN 0
                                ELSE Len(ps) - Len(x[2]) + ahead(x[1])]
           Fills(f) == f = [x \in S |->
                               IF pos(x) > Len(ps) THEN x[2]
                               ELSE IF x[1].cumulative_count >= C(pos(x))
                               THEN f[<<x[1], Append(x[2], high(x))>>]
                               ELSE IF HasBuckets(MoveNext(x[1]))
                               THEN f[<<AllValuesIterNext(x[1])[1], x[2]>>]
                               ELSE left(x)]
           f == CHOOSE f : Fills(f)
           start == <<IterInit(s, kind), <<>>>>
           N == Len(ps) + c.counts_len + 1
<1>1. /\ c.counts_len \in Nat \ {0} /\ s.total_count \in Nat
      /\ Walked(0) = 0 /\ Walked(c.counts_len) = s.total_count
      /\ \A n \in 0 .. c.counts_len : Walked(n) \in Nat
      /\ \A i \in 0 .. c.counts_len - 1 : Walked(i + 1) = Walked(i) + CountAtIndex(c, s, i)
      /\ Len(ps) \in Nat
  BY WalkedFacts, IteratorsAssumption
<1>2. ValuesAtPercentiles(ps) = f[start]
  BY DEF ValuesAtPercentiles
<1>3. /\ \A j \in 1 .. Len(ps) : C(j) \in 1 .. s.total_count
      /\ \A j \in 1 .. Len(ps) : \A l \in 1 .. Len(ps) : j < l => C(j) <= C(l)
  <2>1. ps \in Seq(Nat \X (Nat \ {0})) /\ DOMAIN ps = 1 .. Len(ps)
    BY IteratorsAssumption
  <2>2. \A j \in 1 .. Len(ps) : ps[j] \in Nat \X (Nat \ {0})
    BY <2>1
  <2>3. s.total_count \in Nat \ {0}
    BY <1>1
  <2>4. ASSUME NEW j \in 1 .. Len(ps) PROVE C(j) \in 1 .. s.total_count
    BY <2>2, <2>3, CountOfPercentile
  <2>5. ASSUME NEW j \in 1 .. Len(ps), NEW l \in 1 .. Len(ps), j < l PROVE C(j) <= C(l)
    <3>1. ps[j][1] * ps[l][2] <= ps[l][1] * ps[j][2]
      BY <2>1, <2>5, IteratorsAssumption
    <3> QED
      BY <2>2, <2>3, <3>1, CountsRise
  <2> QED
    BY <2>4, <2>5
<1> HIDE DEF ps, C, left
<1>4. ASSUME NEW x \in S
      PROVE  /\ x[1] \in Iterator /\ x[2] \in Seq(Int) /\ Len(x[2]) \in Nat
             /\ x[1].counts_index \in {-1} \union Nat /\ x[1].cumulative_count \in Nat
             /\ high(x) \in Int
             /\ ahead(x[1]) \in 0 .. c.counts_len + 1
  <2>1. x[1] \in Iterator /\ x[2] \in Seq(Int) /\ Len(x[2]) \in Nat
    BY <1>4
  <2>2. /\ x[1].counts_index \in {-1} \union Nat /\ x[1].cumulative_count \in Nat
        /\ x[1].value \in 0 .. MaxWord
    BY <2>1 DEF Iterator
  <2>3. high(x) \in 0 .. MaxWord
    BY <2>2, RangeOfValue DEF Filled, IsLayout
  <2>4. ahead(x[1]) \in 0 .. c.counts_len + 1
    <3>1. CASE HasBuckets(x[1])
      <4>1. ahead(x[1]) = c.counts_len - x[1].counts_index
            /\ x[1].counts_index < c.counts_len
        BY <3>1 DEF HasBuckets
      <4> HIDE DEF ahead
      <4> QED
        BY <1>1, <2>2, <4>1
    <3>2. CASE ~HasBuckets(x[1])
      BY <1>1, <3>2
    <3> QED
      BY <3>1, <3>2
  <2> HIDE DEF high, ahead
  <2> QED
    BY <2>1, <2>2, <2>3, <2>4, WordFacts
<1>5. ASSUME NEW x \in S, pos(x) <= Len(ps)
      PROVE  /\ rank[x] = Len(ps) - Len(x[2]) + ahead(x[1])
             /\ rank[x] \in 0 .. N /\ rank[x] > 0
  BY <1>1, <1>4, <1>5
<1>6. \A x \in S : rank[x] \in 0 .. N /\ N \in Nat
  <2> SUFFICES ASSUME NEW x \in S PROVE rank[x] \in 0 .. N /\ N \in Nat
    OBVIOUS
  <2>1. pos(x) \in Nat /\ (pos(x) > Len(ps) => rank[x] = 0)
    BY <1>1, <1>4
  <2> HIDE DEF rank, S, pos
  <2> QED
    BY <1>1, <1>5, <2>1
<1>7. ASSUME NEW x \in S \ stopping, x[1].cumulative_count >= C(pos(x)), NEW y, y = next[x]
      PROVE  /\ y \in S /\ y[1] = x[1] /\ y[2] = Append(x[2], high(x))
             /\ Len(y[2]) = Len(x[2]) + 1 /\ pos(x) <= Len(ps)
  <2>1. x \in S /\ pos(x) <= Len(ps)
    BY <1>1, <1>4, <1>7
  <2>2. y = <<x[1], Append(x[2], high(x))>>
    BY <1>7
  <2>3. Append(x[2], high(x)) \in Seq(Int) /\ Len(Append(x[2], high(x))) = Len(x[2]) + 1
    <3>1. x[2] \in Seq(Int) /\ high(x) \in Int
      BY <1>4, <2>1
    <3> HIDE DEF high
    <3> QED
      BY <3>1
  <2>4. x[1] \in Iterator
    BY <1>4, <2>1
  <2> HIDE DEF high, pos
  <2> QED
    BY <2>1, <2>2, <2>3, <2>4
<1>8. ASSUME NEW x \in S \ stopping, ~(x[1].cumulative_count >= C(pos(x))), NEW y, y = next[x]
      PROVE  /\ y \in S /\ y[1] = AllValuesIterNext(x[1])[1] /\ y[2] = x[2]
             /\ HasBuckets(MoveNext(x[1])) /\ pos(x) <= Len(ps)
  <2>1. x \in S /\ pos(x) <= Len(ps)
    BY <1>1, <1>4, <1>8
  <2>2. HasBuckets(MoveNext(x[1]))
    BY <1>8, <2>1
  <2> DEFINE u == AllValuesIterNext(x[1])[1]
  <2>3. y = <<u, x[2]>>
    BY <1>8
  <2>4. x[1] \in Iterator /\ x[2] \in Seq(Int)
    BY <1>4, <2>1
  <2>5. u \in Iterator
    BY <2>2, <2>4, NextHere
  <2> HIDE DEF u, pos
  <2> QED
    BY <2>1, <2>2, <2>3, <2>4, <2>5 DEF u
<1>9. ASSUME NEW x \in S \ stopping PROVE next[x] \in S /\ rank[next[x]] < rank[x]
  <2> DEFINE y == next[x]
  <2>1. pos(x) <= Len(ps)
    BY <1>7, <1>8
  <2>2. CASE x[1].cumulative_count >= C(pos(x))
    <3>1. y \in S /\ y[1] = x[1] /\ Len(y[2]) = Len(x[2]) + 1
      BY <1>7, <2>2
    <3> HIDE DEF y, next
    <3>2. CASE pos(y) > Len(ps)
      <4>1. rank[y] = 0
        BY <3>1, <3>2
      <4> HIDE DEF rank, S
      <4> QED
        BY <1>5, <2>1, <3>1, <4>1 DEF y
    <3>3. CASE pos(y) <= Len(ps)
      <4>1. rank[y] = Len(ps) - Len(y[2]) + ahead(y[1])
        BY <1>5, <3>1, <3>3
      <4>2. rank[x] = Len(ps) - Len(x[2]) + ahead(x[1])
        BY <1>5, <2>1
      <4>3. ahead(x[1]) \in Int /\ Len(x[2]) \in Int
        BY <1>1, <1>4
      <4> HIDE DEF rank, ahead, S
      <4> QED
        BY <1>1, <3>1, <4>1, <4>2, <4>3 DEF y
    <3>4. pos(y) \in Nat
      BY <1>4, <3>1
    <3> HIDE DEF pos
    <3> QED
      BY <1>1, <3>2, <3>3, <3>4
  <2>3. CASE ~(x[1].cumulative_count >= C(pos(x)))
    <3>1. /\ y \in S /\ y[1] = AllValuesIterNext(x[1])[1] /\ y[2] = x[2]
          /\ HasBuckets(MoveNext(x[1]))
      BY <1>8, <2>3
    <3>2. x[1] \in Iterator
      BY <1>4
    <3>3. /\ HasBuckets(x[1]) /\ y[1].counts_index = x[1].counts_index + 1
          /\ y[1].counts_index \in 0 .. c.counts_len - 1
      BY <3>1, <3>2, NextHere
    <3> HIDE DEF y, next
    <3>4. ahead(y[1]) = ahead(x[1]) - 1 /\ ahead(x[1]) \in Int
      <4>1. HasBuckets(y[1]) /\ x[1].counts_index \in Int
        <5>1. x[1].counts_index \in Int
          BY <1>4
        <5>2. y[1].counts_index < c.counts_len
          BY <1>1, <3>3
        <5> QED
          BY <5>1, <5>2 DEF HasBuckets
      <4>2. /\ ahead(y[1]) = c.counts_len - y[1].counts_index
            /\ ahead(x[1]) = c.counts_len - x[1].counts_index
        BY <3>3, <4>1
      <4> HIDE DEF ahead
      <4> QED
        BY <1>1, <3>3, <4>1, <4>2
    <3>5. rank[y] = Len(ps) - Len(y[2]) + ahead(y[1])
      <4>1. pos(y) <= Len(ps)
        BY <2>1, <3>1
      <4> QED
        BY <1>5, <3>1, <4>1
    <3>6. rank[x] = Len(ps) - Len(x[2]) + ahead(x[1]) /\ Len(x[2]) \in Int
      BY <1>4, <1>5, <2>1
    <3> HIDE DEF rank, ahead, S
    <3> QED
      BY <1>1, <3>1, <3>4, <3>5, <3>6 DEF y
  <2> QED
    BY <2>2, <2>3
<1>10. \A g : Fills(g) <=> Loops(g, S, stopping, result, next)
  <2> SUFFICES ASSUME NEW g
               PROVE  [x \in S |->
                         IF pos(x) > Len(ps) THEN x[2]
                         ELSE IF x[1].cumulative_count >= C(pos(x))
                         THEN g[<<x[1], Append(x[2], high(x))>>]
                         ELSE IF HasBuckets(MoveNext(x[1]))
                         THEN g[<<AllValuesIterNext(x[1])[1], x[2]>>]
                         ELSE left(x)]
                      = [x \in S |-> IF x \in stopping THEN result[x] ELSE g[next[x]]]
    BY DEF Loops
  <2> SUFFICES ASSUME NEW x \in S
               PROVE  (IF pos(x) > Len(ps) THEN x[2]
                       ELSE IF x[1].cumulative_count >= C(pos(x))
                       THEN g[<<x[1], Append(x[2], high(x))>>]
                       ELSE IF HasBuckets(MoveNext(x[1]))
                       THEN g[<<AllValuesIterNext(x[1])[1], x[2]>>]
                       ELSE left(x))
                      = IF x \in stopping THEN result[x] ELSE g[next[x]]
    OBVIOUS
  <2> HIDE DEF high, pos
  <2> QED
    OBVIOUS
<1>11. Loops(f, S, stopping, result, next)
  <2>1. \E g : Loops(g, S, stopping, result, next)
    <3>1. N \in Nat /\ \A x \in S : rank[x] \in 0 .. N
      BY <1>1, <1>6
    <3> HIDE DEF S, stopping, result, next, rank, N
    <3> QED
      BY <1>9, <3>1, LoopsExist
  <2> HIDE DEF Fills, S, stopping, result, next
  <2> QED
    BY <1>10, <2>1
<1> DEFINE Stands(x) ==
               LET i == x[1]
               IN  /\ i.counts_index \in -1 .. c.counts_len - 1
                   /\ i.cumulative_count = Walked(i.counts_index + 1)
                   /\ i.counts_index >= 0 => i.value = ValueAtIndex(c, i.counts_index)
                   /\ i.counts_index >= 0 /\ pos(x) <= Len(ps) =>
                         Walked(i.counts_index) < C(pos(x))
           Good == {x \in S : Stands(x) /\ Len(x[2]) <= Len(ps) /\ Found(x[2])}
<1>12. start \in Good
  <2>1. start[1] = IterInit(s, kind) /\ start[2] = <<>>
    OBVIOUS
  <2>2. /\ start[1] \in Iterator /\ start[1].counts_index = -1
        /\ start[1].cumulative_count = 0
    BY <2>1, InitFields
  <2>3. start \in S
    <3>1. <<>> \in Seq(Int)
      OBVIOUS
    <3> HIDE DEF start
    <3>2. start = <<start[1], start[2]>>
      BY DEF start
    <3> QED
      BY <2>1, <2>2, <3>1, <3>2
  <2> HIDE DEF start
  <2>4. Stands(start)
    BY <1>1, <2>2
  <2>5. Found(start[2]) /\ Len(start[2]) = 0
    BY <2>1 DEF Found
  <2> HIDE DEF Stands, S
  <2> QED
    BY <1>1, <2>3, <2>4, <2>5
<1>13. ASSUME NEW x \in Good \ stopping PROVE next[x] \in Good
  <2> DEFINE y == next[x]
             n == x[1].counts_index
  <2>1. x \in S /\ Stands(x) /\ Len(x[2]) <= Len(ps) /\ Found(x[2])
    BY <1>13
  <2>2. x \in S \ stopping
    BY <1>13
  <2>3. /\ x[1] \in Iterator /\ x[2] \in Seq(Int) /\ Len(x[2]) \in Nat
    BY <1>4, <2>1
  <2>4. /\ n \in -1 .. c.counts_len - 1 /\ x[1].cumulative_count = Walked(n + 1)
        /\ n >= 0 => x[1].value = ValueAtIndex(c, n)
        /\ n >= 0 /\ pos(x) <= Len(ps) => Walked(n) < C(pos(x))
    BY <2>1
  <2>5. CASE x[1].cumulative_count >= C(pos(x))
    <3>1. /\ y \in S /\ y[1] = x[1] /\ y[2] = Append(x[2], high(x))
          /\ Len(y[2]) = Len(x[2]) + 1 /\ pos(x) <= Len(ps)
      BY <1>7, <2>2, <2>5
    <3>2. C(pos(x)) \in 1 .. s.total_count /\ pos(x) \in 1 .. Len(ps)
      BY <1>1, <1>3, <2>3, <3>1
    <3>3. n >= 0
      BY <1>1, <2>4, <2>5, <3>2
    <3>4. n \in 0 .. c.counts_len - 1 /\ n \in 0 .. c.counts_len /\ Walked(n) \in Nat
      BY <1>1, <2>4, <3>3
    <3>5. Brings(n, C(pos(x))) /\ high(x) = HighestEquivalentValue(c, ValueAtIndex(c, n))
      BY <2>4, <2>5, <3>1, <3>4 DEF Brings
    <3> HIDE DEF y, next
    <3>6. Found(y[2])
      <4> SUFFICES ASSUME NEW j \in 1 .. Len(y[2])
                   PROVE  \E k : /\ Brings(k, C(j))
                                 /\ y[2][j] = HighestEquivalentValue(c, ValueAtIndex(c, k))
        BY DEF Found, C, ps
      <4>1. CASE j = Len(x[2]) + 1
        <5>1. y[2][j] = high(x)
          <6> HIDE DEF high
          <6> QED
            BY <2>3, <3>1, <4>1
        <5> QED
          BY <3>5, <4>1, <5>1
      <4>2. CASE j # Len(x[2]) + 1
        <5>1. j \in 1 .. Len(x[2])
          BY <2>3, <3>1, <4>2
        <5>2. y[2][j] = x[2][j]
          <6> HIDE DEF high
          <6> QED
            BY <2>3, <3>1, <5>1
        <5> QED
          BY <2>1, <5>1, <5>2 DEF Found, C, ps
      <4> QED
        BY <4>1, <4>2
    <3>7. pos(y) <= Len(ps) => Walked(n) < C(pos(y))
      <4> SUFFICES ASSUME pos(y) <= Len(ps) PROVE Walked(n) < C(pos(y))
        OBVIOUS
      <4>1. pos(y) \in 1 .. Len(ps) /\ pos(x) < pos(y)
        BY <1>1, <2>3, <3>1
      <4>2. C(pos(x)) <= C(pos(y)) /\ C(pos(y)) \in Nat
        BY <1>1, <1>3, <3>2, <4>1
      <4> HIDE DEF pos
      <4> QED
        BY <2>4, <3>1, <3>2, <3>3, <3>4, <4>2
    <3>8. Stands(y)
      BY <2>4, <3>1, <3>7
    <3>9. Len(y[2]) <= Len(ps)
      BY <1>1, <2>3, <3>1
    <3> HIDE DEF Stands, S
    <3> QED
      BY <3>1, <3>6, <3>8, <3>9 DEF y
  <2>6. CASE ~(x[1].cumulative_count >= C(pos(x)))
    <3>1. /\ y \in S /\ y[1] = AllValuesIterNext(x[1])[1] /\ y[2] = x[2]
          /\ HasBuckets(MoveNext(x[1])) /\ pos(x) <= Len(ps)
      BY <1>8, <2>2, <2>6
    <3>2. /\ y[1].counts_index = n + 1
          /\ y[1].counts_index \in 0 .. c.counts_len - 1
          /\ y[1].cumulative_count
                = x[1].cumulative_count + CountAtIndex(c, s, y[1].counts_index)
          /\ y[1].value = ValueAtIndex(c, y[1].counts_index)
      BY <2>3, <3>1, NextHere
    <3> HIDE DEF y, next
    <3>3. Walked((n + 1) + 1) = Walked(n + 1) + CountAtIndex(c, s, n + 1)
      BY <1>1, <3>2
    <3>4. Walked(n + 1) < C(pos(x))
      <4>1. C(pos(x)) \in Nat /\ x[1].cumulative_count \in Nat
        BY <1>1, <1>3, <1>4, <2>1, <2>3, <3>1
      <4> QED
        BY <2>4, <2>6, <4>1
    <3>5. Stands(y)
      BY <2>4, <3>1, <3>2, <3>3, <3>4
    <3> HIDE DEF Stands, S
    <3> QED
      BY <2>1, <3>1, <3>5 DEF y
  <2> QED
    BY <2>5, <2>6
<1>14. PICK end \in Good : end \in stopping /\ f[start] = result[end]
  <2>1. Good \in SUBSET S /\ \A x \in S : rank[x] \in Nat
    BY <1>6
  <2> HIDE DEF S, stopping, result, next, rank, f, Good, start
  <2> QED
    BY <1>9, <1>11, <1>12, <1>13, <2>1, LoopsKeep
<1> HIDE DEF f, start
<1>15. end \in S /\ Stands(end) /\ Len(end[2]) <= Len(ps) /\ Found(end[2])
  BY <1>14
<1>16. end[1] \in Iterator /\ end[2] \in Seq(Int) /\ Len(end[2]) \in Nat
  BY <1>4, <1>15
<1>17. pos(end) > Len(ps)
  <2> SUFFICES ASSUME pos(end) <= Len(ps) PROVE FALSE
    BY <1>1, <1>16
  <2>1. pos(end) \in 1 .. Len(ps)
    BY <1>1, <1>16
  <2>2. ~(end[1].cumulative_count >= C(pos(end))) /\ ~HasBuckets(MoveNext(end[1]))
    <3>1. ~(pos(end) > Len(ps))
      BY <1>1, <2>1
    <3> HIDE DEF pos, S
    <3> QED
      BY <1>14, <3>1
  <2>3. end[1].counts_index \in -1 .. c.counts_len - 1
        /\ end[1].cumulative_count = Walked(end[1].counts_index + 1)
    BY <1>15
  <2>4. end[1].counts_index = c.counts_len - 1
    <3>1. ~(end[1].counts_index + 1 < c.counts_len)
      BY <1>16, <2>2, NextHere
    <3> QED
      BY <1>1, <2>3, <3>1
  <2>5. end[1].cumulative_count = s.total_count
    BY <1>1, <2>3, <2>4
  <2>6. C(pos(end)) \in 1 .. s.total_count
    BY <1>3, <2>1
  <2> QED
    BY <1>1, <2>2, <2>5, <2>6
<1>18. result[end] = end[2] /\ Len(end[2]) = Len(ps)
  BY <1>1, <1>15, <1>16, <1>17
<1> HIDE DEF result, S
<1> QED
  BY <1>2, <1>14, <1>15, <1>16, <1>18 DEF ps


-----------------------------------------------------------------------------
\* The highest and the lowest of the values equivalent to one of them.
LEMMA SameRangeOfHighest ==
    ASSUME NEW k, IsConfig(k), NEW v \in 0 .. MaxWord,
           NEW high, high = HighestEquivalentValue(k, v)
    PROVE  /\ HighestEquivalentValue(k, high) = high
           /\ LowestEquivalentValue(k, high) = LowestEquivalentValue(k, v)
<1>1. PICK b, n : Place(k, v, b, n)
  BY PlaceExists
<1>2. b \in Buckets(k) /\ n \in SubBuckets(k, b)
  BY <1>1 DEF Place
<1> DEFINE w == Width(k, b)
<1>3. /\ w \in Nat \ {0} /\ w * n \in Nat
      /\ \A x \in Int : w * n <= x /\ x < w * n + w => x \in 0 .. MaxWord /\ Place(k, x, b, n)
  BY <1>2, PlaceRange
<1>4. high = w * n + w - 1 /\ LowestEquivalentValue(k, v) = w * n
  BY <1>1, EquivalentRange
<1> HIDE DEF w
<1>5. high \in 0 .. MaxWord /\ Place(k, high, b, n)
  <2> DEFINE low == w * n
  <2>1. low + w - 1 \in Int /\ low <= low + w - 1 /\ low + w - 1 < low + w
    BY <1>3
  <2> QED
    BY <1>3, <1>4, <2>1
<1> QED
  BY <1>4, <1>5, EquivalentRange DEF w

\* LookupsAgree, with its sum as SumLemmas has it.
Answered ==
    kind.kind = "lookup" /\ ~more /\ s.total_count > 0 /\ s.normalizing_index_offset = 0 =>
        \A j \in DOMAIN Percentiles :
            LET value == answers.list[j]
                index == CountsIndexFor(c, value)
                up_to_index == SumFunctionOnSet(s.counts, {i \in BagToSet(s.counts) : i <= index})
            IN  /\ CountAtPercentile(Percentiles[j])
                      \in up_to_index - Cell(index) + 1 .. up_to_index
                /\ value = HighestEquivalentValue(c, value)
                /\ answers.scalar[j] = answers.avx2[j]
                /\ answers.scalar[j] =
                      IF Percentiles[j][1] = 0 THEN LowestEquivalentValue(c, value) ELSE value

LEMMA AnsweredIs == LookupsAgree <=> Answered
<1>1. \A S : MapThenSumSet(LAMBDA i : s.counts[i], S) = SumFunctionOnSet(s.counts, S)
  BY DEF MapThenSumSet, SumFunctionOnSet, FoldFunctionOnSet
<1> QED
  BY <1>1 DEF LookupsAgree, Answered

\* What the lookups answer does satisfy the property.
LEMMA LookupSound ==
    ASSUME IteratorsInv, Lookup
    PROVE  Answered'
<1> DEFINE ps == Percentiles
           C(j) == CountAtPercentile(ps[j])
           scalar(j) == ValueAtPercentile(ps[j], ValueUpToCount_Scalar(C(j)))
           avx2(j) == ValueAtPercentile(ps[j], ValueUpToCount_AVX2(C(j)))
<1>1. /\ c' = c /\ s' = s /\ kind' = kind /\ kind.kind = "lookup"
      /\ answers' = [scalar |-> [j \in DOMAIN ps |-> scalar(j)],
                     avx2 |-> [j \in DOMAIN ps |-> avx2(j)],
                     list |-> ValuesAtPercentiles(ps)]
  BY DEF Lookup
<1> HIDE DEF scalar, avx2
<1>2. /\ answers'.scalar = [j \in DOMAIN ps |-> scalar(j)]
      /\ answers'.avx2 = [j \in DOMAIN ps |-> avx2(j)]
      /\ answers'.list = ValuesAtPercentiles(ps)
  BY <1>1
<1>3. Filled /\ kind \in Kinds
  BY DEF IteratorsInv
<1>4. ASSUME s.total_count > 0, s.normalizing_index_offset = 0, NEW j \in DOMAIN ps
      PROVE  \E k : LET value == answers'.list[j] IN
                /\ k = CountsIndexFor(c, value) /\ Brings(k, C(j))
                /\ value = HighestEquivalentValue(c, value)
                /\ answers'.scalar[j] = answers'.avx2[j]
                /\ answers'.scalar[j] =
                      IF ps[j][1] = 0 THEN LowestEquivalentValue(c, value) ELSE value
  <2>1. ps \in Seq(Nat \X (Nat \ {0})) /\ j \in 1 .. Len(ps)
    BY <1>4, IteratorsAssumption
  <2>2. PICK values \in Seq(Int) : /\ ValuesAtPercentiles(ps) = values
                                   /\ Len(values) = Len(ps) /\ Found(values)
    BY <1>3, <1>4, FillFinds
  <2>3. PICK k : /\ Brings(k, C(j))
                 /\ values[j] = HighestEquivalentValue(c, ValueAtIndex(c, k))
    BY <2>1, <2>2 DEF Found
  <2> DEFINE v == ValueAtIndex(c, k)
             value == values[j]
  <2>4. C(j) \in 1 .. s.total_count
    <3>1. s.total_count \in Nat \ {0} /\ ps[j] \in Nat \X (Nat \ {0})
      BY <1>3, <1>4, <2>1, WalkedFacts
    <3> QED
      BY <3>1, CountOfPercentile
  <2>5. ValueUpToCount_AVX2(C(j)) = v
    <3>1. PICK n : Brings(n, C(j)) /\ ValueUpToCount_AVX2(C(j)) = ValueAtIndex(c, n)
      BY <1>3, <1>4, <2>4, ScanByFourFinds
    <3>2. C(j) \in Nat
      BY <2>4
    <3>3. n = k
      BY <1>3, <2>3, <3>1, <3>2, BringsOne
    <3> QED
      BY <3>1, <3>3
  <2>6. ValueUpToCount_Scalar(C(j)) = v
    <3>1. /\ 0 \in 0 .. c.counts_len /\ Walked(0) = 0 /\ Walked(0) < C(j)
      BY <1>3, <2>4, WalkedFacts
    <3>2. PICK n : Brings(n, C(j)) /\ Scan(0, Walked(0), C(j)) = ValueAtIndex(c, n)
      BY <1>3, <1>4, <2>4, <3>1, ScanFinds
    <3>3. C(j) \in Nat
      BY <2>4
    <3>4. n = k
      BY <1>3, <2>3, <3>2, <3>3, BringsOne
    <3> QED
      BY <3>1, <3>2, <3>4 DEF ValueUpToCount_Scalar
  <2>7. k \in 0 .. c.counts_len - 1
    BY <2>3 DEF Brings
  <2>8. v \in 0 .. MaxWord /\ CountsIndexFor(c, v) = k /\ IsConfig(c)
    BY <1>3, <2>7, ValueOfIndex DEF Filled, IsLayout
  <2> HIDE DEF v
  <2>9. value = HighestEquivalentValue(c, v)
    BY <2>3 DEF v
  <2>10. CountsIndexFor(c, value) = k
    BY <2>8, <2>9, RangeOfValue
  <2>11. /\ HighestEquivalentValue(c, value) = value
         /\ LowestEquivalentValue(c, value) = LowestEquivalentValue(c, v)
    BY <2>8, <2>9, SameRangeOfHighest
  <2>12. ValueAtPercentile(ps[j], v)
            = IF ps[j][1] = 0 THEN LowestEquivalentValue(c, v) ELSE HighestEquivalentValue(c, v)
    <3>1. v \in Int
      BY <2>8, WordFacts
    <3> QED
      BY <3>1 DEF ValueAtPercentile
  <2>13. answers'.scalar[j] = ValueAtPercentile(ps[j], v)
    BY <1>2, <1>4, <2>6 DEF scalar
  <2>14. answers'.avx2[j] = ValueAtPercentile(ps[j], v)
    BY <1>2, <1>4, <2>5 DEF avx2
  <2>15. answers'.list[j] = value
    BY <1>2, <2>2
  <2> HIDE DEF value
  <2> QED
    BY <2>3, <2>9, <2>10, <2>11, <2>12, <2>13, <2>14, <2>15
<1>5. ASSUME s.total_count > 0, s.normalizing_index_offset = 0, NEW j \in DOMAIN ps,
             NEW sum, sum = SumFunctionOnSet(s.counts, {i \in BagToSet(s.counts) :
                                    i <= CountsIndexFor(c, answers'.list[j])})
      PROVE  LET value == answers'.list[j]
                 index == CountsIndexFor(c, value)
             IN  /\ C(j) \in sum - Cell(index) + 1 .. sum
                 /\ value = HighestEquivalentValue(c, value)
                 /\ answers'.scalar[j] = answers'.avx2[j]
                 /\ answers'.scalar[j] =
                       IF ps[j][1] = 0 THEN LowestEquivalentValue(c, value) ELSE value
  <2> DEFINE value == answers'.list[j]
             index == CountsIndexFor(c, value)
  <2>1. /\ Brings(index, C(j))
        /\ value = HighestEquivalentValue(c, value)
        /\ answers'.scalar[j] = answers'.avx2[j]
        /\ answers'.scalar[j] =
              IF ps[j][1] = 0 THEN LowestEquivalentValue(c, value) ELSE value
    BY <1>4, <1>5
  <2>2. index \in 0 .. c.counts_len - 1 /\ Walked(index) < C(j) /\ C(j) <= Walked(index + 1)
    BY <2>1 DEF Brings
  <2>3. sum = Walked(index + 1)
    BY <1>3, <1>5, <2>2, UpToIndex
  <2>4. /\ Walked(index + 1) = Walked(index) + Cell(index)
        /\ Walked(index) \in Nat /\ Cell(index) \in Nat
    <3>1. c.counts_len \in Nat
      BY <1>3, WalkedFacts
    <3>2. index \in 0 .. c.counts_len /\ index \in Nat
      BY <2>2, <3>1
    <3> HIDE DEF index
    <3> QED
      BY <1>3, <1>5, <2>2, <3>2, WalkedFacts, CellIs
  <2>5. C(j) \in Nat
    <3>1. ps \in Seq(Nat \X (Nat \ {0})) /\ DOMAIN ps = 1 .. Len(ps)
      BY IteratorsAssumption
    <3>2. s.total_count \in Nat \ {0} /\ ps[j] \in Nat \X (Nat \ {0})
      BY <1>3, <1>5, <3>1, WalkedFacts
    <3>3. C(j) \in 1 .. s.total_count
      BY <3>2, CountOfPercentile
    <3> QED
      BY <3>3
  <2>6. C(j) \in sum - Cell(index) + 1 .. sum
    <3> HIDE DEF C, index
    <3> QED
      BY <2>2, <2>3, <2>4, <2>5
  <2> HIDE DEF C
  <2> QED
    BY <2>1, <2>6
<1>6. (\A j \in DOMAIN ps :
          LET value == answers'.list[j]
              index == CountsIndexFor(c, value)
              up_to_index == SumFunctionOnSet(s.counts, {i \in BagToSet(s.counts) : i <= index})
          IN  /\ C(j) \in up_to_index - Cell(index) + 1 .. up_to_index
              /\ value = HighestEquivalentValue(c, value)
              /\ answers'.scalar[j] = answers'.avx2[j]
              /\ answers'.scalar[j] =
                    IF ps[j][1] = 0 THEN LowestEquivalentValue(c, value) ELSE value)
      \/ ~(s.total_count > 0 /\ s.normalizing_index_offset = 0)
  BY <1>5
<1> QED
  BY <1>1, <1>6 DEF Answered, CountAtPercentile, Cell

\* The property holds before the lookups, and nothing is called after them.
LEMMA NextAgrees ==
    IteratorsInv /\ Answered /\ [IteratorsNext]_iterators_vars => Answered'
<1> SUFFICES ASSUME IteratorsInv, Answered, [IteratorsNext]_iterators_vars
             PROVE  Answered'
  OBVIOUS
<1>1. CASE Lookup
  BY <1>1, LookupSound
<1>2. CASE NextAll \/ NextRecorded \/ NextLinear \/ NextLog \/ NextPercentileReport
  <2>1. kind.kind # "lookup" /\ kind' = kind
    BY <1>2 DEF NextAll, NextRecorded, NextLinear, NextLog, NextPercentileReport, Return
  <2> QED
    BY <2>1 DEF Answered
<1>3. ASSUME NEW value \in Meanwhile, RecordMeanwhile(value) PROVE Answered'
  <2>1. more'
    BY <1>3 DEF RecordMeanwhile
  <2> QED
    BY <2>1 DEF Answered
<1>4. CASE UNCHANGED iterators_vars
  BY <1>4 DEF Answered, iterators_vars, CountAtPercentile, Cell
<1> QED
  BY <1>1, <1>2, <1>3, <1>4 DEF IteratorsNext, IterNext

\* hdr_value_at_percentile with either scan and hdr_value_at_percentiles return the range
\* of the value that brings the counts up to what the percentile stands for.
THEOREM LookupsAgreeCorrect == IteratorsSpec => []LookupsAgree
<1>1. IteratorsInit => Answered
  BY DEF IteratorsInit, Answered
<1>2. IteratorsInv /\ Answered /\ [IteratorsNext]_iterators_vars => Answered'
  BY NextAgrees
<1> QED
  BY <1>1, <1>2, AlwaysSound, AnsweredIs, PTL DEF IteratorsSpec
=============================================================================
