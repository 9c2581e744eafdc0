----------------------------- MODULE SumLemmas -----------------------------
(***************************************************************************)
(* Laws of SumFunctionOnSet, the sum of a function over a finite set, by   *)
(* which the specifications add up counts.  It is a recursive function     *)
(* over the subsets of the set.  The induction theorems of the library     *)
(* take the induction hypothesis as an operator; here each induction picks *)
(* a minimal set among those without the law instead.                      *)
(***************************************************************************)
EXTENDS FiniteSetTheorems, FunctionTheorems, TLAPS

\* The element of T that the recursion takes next, and the recursion.
Pick(T) == CHOOSE x \in T : TRUE
SumsOf(f, S, g) ==
    g = [T \in SUBSET S |-> IF T = {} THEN 0 ELSE f[Pick(T)] + g[T \ {Pick(T)}]]

\* What SumFunctionOnSet is, by definition.
LEMMA SumByDefinition ==
    ASSUME NEW f, NEW S
    PROVE  SumFunctionOnSet(f, S) = (CHOOSE g : SumsOf(f, S, g))[S]
BY DEF SumFunctionOnSet, FoldFunctionOnSet, MapThenFoldSet, SumsOf, Pick

\* Among subsets of a finite set there is a minimal one.
LEMMA MinimalSubset ==
    ASSUME NEW S, IsFiniteSet(S), NEW F \in SUBSET SUBSET S, F # {}
    PROVE  \E T \in F : \A U \in F : U \subseteq T => U = T
<1>1. FiniteSubsetsOf(S) = SUBSET S
  BY FS_FiniteSubsetsOfFinite
<1>2. IsWellFoundedOn(StrictSubsetOrdering(S), SUBSET S)
  BY <1>1, FS_StrictSubsetOrderingWellFounded
<1>3. PICK T \in F : \A U \in F : ~(<<U, T>> \in StrictSubsetOrdering(S))
  BY <1>2, WFMin
<1>4. ASSUME NEW U \in F, U \subseteq T, U # T PROVE FALSE
  <2>1. <<U, T>> \in StrictSubsetOrdering(S)
    BY <1>4 DEF StrictSubsetOrdering
  <2> QED
    BY <1>3, <2>1
<1> QED
  BY <1>4

\* What is left after the first element has been taken.
LEMMA PickProper ==
    ASSUME NEW T, T # {}
    PROVE  /\ Pick(T) \in T
           /\ T \ {Pick(T)} \subseteq T
           /\ T \ {Pick(T)} # T
<1>1. Pick(T) \in T
  BY DEF Pick
<1> QED
  BY <1>1

\* Two such functions agree wherever both are defined.
LEMMA SumsAgree ==
    ASSUME NEW f, NEW S, IsFiniteSet(S), NEW g, SumsOf(f, S, g),
           NEW R, NEW h, SumsOf(f, R, h),
           NEW T \in SUBSET S, T \subseteq R
    PROVE  g[T] = h[T]
<1> DEFINE Bad == {U \in SUBSET S : U \subseteq R /\ g[U] # h[U]}
<1>1. SUFFICES ASSUME Bad # {} PROVE FALSE
  OBVIOUS
<1>2. PICK U \in Bad : \A V \in Bad : V \subseteq U => V = U
  <2>1. Bad \in SUBSET SUBSET S
    OBVIOUS
  <2> HIDE DEF Bad
  <2> QED
    BY <1>1, <2>1, MinimalSubset
<1>3. CASE U = {}
  <2>1. g[U] = 0 /\ h[U] = 0
    BY <1>2, <1>3 DEF SumsOf
  <2> QED
    BY <1>2, <2>1
<1>4. CASE U # {}
  <2>1. PICK rest \in SUBSET S : rest = U \ {Pick(U)} /\ rest # U /\ rest \subseteq R
    <3>1. U \in SUBSET S /\ U \subseteq R
      BY <1>2
    <3> QED
      BY <1>4, <3>1, PickProper
  <2>2. g[rest] = h[rest]
    BY <1>2, <2>1
  <2>3. g[U] = f[Pick(U)] + g[rest] /\ h[U] = f[Pick(U)] + h[rest]
    BY <1>2, <1>4, <2>1 DEF SumsOf
  <2> QED
    BY <1>2, <2>2, <2>3
<1> QED
  BY <1>3, <1>4

\* There is such a function for every finite set.
LEMMA SumsExist ==
    ASSUME NEW f, NEW S, IsFiniteSet(S)
    PROVE  \E g : SumsOf(f, S, g)
<1> DEFINE Bad == {T \in SUBSET S : ~ \E g : SumsOf(f, T, g)}
<1>1. SUFFICES ASSUME Bad # {} PROVE FALSE
  OBVIOUS
<1>2. PICK T \in Bad : \A U \in Bad : U \subseteq T => U = T
  <2>1. Bad \in SUBSET SUBSET S
    OBVIOUS
  <2> HIDE DEF Bad
  <2> QED
    BY <1>1, <2>1, MinimalSubset
<1> DEFINE sums(U) == CHOOSE g : SumsOf(f, U, g)
           total(U) == IF U = {} THEN 0
                       ELSE f[Pick(U)] + sums(U \ {Pick(U)})[U \ {Pick(U)}]
           all == [U \in SUBSET T |-> total(U)]
<1>3. ASSUME NEW U \in SUBSET T, U # T PROVE SumsOf(f, U, sums(U))
  BY <1>2, <1>3
<1>4. ASSUME NEW U \in SUBSET T, U # {} PROVE all[U] = f[Pick(U)] + all[U \ {Pick(U)}]
  <2> DEFINE V == U \ {Pick(U)}
  <2>1. V \in SUBSET T /\ V # T
    <3>1. V \subseteq U /\ V # U
      BY <1>4, PickProper
    <3> QED
      BY <3>1
  <2>2. all[U] = f[Pick(U)] + sums(V)[V]
    BY <1>4, <2>1
  <2>3. SumsOf(f, V, sums(V))
    BY <1>3, <2>1
  <2>4. sums(V)[V] = total(V)
    <3>1. CASE V = {}
      BY <2>3, <3>1 DEF SumsOf
    <3>2. CASE V # {}
      <4> DEFINE W == V \ {Pick(V)}
      <4>1. W \in SUBSET T /\ W \subseteq V /\ W # T
        <5>1. W \subseteq V /\ W # V
          BY <3>2, PickProper
        <5> HIDE DEF V, W
        <5> QED
          BY <2>1, <5>1
      <4>2. sums(V)[V] = f[Pick(V)] + sums(V)[W]
        BY <2>3, <3>2, <4>1 DEF SumsOf
      <4>3. SumsOf(f, W, sums(W))
        BY <1>3, <4>1
      <4>4. IsFiniteSet(V) /\ IsFiniteSet(W)
        BY <1>2, <2>1, <4>1, FS_Subset
      <4>5. sums(V)[W] = sums(W)[W]
        BY <2>3, <4>1, <4>3, <4>4, SumsAgree
      <4> QED
        BY <3>2, <4>1, <4>2, <4>5
    <3> QED
      BY <3>1, <3>2
  <2> QED
    BY <2>1, <2>2, <2>4
<1>5. SumsOf(f, T, all)
  <2>1. \A U \in SUBSET T : U = {} => all[U] = 0
    OBVIOUS
  <2> HIDE DEF total
  <2>2. all = [U \in SUBSET T |-> all[U]]
    OBVIOUS
  <2> HIDE DEF all
  <2> QED
    BY <1>4, <2>1, <2>2 DEF SumsOf
<1> QED
  BY <1>2, <1>5

\* The recursion that defines a sum.
LEMMA SumRecursion ==
    ASSUME NEW f, NEW S, IsFiniteSet(S)
    PROVE  /\ S = {} => SumFunctionOnSet(f, S) = 0
           /\ S # {} => SumFunctionOnSet(f, S)
                           = f[Pick(S)] + SumFunctionOnSet(f, S \ {Pick(S)})
<1> DEFINE sums(T) == CHOOSE g : SumsOf(f, T, g)
           rest == S \ {Pick(S)}
<1>1. SumsOf(f, S, sums(S))
  BY SumsExist
<1>2. SumFunctionOnSet(f, S) = sums(S)[S]
  BY SumByDefinition
<1>3. CASE S = {}
  BY <1>1, <1>2, <1>3 DEF SumsOf
<1>4. CASE S # {}
  <2>1. rest \in SUBSET S /\ IsFiniteSet(rest)
    BY FS_Subset
  <2>2. sums(S)[S] = f[Pick(S)] + sums(S)[rest]
    BY <1>1, <1>4 DEF SumsOf
  <2>3. SumsOf(f, rest, sums(rest))
    BY <2>1, SumsExist
  <2>4. sums(S)[rest] = sums(rest)[rest]
    <3> HIDE DEF rest, sums
    <3> QED
      BY <1>1, <2>1, <2>3, SumsAgree
  <2>5. SumFunctionOnSet(f, rest) = sums(rest)[rest]
    BY SumByDefinition
  <2> QED
    BY <1>2, <1>4, <2>2, <2>4, <2>5
<1> QED
  BY <1>3, <1>4

-----------------------------------------------------------------------------
(***************************************************************************)
(* The laws.                                                               *)
(***************************************************************************)

\* The sum over no elements.
LEMMA SumEmpty ==
    ASSUME NEW f
    PROVE  SumFunctionOnSet(f, {}) = 0
BY SumRecursion, FS_EmptySet

\* A sum is an integer.
LEMMA SumInt ==
    ASSUME NEW S, IsFiniteSet(S), NEW f, \A x \in S : f[x] \in Int
    PROVE  SumFunctionOnSet(f, S) \in Int
<1> DEFINE Bad == {T \in SUBSET S : SumFunctionOnSet(f, T) \notin Int}
<1>1. SUFFICES ASSUME Bad # {} PROVE FALSE
  OBVIOUS
<1>2. PICK T \in Bad : \A U \in Bad : U \subseteq T => U = T
  <2>1. Bad \in SUBSET SUBSET S
    OBVIOUS
  <2> HIDE DEF Bad
  <2> QED
    BY <1>1, <2>1, MinimalSubset
<1>3. T # {}
  <2>1. SumFunctionOnSet(f, T) \notin Int
    BY <1>2
  <2> HIDE DEF Bad
  <2> QED
    BY <2>1, SumEmpty
<1> DEFINE rest == T \ {Pick(T)}
<1>4. Pick(T) \in S /\ rest \in SUBSET S /\ rest \subseteq T /\ rest # T
  BY <1>2, <1>3, PickProper
<1>5. SumFunctionOnSet(f, T) = f[Pick(T)] + SumFunctionOnSet(f, rest)
  BY <1>2, <1>3, FS_Subset, SumRecursion
<1>6. SumFunctionOnSet(f, rest) \in Int
  BY <1>2, <1>4
<1> QED
  BY <1>2, <1>4, <1>5, <1>6

\* A sum of natural numbers is one.
LEMMA SumNat ==
    ASSUME NEW S, IsFiniteSet(S), NEW f, \A x \in S : f[x] \in Nat
    PROVE  SumFunctionOnSet(f, S) \in Nat
<1> DEFINE Bad == {T \in SUBSET S : SumFunctionOnSet(f, T) \notin Nat}
<1>1. SUFFICES ASSUME Bad # {} PROVE FALSE
  OBVIOUS
<1>2. PICK T \in Bad : \A U \in Bad : U \subseteq T => U = T
  <2>1. Bad \in SUBSET SUBSET S
    OBVIOUS
  <2> HIDE DEF Bad
  <2> QED
    BY <1>1, <2>1, MinimalSubset
<1>3. T # {}
  <2>1. SumFunctionOnSet(f, T) \notin Nat
    BY <1>2
  <2> HIDE DEF Bad
  <2> QED
    BY <2>1, SumEmpty
<1> DEFINE rest == T \ {Pick(T)}
<1>4. Pick(T) \in S /\ rest \in SUBSET S /\ rest \subseteq T /\ rest # T
  BY <1>2, <1>3, PickProper
<1>5. SumFunctionOnSet(f, T) = f[Pick(T)] + SumFunctionOnSet(f, rest)
  BY <1>2, <1>3, FS_Subset, SumRecursion
<1>6. SumFunctionOnSet(f, rest) \in Nat
  BY <1>2, <1>4
<1> QED
  BY <1>2, <1>4, <1>5, <1>6

\* A sum may be taken in any order.
LEMMA SumRemove ==
    ASSUME NEW S, IsFiniteSet(S), NEW f, \A x \in S : f[x] \in Int, NEW y \in S
    PROVE  SumFunctionOnSet(f, S) = f[y] + SumFunctionOnSet(f, S \ {y})
<1> DEFINE Bad == {T \in SUBSET S : \E x \in T :
                      SumFunctionOnSet(f, T) # f[x] + SumFunctionOnSet(f, T \ {x})}
<1>1. SUFFICES ASSUME Bad # {} PROVE FALSE
  OBVIOUS
<1>2. PICK T \in Bad : \A U \in Bad : U \subseteq T => U = T
  <2>1. Bad \in SUBSET SUBSET S
    OBVIOUS
  <2> HIDE DEF Bad
  <2> QED
    BY <1>1, <2>1, MinimalSubset
<1>3. PICK x \in T : SumFunctionOnSet(f, T) # f[x] + SumFunctionOnSet(f, T \ {x})
  BY <1>2
<1> DEFINE p == Pick(T)
           total(U) == SumFunctionOnSet(f, U)
<1>4. p \in T /\ T \in SUBSET S
  BY <1>2, <1>3, PickProper
<1>5. ASSUME NEW U \in SUBSET T PROVE IsFiniteSet(U) /\ total(U) \in Int
  BY <1>4, FS_Subset, SumInt
<1>6. total(T) = f[p] + total(T \ {p})
  BY <1>3, <1>5, SumRecursion
<1>7. p # x
  BY <1>3, <1>6
<1>8. ASSUME NEW z \in T, NEW u \in T, u # z
      PROVE  total(T \ {z}) = f[u] + total(T \ {z, u})
  <2>1. T \ {z} \in SUBSET S /\ T \ {z} \subseteq T /\ T \ {z} # T /\ u \in T \ {z}
    BY <1>4, <1>8
  <2>2. T \ {z} \notin Bad
    BY <1>2, <2>1
  <2>3. (T \ {z}) \ {u} = T \ {z, u}
    OBVIOUS
  <2> QED
    BY <2>1, <2>2, <2>3
<1>9. total(T \ {p}) = f[x] + total(T \ {p, x})
  BY <1>4, <1>7, <1>8
<1>10. total(T \ {x}) = f[p] + total(T \ {p, x})
  <2>1. T \ {x, p} = T \ {p, x}
    OBVIOUS
  <2> QED
    BY <1>4, <1>7, <1>8, <2>1
<1>11. f[p] \in Int /\ f[x] \in Int /\ total(T \ {p, x}) \in Int
  BY <1>4, <1>5
<1> HIDE DEF p, total
<1>12. total(T) = f[x] + total(T \ {x})
  BY <1>6, <1>9, <1>10, <1>11
<1> QED
  BY <1>3, <1>12 DEF total

\* One element more.
LEMMA SumAdd ==
    ASSUME NEW S, IsFiniteSet(S), NEW y, y \notin S,
           NEW f, \A x \in S \union {y} : f[x] \in Int
    PROVE  SumFunctionOnSet(f, S \union {y}) = f[y] + SumFunctionOnSet(f, S)
<1>1. IsFiniteSet(S \union {y})
  BY FS_AddElement
<1>2. (S \union {y}) \ {y} = S
  OBVIOUS
<1> QED
  BY <1>1, <1>2, SumRemove

\* A sum is that over a subset and that over the rest.
LEMMA SumSplit ==
    ASSUME NEW S, IsFiniteSet(S), NEW f, \A x \in S : f[x] \in Int, NEW T \in SUBSET S
    PROVE  SumFunctionOnSet(f, S) = SumFunctionOnSet(f, T) + SumFunctionOnSet(f, S \ T)
<1> DEFINE Bad == {U \in SUBSET T : SumFunctionOnSet(f, S) # SumFunctionOnSet(f, U) + SumFunctionOnSet(f, S \ U)}
<1>1. SUFFICES ASSUME Bad # {} PROVE FALSE
  OBVIOUS
<1>2. PICK U \in Bad : \A V \in Bad : V \subseteq U => V = U
  <2>1. Bad \in SUBSET SUBSET T /\ IsFiniteSet(T)
    BY FS_Subset
  <2> HIDE DEF Bad
  <2> QED
    BY <1>1, <2>1, MinimalSubset
<1>3. /\ IsFiniteSet(U) /\ IsFiniteSet(S \ U) /\ U \subseteq S
      /\ \A x \in U : f[x] \in Int
      /\ SumFunctionOnSet(f, S) # SumFunctionOnSet(f, U) + SumFunctionOnSet(f, S \ U)
  BY <1>2, FS_Subset
<1>4. CASE U = {}
  <2>1. S \ U = S /\ SumFunctionOnSet(f, U) = 0 /\ SumFunctionOnSet(f, S) \in Int
    BY <1>4, SumEmpty, SumInt
  <2> HIDE DEF Bad
  <2> QED
    BY <1>3, <2>1
<1>5. CASE U # {}
  <2>1. PICK y : y \in U
    BY <1>5
  <2> DEFINE V == U \ {y}
  <2>2. V \in SUBSET T /\ V # U /\ V \subseteq U
    BY <1>2, <2>1
  <2>3. SumFunctionOnSet(f, S) = SumFunctionOnSet(f, V) + SumFunctionOnSet(f, S \ V)
    BY <1>2, <2>2
  <2>4. SumFunctionOnSet(f, U) = f[y] + SumFunctionOnSet(f, V)
    BY <1>3, <2>1, SumRemove
  <2>5. S \ V = (S \ U) \union {y} /\ y \notin S \ U
    BY <1>3, <2>1
  <2>6. SumFunctionOnSet(f, (S \ U) \union {y}) = f[y] + SumFunctionOnSet(f, S \ U)
    <3>1. \A x \in (S \ U) \union {y} : f[x] \in Int
      BY <1>3, <2>1
    <3> QED
      BY <1>3, <2>5, <3>1, SumAdd
  <2>7. f[y] \in Int /\ SumFunctionOnSet(f, V) \in Int /\ SumFunctionOnSet(f, S \ U) \in Int
    <3>1. IsFiniteSet(V) /\ \A x \in V : f[x] \in Int
      BY <1>3, <2>2, FS_Subset
    <3> HIDE DEF V
    <3> QED
      BY <1>3, <2>1, <3>1, SumInt
  <2>8. SumFunctionOnSet(f, S \ V) = f[y] + SumFunctionOnSet(f, S \ U)
    BY <2>5, <2>6
  <2> HIDE DEF V, Bad
  <2> QED
    BY <1>3, <2>3, <2>4, <2>7, <2>8
<1> QED
  BY <1>4, <1>5

\* Functions that agree on the set have the same sum.
LEMMA SumSame ==
    ASSUME NEW S, IsFiniteSet(S), NEW f, NEW g, \A x \in S : f[x] = g[x]
    PROVE  SumFunctionOnSet(f, S) = SumFunctionOnSet(g, S)
<1> DEFINE Bad == {T \in SUBSET S : SumFunctionOnSet(f, T) # SumFunctionOnSet(g, T)}
<1>1. SUFFICES ASSUME Bad # {} PROVE FALSE
  OBVIOUS
<1>2. PICK T \in Bad : \A U \in Bad : U \subseteq T => U = T
  <2>1. Bad \in SUBSET SUBSET S
    OBVIOUS
  <2> HIDE DEF Bad
  <2> QED
    BY <1>1, <2>1, MinimalSubset
<1>3. T # {}
  BY <1>2, SumEmpty
<1> DEFINE rest == T \ {Pick(T)}
<1>4. Pick(T) \in S /\ rest \in SUBSET S /\ rest \subseteq T /\ rest # T
  BY <1>2, <1>3, PickProper
<1>5. /\ SumFunctionOnSet(f, T) = f[Pick(T)] + SumFunctionOnSet(f, rest)
      /\ SumFunctionOnSet(g, T) = g[Pick(T)] + SumFunctionOnSet(g, rest)
  BY <1>2, <1>3, FS_Subset, SumRecursion
<1>6. SumFunctionOnSet(f, rest) = SumFunctionOnSet(g, rest)
  BY <1>2, <1>4
<1> QED
  BY <1>2, <1>4, <1>5, <1>6

\* Functions that differ at one element have sums that differ by as much.
LEMMA SumChange ==
    ASSUME NEW S, IsFiniteSet(S), NEW y \in S,
           NEW f, \A x \in S : f[x] \in Int,
           NEW g, g[y] \in Int, \A x \in S \ {y} : g[x] = f[x]
    PROVE  SumFunctionOnSet(g, S) = SumFunctionOnSet(f, S) + g[y] - f[y]
<1>1. IsFiniteSet(S \ {y})
  BY FS_RemoveElement
<1>2. SumFunctionOnSet(f, S \ {y}) = SumFunctionOnSet(g, S \ {y})
  BY <1>1, SumSame
<1>3. \A x \in S : g[x] \in Int
  OBVIOUS
<1>4. SumFunctionOnSet(f, S \ {y}) \in Int
  BY <1>1, SumInt
<1>5. /\ SumFunctionOnSet(f, S) = f[y] + SumFunctionOnSet(f, S \ {y})
      /\ SumFunctionOnSet(g, S) = g[y] + SumFunctionOnSet(g, S \ {y})
  BY <1>3, SumRemove
<1> QED
  BY <1>2, <1>4, <1>5

\* Zeros add up to zero.
LEMMA SumZeros ==
    ASSUME NEW S, IsFiniteSet(S), NEW f, \A x \in S : f[x] = 0
    PROVE  SumFunctionOnSet(f, S) = 0
<1> DEFINE Bad == {T \in SUBSET S : SumFunctionOnSet(f, T) # 0}
<1>1. SUFFICES ASSUME Bad # {} PROVE FALSE
  OBVIOUS
<1>2. PICK T \in Bad : \A U \in Bad : U \subseteq T => U = T
  <2>1. Bad \in SUBSET SUBSET S
    OBVIOUS
  <2> HIDE DEF Bad
  <2> QED
    BY <1>1, <2>1, MinimalSubset
<1>3. PICK x \in T : x \in S
  BY <1>2, SumEmpty
<1>4. /\ T \ {x} \notin Bad
      /\ T \ {x} \in SUBSET S
  BY <1>2, <1>3
<1>5. SumFunctionOnSet(f, T) = f[x] + SumFunctionOnSet(f, T \ {x})
  BY <1>2, <1>3, FS_Subset, SumRemove
<1> QED
  BY <1>2, <1>3, <1>4, <1>5

-----------------------------------------------------------------------------
(***************************************************************************)
(* Counting by pairing off.                                                *)
(***************************************************************************)

\* Sets whose elements correspond one to one have the same size.
LEMMA SameSize ==
    ASSUME NEW S, NEW T, IsFiniteSet(T), NEW f \in [S -> T],
           \A a, b \in S : f[a] = f[b] => a = b,
           \A t \in T : \E s \in S : f[s] = t
    PROVE  IsFiniteSet(S) /\ Cardinality(S) = Cardinality(T)
<1>1. f \in Bijection(S, T)
  BY Fun_IsBij
<1>2. f \in Injection(S, T) /\ f \in Surjection(S, T)
  BY <1>1, Fun_BijectionProperties
<1> QED
  BY <1>2, FS_Injection
=============================================================================
