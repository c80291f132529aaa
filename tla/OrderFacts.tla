----------------------------- MODULE OrderFacts -----------------------------
(***************************************************************************)
(* Least elements, for the definitions that CHOOSE the first position with *)
(* some property: the end of the longest prefix that passes a test, the    *)
(* first slot, the place of a frame.  Sums over a finite set, for the      *)
(* counters of a station.                                                  *)
(***************************************************************************)
EXTENDS Integers, Functions, TLAPS, FiniteSetTheorems, WellFoundedInduction

\* Every nonempty set of numbers from an interval has a least one.
LEMMA LeastExists ==
  ASSUME NEW lo \in Nat, NEW hi \in Nat, NEW S \in SUBSET (lo..hi), S # {}
  PROVE  \E x \in S : \A y \in S : x <= y
<1> DEFINE below(i) == {j \in S : j < i}
           T == {below(i) : i \in S}
<1>1. S \subseteq Nat
  OBVIOUS
<1>2. T \subseteq FiniteSubsetsOf(S) /\ T # {}
  <2>0. IsFiniteSet(lo..hi)
    BY FS_Interval
  <2>1. IsFiniteSet(S)
    BY <2>0, FS_Subset
  <2>2. FiniteSubsetsOf(S) = SUBSET S
    BY <2>1, FS_FiniteSubsetsOfFinite
  <2>3. \A i \in S : below(i) \in SUBSET S
    OBVIOUS
  <2>4. T \subseteq SUBSET S
    BY <2>3
  <2>5. T # {}
    OBVIOUS
  <2> HIDE DEF T
  <2> QED
    BY <2>2, <2>4, <2>5
<1>3. PICK L \in T : \A U \in T : ~(<<U, L>> \in StrictSubsetOrdering(S))
  BY <1>2, WFMin, FS_StrictSubsetOrderingWellFounded
<1>4. PICK x \in S : L = below(x)
  BY <1>3
<1>5. ASSUME NEW y \in S, y < x
      PROVE  FALSE
  <2>1. \A i \in Nat : i < y /\ y < x => i < x
    BY <1>1
  <2>2. ~(y < y)
    BY <1>1
  <2>3. below(y) \subseteq below(x)
    BY <1>1, <1>5, <2>1
  <2>4. y \in below(x) /\ y \notin below(y)
    BY <1>5, <2>2
  <2>5. <<below(y), below(x)>> \in StrictSubsetOrdering(S)
    BY <2>3, <2>4 DEF StrictSubsetOrdering
  <2> QED
    BY <1>3, <1>4, <2>5
<1>6. \A y \in S : x <= y
  BY <1>1, <1>5
<1> QED
  BY <1>6

\* ... and a greatest one.
LEMMA GreatestExists ==
  ASSUME NEW lo \in Nat, NEW hi \in Nat, NEW S \in SUBSET (lo..hi), S # {}
  PROVE  \E x \in S : \A y \in S : y <= x
<1> DEFINE T == {i \in lo..hi : (hi + lo) - i \in S}
<1>1. \A i \in S : (hi + lo) - i \in lo..hi /\ (hi + lo) - ((hi + lo) - i) = i
  OBVIOUS
<1>2. T # {} /\ T \in SUBSET (lo..hi)
  BY <1>1
<1>3. PICK x \in T : \A y \in T : x <= y
  BY <1>2, LeastExists
<1>4. ASSUME NEW y \in S PROVE y <= (hi + lo) - x
  <2>1. x <= (hi + lo) - y
    BY <1>1, <1>3
  <2> QED
    BY <2>1
<1> QED
  BY <1>3, <1>4

\* The positions that pass a test have a longest prefix.
LEMMA PrefixExists ==
  ASSUME NEW n \in Nat, NEW S
  PROVE  \E k \in 0..n : /\ \A i \in 1..k : i \in S
                         /\ k < n => k + 1 \notin S
<1> DEFINE T == {i \in 1..n : i \notin S}
<1>1. CASE T = {}
  BY <1>1
<1>2. CASE T # {}
  <2>1. PICK x \in T : \A y \in T : x <= y
    BY <1>2, LeastExists
  <2>2. x - 1 \in 0..n /\ \A i \in 1..(x - 1) : i \in S
    BY <2>1
  <2> QED
    BY <2>1, <2>2
<1> QED
  BY <1>1, <1>2

\* Induction over the subsets of a finite set, as a fact about a set G of them.
LEMMA SubsetInduction ==
  ASSUME NEW S, IsFiniteSet(S), NEW G,
         \A T \in SUBSET S : (\A U \in SUBSET T : U # T => U \in G) => T \in G
  PROVE  SUBSET S \subseteq G
<1> DEFINE Bad == (SUBSET S) \ G
<1>1. SUFFICES ASSUME Bad # {} PROVE FALSE
  OBVIOUS
<1>2. FiniteSubsetsOf(S) = SUBSET S
  BY FS_FiniteSubsetsOfFinite
<1>3. Bad \subseteq FiniteSubsetsOf(S)
  BY <1>2
<1> HIDE DEF Bad
<1>4. PICK T \in Bad : \A U \in Bad : ~(<<U, T>> \in StrictSubsetOrdering(S))
  BY <1>1, <1>3, WFMin, FS_StrictSubsetOrderingWellFounded
<1>5. T \in SUBSET S /\ T \notin G
  BY DEF Bad
<1>6. ASSUME NEW U \in SUBSET T, U # T PROVE U \in G
  <2>1. U \in SUBSET S
    BY <1>5
  <2>2. <<U, T>> \in StrictSubsetOrdering(S)
    BY <1>5, <1>6, <2>1 DEF StrictSubsetOrdering
  <2> QED
    BY <1>4, <2>1, <2>2 DEF Bad
<1> QED
  BY <1>5, <1>6

-----------------------------------------------------------------------------
(* Sums: SumFunctionOnSet of a finite set.                                 *)

Picked(s) == CHOOSE x \in s : TRUE

\* g gives the sum of f over every subset of A.
IsSum(g, f, A) ==
    g = [s \in SUBSET A |-> IF s = {} THEN 0 ELSE f[Picked(s)] + g[s \ {Picked(s)}]]

LEMMA PickedIs ==
  ASSUME NEW s, s # {}
  PROVE  Picked(s) \in s
  BY DEF Picked

LEMMA IsSumAt ==
  ASSUME NEW f, NEW A, NEW g, IsSum(g, f, A), NEW s \in SUBSET A
  PROVE  g[s] = IF s = {} THEN 0 ELSE f[Picked(s)] + g[s \ {Picked(s)}]
<1> DEFINE b(u) == IF u = {} THEN 0 ELSE f[Picked(u)] + g[u \ {Picked(u)}]
<1>1. g = [u \in SUBSET A |-> b(u)]
  BY DEF IsSum
<1> HIDE DEF b
<1>2. g[s] = b(s)
  BY <1>1
<1> QED
  BY <1>2 DEF b

LEMMA SumUnique ==
  ASSUME NEW f, NEW A, IsFiniteSet(A), NEW B, NEW g, NEW h,
         IsSum(g, f, A), IsSum(h, f, B), NEW s \in SUBSET A, s \in SUBSET B
  PROVE  g[s] = h[s]
<1> DEFINE G == {T \in SUBSET A : T \in SUBSET B => g[T] = h[T]}
<1>1. ASSUME NEW T \in SUBSET A, \A U \in SUBSET T : U # T => U \in G
      PROVE  T \in G
  <2> SUFFICES ASSUME T \in SUBSET B PROVE g[T] = h[T]
    OBVIOUS
  <2> DEFINE x == Picked(T)
  <2>1. CASE T = {}
    BY <2>1, IsSumAt
  <2>2. CASE T # {}
    <3>1. x \in T
      BY <2>2, PickedIs
    <3> HIDE DEF x
    <3>2. T \ {x} \in SUBSET T /\ T \ {x} # T /\ T \ {x} \in SUBSET B
      BY <3>1
    <3>3. g[T \ {x}] = h[T \ {x}]
      BY <1>1, <3>2
    <3>4. g[T] = f[x] + g[T \ {x}]
      BY <2>2, IsSumAt DEF x
    <3>5. h[T] = f[x] + h[T \ {x}]
      BY <2>2, IsSumAt DEF x
    <3> QED
      BY <3>3, <3>4, <3>5
  <2> QED
    BY <2>1, <2>2
<1> HIDE DEF G
<1>2. SUBSET A \subseteq G
  BY <1>1, SubsetInduction
<1> QED
  BY <1>2 DEF G

LEMMA SumExists ==
  ASSUME NEW f, NEW S, IsFiniteSet(S)
  PROVE  \E g : IsSum(g, f, S)
<1> DEFINE G == {T \in SUBSET S : \E g : IsSum(g, f, T)}
<1>1. ASSUME NEW T \in SUBSET S, \A U \in SUBSET T : U # T => U \in G
      PROVE  T \in G
  <2> DEFINE h(s) == CHOOSE g : IsSum(g, f, s)
             v(s) == IF s = {} THEN 0 ELSE f[Picked(s)] + h(s \ {Picked(s)})[s \ {Picked(s)}]
             g == [s \in SUBSET T |-> v(s)]
  <2>1. \A s \in SUBSET T : s # T => IsSum(h(s), f, s)
    BY <1>1
  <2>2. ASSUME NEW s \in SUBSET T, s # T PROVE h(s)[s] = v(s)
    <3> DEFINE x == Picked(s)
    <3>1. IsSum(h(s), f, s)
      BY <2>1, <2>2
    <3> HIDE DEF h
    <3>2. CASE s = {}
      BY <3>1, <3>2, IsSumAt
    <3>3. CASE s # {}
      <4>1. x \in s
        BY <3>3, PickedIs
      <4>2. h(s)[s] = f[x] + h(s)[s \ {x}]
        BY <3>1, <3>3, IsSumAt
      <4> HIDE DEF x
      <4>3. s \ {x} \in SUBSET s /\ s \ {x} \in SUBSET T /\ s \ {x} # T
        BY <4>1
      <4>4. IsSum(h(s \ {x}), f, s \ {x})
        BY <2>1, <4>3
      <4>5. IsFiniteSet(s)
        BY FS_Subset
      <4>6. h(s)[s \ {x}] = h(s \ {x})[s \ {x}]
        <5> DEFINE w == s \ {x}
                   ga == h(s)
                   gb == h(w)
        <5>1. IsSum(ga, f, s) /\ IsSum(gb, f, w) /\ w \in SUBSET s /\ w \in SUBSET w
          BY <3>1, <4>3, <4>4
        <5> HIDE DEF w, ga, gb
        <5>2. ga[w] = gb[w]
          BY <4>5, <5>1, SumUnique
        <5> QED
          BY <5>2 DEF w, ga, gb
      <4> QED
        BY <3>3, <4>2, <4>6 DEF x
    <3> QED
      BY <3>2, <3>3
  <2> HIDE DEF h
  <2>3. ASSUME NEW s \in SUBSET T
        PROVE  v(s) = IF s = {} THEN 0 ELSE f[Picked(s)] + g[s \ {Picked(s)}]
    <3>1. CASE s = {}
      BY <3>1
    <3>2. CASE s # {}
      <4> DEFINE x == Picked(s)
                 u == s \ {x}
      <4>1. x \in s
        BY <3>2, PickedIs
      <4>2. u \in SUBSET T /\ u # T
        BY <4>1
      <4> HIDE DEF u
      <4>3. h(u)[u] = v(u) /\ g[u] = v(u)
        BY <2>2, <4>2
      <4>4. v(s) = f[x] + h(u)[u]
        BY <3>2 DEF u
      <4> HIDE DEF v, g
      <4>5. v(s) = f[x] + g[u]
        BY <4>3, <4>4
      <4> QED
        BY <3>2, <4>5 DEF u
    <3> QED
      BY <3>1, <3>2
  <2>4. IsSum(g, f, T)
    <3> DEFINE b(s) == IF s = {} THEN 0 ELSE f[Picked(s)] + g[s \ {Picked(s)}]
    <3>1. \A s \in SUBSET T : v(s) = b(s)
      BY <2>3
    <3>2. g = [s \in SUBSET T |-> v(s)]
      OBVIOUS
    <3> HIDE DEF v, b, g
    <3>3. g = [s \in SUBSET T |-> b(s)]
      BY <3>1, <3>2
    <3> QED
      BY <3>3 DEF b, IsSum
  <2> QED
    BY <2>4
<1> HIDE DEF G
<1>2. SUBSET S \subseteq G
  BY <1>1, SubsetInduction
<1> QED
  BY <1>2 DEF G

\* The definition of a sum, unfolded once.
LEMMA SumUnfolds ==
  ASSUME NEW f, NEW S, IsFiniteSet(S)
  PROVE  SumFunctionOnSet(f, S) = IF S = {} THEN 0
                                  ELSE f[Picked(S)] + SumFunctionOnSet(f, S \ {Picked(S)})
<1>1. ASSUME NEW T, IsFiniteSet(T)
      PROVE  \E g : IsSum(g, f, T) /\ SumFunctionOnSet(f, T) = g[T]
  <2> DEFINE iter[s \in SUBSET T] ==
               IF s = {} THEN 0
               ELSE LET x == CHOOSE x \in s : TRUE IN f[x] + iter[s \ {x}]
  <2>1. SumFunctionOnSet(f, T) = iter[T]
    BY DEF SumFunctionOnSet, FoldFunctionOnSet, MapThenFoldSet
  <2>2. \E g : g = [s \in SUBSET T |->
                      IF s = {} THEN 0 ELSE f[Picked(s)] + g[s \ {Picked(s)}]]
    <3> HIDE DEF iter
    <3>1. PICK g : IsSum(g, f, T)
      BY <1>1, SumExists
    <3>2. g = [s \in SUBSET T |-> IF s = {} THEN 0 ELSE f[Picked(s)] + g[s \ {Picked(s)}]]
      BY <3>1, Zenon DEF IsSum
    <3> QED
      BY <3>2, Zenon
  <2>3. iter = [s \in SUBSET T |->
                  IF s = {} THEN 0 ELSE f[Picked(s)] + iter[s \ {Picked(s)}]]
    BY <2>2 DEF Picked
  <2> HIDE DEF iter
  <2>4. IsSum(iter, f, T)
    BY <2>3 DEF IsSum
  <2> QED
    BY <2>1, <2>4
<1>2. PICK g : IsSum(g, f, S) /\ SumFunctionOnSet(f, S) = g[S]
  BY <1>1
<1>3. CASE S = {}
  BY <1>2, <1>3, IsSumAt
<1>4. CASE S # {}
  <2> DEFINE x == Picked(S)
             U == S \ {x}
  <2>1. x \in S
    BY <1>4, PickedIs
  <2>2. IsFiniteSet(U) /\ U \in SUBSET S /\ U \in SUBSET U
    BY FS_Subset
  <2>3. g[S] = f[x] + g[U]
    BY <1>2, <1>4, IsSumAt
  <2> HIDE DEF U
  <2>4. PICK h : IsSum(h, f, U) /\ SumFunctionOnSet(f, U) = h[U]
    BY <1>1, <2>2
  <2>5. g[U] = h[U]
    BY <1>2, <2>2, <2>4, SumUnique
  <2> QED
    BY <1>2, <1>4, <2>3, <2>4, <2>5 DEF U
<1> QED
  BY <1>3, <1>4

LEMMA SumOfNone ==
  ASSUME NEW f
  PROVE  SumFunctionOnSet(f, {}) = 0
  BY SumUnfolds, FS_EmptySet

LEMMA SumIsInt ==
  ASSUME NEW f, NEW S, IsFiniteSet(S), \A x \in S : f[x] \in Int
  PROVE  SumFunctionOnSet(f, S) \in Int
<1> DEFINE G == {T \in SUBSET S : SumFunctionOnSet(f, T) \in Int}
<1>1. ASSUME NEW T \in SUBSET S, \A U \in SUBSET T : U # T => U \in G
      PROVE  T \in G
  <2>1. CASE T = {}
    BY <2>1, SumOfNone
  <2>2. CASE T # {}
    <3> DEFINE x == Picked(T)
               U == T \ {x}
    <3>1. x \in T /\ IsFiniteSet(T)
      BY <2>2, PickedIs, FS_Subset
    <3>2. SumFunctionOnSet(f, T) = f[x] + SumFunctionOnSet(f, U)
      BY <2>2, <3>1, SumUnfolds
    <3>3. U \in SUBSET T /\ U # T
      BY <3>1
    <3> HIDE DEF x, U
    <3>4. SumFunctionOnSet(f, U) \in Int /\ f[x] \in Int
      BY <1>1, <3>1, <3>3
    <3> QED
      BY <3>2, <3>4
  <2> QED
    BY <2>1, <2>2
<1> HIDE DEF G
<1>2. SUBSET S \subseteq G
  BY <1>1, SubsetInduction
<1> QED
  BY <1>2 DEF G

\* Any element may be taken out of a sum first.
LEMMA SumTake ==
  ASSUME NEW f, NEW S, IsFiniteSet(S), \A x \in S : f[x] \in Int, NEW y \in S
  PROVE  SumFunctionOnSet(f, S) = f[y] + SumFunctionOnSet(f, S \ {y})
<1> DEFINE Sum(T) == SumFunctionOnSet(f, T)
           G == {T \in SUBSET S : \A z \in T : Sum(T) = f[z] + Sum(T \ {z})}
<1>0. \A T \in SUBSET S : IsFiniteSet(T) /\ Sum(T) \in Int
  <2> SUFFICES ASSUME NEW T \in SUBSET S PROVE IsFiniteSet(T) /\ Sum(T) \in Int
    OBVIOUS
  <2>1. IsFiniteSet(T)
    BY FS_Subset
  <2> QED
    BY <2>1, SumIsInt
<1>1. ASSUME NEW T \in SUBSET S, \A U \in SUBSET T : U # T => U \in G
      PROVE  T \in G
  <2> SUFFICES ASSUME NEW z \in T PROVE Sum(T) = f[z] + Sum(T \ {z})
    OBVIOUS
  <2> DEFINE x == Picked(T)
  <2>1. x \in T /\ Sum(T) = f[x] + Sum(T \ {x})
    BY <1>0, PickedIs, SumUnfolds
  <2> HIDE DEF x
  <2>2. CASE x = z
    BY <2>1, <2>2
  <2>3. CASE x # z
    <3> DEFINE U == T \ {x}
               V == T \ {z}
               R == T \ {x, z}
    <3>1. /\ U \in SUBSET T /\ U # T /\ V \in SUBSET T /\ V # T /\ R \in SUBSET S
          /\ z \in U /\ x \in V /\ U \ {z} = R /\ V \ {x} = R
      BY <2>1, <2>3
    <3>2. U \in G /\ V \in G
      BY <1>1, <3>1
    <3> HIDE DEF Sum, U, V, R
    <3>3. Sum(U) = f[z] + Sum(U \ {z}) /\ Sum(V) = f[x] + Sum(V \ {x})
      BY <3>1, <3>2
    <3>4. Sum(U) = f[z] + Sum(R) /\ Sum(V) = f[x] + Sum(R)
      BY <3>1, <3>3
    <3>5. f[x] \in Int /\ f[z] \in Int /\ Sum(R) \in Int
      BY <1>0, <2>1, <3>1
    <3>6. Sum(T) = f[x] + Sum(U)
      BY <2>1 DEF U
    <3>7. Sum(T) = f[z] + Sum(V)
      BY <3>4, <3>5, <3>6
    <3> QED
      BY <3>7 DEF V, Sum
  <2> QED
    BY <2>2, <2>3
<1> HIDE DEF G
<1>2. SUBSET S \subseteq G
  BY <1>1, SubsetInduction
<1> QED
  BY <1>2 DEF G

\* The sum of what is the sum of two things at each point.
LEMMA SumOfSums ==
  ASSUME NEW f, NEW g, NEW h, NEW S, IsFiniteSet(S),
         \A x \in S : g[x] \in Int /\ h[x] \in Int /\ f[x] = g[x] + h[x]
  PROVE  SumFunctionOnSet(f, S) = SumFunctionOnSet(g, S) + SumFunctionOnSet(h, S)
<1> DEFINE G == {T \in SUBSET S : SumFunctionOnSet(f, T)
                                  = SumFunctionOnSet(g, T) + SumFunctionOnSet(h, T)}
<1>1. ASSUME NEW T \in SUBSET S, \A U \in SUBSET T : U # T => U \in G
      PROVE  T \in G
  <2>1. CASE T = {}
    BY <2>1, SumOfNone
  <2>2. CASE T # {}
    <3>1. IsFiniteSet(T)
      BY FS_Subset
    <3> DEFINE x == Picked(T)
               U == T \ {x}
    <3>2. x \in T /\ U \in SUBSET T /\ U # T
      BY <2>2, PickedIs
    <3>3. IsFiniteSet(U) /\ \A y \in U : g[y] \in Int /\ h[y] \in Int
      BY <3>1, FS_Subset
    <3>4. /\ SumFunctionOnSet(f, T) = f[x] + SumFunctionOnSet(f, U)
          /\ SumFunctionOnSet(g, T) = g[x] + SumFunctionOnSet(g, U)
          /\ SumFunctionOnSet(h, T) = h[x] + SumFunctionOnSet(h, U)
      BY <2>2, <3>1, SumUnfolds
    <3> HIDE DEF x, U
    <3>5. SumFunctionOnSet(g, U) \in Int /\ SumFunctionOnSet(h, U) \in Int
      BY <3>3, SumIsInt
    <3>6. SumFunctionOnSet(f, U) = SumFunctionOnSet(g, U) + SumFunctionOnSet(h, U)
      BY <1>1, <3>2
    <3>7. g[x] \in Int /\ h[x] \in Int /\ f[x] = g[x] + h[x]
      BY <3>2
    <3> QED
      BY <3>4, <3>5, <3>6, <3>7
  <2> QED
    BY <2>1, <2>2
<1> HIDE DEF G
<1>2. SUBSET S \subseteq G
  BY <1>1, SubsetInduction
<1> QED
  BY <1>2 DEF G

\* Sums of the same numbers; and without those that are zero.
LEMMA SumSame ==
  ASSUME NEW f, NEW g, NEW S, IsFiniteSet(S), NEW R \in SUBSET S,
         \A x \in R : f[x] \in Int /\ g[x] = f[x], \A x \in S \ R : g[x] = 0
  PROVE  SumFunctionOnSet(g, S) = SumFunctionOnSet(f, R)
<1> DEFINE G == {T \in SUBSET S : SumFunctionOnSet(g, T) = SumFunctionOnSet(f, T \cap R)}
<1>1. ASSUME NEW T \in SUBSET S, \A U \in SUBSET T : U # T => U \in G
      PROVE  T \in G
  <2>1. CASE T = {}
    BY <2>1, SumOfNone
  <2>2. CASE T # {}
    <3>1. IsFiniteSet(T) /\ IsFiniteSet(T \cap R)
      BY FS_Subset
    <3> DEFINE x == Picked(T)
               U == T \ {x}
    <3>2. x \in T /\ U \in SUBSET T /\ U # T
      BY <2>2, PickedIs
    <3>3. SumFunctionOnSet(g, T) = g[x] + SumFunctionOnSet(g, U)
      BY <2>2, <3>1, SumUnfolds
    <3> HIDE DEF x
    <3>4. SumFunctionOnSet(g, U) = SumFunctionOnSet(f, U \cap R)
      BY <1>1, <3>2
    <3>5. SumFunctionOnSet(f, U \cap R) \in Int
      <4>1. IsFiniteSet(U \cap R) /\ \A y \in U \cap R : f[y] \in Int
        BY <3>1, FS_Subset
      <4> HIDE DEF U
      <4> QED
        BY <4>1, SumIsInt
    <3>6. CASE x \in R
      <4> DEFINE Q == T \cap R
      <4>1. x \in Q /\ Q \ {x} = U \cap R /\ \A y \in Q : f[y] \in Int
        BY <3>2, <3>6
      <4>2. IsFiniteSet(Q)
        BY <3>1
      <4> HIDE DEF Q, U
      <4>3. SumFunctionOnSet(f, Q) = f[x] + SumFunctionOnSet(f, Q \ {x})
        BY <4>1, <4>2, SumTake
      <4>4. g[x] = f[x]
        BY <3>6
      <4> QED
        BY <3>3, <3>4, <4>1, <4>3, <4>4 DEF Q
    <3>7. CASE x \notin R
      <4>1. U \cap R = T \cap R /\ g[x] = 0
        BY <3>2, <3>7
      <4> DEFINE b == SumFunctionOnSet(f, U \cap R)
      <4>2. b \in Int /\ SumFunctionOnSet(g, T) = 0 + b
        BY <3>3, <3>4, <3>5, <4>1
      <4>3. b = SumFunctionOnSet(f, T \cap R)
        BY <4>1
      <4> HIDE DEF b
      <4>4. SumFunctionOnSet(g, T) = SumFunctionOnSet(f, T \cap R)
        BY <4>2, <4>3
      <4> QED
        BY <4>4
    <3> QED
      BY <3>6, <3>7
  <2> QED
    BY <2>1, <2>2
<1> HIDE DEF G
<1>2. SUBSET S \subseteq G
  BY <1>1, SubsetInduction
<1>3. S \cap R = R
  OBVIOUS
<1> QED
  BY <1>2, <1>3 DEF G

LEMMA SumIsNat ==
  ASSUME NEW f, NEW S, IsFiniteSet(S), \A x \in S : f[x] \in Nat
  PROVE  /\ SumFunctionOnSet(f, S) \in Nat
         /\ \A y \in S : f[y] <= SumFunctionOnSet(f, S)
<1> DEFINE G == {T \in SUBSET S : SumFunctionOnSet(f, T) \in Nat}
<1>1. ASSUME NEW T \in SUBSET S, \A U \in SUBSET T : U # T => U \in G
      PROVE  T \in G
  <2>1. CASE T = {}
    BY <2>1, SumOfNone
  <2>2. CASE T # {}
    <3> DEFINE x == Picked(T)
               U == T \ {x}
    <3>1. x \in T /\ IsFiniteSet(T)
      BY <2>2, PickedIs, FS_Subset
    <3>2. SumFunctionOnSet(f, T) = f[x] + SumFunctionOnSet(f, U)
      BY <2>2, <3>1, SumUnfolds
    <3>3. U \in SUBSET T /\ U # T
      BY <3>1
    <3> HIDE DEF x, U
    <3>4. SumFunctionOnSet(f, U) \in Nat /\ f[x] \in Nat
      BY <1>1, <3>1, <3>3
    <3> QED
      BY <3>2, <3>4
  <2> QED
    BY <2>1, <2>2
<1> HIDE DEF G
<1>2. SUBSET S \subseteq G
  BY <1>1, SubsetInduction
<1>3. \A T \in SUBSET S : SumFunctionOnSet(f, T) \in Nat
  BY <1>2 DEF G
<1>4. ASSUME NEW y \in S PROVE f[y] <= SumFunctionOnSet(f, S)
  <2>1. \A x \in S : f[x] \in Int
    OBVIOUS
  <2>2. SumFunctionOnSet(f, S) = f[y] + SumFunctionOnSet(f, S \ {y})
    BY <2>1, SumTake
  <2>3. f[y] \in Nat /\ SumFunctionOnSet(f, S \ {y}) \in Nat
    BY <1>3
  <2> QED
    BY <2>2, <2>3
<1> QED
  BY <1>3, <1>4

\* A sum over the indexes of distinct things is the sum over the things.
LEMMA SumOverImage ==
  ASSUME NEW f, NEW g, NEW m, NEW S, IsFiniteSet(S),
         \A x, y \in S : m[x] = m[y] => x = y,
         \A x \in S : f[x] \in Int /\ g[m[x]] = f[x]
  PROVE  SumFunctionOnSet(g, {m[x] : x \in S}) = SumFunctionOnSet(f, S)
<1> DEFINE Im(T) == {m[x] : x \in T}
           G == {T \in SUBSET S : SumFunctionOnSet(g, Im(T)) = SumFunctionOnSet(f, T)}
<1>1. ASSUME NEW T \in SUBSET S, \A U \in SUBSET T : U # T => U \in G
      PROVE  T \in G
  <2>1. CASE T = {}
    <3>1. Im(T) = {}
      BY <2>1
    <3> QED
      BY <2>1, <3>1, SumOfNone
  <2>2. CASE T # {}
    <3> DEFINE x == Picked(T)
               U == T \ {x}
               I == Im(T)
    <3>1. x \in T /\ IsFiniteSet(T) /\ IsFiniteSet(I)
      <4>1. IsFiniteSet(T)
        BY FS_Subset
      <4>2. x \in T
        BY <2>2, PickedIs
      <4> HIDE DEF x
      <4>3. [y \in T |-> m[y]] \in Bijection(T, I)
        BY DEF Bijection, Injection, Surjection, IsInjective
      <4>4. ExistsBijection(T, I)
        BY <4>3 DEF ExistsBijection
      <4> HIDE DEF I
      <4>5. IsFiniteSet(I)
        BY <4>1, <4>4, FS_Bijection
      <4> QED
        BY <4>1, <4>2, <4>5
    <3>2. SumFunctionOnSet(f, T) = f[x] + SumFunctionOnSet(f, U)
      BY <2>2, <3>1, SumUnfolds
    <3> HIDE DEF x
    <3>3. U \in SUBSET T /\ U # T
      BY <3>1
    <3>4. m[x] \in I /\ I \ {m[x]} = Im(U) /\ \A y \in I : g[y] \in Int
      BY <3>1
    <3>5. SumFunctionOnSet(g, Im(U)) = SumFunctionOnSet(f, U)
      BY <1>1, <3>3
    <3> HIDE DEF I, U, Im
    <3>6. SumFunctionOnSet(g, I) = g[m[x]] + SumFunctionOnSet(g, I \ {m[x]})
      BY <3>1, <3>4, SumTake
    <3>7. g[m[x]] = f[x]
      BY <3>1
    <3>8. SumFunctionOnSet(g, I) = SumFunctionOnSet(f, T)
      BY <3>2, <3>4, <3>5, <3>6, <3>7
    <3> QED
      BY <3>8 DEF I
  <2> QED
    BY <2>1, <2>2
<1> HIDE DEF G
<1>2. SUBSET S \subseteq G
  BY <1>1, SubsetInduction
<1> QED
  BY <1>2 DEF G

\* No more things are counted than there are, if nothing is counted twice.
LEMMA SumOfSizes ==
  ASSUME NEW f, NEW A, NEW S, IsFiniteSet(S), NEW B, IsFiniteSet(B),
         \A x \in S : A[x] \in SUBSET B /\ f[x] \in Nat /\ f[x] <= Cardinality(A[x]),
         \A x, y \in S : x # y => A[x] \cap A[y] = {}
  PROVE  SumFunctionOnSet(f, S) <= Cardinality(B)
<1> DEFINE All(T) == UNION {A[x] : x \in T}
           G == {T \in SUBSET S : SumFunctionOnSet(f, T) <= Cardinality(All(T))}
<1>0. \A C \in SUBSET B : IsFiniteSet(C) /\ Cardinality(C) \in Nat /\ Cardinality(C) <= Cardinality(B)
  BY FS_Subset, FS_CardinalityType
<1>1. ASSUME NEW T \in SUBSET S, \A U \in SUBSET T : U # T => U \in G
      PROVE  T \in G
  <2>1. CASE T = {}
    <3>1. All(T) = {}
      BY <2>1
    <3>2. SumFunctionOnSet(f, T) = 0
      BY <2>1, SumOfNone
    <3>3. Cardinality(All(T)) = 0
      BY <3>1, FS_EmptySet
    <3>4. T \in SUBSET S
      OBVIOUS
    <3> QED
      BY <3>2, <3>3, <3>4
  <2>2. CASE T # {}
    <3> DEFINE x == Picked(T)
               U == T \ {x}
    <3>1. x \in T /\ IsFiniteSet(T)
      BY <2>2, PickedIs, FS_Subset
    <3>2. SumFunctionOnSet(f, T) = f[x] + SumFunctionOnSet(f, U)
      BY <2>2, <3>1, SumUnfolds
    <3> HIDE DEF x
    <3>3. U \in SUBSET T /\ U # T /\ IsFiniteSet(U) /\ \A y \in U : f[y] \in Nat
      BY <3>1, FS_Subset
    <3>4. /\ A[x] \cap All(U) = {} /\ All(T) = A[x] \cup All(U)
          /\ A[x] \in SUBSET B /\ All(U) \in SUBSET B /\ All(T) \in SUBSET B
      BY <3>1
    <3>5. SumFunctionOnSet(f, U) <= Cardinality(All(U))
      BY <1>1, <3>3
    <3> HIDE DEF U, All
    <3>6. SumFunctionOnSet(f, U) \in Nat
      BY <3>3, SumIsNat
    <3> DEFINE a == A[x]
               b == All(U)
    <3>7. a \cap b = {} /\ IsFiniteSet(a) /\ IsFiniteSet(b) /\ Cardinality(a) \in Nat
          /\ Cardinality(b) \in Nat
      BY <1>0, <3>4
    <3> HIDE DEF a, b
    <3>8. Cardinality(a \cup b) = Cardinality(a) + Cardinality(b)
      <4>1. Cardinality(a \cap b) = 0
        BY <3>7, FS_EmptySet
      <4>2. Cardinality(a \cup b) = Cardinality(a) + Cardinality(b) - Cardinality(a \cap b)
        BY <3>7, FS_Union
      <4> QED
        BY <3>7, <4>1, <4>2
    <3>9. f[x] \in Nat /\ f[x] <= Cardinality(a)
      BY <3>1 DEF a
    <3>10. SumFunctionOnSet(f, T) <= Cardinality(a \cup b)
      BY <3>2, <3>5, <3>6, <3>7, <3>8, <3>9 DEF b
    <3> QED
      BY <3>4, <3>10 DEF a, b
  <2> QED
    BY <2>1, <2>2
<1>2. SUBSET S \subseteq G
  <2> HIDE DEF G
  <2> QED
    BY <1>1, SubsetInduction
<1>3. SumFunctionOnSet(f, S) <= Cardinality(All(S)) /\ All(S) \in SUBSET B
  BY <1>2
<1>4. SumFunctionOnSet(f, S) \in Nat /\ Cardinality(B) \in Nat
  BY SumIsNat, FS_CardinalityType
<1> HIDE DEF All
<1> QED
  BY <1>0, <1>3, <1>4

=============================================================================
