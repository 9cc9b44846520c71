---------------------------- MODULE SumTheorems ----------------------------
(***************************************************************************)
(* Lemmas about MapThenSumSet, the sum of the community modules, over a    *)
(* finite set.  It is a recursive function on the subsets of the set; an   *)
(* induction is made by taking a smallest counterexample, a number or a    *)
(* set, in a well-founded order (theorem WFMin).                           *)
(***************************************************************************)
EXTENDS Integers, FiniteSetsExt, FiniteSetTheorems, WellFoundedInduction, TLAPS

\* The element a sum takes out of a set next, and the sums of all subsets of S
\* in terms of those of smaller ones.
Pick(T) == CHOOSE x \in T : TRUE

Step(g, f, S) ==
    [T \in SUBSET S |-> IF T = {} THEN 0 ELSE f[Pick(T)] + g[T \ {Pick(T)}]]

Sums(f, S) == CHOOSE g : g = Step(g, f, S)

Total(f, S) == MapThenSumSet(LAMBDA x : f[x], S)

LEMMA TotalUnfolds ==
    ASSUME NEW S, NEW f
    PROVE  Total(f, S) = Sums(f, S)[S]
  BY DEF Total, Sums, Step, Pick, MapThenSumSet, MapThenFoldSet

LEMMA PickIn ==
    ASSUME NEW T, T # {}
    PROVE  Pick(T) \in T
  BY DEF Pick

\* Two ways to take a smallest counterexample.
LEMMA LeastNumber ==
    ASSUME NEW B \in SUBSET Nat, B # {}
    PROVE  \E n \in B : \A m \in B : n <= m
  <1>1. \E n \in B : \A m \in B : ~ (<<m, n>> \in OpToRel(<, Nat))
    BY NatLessThanWellFounded, WFMin
  <1>2. PICK n \in B : \A m \in B : ~ (<<m, n>> \in OpToRel(<, Nat))
    BY <1>1
  <1>3. ASSUME NEW m \in B PROVE n <= m
    <2>1. m \in Nat /\ n \in Nat
      OBVIOUS
    <2>2. ~ (<<m, n>> \in OpToRel(<, Nat))
      BY <1>2
    <2> QED BY <2>1, <2>2 DEF OpToRel
  <1> QED BY <1>3

LEMMA LeastSet ==
    ASSUME NEW S, IsFiniteSet(S), NEW B \in SUBSET (SUBSET S), B # {}
    PROVE  \E T \in B : \A U \in B : U \subseteq T => U = T
  <1>1. IsWellFoundedOn(StrictSubsetOrdering(S), SUBSET S)
    BY FS_StrictSubsetOrderingWellFounded, FS_FiniteSubsetsOfFinite
  <1>2. PICK T \in B : \A U \in B : ~ (<<U, T>> \in StrictSubsetOrdering(S))
    BY <1>1, WFMin
  <1>3. ASSUME NEW U \in B, U \subseteq T PROVE U = T
    <2>1. U \in SUBSET S /\ T \in SUBSET S
      OBVIOUS
    <2>2. <<U, T>> \notin StrictSubsetOrdering(S)
      BY <1>2
    <2> QED BY <1>3, <2>1, <2>2 DEF StrictSubsetOrdering
  <1> QED BY <1>3

\* The recursion has a solution: one for sets of up to n elements is one for
\* n + 1 once its values there are set right.
LEMMA SolutionExists ==
    ASSUME NEW S, IsFiniteSet(S), NEW f \in [S -> Int]
    PROVE  \E g \in [SUBSET S -> Int] : g = Step(g, f, S)
  <1> DEFINE Upto(g, n) ==
                \A T \in SUBSET S : Cardinality(T) <= n => g[T] = Step(g, f, S)[T]
             Bad == {n \in Nat : ~ \E g \in [SUBSET S -> Int] : Upto(g, n)}
  <1>0. \A T \in SUBSET S : IsFiniteSet(T) /\ Cardinality(T) \in Nat
                            /\ Cardinality(T) <= Cardinality(S)
    BY FS_Subset, FS_CardinalityType
  <1>1. ASSUME NEW g \in [SUBSET S -> Int] PROVE Step(g, f, S) \in [SUBSET S -> Int]
    <2>1. ASSUME NEW T \in SUBSET S, T # {}
          PROVE  f[Pick(T)] + g[T \ {Pick(T)}] \in Int
      BY <2>1, PickIn
    <2> QED BY <2>1 DEF Step
  <1>2. Bad = {}
    <2> SUFFICES ASSUME Bad # {} PROVE FALSE
      OBVIOUS
    <2>1. PICK n \in Bad : \A m \in Bad : n <= m
      <3>1. Bad \in SUBSET Nat
        OBVIOUS
      <3> HIDE DEF Bad
      <3> QED BY <3>1, LeastNumber
    <2>2. n \in Nat /\ ~ \E g \in [SUBSET S -> Int] : Upto(g, n)
      OBVIOUS
    <2>3. CASE n = 0
      <3> DEFINE g == [T \in SUBSET S |-> 0]
      <3>1. g \in [SUBSET S -> Int]
        OBVIOUS
      <3>2. ASSUME NEW T \in SUBSET S, Cardinality(T) <= n
            PROVE  g[T] = Step(g, f, S)[T]
        <4>1. T = {}
          BY <1>0, <2>3, <3>2, FS_EmptySet
        <4> QED BY <4>1 DEF Step
      <3>3. Upto(g, n)
        BY <3>2
      <3> QED BY <2>2, <3>1, <3>3
    <2>4. CASE n # 0
      <3>1. n - 1 \in Nat /\ n - 1 \notin Bad
        <4>1. n \in Nat /\ n - 1 \in Nat
          BY <2>2, <2>4
        <4> HIDE DEF Bad
        <4> QED BY <2>1, <4>1
      <3>2. PICK g \in [SUBSET S -> Int] : Upto(g, n - 1)
        BY <3>1
      <3> DEFINE h == Step(g, f, S)
      <3>3. h \in [SUBSET S -> Int]
        BY <1>1
      <3>4. \A T \in SUBSET S : Cardinality(T) <= n - 1 => g[T] = h[T]
        BY <3>2
      <3>5. ASSUME NEW T \in SUBSET S, Cardinality(T) <= n
            PROVE  h[T] = Step(h, f, S)[T]
        <4>1. CASE T = {}
          BY <4>1 DEF Step
        <4>2. CASE T # {}
          <5> DEFINE U == T \ {Pick(T)}
          <5>1. U \in SUBSET S /\ Cardinality(U) = Cardinality(T) - 1
            BY <1>0, <4>2, PickIn, FS_RemoveElement
          <5>2. g[U] = h[U]
            BY <1>0, <2>2, <3>4, <3>5, <5>1
          <5>3. h[T] = f[Pick(T)] + g[U]
            BY <4>2 DEF Step
          <5>4. Step(h, f, S)[T] = f[Pick(T)] + h[U]
            BY <4>2 DEF Step
          <5> QED BY <5>2, <5>3, <5>4
        <4> QED BY <4>1, <4>2
      <3> HIDE DEF h
      <3>6. Upto(h, n)
        BY <3>5
      <3> QED BY <2>2, <3>3, <3>6
    <2> QED BY <2>3, <2>4
  <1>3. Cardinality(S) \in Nat
    BY FS_CardinalityType
  <1>4. PICK g \in [SUBSET S -> Int] : Upto(g, Cardinality(S))
    BY <1>2, <1>3
  <1>5. Step(g, f, S) \in [SUBSET S -> Int]
    BY <1>1
  <1>6. \A T \in SUBSET S : g[T] = Step(g, f, S)[T]
    BY <1>0, <1>4
  <1>7. g = Step(g, f, S)
    BY <1>5, <1>6
  <1> QED BY <1>7

\* Any solution has integer values: a smallest set where it has not would be
\* the sum of an integer and the value of a smaller set.
LEMMA SolutionsAre ==
    ASSUME NEW S, IsFiniteSet(S), NEW f \in [S -> Int], NEW g, g = Step(g, f, S)
    PROVE  g \in [SUBSET S -> Int]
  <1> DEFINE Bad == {T \in SUBSET S : g[T] \notin Int}
  <1>1. Bad = {}
    <2> SUFFICES ASSUME Bad # {} PROVE FALSE
      OBVIOUS
    <2>1. PICK T \in Bad : \A U \in Bad : U \subseteq T => U = T
      <3>1. Bad \in SUBSET (SUBSET S)
        OBVIOUS
      <3> HIDE DEF Bad
      <3> QED BY <3>1, LeastSet
    <2>2. T \in SUBSET S /\ g[T] \notin Int
      OBVIOUS
    <2>3. g[T] = IF T = {} THEN 0 ELSE f[Pick(T)] + g[T \ {Pick(T)}]
      BY <2>2 DEF Step
    <2>4. T # {}
      BY <2>2, <2>3
    <2>5. Pick(T) \in T
      BY <2>4, PickIn
    <2>6. T \ {Pick(T)} \in SUBSET S /\ T \ {Pick(T)} \notin Bad
      BY <2>1, <2>2, <2>5
    <2> QED BY <2>2, <2>3, <2>4, <2>5, <2>6
  <1>2. \A T \in SUBSET S : g[T] \in Int
    BY <1>1
  <1>3. g = [T \in SUBSET S |-> g[T]]
    BY DEF Step
  <1> QED BY <1>2, <1>3

LEMMA SumsSolve ==
    ASSUME NEW S, IsFiniteSet(S), NEW f \in [S -> Int]
    PROVE  /\ Sums(f, S) = Step(Sums(f, S), f, S)
           /\ Sums(f, S) \in [SUBSET S -> Int]
  <1>1. \E g : g = Step(g, f, S)
    BY SolutionExists
  <1>2. Sums(f, S) = Step(Sums(f, S), f, S)
    BY <1>1 DEF Sums
  <1> QED BY <1>2, SolutionsAre

\* Two solutions for functions that differ by d in x differ by d on the sets
\* that x is in.
LEMMA SolutionsDiffer ==
    ASSUME NEW S, IsFiniteSet(S), NEW f \in [S -> Int], NEW h \in [S -> Int],
           NEW x \in S, NEW d \in Int, h[x] = f[x] + d,
           \A y \in S : y # x => h[y] = f[y],
           NEW g, g = Step(g, f, S), NEW k, k = Step(k, h, S)
    PROVE  \A T \in SUBSET S : k[T] = g[T] + (IF x \in T THEN d ELSE 0)
  <1> DEFINE Bad == {T \in SUBSET S : k[T] # g[T] + (IF x \in T THEN d ELSE 0)}
  <1>1. Bad = {}
    <2> SUFFICES ASSUME Bad # {} PROVE FALSE
      OBVIOUS
    <2>1. PICK T \in Bad : \A U \in Bad : U \subseteq T => U = T
      <3>1. Bad \in SUBSET (SUBSET S)
        OBVIOUS
      <3> HIDE DEF Bad
      <3> QED BY <3>1, LeastSet
    <2>2. T \in SUBSET S /\ k[T] # g[T] + (IF x \in T THEN d ELSE 0)
      OBVIOUS
    <2> DEFINE y == Pick(T)
               U == T \ {y}
    <2>3. g[T] = (IF T = {} THEN 0 ELSE f[y] + g[U])
          /\ k[T] = (IF T = {} THEN 0 ELSE h[y] + k[U])
      BY <2>2 DEF Step
    <2>4. T # {}
      BY <2>2, <2>3
    <2>5. y \in T /\ y \in S
      BY <2>2, <2>4, PickIn
    <2>6. U \in SUBSET S /\ U \notin Bad
      BY <2>1, <2>2, <2>5
    <2>7. k[U] = g[U] + (IF x \in U THEN d ELSE 0)
      BY <2>6
    <2>8. g[U] \in Int /\ k[U] \in Int
      <3>1. g \in [SUBSET S -> Int]
        BY SolutionsAre
      <3>2. k \in [SUBSET S -> Int]
        BY SolutionsAre
      <3> QED BY <2>6, <3>1, <3>2
    <2>9. f[y] \in Int /\ h[y] \in Int
      BY <2>5
    <2> HIDE DEF Bad
    <2>10. CASE x = y
      <3>1. x \notin U /\ x \in T /\ h[y] = f[y] + d
        BY <2>5, <2>10
      <3> HIDE DEF U, y
      <3> QED BY <2>2, <2>3, <2>4, <2>7, <2>8, <2>9, <3>1
    <2>11. CASE x # y
      <3>1. (x \in U <=> x \in T) /\ h[y] = f[y]
        BY <2>5, <2>11
      <3> HIDE DEF U, y
      <3> QED BY <2>2, <2>3, <2>4, <2>7, <2>8, <2>9, <3>1
    <2> QED BY <2>10, <2>11
  <1> QED BY <1>1

-----------------------------------------------------------------------------

LEMMA TotalType ==
    ASSUME NEW S, IsFiniteSet(S), NEW f \in [S -> Int]
    PROVE  Total(f, S) \in Int
  BY TotalUnfolds, SumsSolve

\* What one point adds, the sum adds.
LEMMA TotalChanged ==
    ASSUME NEW S, IsFiniteSet(S), NEW f \in [S -> Int], NEW h \in [S -> Int],
           NEW x \in S, NEW d \in Int, h[x] = f[x] + d,
           \A y \in S : y # x => h[y] = f[y]
    PROVE  Total(h, S) = Total(f, S) + d
  <1> DEFINE g == Sums(f, S)
             k == Sums(h, S)
  <1>1. g = Step(g, f, S) /\ k = Step(k, h, S)
    BY SumsSolve
  <1> HIDE DEF g, k
  <1>2. k[S] = g[S] + (IF x \in S THEN d ELSE 0)
    BY <1>1, SolutionsDiffer
  <1>3. Total(f, S) = g[S] /\ Total(h, S) = k[S]
    BY TotalUnfolds DEF g, k
  <1> QED BY <1>2, <1>3
LEMMA TotalZero ==
    ASSUME NEW S, IsFiniteSet(S)
    PROVE  Total([x \in S |-> 0], S) = 0
  <1> DEFINE f == [x \in S |-> 0]
             k == Sums(f, S)
  <1>1. f \in [S -> Int]
    OBVIOUS
  <1>2. k = Step(k, f, S) /\ k \in [SUBSET S -> Int]
    BY <1>1, SumsSolve
  <1> HIDE DEF k
  <1>3. \A T \in SUBSET S : k[T] = 0
    <2> DEFINE Bad == {T \in SUBSET S : k[T] # 0}
    <2> SUFFICES ASSUME Bad # {} PROVE FALSE
      OBVIOUS
    <2>1. PICK T \in Bad : \A U \in Bad : U \subseteq T => U = T
      <3>1. Bad \in SUBSET (SUBSET S)
        OBVIOUS
      <3> HIDE DEF Bad
      <3> QED BY <3>1, LeastSet
    <2>2. T \in SUBSET S /\ k[T] # 0
      OBVIOUS
    <2>3. k[T] = IF T = {} THEN 0 ELSE f[Pick(T)] + k[T \ {Pick(T)}]
      BY <1>2, <2>2 DEF Step
    <2>4. T # {} /\ Pick(T) \in T
      BY <2>2, <2>3, PickIn
    <2>5. T \ {Pick(T)} \in SUBSET S /\ T \ {Pick(T)} \notin Bad
      BY <2>1, <2>2, <2>4
    <2>6. f[Pick(T)] = 0
      BY <2>2, <2>4
    <2> QED BY <2>2, <2>3, <2>4, <2>5, <2>6
  <1>4. Total(f, S) = k[S]
    BY TotalUnfolds DEF k
  <1> QED BY <1>3, <1>4
=============================================================================
