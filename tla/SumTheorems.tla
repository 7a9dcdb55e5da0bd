----------------------------- MODULE SumTheorems -----------------------------
(***************************************************************************)
(* Facts about sums of the values of a function over finite sets, which    *)
(* the proofs about amounts of money need.                                 *)
(*                                                                         *)
(* The library's induction theorems take an operator, which the provers    *)
(* cannot instantiate; induction here is the choice of a smallest          *)
(* counterexample, which is there since strict inclusion among the         *)
(* subsets of a finite set is well-founded.                                *)
(***************************************************************************)
EXTENDS Functions, FiniteSetTheorems, TLAPS

(* Subsets of a finite set that come with a smaller one each: there are    *)
(* none.                                                                   *)
LEMMA NoSmallest ==
  ASSUME NEW S, IsFiniteSet(S), NEW B, B \subseteq SUBSET S,
         \A T \in B : \E U \in B : U \subseteq T /\ U # T
  PROVE  B = {}
<1>1. IsWellFoundedOn(StrictSubsetOrdering(S), SUBSET S)
  <2>1. FiniteSubsetsOf(S) = SUBSET S
    BY FS_FiniteSubsetsOfFinite, Zenon
  <2>2. IsWellFoundedOn(StrictSubsetOrdering(S), FiniteSubsetsOf(S))
    BY FS_StrictSubsetOrderingWellFounded, Zenon
  <2> QED
    BY <2>1, <2>2
<1> SUFFICES ASSUME B # {} PROVE FALSE
  OBVIOUS
<1>2. PICK T \in B : \A U \in B : <<U, T>> \notin StrictSubsetOrdering(S)
  BY <1>1, WFMin, Zenon
<1> QED
  BY <1>2 DEF StrictSubsetOrdering
-----------------------------------------------------------------------------
(* The recursion that defines a sum.                                       *)

Pick(s) == CHOOSE x \in s : TRUE
Summand(f, g, s) == IF s = {} THEN 0 ELSE f[Pick(s)] + g[s \ {Pick(s)}]
IsSumOn(f, g, sets) == g = [s \in sets |-> Summand(f, g, s)]
IsSum(f, g, S) == IsSumOn(f, g, SUBSET S)

LEMMA SumUnfolds ==
  ASSUME NEW f, NEW S
  PROVE  SumFunctionOnSet(f, S) = (CHOOSE g : IsSum(f, g, S))[S]
BY DEF SumFunctionOnSet, FoldFunctionOnSet, MapThenFoldSet, IsSum, IsSumOn, Summand, Pick

LEMMA PickIsElement == ASSUME NEW s, s # {} PROVE Pick(s) \in s
BY DEF Pick

(* There is a function that satisfies it on all subsets of a finite set,   *)
LEMMA SumExists ==
  ASSUME NEW f, NEW S, IsFiniteSet(S)
  PROVE  \E g : IsSum(f, g, S)
<1> DEFINE Level(n) == {s \in SUBSET S : Cardinality(s) <= n}
           Good == {n \in Nat : \E g : IsSumOn(f, g, Level(n))}
<1>1. \A s \in SUBSET S : IsFiniteSet(s) /\ Cardinality(s) \in Nat
  BY FS_Subset, FS_CardinalityType
<1>2. ASSUME NEW s \in SUBSET S, s # {}
      PROVE  /\ s \ {Pick(s)} \in SUBSET S
             /\ Cardinality(s \ {Pick(s)}) = Cardinality(s) - 1
  BY <1>1, <1>2, PickIsElement, FS_RemoveElement
<1>3. 0 \in Good
  <2> DEFINE g == [s \in Level(0) |-> 0]
  <2>1. Level(0) = {{}}
    BY <1>1, FS_EmptySet
  <2>2. g = [s \in Level(0) |-> Summand(f, g, s)]
    BY <2>1 DEF Summand
  <2>3. IsSumOn(f, g, Level(0))
    BY <2>2 DEF IsSumOn
  <2> HIDE DEF g, Level
  <2> QED
    BY <2>3
<1>4. ASSUME NEW n \in Good PROVE n + 1 \in Good
  <2>1. PICK g : IsSumOn(f, g, Level(n))
    BY <1>4
  <2> DEFINE h == [s \in Level(n + 1) |-> Summand(f, g, s)]
  <2>2. ASSUME NEW s \in Level(n) PROVE h[s] = g[s]
    <3>1. s \in Level(n + 1) /\ g[s] = Summand(f, g, s)
      BY <1>1, <2>1, <2>2 DEF IsSumOn
    <3> QED
      BY <3>1
  <2>3. ASSUME NEW s \in Level(n + 1) PROVE Summand(f, g, s) = Summand(f, h, s)
    <3>1. CASE s = {}
      BY <3>1 DEF Summand
    <3>2. CASE s # {}
      <4>1. s \ {Pick(s)} \in Level(n)
        BY <1>1, <1>2, <3>2
      <4> QED
        BY <2>2, <4>1, <3>2 DEF Summand
    <3> QED
      BY <3>1, <3>2
  <2>4. IsSumOn(f, h, Level(n + 1))
    BY <2>3 DEF IsSumOn
  <2> HIDE DEF h, Level
  <2> QED
    BY <2>4
<1> HIDE DEF Good
<1>5. Nat \subseteq Good
  <2> SUFFICES ASSUME NEW m \in Nat, m \notin Good PROVE FALSE
    OBVIOUS
  <2> DEFINE B == {0..k : k \in (0..m) \ Good}
  <2>1. 0..m \in B
    OBVIOUS
  <2>2. B \in SUBSET SUBSET (0..m)
    OBVIOUS
  <2>3. ASSUME NEW T \in B PROVE \E U \in B : U \subseteq T /\ U # T
    <3>1. PICK k \in (0..m) \ Good : T = 0..k
      OBVIOUS
    <3>2. k # 0 /\ k - 1 \in Nat
      BY <1>3
    <3>3. k - 1 \in (0..m) \ Good
      BY <1>4, <3>2
    <3>4. 0..(k - 1) \in B /\ 0..(k - 1) \subseteq T /\ 0..(k - 1) # T
      BY <3>1, <3>2, <3>3
    <3> QED
      BY <3>4
  <2>4. B = {}
    <3>1. IsFiniteSet(0..m)
      BY FS_Interval
    <3>2. B \subseteq SUBSET (0..m)
      BY <2>2
    <3> HIDE DEF B
    <3> QED
      BY <2>3, <3>1, <3>2, NoSmallest, Zenon
  <2> QED
    BY <2>1, <2>4
<1>6. Level(Cardinality(S)) = SUBSET S
  BY FS_Subset, <1>1
<1>7. Cardinality(S) \in Good
  BY <1>1, <1>5
<1> QED
  BY <1>6, <1>7 DEF IsSum, Good

(* and any two such functions agree where both are defined.                *)
LEMMA SumIsUnique ==
  ASSUME NEW f, NEW S, IsFiniteSet(S), NEW T \in SUBSET S,
         NEW g, NEW h, IsSum(f, g, S), IsSum(f, h, T)
  PROVE  g[T] = h[T]
<1> DEFINE Bad == {s \in SUBSET T : g[s] # h[s]}
<1>1. ASSUME NEW s \in Bad PROVE \E u \in Bad : u \subseteq s /\ u # s
  <2>1. g[s] = Summand(f, g, s) /\ h[s] = Summand(f, h, s)
    BY <1>1 DEF IsSum, IsSumOn
  <2>2. s # {}
    BY <2>1, <1>1 DEF Summand
  <2>3. Pick(s) \in s /\ s \ {Pick(s)} \in SUBSET T
    BY <2>2, PickIsElement
  <2>4. s \ {Pick(s)} \in Bad
    BY <2>1, <2>2, <2>3 DEF Summand
  <2> QED
    BY <2>3, <2>4
<1>2. Bad = {}
  <2>1. IsFiniteSet(T)
    BY FS_Subset
  <2>2. Bad \subseteq SUBSET T
    OBVIOUS
  <2> HIDE DEF Bad
  <2> QED
    BY <1>1, <2>1, <2>2, NoSmallest
<1> QED
  BY <1>2
-----------------------------------------------------------------------------
(* The sum of nothing is 0.                                                *)
LEMMA SumOfNothing == ASSUME NEW f PROVE SumFunctionOnSet(f, {}) = 0
<1>1. PICK g : IsSum(f, g, {})
  BY SumExists, FS_EmptySet
<1> DEFINE h == CHOOSE x : IsSum(f, x, {})
<1>2. IsSum(f, h, {})
  BY <1>1
<1> QED
  BY <1>2, SumUnfolds DEF IsSum, IsSumOn, Summand

LEMMA SumPicks ==
  ASSUME NEW f, NEW S, IsFiniteSet(S), S # {}
  PROVE  SumFunctionOnSet(f, S) = f[Pick(S)] + SumFunctionOnSet(f, S \ {Pick(S)})
<1> DEFINE T == S \ {Pick(S)}
           g == CHOOSE x : IsSum(f, x, S)
           h == CHOOSE x : IsSum(f, x, T)
<1>1. IsFiniteSet(T)
  BY FS_Subset
<1>2. IsSum(f, g, S) /\ IsSum(f, h, T)
  BY <1>1, SumExists
<1>3. g[T] = h[T]
  <2> HIDE DEF g, h
  <2> QED BY <1>2, SumIsUnique
<1>4. g[S] = f[Pick(S)] + g[T]
  <2> HIDE DEF g
  <2> QED BY <1>2 DEF IsSum, IsSumOn, Summand
<1> QED
  BY <1>3, <1>4, SumUnfolds

(* The sum of integers is an integer.                                      *)
LEMMA SumType ==
  ASSUME NEW f, NEW S, IsFiniteSet(S), \A x \in S : f[x] \in Int
  PROVE  SumFunctionOnSet(f, S) \in Int
<1> DEFINE Bad == {s \in SUBSET S : SumFunctionOnSet(f, s) \notin Int}
<1>1. ASSUME NEW s \in Bad PROVE \E u \in Bad : u \subseteq s /\ u # s
  <2>1. SumFunctionOnSet(f, s) \notin Int
    OBVIOUS
  <2>2. s # {}
    BY <2>1, SumOfNothing
  <2>3. Pick(s) \in s /\ s \ {Pick(s)} \in SUBSET S
    BY <2>2, PickIsElement
  <2>4. SumFunctionOnSet(f, s) = f[Pick(s)] + SumFunctionOnSet(f, s \ {Pick(s)})
    <3>1. IsFiniteSet(s)
      BY FS_Subset
    <3> QED
      BY <2>2, <3>1, SumPicks, Zenon
  <2>5. s \ {Pick(s)} \in Bad
    BY <2>1, <2>3, <2>4
  <2> QED
    BY <2>3, <2>5
<1>2. Bad = {}
  <2>1. Bad \subseteq SUBSET S
    OBVIOUS
  <2> HIDE DEF Bad
  <2> QED
    BY <1>1, <2>1, NoSmallest, Zenon
<1> QED
  BY <1>2

(* The summands may be taken in any order.                                 *)
LEMMA SumRemovesElement ==
  ASSUME NEW f, NEW S, IsFiniteSet(S), \A x \in S : f[x] \in Int, NEW x \in S
  PROVE  SumFunctionOnSet(f, S) = f[x] + SumFunctionOnSet(f, S \ {x})
<1> DEFINE Sum(s) == SumFunctionOnSet(f, s)
           Bad == {s \in SUBSET S : \E y \in s : Sum(s) # f[y] + Sum(s \ {y})}
<1>1. ASSUME NEW s \in SUBSET S PROVE Sum(s) \in Int
  <2>1. IsFiniteSet(s) /\ \A y \in s : f[y] \in Int
    BY FS_Subset
  <2> QED
    BY <2>1, SumType, Zenon
<1>2. ASSUME NEW s \in SUBSET S, s # {}
      PROVE  Pick(s) \in s /\ Sum(s) = f[Pick(s)] + Sum(s \ {Pick(s)})
  <2>1. IsFiniteSet(s)
    BY FS_Subset
  <2> QED
    BY <1>2, <2>1, SumPicks, PickIsElement, Zenon
<1> HIDE DEF Sum
<1>3. ASSUME NEW s \in Bad PROVE \E u \in Bad : u \subseteq s /\ u # s
  <2>1. PICK y \in s : Sum(s) # f[y] + Sum(s \ {y})
    OBVIOUS
  <2> DEFINE p == Pick(s)
  <2>2. p \in s /\ Sum(s) = f[p] + Sum(s \ {p})
    BY <1>2
  <2>3. y # p
    BY <2>1, <2>2
  <2> HIDE DEF p
  <2> SUFFICES ASSUME s \ {p} \notin Bad, s \ {y} \notin Bad PROVE FALSE
    BY <2>2
  <2>4. s \ {p} \in SUBSET S /\ s \ {y} \in SUBSET S
    OBVIOUS
  <2> DEFINE rest == Sum((s \ {y}) \ {p})
  <2>5. Sum(s \ {p}) = f[y] + rest /\ Sum(s \ {y}) = f[p] + rest
    <3>1. (s \ {p}) \ {y} = (s \ {y}) \ {p}
      OBVIOUS
    <3> QED
      BY <2>2, <2>3, <2>4, <3>1
  <2>6. rest \in Int
    BY <1>1
  <2>7. f[y] \in Int /\ f[p] \in Int
    BY <2>2
  <2> HIDE DEF Bad, rest
  <2> QED
    BY <2>1, <2>2, <2>5, <2>6, <2>7
<1>4. Bad = {}
  <2>1. Bad \subseteq SUBSET S
    OBVIOUS
  <2> HIDE DEF Bad
  <2> QED
    BY <1>3, <2>1, NoSmallest, Zenon
<1> QED
  BY <1>4 DEF Sum
-----------------------------------------------------------------------------
(* What follows is proved from the recursion over elements alone.          *)

(* All subsets of a finite set are in a set of sets that holds the empty   *)
(* one and, with a set less one of its elements, that set.                 *)
LEMMA SubsetInduction ==
  ASSUME NEW S, IsFiniteSet(S), NEW F, {} \in F,
         \A T \in SUBSET S : \A x \in T : T \ {x} \in F => T \in F
  PROVE  \A T \in SUBSET S : T \in F
<1> DEFINE Bad == (SUBSET S) \ F
<1>1. ASSUME NEW T \in Bad PROVE \E U \in Bad : U \subseteq T /\ U # T
  <2>1. PICK x \in T : TRUE
    OBVIOUS
  <2>2. T \ {x} \in Bad
    BY <2>1
  <2> QED
    BY <2>1, <2>2
<1>2. Bad = {}
  <2>1. Bad \subseteq SUBSET S
    OBVIOUS
  <2> HIDE DEF Bad
  <2> QED
    BY <1>1, <2>1, NoSmallest
<1> QED
  BY <1>2

(* The recursion for subsets of one set.                                   *)
LEMMA SumOfSubsets ==
  ASSUME NEW f, NEW S, IsFiniteSet(S), \A x \in S : f[x] \in Int
  PROVE  /\ SumFunctionOnSet(f, {}) = 0
         /\ \A T \in SUBSET S :
              /\ SumFunctionOnSet(f, T) \in Int
              /\ \A x \in T : SumFunctionOnSet(f, T) = f[x] + SumFunctionOnSet(f, T \ {x})
<1>1. ASSUME NEW T \in SUBSET S PROVE IsFiniteSet(T) /\ \A x \in T : f[x] \in Int
  BY FS_Subset
<1> QED
  BY <1>1, SumType, SumRemovesElement, SumOfNothing

(* Sums are monotonic in the summands, and depend on nothing else.         *)
LEMMA SumMonotonic ==
  ASSUME NEW f, NEW g, NEW S, IsFiniteSet(S),
         \A x \in S : f[x] \in Int /\ g[x] \in Int /\ f[x] <= g[x]
  PROVE  SumFunctionOnSet(f, S) <= SumFunctionOnSet(g, S)
<1> DEFINE F == {s \in SUBSET S : SumFunctionOnSet(f, s) <= SumFunctionOnSet(g, s)}
<1>1. /\ SumFunctionOnSet(f, {}) = 0
      /\ \A T \in SUBSET S :
           /\ SumFunctionOnSet(f, T) \in Int
           /\ \A x \in T : SumFunctionOnSet(f, T) = f[x] + SumFunctionOnSet(f, T \ {x})
  BY SumOfSubsets
<1>2. /\ SumFunctionOnSet(g, {}) = 0
      /\ \A T \in SUBSET S :
           /\ SumFunctionOnSet(g, T) \in Int
           /\ \A x \in T : SumFunctionOnSet(g, T) = g[x] + SumFunctionOnSet(g, T \ {x})
  BY SumOfSubsets
<1>3. {} \in F
  BY <1>1, <1>2
<1>4. ASSUME NEW T \in SUBSET S, NEW x \in T, T \ {x} \in F PROVE T \in F
  <2>1. T \ {x} \in SUBSET S /\ x \in S
    OBVIOUS
  <2> QED
    BY <1>1, <1>2, <1>4, <2>1
<1>5. \A T \in SUBSET S : T \in F
  <2> HIDE DEF F
  <2> QED
    BY <1>3, <1>4, SubsetInduction
<1> QED
  BY <1>5

LEMMA SumCongruent ==
  ASSUME NEW f, NEW g, NEW S, IsFiniteSet(S), \A x \in S : f[x] \in Int /\ f[x] = g[x]
  PROVE  SumFunctionOnSet(f, S) = SumFunctionOnSet(g, S)
<1>1. /\ SumFunctionOnSet(f, S) <= SumFunctionOnSet(g, S)
      /\ SumFunctionOnSet(g, S) <= SumFunctionOnSet(f, S)
  BY SumMonotonic
<1>2. SumFunctionOnSet(f, S) \in Int /\ SumFunctionOnSet(g, S) \in Int
  BY SumType
<1> QED
  BY <1>1, <1>2

(* The sum of sums is the sum of both.                                     *)
LEMMA SumAdds ==
  ASSUME NEW f, NEW g, NEW h, NEW S, IsFiniteSet(S),
         \A x \in S : f[x] \in Int /\ g[x] \in Int /\ h[x] = f[x] + g[x]
  PROVE  SumFunctionOnSet(h, S) = SumFunctionOnSet(f, S) + SumFunctionOnSet(g, S)
<1> DEFINE F == {s \in SUBSET S : SumFunctionOnSet(h, s)
                                    = SumFunctionOnSet(f, s) + SumFunctionOnSet(g, s)}
<1>1. /\ SumFunctionOnSet(f, {}) = 0
      /\ \A T \in SUBSET S :
           /\ SumFunctionOnSet(f, T) \in Int
           /\ \A x \in T : SumFunctionOnSet(f, T) = f[x] + SumFunctionOnSet(f, T \ {x})
  BY SumOfSubsets
<1>2. /\ SumFunctionOnSet(g, {}) = 0
      /\ \A T \in SUBSET S :
           /\ SumFunctionOnSet(g, T) \in Int
           /\ \A x \in T : SumFunctionOnSet(g, T) = g[x] + SumFunctionOnSet(g, T \ {x})
  BY SumOfSubsets
<1>3. /\ SumFunctionOnSet(h, {}) = 0
      /\ \A T \in SUBSET S :
           /\ SumFunctionOnSet(h, T) \in Int
           /\ \A x \in T : SumFunctionOnSet(h, T) = h[x] + SumFunctionOnSet(h, T \ {x})
  BY SumOfSubsets
<1>4. {} \in F
  BY <1>1, <1>2, <1>3
<1>5. ASSUME NEW T \in SUBSET S, NEW x \in T, T \ {x} \in F PROVE T \in F
  <2>1. T \ {x} \in SUBSET S /\ x \in S
    OBVIOUS
  <2>2. /\ SumFunctionOnSet(f, T) = f[x] + SumFunctionOnSet(f, T \ {x})
        /\ SumFunctionOnSet(g, T) = g[x] + SumFunctionOnSet(g, T \ {x})
        /\ SumFunctionOnSet(h, T) = f[x] + g[x] + SumFunctionOnSet(h, T \ {x})
    BY <1>1, <1>2, <1>3, <2>1
  <2>3. SumFunctionOnSet(f, T \ {x}) \in Int /\ SumFunctionOnSet(g, T \ {x}) \in Int
    BY <1>1, <1>2, <2>1
  <2>4. SumFunctionOnSet(h, T \ {x})
          = SumFunctionOnSet(f, T \ {x}) + SumFunctionOnSet(g, T \ {x})
    BY <1>5
  <2> QED
    BY <2>1, <2>2, <2>3, <2>4
<1>6. \A T \in SUBSET S : T \in F
  <2> HIDE DEF F
  <2> QED
    BY <1>4, <1>5, SubsetInduction
<1> QED
  BY <1>6

(* A sum over part of a set is one over the whole with 0 for the others.   *)
LEMMA SumOfPart ==
  ASSUME NEW f, NEW g, NEW S, IsFiniteSet(S), NEW T \in SUBSET S,
         \A x \in T : f[x] \in Int /\ g[x] = f[x],
         \A x \in S \ T : g[x] = 0
  PROVE  SumFunctionOnSet(g, S) = SumFunctionOnSet(f, T)
<1> DEFINE F == {s \in SUBSET S : SumFunctionOnSet(g, s) = SumFunctionOnSet(f, s \intersect T)}
<1>0. IsFiniteSet(T) /\ \A x \in S : g[x] \in Int
  BY FS_Subset
<1>1. /\ SumFunctionOnSet(f, {}) = 0
      /\ \A U \in SUBSET T :
           /\ SumFunctionOnSet(f, U) \in Int
           /\ \A x \in U : SumFunctionOnSet(f, U) = f[x] + SumFunctionOnSet(f, U \ {x})
  BY <1>0, SumOfSubsets, ZenonT(60)
<1>2. /\ SumFunctionOnSet(g, {}) = 0
      /\ \A U \in SUBSET S :
           /\ SumFunctionOnSet(g, U) \in Int
           /\ \A x \in U : SumFunctionOnSet(g, U) = g[x] + SumFunctionOnSet(g, U \ {x})
  BY <1>0, SumOfSubsets, ZenonT(60)
<1>3. {} \in F
  <2>1. {} \intersect T = {}
    OBVIOUS
  <2> QED
    BY <1>1, <1>2, <2>1
<1>4. ASSUME NEW U \in SUBSET S, NEW x \in U, U \ {x} \in F PROVE U \in F
  <2>1. SumFunctionOnSet(g, U) = g[x] + SumFunctionOnSet(f, (U \ {x}) \intersect T)
    BY <1>2, <1>4
  <2>2. CASE x \in T
    <3>1. (U \ {x}) \intersect T = (U \intersect T) \ {x} /\ x \in U \intersect T
      BY <2>2
    <3>2. SumFunctionOnSet(f, U \intersect T)
            = f[x] + SumFunctionOnSet(f, (U \intersect T) \ {x})
      BY <1>1, <3>1
    <3> QED
      BY <2>1, <2>2, <3>1, <3>2
  <2>3. CASE x \notin T
    <3>1. (U \ {x}) \intersect T = U \intersect T
      BY <2>3
    <3>2. SumFunctionOnSet(f, U \intersect T) \in Int
      BY <1>1
    <3> QED
      BY <2>1, <2>3, <3>1, <3>2
  <2> QED
    BY <2>2, <2>3
<1>5. \A U \in SUBSET S : U \in F
  <2> HIDE DEF F
  <2> QED
    BY <1>3, <1>4, SubsetInduction
<1>6. S \intersect T = T
  OBVIOUS
<1> QED
  BY <1>5, <1>6

LEMMA SumOfZeros ==
  ASSUME NEW f, NEW S, IsFiniteSet(S), \A x \in S : f[x] = 0
  PROVE  SumFunctionOnSet(f, S) = 0
<1>1. {} \in SUBSET S /\ \A x \in {} : f[x] \in Int /\ f[x] = f[x]
  OBVIOUS
<1>2. SumFunctionOnSet(f, S) = SumFunctionOnSet(f, {})
  BY <1>1, SumOfPart
<1> QED
  BY <1>2, SumOfNothing

(* More summands that are not negative make a sum no smaller.              *)
LEMMA SumOfMore ==
  ASSUME NEW f, NEW S, IsFiniteSet(S), NEW T \in SUBSET S,
         \A x \in S : f[x] \in Int, \A x \in S \ T : f[x] >= 0
  PROVE  SumFunctionOnSet(f, T) <= SumFunctionOnSet(f, S)
<1> DEFINE g == [x \in S |-> IF x \in T THEN f[x] ELSE 0]
<1>1. \A x \in T : f[x] \in Int /\ g[x] = f[x]
  OBVIOUS
<1>2. \A x \in S \ T : g[x] = 0
  OBVIOUS
<1>3. \A x \in S : g[x] \in Int /\ f[x] \in Int /\ g[x] <= f[x]
  OBVIOUS
<1> HIDE DEF g
<1>4. SumFunctionOnSet(g, S) = SumFunctionOnSet(f, T)
  BY <1>1, <1>2, SumOfPart
<1>5. SumFunctionOnSet(g, S) <= SumFunctionOnSet(f, S)
  BY <1>3, SumMonotonic
<1> QED
  BY <1>4, <1>5

(* A set in two parts.                                                     *)
LEMMA SumOfUnion ==
  ASSUME NEW f, NEW S, NEW T, IsFiniteSet(S), IsFiniteSet(T), S \intersect T = {},
         \A x \in S \union T : f[x] \in Int
  PROVE  SumFunctionOnSet(f, S \union T) = SumFunctionOnSet(f, S) + SumFunctionOnSet(f, T)
<1> DEFINE U == S \union T
           g == [x \in U |-> IF x \in S THEN f[x] ELSE 0]
           h == [x \in U |-> IF x \in T THEN f[x] ELSE 0]
<1>0. IsFiniteSet(U)
  BY FS_Union
<1>1. /\ S \in SUBSET U
      /\ \A x \in S : f[x] \in Int /\ g[x] = f[x]
      /\ \A x \in U \ S : g[x] = 0
  OBVIOUS
<1>2. /\ T \in SUBSET U
      /\ \A x \in T : f[x] \in Int /\ h[x] = f[x]
      /\ \A x \in U \ T : h[x] = 0
  OBVIOUS
<1>3. \A x \in U : g[x] \in Int /\ h[x] \in Int /\ f[x] = g[x] + h[x]
  OBVIOUS
<1> HIDE DEF U, g, h
<1>4. SumFunctionOnSet(g, U) = SumFunctionOnSet(f, S)
  BY <1>0, <1>1, SumOfPart
<1>5. SumFunctionOnSet(h, U) = SumFunctionOnSet(f, T)
  BY <1>0, <1>2, SumOfPart
<1>6. SumFunctionOnSet(f, U) = SumFunctionOnSet(g, U) + SumFunctionOnSet(h, U)
  BY <1>0, <1>3, SumAdds
<1> QED
  BY <1>4, <1>5, <1>6 DEF U

(* The sum over the rows of a table is the sum over its columns.           *)
LEMMA SumSwaps ==
  ASSUME NEW f, NEW e, NEW S, NEW T, IsFiniteSet(S), IsFiniteSet(T),
         \A x \in S, y \in T : f[x][y] \in Int /\ e[y][x] = f[x][y]
  PROVE  SumFunctionOnSet([x \in S |-> SumFunctionOnSet(f[x], T)], S)
           = SumFunctionOnSet([y \in T |-> SumFunctionOnSet(e[y], S)], T)
<1> DEFINE rows == [x \in S |-> SumFunctionOnSet(f[x], T)]
           columns(U) == [y \in T |-> SumFunctionOnSet(e[y], U)]
           F == {U \in SUBSET S : SumFunctionOnSet(rows, U) = SumFunctionOnSet(columns(U), T)}
<1>1. \A x \in S : rows[x] \in Int
  BY SumType
<1>2. /\ SumFunctionOnSet(rows, {}) = 0
      /\ \A U \in SUBSET S :
           /\ SumFunctionOnSet(rows, U) \in Int
           /\ \A x \in U : SumFunctionOnSet(rows, U) = rows[x] + SumFunctionOnSet(rows, U \ {x})
  <2> HIDE DEF rows
  <2> QED
    BY <1>1, SumOfSubsets
<1>3. ASSUME NEW y \in T
      PROVE  /\ SumFunctionOnSet(e[y], {}) = 0
             /\ \A U \in SUBSET S :
                  /\ SumFunctionOnSet(e[y], U) \in Int
                  /\ \A x \in U : SumFunctionOnSet(e[y], U)
                                    = e[y][x] + SumFunctionOnSet(e[y], U \ {x})
  <2>1. \A x \in S : e[y][x] \in Int
    OBVIOUS
  <2> QED
    BY <2>1, SumOfSubsets
<1>4. {} \in F
  <2>1. \A y \in T : columns({})[y] = 0
    BY <1>3
  <2>2. SumFunctionOnSet(columns({}), T) = 0
    <3> HIDE DEF columns
    <3> QED
      BY <2>1, SumOfZeros
  <2> QED
    BY <1>2, <2>2
<1>5. ASSUME NEW U \in SUBSET S, NEW x \in U, U \ {x} \in F PROVE U \in F
  <2>0. U \ {x} \in SUBSET S /\ x \in S
    OBVIOUS
  <2>1. \A y \in T : /\ f[x][y] \in Int /\ columns(U \ {x})[y] \in Int
                     /\ columns(U)[y] = f[x][y] + columns(U \ {x})[y]
    <3> SUFFICES ASSUME NEW y \in T
                 PROVE  /\ f[x][y] \in Int /\ SumFunctionOnSet(e[y], U \ {x}) \in Int
                        /\ SumFunctionOnSet(e[y], U)
                             = f[x][y] + SumFunctionOnSet(e[y], U \ {x})
      OBVIOUS
    <3>1. f[x][y] \in Int /\ e[y][x] = f[x][y]
      BY <2>0
    <3>2. SumFunctionOnSet(e[y], U) = e[y][x] + SumFunctionOnSet(e[y], U \ {x})
      BY <1>3, <2>0, ZenonT(60)
    <3>3. SumFunctionOnSet(e[y], U \ {x}) \in Int
      BY <1>3, <2>0, ZenonT(60)
    <3> QED
      BY <3>1, <3>2, <3>3
  <2>2. SumFunctionOnSet(columns(U), T)
          = SumFunctionOnSet(f[x], T) + SumFunctionOnSet(columns(U \ {x}), T)
    <3> DEFINE a == f[x]
               b == columns(U \ {x})
               c == columns(U)
    <3>1. \A y \in T : a[y] \in Int /\ b[y] \in Int /\ c[y] = a[y] + b[y]
      BY <2>1
    <3> HIDE DEF a, b, c
    <3>2. SumFunctionOnSet(c, T) = SumFunctionOnSet(a, T) + SumFunctionOnSet(b, T)
      BY <3>1, SumAdds
    <3> QED
      BY <3>2 DEF a, b, c
  <2>3. SumFunctionOnSet(rows, U) = rows[x] + SumFunctionOnSet(rows, U \ {x})
    BY <1>2
  <2>4. rows[x] = SumFunctionOnSet(f[x], T)
    OBVIOUS
  <2> QED
    BY <1>5, <2>2, <2>3, <2>4
<1>6. \A U \in SUBSET S : U \in F
  <2> HIDE DEF F
  <2> QED
    BY <1>4, <1>5, SubsetInduction
<1> QED
  BY <1>6

(* The elements may be renamed.                                            *)
LEMMA SumRenames ==
  ASSUME NEW f, NEW g, NEW h, NEW S, NEW T, IsFiniteSet(S), h \in Bijection(S, T),
         \A x \in S : f[x] \in Int /\ g[h[x]] = f[x]
  PROVE  SumFunctionOnSet(f, S) = SumFunctionOnSet(g, T)
<1> DEFINE Image(U) == {h[x] : x \in U}
           F == {U \in SUBSET S : SumFunctionOnSet(f, U) = SumFunctionOnSet(g, Image(U))}
<1>0. /\ h \in [S -> T]
      /\ \A x, y \in S : h[x] = h[y] => x = y
      /\ Image(S) = T
  BY DEF Bijection, Injection, Surjection, IsInjective
<1>1. /\ SumFunctionOnSet(f, {}) = 0
      /\ \A U \in SUBSET S :
           /\ SumFunctionOnSet(f, U) \in Int
           /\ \A x \in U : SumFunctionOnSet(f, U) = f[x] + SumFunctionOnSet(f, U \ {x})
  BY SumOfSubsets
<1>2. /\ SumFunctionOnSet(g, {}) = 0
      /\ \A U \in SUBSET T :
           /\ SumFunctionOnSet(g, U) \in Int
           /\ \A y \in U : SumFunctionOnSet(g, U) = g[y] + SumFunctionOnSet(g, U \ {y})
  <2>1. IsFiniteSet(T)
    BY FS_Bijection, Zenon DEF ExistsBijection
  <2>2. \A y \in T : g[y] \in Int
    BY <1>0
  <2> QED
    BY <2>1, <2>2, SumOfSubsets
<1>3. {} \in F
  BY <1>1, <1>2
<1>4. ASSUME NEW U \in SUBSET S, NEW x \in U, U \ {x} \in F PROVE U \in F
  <2>1. Image(U) \in SUBSET T /\ h[x] \in Image(U)
    BY <1>0
  <2>2. Image(U \ {x}) = Image(U) \ {h[x]}
    BY <1>0
  <2>3. SumFunctionOnSet(g, Image(U)) = f[x] + SumFunctionOnSet(g, Image(U \ {x}))
    <3> HIDE DEF Image
    <3> QED
      BY <1>2, <2>1, <2>2
  <2>4. SumFunctionOnSet(f, U) = f[x] + SumFunctionOnSet(f, U \ {x})
    BY <1>1
  <2> QED
    BY <1>4, <2>3, <2>4
<1>5. \A U \in SUBSET S : U \in F
  <2> HIDE DEF F
  <2> QED
    BY <1>3, <1>4, SubsetInduction
<1> QED
  BY <1>0, <1>5
=============================================================================
