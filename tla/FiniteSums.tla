------------------------------ MODULE FiniteSums ------------------------------
(***************************************************************************)
(* What the proofs need of finite sets and of sums over them.  The         *)
(* induction is by least counterexamples: NatLessThanWellFounded, WFMin    *)
(* and FS_StrictSubsetOrderingWellFounded speak of sets, not of operators. *)
(***************************************************************************)
EXTENDS Integers, FiniteSets, Functions, FiniteSetTheorems,
        WellFoundedInduction, TLAPS

\* Every set of naturals that is not empty has a least element.
LEMMA LeastNatural ==
  ASSUME NEW T \in SUBSET Nat, T # {}
  PROVE  \E x \in T : \A y \in T : x <= y
<1>1. \E x \in T : \A y \in T : ~ (<<y, x>> \in OpToRel(<, Nat))
  BY NatLessThanWellFounded, WFMin, Zenon
<1>2. \A x, y \in Nat : y < x => <<y, x>> \in OpToRel(<, Nat)
  BY Zenon DEF OpToRel
<1>3. PICK x \in T : \A y \in T : ~ (y < x)
  BY <1>1, <1>2, Zenon
<1>4. \A y \in T : x <= y
  BY <1>3
<1> QED
  BY <1>4

\* Every family of subsets of a finite set that is not empty has a minimal one.
LEMMA MinimalSet ==
  ASSUME NEW S, IsFiniteSet(S), NEW F \in SUBSET SUBSET S, F # {}
  PROVE  \E X \in F : \A Y \in F : Y \subseteq X => Y = X
<1>1. F \subseteq FiniteSubsetsOf(S)
  BY FS_FiniteSubsetsOfFinite
<1>2. PICK X \in F : \A Y \in F : ~ (<<Y, X>> \in StrictSubsetOrdering(S))
  BY <1>1, FS_StrictSubsetOrderingWellFounded, WFMin, Zenon
<1>3. ASSUME NEW Y \in F, Y \subseteq X PROVE Y = X
  <2>1. Y \in SUBSET S /\ X \in SUBSET S
    OBVIOUS
  <2> QED
    BY <1>2, <1>3, <2>1 DEF StrictSubsetOrdering
<1> QED
  BY <1>3

-----------------------------------------------------------------------------
(* Sums.                                                                   *)

First(s) == CHOOSE x \in s : TRUE

\* g sums f over every set of the family F.
SumsOver(f, F, g) ==
  g = [s \in F |-> IF s = {} THEN 0 ELSE f[First(s)] + g[s \ {First(s)}]]

LEMMA SumIsChosen ==
  ASSUME NEW f
  PROVE  SumFunction(f)
           = (CHOOSE g : SumsOver(f, SUBSET DOMAIN f, g))[DOMAIN f]
BY DEF SumFunction, SumFunctionOnSet, FoldFunctionOnSet, MapThenFoldSet, SumsOver, First

LEMMA FirstIsIn == \A s : s # {} => First(s) \in s
BY DEF First

\* Such a g exists: on sets of n elements it is known from sets of less.
LEMMA SumsExist ==
  ASSUME NEW S, IsFiniteSet(S), NEW f
  PROVE  \E g : SumsOver(f, SUBSET S, g)
<1> DEFINE UpTo(n) == {s \in SUBSET S : Cardinality(s) <= n}
           Unsummed == {n \in Nat : ~ \E g : SumsOver(f, UpTo(n), g)}
<1>0. \A s \in SUBSET S : IsFiniteSet(s) /\ Cardinality(s) \in Nat
                            /\ Cardinality(s) <= Cardinality(S)
  BY FS_Subset, FS_CardinalityType
<1>1. Unsummed = {}
  <2>1. SUFFICES ASSUME Unsummed # {} PROVE FALSE
    OBVIOUS
  <2>2. PICK n \in Unsummed : \A m \in Unsummed : n <= m
    BY <2>1, LeastNatural
  <2>3. CASE n = 0
    <3>1. \A s \in UpTo(n) : s = {}
      BY <1>0, <2>3, FS_EmptySet
    <3>2. SumsOver(f, UpTo(n), [s \in UpTo(n) |-> 0])
      BY <3>1 DEF SumsOver
    <3> QED
      BY <2>2, <3>2
  <2>4. CASE n # 0
    <3>1. n \in Nat /\ n - 1 \in Nat /\ ~ (n <= n - 1)
      BY <2>2, <2>4
    <3>2. PICK g : SumsOver(f, UpTo(n - 1), g)
      BY <2>2, <3>1
    <3> DEFINE h == [s \in UpTo(n) |->
                       IF s = {} THEN 0 ELSE f[First(s)] + g[s \ {First(s)}]]
    <3>3. ASSUME NEW s \in UpTo(n), s # {}
          PROVE  h[s \ {First(s)}] = g[s \ {First(s)}]
      <4>1. First(s) \in s
        BY <3>3, FirstIsIn
      <4>2. s \ {First(s)} \in UpTo(n - 1) /\ s \ {First(s)} \in UpTo(n)
        BY <1>0, <2>2, <4>1, FS_RemoveElement
      <4> QED
        BY <3>2, <4>2 DEF SumsOver
    <3>4. SumsOver(f, UpTo(n), h)
      BY <3>3 DEF SumsOver
    <3> QED
      BY <2>2, <3>4
  <2> QED
    BY <2>3, <2>4
<1>2. Cardinality(S) \in Nat /\ UpTo(Cardinality(S)) = SUBSET S
  BY <1>0, FS_CardinalityType
<1> QED
  BY <1>1, <1>2

\* A finite sum stays in every set of numbers that has 0, the summands and the
\* sums of its members.
LEMMA SumType ==
  ASSUME NEW V \in SUBSET Int, 0 \in V, \A a, b \in V : a + b \in V,
         NEW S, IsFiniteSet(S), NEW f \in [S -> V]
  PROVE  SumFunction(f) \in V
<1> DEFINE g == CHOOSE h : SumsOver(f, SUBSET S, h)
           Outside == {s \in SUBSET S : g[s] \notin V}
<1>1. SumFunction(f) = g[S]
  BY SumIsChosen
<1>2. SumsOver(f, SUBSET S, g)
  BY SumsExist
<1> HIDE DEF g
<1>3. Outside = {}
  <2>1. SUFFICES ASSUME Outside # {} PROVE FALSE
    OBVIOUS
  <2>2. PICK s \in Outside : \A t \in Outside : t \subseteq s => t = s
    <3>1. Outside \in SUBSET SUBSET S
      OBVIOUS
    <3> HIDE DEF Outside
    <3> QED
      BY <2>1, <3>1, MinimalSet
  <2>3. s # {}
    BY <1>2, <2>2 DEF SumsOver
  <2>4. First(s) \in s
    BY <2>3, FirstIsIn
  <2>5. g[s \ {First(s)}] \in V /\ f[First(s)] \in V
    BY <2>2, <2>4
  <2>6. g[s] = f[First(s)] + g[s \ {First(s)}]
    BY <1>2, <2>3 DEF SumsOver
  <2> QED
    BY <2>2, <2>4, <2>5, <2>6
<1> QED
  BY <1>1, <1>3

=============================================================================
