----------------------------- MODULE Induction ------------------------------
(***************************************************************************)
(* Induction over the natural numbers, stated of sets so that it can be    *)
(* cited: a set that contains 0 and the successor of each of its elements  *)
(* contains every number.  It rests on the well-foundedness of the strict  *)
(* subsets of finite sets.                                                 *)
(***************************************************************************)
EXTENDS Integers, FiniteSetTheorems, WellFoundedInduction, TLAPS

(* Every set of numbers that is not empty has a least element.  *)
LEMMA LeastNumber ==
  ASSUME NEW T \in SUBSET Nat, T # {}
  PROVE  \E m \in T : \A k \in T : m <= k
<1> DEFINE C == {T \cap (0 .. n) : n \in T}
<1>1. C \subseteq FiniteSubsetsOf(Nat)
  <2>1. \A n \in T : IsFiniteSet(T \cap (0 .. n))
    <3> TAKE n \in T
    <3>1. IsFiniteSet(0 .. n)
      BY FS_Interval
    <3> QED
      BY <3>1, FS_Intersection
  <2> QED
    BY <2>1 DEF FiniteSubsetsOf
<1>2. C # {}
  OBVIOUS
<1>3. PICK X \in C : \A Y \in C : ~ (<<Y, X>> \in StrictSubsetOrdering(Nat))
  <2>1. IsWellFoundedOn(StrictSubsetOrdering(Nat), FiniteSubsetsOf(Nat))
    BY FS_StrictSubsetOrderingWellFounded
  <2> HIDE DEF C
  <2> QED
    BY <1>1, <1>2, <2>1, WFMin
<1>4. PICK m \in T : X = T \cap (0 .. m)
  BY <1>3
<1>5. ASSUME NEW k \in T, k < m
      PROVE  FALSE
  <2>1. T \cap (0 .. k) \in C
    OBVIOUS
  <2>2. T \cap (0 .. k) \subseteq X /\ T \cap (0 .. k) # X
    BY <1>4, <1>5
  <2>3. <<T \cap (0 .. k), X>> \in StrictSubsetOrdering(Nat)
    BY <2>2, <1>4 DEF StrictSubsetOrdering
  <2> QED
    BY <2>1, <2>3, <1>3
<1> QED
  BY <1>5

(* A set of numbers up to n that is not empty has a greatest element.  *)
LEMMA GreatestNumber ==
  ASSUME NEW n \in Nat, NEW T \in SUBSET (0 .. n), T # {}
  PROVE  \E m \in T : \A k \in T : k <= m
<1> DEFINE U == {n - k : k \in T}
<1>1. U \in SUBSET Nat /\ U # {}
  <2>1. ASSUME NEW k \in T PROVE n - k \in Nat
    OBVIOUS
  <2>2. U \in SUBSET Nat
    BY <2>1
  <2>3. U # {}
    OBVIOUS
  <2> QED
    BY <2>2, <2>3
<1>2. PICK u \in U : \A k \in U : u <= k
  <2> HIDE DEF U
  <2> QED
    BY <1>1, LeastNumber
<1>3. n - u \in T /\ \A k \in T : k <= n - u
  BY <1>2
<1> QED
  BY <1>3

(* A set that contains 0 and every successor contains every number.  *)
LEMMA SetInduction ==
  ASSUME NEW A, 0 \in A, \A n \in Nat : n \in A => n + 1 \in A
  PROVE  Nat \subseteq A
<1> SUFFICES ASSUME Nat \ A # {} PROVE FALSE
  OBVIOUS
<1>1. PICK m \in Nat \ A : \A k \in Nat \ A : m <= k
  BY LeastNumber
<1>2. m # 0 /\ m - 1 \in Nat /\ m - 1 \in A
  BY <1>1
<1> QED
  BY <1>2
=============================================================================
