----------------------------- MODULE SetInduction -----------------------------
(***************************************************************************)
(* Induction on the natural numbers, stated for a set of numbers and not   *)
(* for a predicate: to show a fact of every number, name the set of the    *)
(* numbers that have it.                                                   *)
(***************************************************************************)
EXTENDS Integers, FiniteSets, FiniteSetTheorems, WellFoundedInduction, TLAPS

\* A non-empty set of naturals has a smallest member: the intervals up to its
\* members are finite sets, and strict inclusion of finite sets is well-founded.
LEMMA HasSmallest ==
    ASSUME NEW S \in SUBSET Nat, S # {}
    PROVE  \E m \in S : \A k \in S : m <= k
<1> DEFINE R == StrictSubsetOrdering(Nat)
           T == {1..k : k \in S}
<1>1. IsWellFoundedOn(R, FiniteSubsetsOf(Nat))
    BY FS_StrictSubsetOrderingWellFounded
<1>2. \A k \in S : 1..k \in FiniteSubsetsOf(Nat)
  <2> SUFFICES ASSUME NEW k \in S PROVE 1..k \in FiniteSubsetsOf(Nat)
      OBVIOUS
  <2>1. IsFiniteSet(1..k)
      BY FS_Interval
  <2>2. QED
      BY <2>1 DEF FiniteSubsetsOf
<1>3. T \subseteq FiniteSubsetsOf(Nat) /\ T # {}
    BY <1>2
<1>4. PICK x \in T : \A y \in T : ~(<<y, x>> \in R)
    BY <1>1, <1>3, WFMin
<1>5. PICK m \in S : x = 1..m
    BY <1>4
<1>6. ASSUME NEW k \in S, k < m PROVE FALSE
  <2>1. 1..k \subseteq 1..m /\ 1..k # 1..m
    <3>1. m \in 1..m /\ m \notin 1..k
        BY <1>6
    <3>2. QED
        BY <3>1, <1>6
  <2>2. <<1..k, 1..m>> \in R
      BY <2>1 DEF StrictSubsetOrdering
  <2>3. QED
      BY <2>2, <1>4, <1>5
<1>7. QED
    BY <1>6

\* A set that contains a number whenever it contains all smaller ones contains
\* every number.
LEMMA StrongInduction ==
    ASSUME NEW S,
           \A n \in Nat : (\A m \in 0..n - 1 : m \in S) => n \in S
    PROVE  \A n \in Nat : n \in S
<1> DEFINE Others == Nat \ S
<1>1. SUFFICES ASSUME Others # {} PROVE FALSE
    OBVIOUS
<1>2. PICK n \in Others : \A k \in Others : n <= k
  <2>1. Others \in SUBSET Nat
      OBVIOUS
  <2> HIDE DEF Others
  <2>2. QED
      BY <1>1, <2>1, HasSmallest
<1>3. \A m \in 0..n - 1 : m \in S
    BY <1>2
<1>4. QED
    BY <1>2, <1>3

\* A set that contains 0 and, with each number below a limit, the next one,
\* contains every number up to the limit.
LEMMA BoundedInduction ==
    ASSUME NEW S, NEW N \in Nat,
           0 \in S, \A n \in 0..N - 1 : n \in S => n + 1 \in S
    PROVE  \A n \in 0..N : n \in S
<1> DEFINE T == {n \in Nat : n <= N => n \in S}
<1>1. ASSUME NEW n \in Nat, \A m \in 0..n - 1 : m \in T
      PROVE  n \in T
  <2>1. CASE n = 0
      BY <2>1
  <2>2. CASE n > 0
    <3>1. n - 1 \in T
        BY <1>1, <2>2
    <3>2. QED
        BY <2>2, <3>1
  <2>3. QED
      BY <2>1, <2>2
<1>2. \A n \in Nat : n \in T
  <2> HIDE DEF T
  <2>1. QED
      BY <1>1, StrongInduction
<1>3. QED
    BY <1>2
=============================================================================
