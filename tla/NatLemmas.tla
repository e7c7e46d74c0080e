------------------------------ MODULE NatLemmas ------------------------------
(***************************************************************************)
(* Facts about sets of natural numbers that the proofs of several          *)
(* components rest on.  A least element stands in for induction: a set of  *)
(* counterexamples that is not empty has a first one.                      *)
(***************************************************************************)
EXTENDS Integers, WellFoundedInduction, TLAPS

(* A non-empty set of naturals has a least element. *)
LEMMA LeastNat ==
  ASSUME NEW T, T \subseteq Nat, T # {}
  PROVE  \E x \in T : \A y \in T : x <= y
<1>1. IsWellFoundedOn(OpToRel(<, Nat), Nat)
  BY NatLessThanWellFounded
<1>2. PICK x \in T : \A y \in T : ~(<<y, x>> \in OpToRel(<, Nat))
  BY <1>1, WFMin
<1>3. \A y \in T : ~(y < x)
  BY <1>2 DEF OpToRel
<1> QED
  BY <1>3

(* A non-empty set of naturals that has a bound has a greatest element. *)
LEMMA GreatestNat ==
  ASSUME NEW T, T \subseteq Nat, T # {}, NEW n \in Nat, \A x \in T : x <= n
  PROVE  \E x \in T : \A y \in T : y <= x
<1> DEFINE D == {n - x : x \in T}
<1>0. \A x \in T : n - x \in D
  OBVIOUS
<1>1. D \subseteq Nat /\ D # {}
  <2>1. ASSUME NEW d \in D PROVE d \in Nat
    <3>1. PICK x \in T : d = n - x
      OBVIOUS
    <3> QED
      BY <3>1
  <2> QED
    BY <1>0, <2>1
<1> HIDE DEF D
<1>2. PICK d \in D : \A y \in D : d <= y
  BY <1>1, LeastNat
<1>3. PICK x \in T : d = n - x
  BY DEF D
<1>4. ASSUME NEW y \in T PROVE y <= x
  <2>1. n - y \in D
    BY <1>0
  <2> QED
    BY <1>2, <1>3, <2>1
<1> QED
  BY <1>4

(* A step from each number to the next leads from 1 to n. *)
LEMMA UpTo ==
  ASSUME NEW n \in Nat \ {0}, NEW H, 1 \in H,
         \A m \in 1..n : m # 1 /\ m - 1 \in H => m \in H
  PROVE  \A m \in 1..n : m \in H
<1> DEFINE B == {m \in 1..n : m \notin H}
<1>1. SUFFICES ASSUME B # {} PROVE FALSE
  OBVIOUS
<1>2. B \subseteq Nat
  OBVIOUS
<1>3. PICK m \in B : \A y \in B : m <= y
  <2> HIDE DEF B
  <2> QED
    BY <1>1, <1>2, LeastNat
<1>4. m \in 1..n /\ m \notin H /\ m # 1
  OBVIOUS
<1>5. m - 1 \in 1..n /\ m - 1 \notin B
  <2>1. m - 1 \in 1..n
    BY <1>4
  <2>2. m - 1 \notin B
    <3> HIDE DEF B
    <3> QED
      BY <1>3, <1>4
  <2> QED
    BY <2>1, <2>2
<1> QED
  BY <1>4, <1>5
=============================================================================
