---------------------------- MODULE NaturalSets ----------------------------
(***************************************************************************)
(* Least and greatest elements of sets of naturals, for the proofs about   *)
(* scans of the log and of the settings.                                   *)
(***************************************************************************)
EXTENDS WellFoundedInduction, TLAPS

(* A nonempty set of naturals has a least element.                         *)
LEMMA LeastNatural ==
  ASSUME NEW T \in SUBSET Nat, T # {}
  PROVE  \E x \in T : \A y \in T : x <= y
<1> DEFINE R == OpToRel(<, Nat)
<1>1. IsWellFoundedOn(R, Nat)
  BY NatLessThanWellFounded
<1>2. PICK x \in T : \A y \in T : <<y, x>> \notin R
  <2> HIDE DEF R
  <2> QED  BY <1>1, WFMin, Zenon
<1>3. ASSUME NEW y \in T, y < x  PROVE FALSE
  <2>1. x \in Nat /\ y \in Nat
    OBVIOUS
  <2>2. <<y, x>> \in R
    BY <2>1, <1>3 DEF OpToRel
  <2> QED  BY <1>2, <2>2
<1> QED  BY <1>3

(* A nonempty set of naturals with a bound has a greatest element.         *)
LEMMA GreatestNatural ==
  ASSUME NEW n \in Nat, NEW T \in SUBSET (1 .. n), T # {}
  PROVE  \E x \in T : \A y \in T : y <= x
<1> DEFINE U == {n - x : x \in T}
<1>1. U \in SUBSET Nat /\ U # {}
  <2>1. \A x \in T : n - x \in Nat
    OBVIOUS
  <2>2. U \in SUBSET Nat
    BY <2>1
  <2>3. PICK x \in T : TRUE
    OBVIOUS
  <2>4. n - x \in U
    OBVIOUS
  <2> QED  BY <2>2, <2>4
<1>2. PICK u \in U : \A v \in U : u <= v
  <2> HIDE DEF U
  <2> QED  BY <1>1, LeastNatural
<1>3. PICK x \in T : u = n - x
  OBVIOUS
<1>4. \A y \in T : y <= x
  <2> SUFFICES ASSUME NEW y \in T PROVE y <= x  OBVIOUS
  <2>1. n - y \in U  OBVIOUS
  <2>2. u <= n - y  BY <1>2, <2>1
  <2> QED  BY <2>2, <1>3
<1> QED  BY <1>4
=============================================================================
