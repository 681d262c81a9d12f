---------------------------- MODULE NaturalSets ----------------------------
(* Lemmas about sets of natural numbers that several proofs need: the      *)
(* least and the greatest member, and the members up to a given one.       *)
EXTENDS Naturals, FiniteSetTheorems, WellFoundedInduction, TLAPS

(* A set of naturals that is not empty has a least member. *)
LEMMA HasLeast ==
  ASSUME NEW S \in SUBSET Nat, S # {}
  PROVE  \E x \in S : \A y \in S : x <= y
  <1>1. PICK x \in S : \A y \in S : <<y, x>> \notin OpToRel(<, Nat)
    <2>1. IsWellFoundedOn(OpToRel(<, Nat), Nat)
      BY NatLessThanWellFounded
    <2> QED BY <2>1, WFMin, Zenon
  <1>2. ASSUME NEW y \in S
        PROVE  x <= y
    <2>1. ~(y < x)
      BY <1>1 DEF OpToRel
    <2> QED BY <2>1
  <1> QED BY <1>2

(* If it is bounded, it has a greatest one: the least of its bounds.       *)
LEMMA HasGreatest ==
  ASSUME NEW S \in SUBSET Nat, S # {}, NEW b \in Nat, \A x \in S : x <= b
  PROVE  \E x \in S : \A y \in S : y <= x
  <1> DEFINE Bounds == {u \in Nat : \A x \in S : x <= u}
  <1>1. Bounds \in SUBSET Nat /\ Bounds # {}
    OBVIOUS
  <1>2. PICK u \in Bounds : \A v \in Bounds : u <= v
    <2> HIDE DEF Bounds
    <2> QED BY <1>1, HasLeast
  <1>3. u \in S
    <2>1. SUFFICES ASSUME u \notin S PROVE FALSE
      OBVIOUS
    <2>2. PICK x \in S : TRUE
      OBVIOUS
    <2>3. u - 1 \in Nat /\ \A y \in S : y <= u - 1
      BY <2>1
    <2> QED BY <1>2, <2>3
  <1> QED BY <1>3

(* A smaller bound leaves no more members below it.                        *)
LEMMA UpToMonotone ==
  ASSUME NEW S \in SUBSET Nat, IsFiniteSet(S), NEW t \in Nat, NEW u \in Nat, u <= t
  PROVE  /\ Cardinality({x \in S : x <= u}) <= Cardinality({x \in S : x <= t})
         /\ Cardinality({x \in S : x <= t}) <= Cardinality(S)
  <1> DEFINE UpTo(k) == {x \in S : x <= k}
  <1>1. UpTo(u) \subseteq UpTo(t) /\ UpTo(t) \subseteq S
    <2>1. \A x \in S : x \in Nat
      OBVIOUS
    <2>2. \A x \in S : x <= u => x <= t
      BY <2>1
    <2> QED BY <2>2
  <1>2. IsFiniteSet(UpTo(t)) /\ Cardinality(UpTo(t)) <= Cardinality(S)
    BY <1>1, FS_Subset
  <1>3. Cardinality(UpTo(u)) <= Cardinality(UpTo(t))
    BY <1>1, <1>2, FS_Subset
  <1> QED BY <1>2, <1>3
===========================================================================
