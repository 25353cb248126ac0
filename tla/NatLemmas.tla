------------------------------ MODULE NatLemmas -----------------------------
(***************************************************************************)
(* The least and the greatest element of a set of naturals, as Min and Max *)
(* of FiniteSetsExt choose them.                                           *)
(***************************************************************************)
EXTENDS Integers, FiniteSetsExt, WellFoundedInduction, TLAPS

(***************************************************************************)
(* A nonempty set of naturals has the minimum that Min chooses.            *)
(***************************************************************************)
LEMMA MinOfNats ==
  ASSUME NEW T \in SUBSET Nat, T # {}
  PROVE  Min(T) \in T /\ \A y \in T : Min(T) <= y
PROOF
  <1> DEFINE Less == {ss \in Nat \X Nat : ss[1] < ss[2]}
  <1>1. IsWellFoundedOn(Less, Nat)
    BY NatLessThanWellFounded, Zenon DEF OpToRel
  <1> HIDE DEF Less
  <1>2. PICK x \in T : \A y \in T : ~ (<< y, x >> \in Less)
    BY <1>1, WFMin
  <1>3. ASSUME NEW y \in T
        PROVE  x <= y
    <2>1. x \in Nat /\ y \in Nat
      OBVIOUS
    <2>2. y < x => << y, x >> \in Less
      BY <2>1 DEF Less
    <2> QED
      BY <1>2, <2>1, <2>2
  <1> QED
    BY <1>3 DEF Min

(***************************************************************************)
(* A nonempty bounded set of naturals has the maximum that Max chooses.    *)
(***************************************************************************)
LEMMA MaxOfNats ==
  ASSUME NEW n \in Nat, NEW T \in SUBSET (0 .. n), T # {}
  PROVE  Max(T) \in T /\ \A y \in T : y <= Max(T)
PROOF
  <1> DEFINE U == {n - x : x \in T}
  <1>1. U \in SUBSET Nat /\ U # {}
    <2>1. \A x \in T : n - x \in Nat
      OBVIOUS
    <2>2. PICK x \in T : TRUE
      OBVIOUS
    <2>3. n - x \in U
      OBVIOUS
    <2> QED
      BY <2>1, <2>3
  <1>2. Min(U) \in U /\ \A u \in U : Min(U) <= u
    BY <1>1, MinOfNats
  <1>3. PICK m \in T : Min(U) = n - m
    BY <1>2
  <1>4. ASSUME NEW y \in T
        PROVE  m >= y
    <2>1. n - y \in U
      OBVIOUS
    <2>2. n - m <= n - y
      BY <1>2, <1>3, <2>1
    <2> QED
      BY <2>2
  <1>5. Max(T) \in T /\ \A y \in T : Max(T) >= y
    BY <1>4, Zenon DEF Max
  <1> QED
    BY <1>5
=============================================================================
