------------------------------ MODULE Induction ------------------------------
(***************************************************************************)
(* Induction over the naturals, stated of sets.  The rules of the library  *)
(* take a predicate as a parameter, which the provers do not instantiate;  *)
(* a set {n \in Nat : P(n)} they do.                                       *)
(***************************************************************************)
EXTENDS Naturals, WellFoundedInduction, TLAPS

\* Every set of naturals has a least member.
LEMMA LeastNatural ==
    ASSUME NEW T \in SUBSET Nat, T # {}
    PROVE  \E x \in T : \A y \in T : x <= y
  <1> DEFINE less == {p \in Nat \X Nat : p[1] < p[2]}
  <1>1. IsWellFoundedOn(less, Nat)
    BY NatLessThanWellFounded DEF OpToRel
  <1>2. PICK x \in T : \A y \in T : <<y, x>> \notin less
    <2> HIDE DEF less
    <2> QED  BY <1>1, WFMin
  <1>3. ASSUME NEW y \in T
        PROVE  x <= y
    <2>1. <<y, x>> \in Nat \X Nat /\ <<y, x>> \notin less
      BY <1>2
    <2>2. ~(y < x)
      BY <2>1
    <2> QED  BY <2>2
  <1> QED  BY <1>3

\* A set that has zero and with every number its successor has all of them.
LEMMA NaturalInduction ==
    ASSUME NEW T \in SUBSET Nat, 0 \in T, \A n \in T : n + 1 \in T
    PROVE  T = Nat
  <1> DEFINE missing == Nat \ T
  <1>1. CASE missing # {}
    <2>1. PICK x \in missing : \A y \in missing : x <= y
      <3> HIDE DEF missing
      <3> QED  BY <1>1, LeastNatural, missing \in SUBSET Nat DEF missing
    <2>2. x \in Nat /\ x # 0
      OBVIOUS
    <2>3. x - 1 \in Nat /\ ~ (x <= x - 1)
      BY <2>2
    <2>4. x - 1 \in T
      BY <2>1, <2>3
    <2> QED  BY <2>2, <2>4
  <1> QED  BY <1>1
=============================================================================
