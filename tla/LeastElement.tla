---------------------------- MODULE LeastElement ----------------------------
(***************************************************************************)
(* A nonempty set of natural numbers has a least element: what the         *)
(* ascending search loops of the gateway (over slots, entries and queued   *)
(* replies) stop at.                                                       *)
(***************************************************************************)
EXTENDS Integers, WellFoundedInduction, TLAPS

\* The ordering of the naturals as a relation.
LEMMA LessThanRel == OpToRel(<, Nat) = {p \in Nat \X Nat : p[1] < p[2]}
  BY Zenon DEF OpToRel

\* A search that can stop has a first place to stop at.
LEMMA LeastExists ==
  ASSUME NEW S \in SUBSET Nat, S # {}
  PROVE  \E x \in S : \A y \in S : x <= y
<1> DEFINE R == OpToRel(<, Nat)
<1>1. IsWellFoundedOn(R, Nat)
  BY NatLessThanWellFounded, Zenon
<1>2. R = {p \in Nat \X Nat : p[1] < p[2]}
  BY LessThanRel, Zenon
<1> HIDE DEF R
<1>3. PICK x \in S : \A y \in S : ~ (<<y, x>> \in R)
  BY <1>1, WFMin, Zenon
<1>4. ASSUME NEW j \in S
      PROVE  x <= j
  <2>1. ~ (<<j, x>> \in {p \in Nat \X Nat : p[1] < p[2]})
    BY <1>2, <1>3, Zenon
  <2>2. j \in Nat /\ x \in Nat
    OBVIOUS
  <2>3. ~ (j < x)
    <3> SUFFICES ASSUME j < x PROVE FALSE
      OBVIOUS
    <3>1. <<j, x>> \in Nat \X Nat /\ <<j, x>>[1] = j /\ <<j, x>>[2] = x
      BY <2>2
    <3> QED BY <2>1, <3>1
  <2> QED BY <2>2, <2>3
<1> QED BY <1>4
=============================================================================
