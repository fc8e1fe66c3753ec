---------------------------- MODULE NumberFacts ----------------------------
(***************************************************************************)
(* Induction over the naturals, for a set in place of a predicate: the     *)
(* provers cannot instantiate a theorem whose parameter is an operator.    *)
(***************************************************************************)
EXTENDS Naturals, TLAPS, WellFoundedInduction

\* The order of the naturals, as a set of pairs.
Less == {ss \in Nat \X Nat : ss[1] < ss[2]}

\* A set of naturals that is not empty has a smallest element.
LEMMA Smallest ==
  ASSUME NEW S \in SUBSET Nat, S # {}
  PROVE  \E d \in S : \A e \in S : d <= e
<1>1. IsWellFoundedOn(Less, Nat)
  BY NatLessThanWellFounded DEF OpToRel, Less
<1>2. PICK d \in S : \A e \in S : ~(<<e, d>> \in Less)
  BY Zenon, <1>1, WFMin
<1>3. ASSUME NEW e \in S PROVE d <= e
  <2>1. <<e, d>> \notin Less /\ <<e, d>> \in Nat \X Nat
    BY <1>2
  <2>2. ~(e < d)
    BY <2>1 DEF Less
  <2>3. QED
    BY <2>2
<1>4. QED
  BY <1>3

\* Induction, for the set of the numbers that have a property.
LEMMA Induction ==
  ASSUME NEW S \in SUBSET Nat, 0 \in S, \A n \in S : n + 1 \in S
  PROVE  S = Nat
<1> SUFFICES ASSUME Nat \ S # {} PROVE FALSE
  BY Zenon
<1>1. PICK n \in Nat \ S : \A e \in Nat \ S : n <= e
  BY Zenon, Smallest
<1>2. n # 0 /\ n - 1 \in Nat /\ (n - 1) + 1 = n
  BY <1>1
<1>3. n - 1 \in S
  BY <1>1, <1>2
<1>4. QED
  BY <1>2, <1>3
=============================================================================
