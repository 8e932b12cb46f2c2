----------------------------- MODULE NaturalSets -----------------------------
(***************************************************************************)
(* A fact about sets of naturals that the proofs about the other modules   *)
(* share: the least-element principle stands in for induction.             *)
(***************************************************************************)
EXTENDS Naturals, NaturalsInduction, WellFoundedInduction, TLAPS

\* A set of naturals that is not empty has a least element.
LEMMA LeastOf ==
  ASSUME NEW S \in SUBSET Nat, S # {}
  PROVE  \E m \in S : \A x \in S : m <= x
  <1> DEFINE R == {p \in Nat \X Nat : p[1] < p[2]}
  <1>1. IsWellFoundedOn(R, Nat)
    BY NatLessThanWellFounded DEF OpToRel
  <1> HIDE DEF R
  <1>2. PICK m \in S : \A x \in S : ~(<<x, m>> \in R)
    BY <1>1, WFMin
  <1>3. \A x \in S : ~(x < m)
    BY <1>2 DEF R
  <1> QED BY <1>3

\* A set that holds 0 and, with k - 1, k holds all of 0..L.
LEMMA UpThrough ==
  ASSUME NEW L \in Nat, NEW S, 0 \in S, \A k \in 1..L : k - 1 \in S => k \in S
  PROVE  \A k \in 0..L : k \in S
  <1> DEFINE R == {k \in 0..L : k \notin S}
  <1>1. SUFFICES ASSUME R # {} PROVE FALSE
    OBVIOUS
  <1>2. R \in SUBSET Nat
    OBVIOUS
  <1>3. PICK m \in R : \A k \in R : m <= k
    BY <1>1, <1>2, LeastOf
  <1>4. m \in 1..L /\ m - 1 \in 0..L /\ m - 1 \notin R
    BY <1>3
  <1> QED BY <1>3, <1>4
=============================================================================
