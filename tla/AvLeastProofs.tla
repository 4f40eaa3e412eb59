--------------------------- MODULE AvLeastProofs ---------------------------
(***************************************************************************)
(* The lowest free slot of a table, the lowest handle of a list: what Min  *)
(* chooses out of a set of naturals.                                       *)
(***************************************************************************)
EXTENDS Naturals, FiniteSetsExt, WellFoundedInduction, NaturalsInduction, TLAPS

\* A non-empty set of naturals has a least element, and Min is it.
LEMMA MinIsLeast ==
  ASSUME NEW S \in SUBSET Nat, S # {}
  PROVE  Min(S) \in S /\ \A j \in S : Min(S) <= j
<1> DEFINE R == { ss \in Nat \X Nat : ss[1] < ss[2] }
<1>1. OpToRel(<, Nat) = R
  BY DEF OpToRel
<1>2. IsWellFoundedOn(R, Nat)
  <2>1. IsWellFoundedOn(OpToRel(<, Nat), Nat)
    BY NatLessThanWellFounded, Zenon
  <2> QED
    BY <1>1, <2>1
<1>3. PICK m \in S : \A j \in S : ~ (<<j, m>> \in R)
  <2> HIDE DEF R
  <2> QED
    BY <1>2, WFMin
<1>4. \A a, b \in Nat : <<a, b>> \in R <=> a < b
  OBVIOUS
<1>5. \A j \in S : ~ (j < m)
  <2> HIDE DEF R
  <2> QED
    BY <1>3, <1>4
<1>6. \E x \in S : \A y \in S : x <= y
  BY <1>5
<1> QED
  BY <1>6 DEF Min

=============================================================================
