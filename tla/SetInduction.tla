---------------------------- MODULE SetInduction ----------------------------
(***************************************************************************)
(* Induction stated about sets: a non-empty set of naturals has a least    *)
(* element, a non-empty set of subsets of a finite set a smallest one.  A  *)
(* proof by induction takes the least element of a set of                  *)
(* counterexamples.                                                        *)
(***************************************************************************)
EXTENDS Integers, FiniteSetTheorems, WellFoundedInduction, TLAPS

(* A non-empty set of naturals has a least element.                        *)
LEMMA LeastNatural ==
    ASSUME NEW S \in SUBSET Nat, S # {}
    PROVE  \E m \in S : \A n \in S : m =< n
<1> DEFINE Less == OpToRel(<, Nat)
<1>1. IsWellFoundedOn(Less, Nat)
  BY NatLessThanWellFounded
<1>2. \A m, n \in Nat : m < n => <<m, n>> \in Less
  BY DEF OpToRel
<1> HIDE DEF Less
<1>3. PICK m \in S : \A n \in S : ~(<<n, m>> \in Less)
  BY <1>1, WFMin
<1>4. ASSUME NEW n \in S
      PROVE  m =< n
  <2>1. m \in Nat /\ n \in Nat
    OBVIOUS
  <2>2. ~(n < m)
    BY <1>2, <1>3, <2>1
  <2> QED BY <2>1, <2>2
<1> QED BY <1>4

(* A non-empty set of subsets of a finite set has one that no other of     *)
(* them is included in.                                                    *)
LEMMA SmallestSubset ==
    ASSUME NEW T, IsFiniteSet(T), NEW C \in SUBSET (SUBSET T), C # {}
    PROVE  \E s \in C : \A r \in C : r \subseteq s => r = s
<1> DEFINE Less == StrictSubsetOrdering(T)
<1>1. IsWellFoundedOn(Less, FiniteSubsetsOf(T))
  BY FS_StrictSubsetOrderingWellFounded
<1>2. C \subseteq FiniteSubsetsOf(T)
  BY FS_Subset DEF FiniteSubsetsOf
<1>3. \A r, s \in SUBSET T : r \subseteq s /\ r # s => <<r, s>> \in Less
  BY DEF StrictSubsetOrdering
<1> HIDE DEF Less
<1>4. PICK s \in C : \A r \in C : ~(<<r, s>> \in Less)
  BY <1>1, <1>2, WFMin
<1> QED BY <1>3, <1>4
=============================================================================
