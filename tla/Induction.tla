------------------------------ MODULE Induction ------------------------------
(***************************************************************************)
(* Induction over the natural numbers, for a set of numbers in place of a  *)
(* predicate.  The proofs use it to show what a recursive function does    *)
(* with every journal and every set of accounts.                           *)
(***************************************************************************)
EXTENDS WellFoundedInduction, FiniteSetTheorems, TLAPS

(***************************************************************************)
(* A set that contains 0, and n + 1 whenever it contains n, has all the    *)
(* natural numbers: the least one missing would have one before it.        *)
(***************************************************************************)
LEMMA SetInduction ==
    ASSUME NEW S, 0 \in S, \A n \in Nat : n \in S => n + 1 \in S
    PROVE  \A n \in Nat : n \in S
<1> DEFINE T == Nat \ S
           R == {ss \in Nat \X Nat : ss[1] < ss[2]}
<1> SUFFICES ASSUME T # {} PROVE FALSE
    OBVIOUS
<1>1. IsWellFoundedOn(R, Nat)
    BY NatLessThanWellFounded DEF OpToRel
<1>2. T \subseteq Nat
    OBVIOUS
<1>3. \E m \in T : \A k \in T : ~ (<<k, m>> \in R)
    <2> HIDE DEF R, T
    <2> QED BY <1>1, <1>2, WFMin
<1>4. PICK m \in T : \A k \in T : ~ (<<k, m>> \in R)
    BY <1>3
<1>5. m \in Nat /\ m # 0 /\ m - 1 \in Nat /\ m - 1 + 1 = m /\ m - 1 < m
    BY <1>4
<1>6. m - 1 \in T
    BY <1>4, <1>5
<1>7. <<m - 1, m>> \in R
    BY <1>5
<1> QED
    BY <1>4, <1>6, <1>7

(***************************************************************************)
(* The same for the subsets of a finite set: G has all of them if it has   *)
(* the empty one, and each one whenever it has those with one element      *)
(* less.                                                                   *)
(***************************************************************************)
LEMMA SubsetInduction ==
    ASSUME NEW S, IsFiniteSet(S), NEW G, {} \in G,
           \A s \in SUBSET S : s # {} /\ (\A x \in s : s \ {x} \in G) => s \in G
    PROVE  SUBSET S \subseteq G
<1> DEFINE N == {n \in Nat : \A s \in SUBSET S : Cardinality(s) = n => s \in G}
<1>1. \A s \in SUBSET S : IsFiniteSet(s) /\ Cardinality(s) \in Nat
    BY FS_Subset, FS_CardinalityType
<1>2. 0 \in N
    BY <1>1, FS_EmptySet
<1>3. ASSUME NEW n \in Nat, n \in N PROVE n + 1 \in N
    <2> SUFFICES ASSUME NEW s \in SUBSET S, Cardinality(s) = n + 1 PROVE s \in G
        OBVIOUS
    <2>1. s # {}
        BY <1>3, FS_EmptySet
    <2>2. ASSUME NEW x \in s PROVE s \ {x} \in G
        <3>1. s \ {x} \in SUBSET S /\ Cardinality(s \ {x}) = n
            <4>1. IsFiniteSet(s) /\ Cardinality(s) = n + 1
                BY <1>1
            <4>2. Cardinality(s \ {x}) = Cardinality(s) - 1
                BY <4>1, FS_RemoveElement
            <4> QED BY <4>1, <4>2
        <3> QED BY <1>3, <3>1
    <2> QED BY <2>1, <2>2
<1>4. \A n \in Nat : n \in N
    <2> HIDE DEF N
    <2> QED BY <1>2, <1>3, SetInduction
<1> QED
    BY <1>1, <1>4
=============================================================================
