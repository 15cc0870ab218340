-------------------------- MODULE InductionLemmas --------------------------
(***************************************************************************)
(* Induction on the natural numbers, stated for sets: the provers can use  *)
(* these facts in place of theorems that have a predicate as a parameter.  *)
(***************************************************************************)
EXTENDS Integers, TLAPS, WellFoundedInduction

\* Every nonempty set of natural numbers has a least element.
LEMMA LeastNat ==
    ASSUME NEW T, T \subseteq Nat, T # {}
    PROVE  \E n \in T : \A m \in T : n <= m
<1>1. PICK n \in T : \A m \in T : ~(<<m, n>> \in OpToRel(<, Nat))
    BY NatLessThanWellFounded, WFMin, Zenon
<1>2. \A m \in T : ~(m < n)
    BY <1>1 DEF OpToRel
<1> QED
    BY <1>2

\* A set of natural numbers that has 0 and with each number the next one has all of them.
LEMMA NatSetInduction ==
    ASSUME NEW G, 0 \in G, \A n \in Nat : n \in G => n + 1 \in G
    PROVE  Nat \subseteq G
<1> SUFFICES ASSUME ~(Nat \subseteq G) PROVE FALSE
    OBVIOUS
<1> DEFINE T == Nat \ G
<1>1. PICK n \in T : \A m \in T : n <= m
    BY LeastNat
<1>2. n \in Nat /\ n # 0 /\ n - 1 \in Nat
    BY <1>1
<1>3. n - 1 \in G
    BY <1>1, <1>2
<1> QED
    BY <1>1, <1>2, <1>3
=============================================================================
