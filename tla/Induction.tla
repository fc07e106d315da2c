------------------------------- MODULE Induction -------------------------------
(***************************************************************************)
(* Induction over the natural numbers in the form the proofs of this       *)
(* project use: for a set instead of a predicate.  The order on Nat as a   *)
(* set of pairs is all that is taken from the library.                     *)
(***************************************************************************)
EXTENDS Integers, WellFoundedInduction, TLAPS

\* The order of the natural numbers is well founded.
LEMMA NatOrder == \E R : IsWellFoundedOn(R, Nat) /\ \A x, y \in Nat : <<y, x>> \in R <=> y < x
  <1>1. \A x, y \in Nat : (<<y, x>> \in OpToRel(<, Nat)) <=> y < x
    BY DEF OpToRel
  <1>2. WITNESS OpToRel(<, Nat)
  <1>3. QED BY <1>1, NatLessThanWellFounded, Zenon

\* A set of natural numbers that has an element has a least one.
LEMMA LeastNat == ASSUME NEW T \in SUBSET Nat, T # {} PROVE \E x \in T : \A y \in T : x <= y
  <1>1. PICK R : IsWellFoundedOn(R, Nat) /\ \A x, y \in Nat : <<y, x>> \in R <=> y < x
    BY NatOrder
  <1>2. PICK x \in T : \A y \in T : ~ (<<y, x>> \in R)
    BY <1>1, WFMin
  <1>3. ASSUME NEW y \in T PROVE x <= y
    <2>1. x \in Nat /\ y \in Nat OBVIOUS
    <2>2. ~ (y < x) BY <2>1, <1>1, <1>2
    <2>3. QED BY <2>1, <2>2
  <1>4. QED BY <1>3

\* A set that holds 0, and n + 1 with every n, holds every natural number.
LEMMA SetInduction == ASSUME NEW T \in SUBSET Nat, 0 \in T, \A n \in T : n + 1 \in T PROVE T = Nat
  <1> SUFFICES ASSUME T # Nat PROVE FALSE OBVIOUS
  <1>1. PICK x \in Nat \ T : \A y \in Nat \ T : x <= y
    <2>1. Nat \ T \in SUBSET Nat /\ Nat \ T # {} OBVIOUS
    <2>2. QED BY <2>1, LeastNat
  <1>2. x - 1 \in Nat
    BY <1>1
  <1>3. x - 1 \in T BY <1>1, <1>2
  <1>4. QED BY <1>3, <1>1

=============================================================================
