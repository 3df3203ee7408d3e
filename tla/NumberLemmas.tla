------------------------------ MODULE NumberLemmas -----------------------------
(***************************************************************************)
(* Facts about natural numbers that the proofs of several modules need:    *)
(* the least of a set, and remainders as a counter counts on.              *)
(***************************************************************************)
EXTENDS Integers, FiniteSetsExt, WellFoundedInduction, TLAPS

\* A set of naturals that is not empty has a least element, Min picks it.
LEMMA MinIsLeast ==
    ASSUME NEW S \in SUBSET Nat, S # {}
    PROVE  Min(S) \in S /\ \A y \in S : Min(S) <= y
<1>. DEFINE Less == {pair \in Nat \X Nat : pair[1] < pair[2]}
<1>1. IsWellFoundedOn(Less, Nat)
  <2>1. OpToRel(<, Nat) = Less
    BY Zenon DEF OpToRel
  <2>. QED
    BY <2>1, NatLessThanWellFounded, Zenon
<1>2. \A x, y \in Nat : y < x => <<y, x>> \in Less
  OBVIOUS
<1>. HIDE DEF Less
<1>3. PICK x \in S : \A y \in S : <<y, x>> \notin Less
  BY <1>1, WFMin
<1>4. ASSUME NEW y \in S PROVE x <= y
  <2>1. x \in Nat /\ y \in Nat
    OBVIOUS
  <2>2. ~(y < x)
    BY <1>2, <1>3, <2>1
  <2>. QED
    BY <2>1, <2>2
<1>. QED
  BY <1>4 DEF Min

-----------------------------------------------------------------------------
(* Remainders *)

LEMMA QuotientAndRemainder ==
    ASSUME NEW p \in Nat \ {0}, NEW t \in Nat
    PROVE  /\ t \div p \in Nat
           /\ t % p \in 0..p - 1
           /\ t = (p * (t \div p)) + (t % p)
  OBVIOUS

LEMMA RemainderIsUnique ==
    ASSUME NEW p \in Nat \ {0}, NEW q \in Nat, NEW r \in 0..p - 1,
           NEW t \in Nat, t = (p * q) + r
    PROVE  t % p = r
  OBVIOUS

LEMMA MultipleHasNoRemainder ==
    ASSUME NEW p \in Nat \ {0}, NEW q \in Nat
    PROVE  (p * q) % p = 0
<1>1. p * q \in Nat /\ p * q = (p * q) + 0 /\ 0 \in 0..p - 1
  OBVIOUS
<1>. QED
  BY <1>1, RemainderIsUnique

\* A remainder counts on until it starts again at 0.
LEMMA RemainderCountsOn ==
    ASSUME NEW p \in Nat \ {0}, NEW t \in Nat
    PROVE  IF t % p = p - 1 THEN (t + 1) % p = 0 ELSE (t + 1) % p = (t % p) + 1
<1>. DEFINE q == t \div p
            r == t % p
<1>1. q \in Nat /\ r \in 0..p - 1 /\ t = (p * q) + r
  BY QuotientAndRemainder
<1>. HIDE DEF q, r
<1>2. CASE r = p - 1
  <2>. DEFINE next == q + 1
              u == t + 1
  <2>1. u = p * next /\ next \in Nat /\ u \in Nat
    BY <1>1, <1>2
  <2>. HIDE DEF next, u
  <2>2. u % p = 0
    BY <2>1, MultipleHasNoRemainder
  <2>. QED
    BY <1>2, <2>2 DEF r, u
<1>3. CASE r # p - 1
  <2>1. t + 1 = (p * q) + (r + 1) /\ r + 1 \in 0..p - 1 /\ t + 1 \in Nat
    BY <1>1, <1>3
  <2>2. (t + 1) % p = r + 1
    BY <1>1, <2>1, RemainderIsUnique
  <2>. QED
    BY <1>3, <2>2 DEF r
<1>. QED
  BY <1>2, <1>3

\* A counter modulo a multiple of p has the remainders of one that is not.
LEMMA CycleKeepsRemainders ==
    ASSUME NEW p \in Nat \ {0}, NEW cycle \in Nat \ {0}, cycle % p = 0,
           NEW t \in 0..cycle - 1
    PROVE  ((t + 1) % cycle) % p = (t + 1) % p
<1>1. CASE t + 1 = cycle
  <2>1. (t + 1) % cycle = 0
    BY <1>1
  <2>2. 0 % p = 0
    OBVIOUS
  <2>. QED
    BY <1>1, <2>1, <2>2
<1>2. CASE t + 1 # cycle
  BY <1>2
<1>. QED
  BY <1>1, <1>2
=============================================================================
