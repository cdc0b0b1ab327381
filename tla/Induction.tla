----------------------------- MODULE Induction ------------------------------
(***************************************************************************)
(* Induction over the natural numbers in a form that the provers can       *)
(* instantiate (over a set, not a predicate), and what follows from it for *)
(* least elements and for recursively defined functions.                   *)
(***************************************************************************)
EXTENDS FiniteSetsExt, WellFoundedInduction, TLAPS

\* A set that has 0 and every successor of its numbers has every number: a
\* smallest missing one would be the successor of one that is not missing.
LEMMA SetInduction ==
  ASSUME NEW S, 0 \in S, \A n \in Nat : n \in S => n + 1 \in S
  PROVE  \A n \in Nat : n \in S
<1> DEFINE R == OpToRel(<, Nat)
           T == Nat \ S
<1> SUFFICES ASSUME T # {} PROVE FALSE
  OBVIOUS
<1>1. IsWellFoundedOn(R, Nat)
  BY NatLessThanWellFounded
<1>2. PICK x \in T : \A y \in T : ~(<<y, x>> \in R)
  <2> HIDE DEF R
  <2> QED BY <1>1, WFMin
<1>3. x # 0 /\ x \in Nat
  OBVIOUS
<1>4. x - 1 \in Nat /\ x - 1 < x /\ (x - 1) + 1 = x
  BY <1>3
<1>5. <<x - 1, x>> \in R
  BY <1>3, <1>4 DEF OpToRel
<1> QED BY <1>2, <1>3, <1>4, <1>5

\* Min is the least element of a nonempty set of numbers.
LEMMA MinOfSet ==
  ASSUME NEW S \in SUBSET Nat, S # {}
  PROVE  Min(S) \in S /\ \A y \in S : Min(S) <= y
<1> DEFINE R == OpToRel(<, Nat)
<1>1. IsWellFoundedOn(R, Nat)
  BY NatLessThanWellFounded
<1>2. PICK x \in S : \A y \in S : ~(<<y, x>> \in R)
  <2> HIDE DEF R
  <2> QED BY <1>1, WFMin
<1>3. ASSUME NEW y \in S PROVE x <= y
  <2>1. x \in Nat /\ y \in Nat
    OBVIOUS
  <2>2. ~(y < x)
    BY <1>2, <2>1 DEF OpToRel
  <2> QED BY <2>1, <2>2
<1>4. \E m \in S : \A y \in S : m <= y
  BY <1>3
<1> QED BY <1>4 DEF Min

\* The lesser of two numbers.
LEMMA MinOfPair ==
  ASSUME NEW a \in Nat, NEW b \in Nat
  PROVE  Min({a, b}) \in {a, b} /\ Min({a, b}) <= a /\ Min({a, b}) <= b
BY MinOfSet

\* F starts with a and applies h[i] in the step to i.
Recurses(F, n, a, h) == F[0] = a /\ \A i \in 1..n : F[i] = h[i][F[i - 1]]

\* A recursion over 1..n defines a function.
LEMMA RecursionDefines ==
  ASSUME NEW V, NEW n \in Nat, NEW a \in V, NEW h \in [1..n -> [V -> V]]
  PROVE  \E F \in [0..n -> V] : Recurses(F, n, a, h)
<1> DEFINE Fits(k, F) == F[0] = a /\ \A i \in 1..k : F[i] = h[i][F[i - 1]]
           S == {k \in Nat : k <= n => \E F \in [0..k -> V] : Fits(k, F)}
<1>1. 0 \in S
  <2>1. [i \in 0..0 |-> a] \in [0..0 -> V] /\ Fits(0, [i \in 0..0 |-> a])
    OBVIOUS
  <2> QED BY <2>1
<1>2. ASSUME NEW k \in Nat, k \in S PROVE k + 1 \in S
  <2> SUFFICES ASSUME k + 1 <= n
               PROVE  \E G \in [0..(k + 1) -> V] : Fits(k + 1, G)
    OBVIOUS
  <2>1. PICK F \in [0..k -> V] : Fits(k, F)
    BY <1>2
  <2> DEFINE next == h[k + 1][F[k]]
             G == [i \in 0..(k + 1) |-> IF i <= k THEN F[i] ELSE next]
  <2>2. F[k] \in V /\ k + 1 \in 1..n
    OBVIOUS
  <2>3. next \in V
    BY <2>2
  <2>4. G \in [0..(k + 1) -> V]
    <3> HIDE DEF next
    <3> QED BY <2>3
  <2>5. \A i \in 0..k : G[i] = F[i]
    OBVIOUS
  <2>6. G[k + 1] = next
    OBVIOUS
  <2>7. ASSUME NEW i \in 1..(k + 1) PROVE G[i] = h[i][G[i - 1]]
    <3>1. CASE i \in 1..k
      <4>1. i \in 0..k /\ i - 1 \in 0..k
        BY <3>1
      <4>2. F[i] = h[i][F[i - 1]]
        BY <2>1, <3>1
      <4> HIDE DEF G
      <4> QED BY <2>5, <4>1, <4>2
    <3>2. CASE i = k + 1
      <4>1. i - 1 = k /\ k \in 0..k
        BY <3>2
      <4> HIDE DEF G
      <4> QED BY <2>5, <2>6, <3>2, <4>1
    <3> QED BY <3>1, <3>2
  <2>8. G[0] = a
    BY <2>1
  <2> HIDE DEF G
  <2> QED BY <2>4, <2>7, <2>8
<1>3. \A k \in Nat : k \in S
  <2> HIDE DEF S
  <2> QED BY <1>1, <1>2, SetInduction
<1> QED BY <1>3 DEF Recurses
=============================================================================
