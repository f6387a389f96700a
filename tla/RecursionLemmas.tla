-------------------------- MODULE RecursionLemmas ---------------------------
(***************************************************************************)
(* Induction over the natural numbers without an operator as a parameter,  *)
(* and the existence of the functions that the models define recursively:  *)
(* f[k \in S] == e is CHOOSE f : f = [k \in S |-> e], of which nothing is  *)
(* known before such a function is shown to exist.                         *)
(***************************************************************************)
EXTENDS Integers, Sequences, TLAPS, WellFoundedInduction

\* Every set of naturals that is not empty has a least element.
LEMMA LeastElement ==
  ASSUME NEW T \in SUBSET Nat, T # {}
  PROVE  \E x \in T : \A y \in T : x <= y
<1> DEFINE R == OpToRel(<, Nat)
<1>1. IsWellFoundedOn(R, Nat)
  BY NatLessThanWellFounded
<1>2. PICK x \in T : \A y \in T : <<y, x>> \notin R
  <2> HIDE DEF R
  <2>1. QED
    BY <1>1, WFMin
<1>3. \A y \in T : ~(y < x)
  BY <1>2 DEF OpToRel
<1>4. QED
  BY <1>3

\* A set with 0 that is closed under adding one up to n.
LEMMA UpTo ==
  ASSUME NEW n \in Nat, NEW S, 0 \in S, \A k \in 0..(n - 1) : k \in S => k + 1 \in S
  PROVE  0..n \subseteq S
<1> SUFFICES ASSUME ~(0..n \subseteq S) PROVE FALSE
  OBVIOUS
<1> DEFINE Others == (0..n) \ S
<1>0. Others \in SUBSET Nat /\ Others # {}
  OBVIOUS
<1>1. PICK x \in Others : \A y \in Others : x <= y
  <2> HIDE DEF Others
  <2>1. QED
    BY <1>0, LeastElement
<1>2. x # 0 /\ x - 1 \in 0..(n - 1) /\ x - 1 \in S
  BY <1>1
<1>3. QED
  BY <1>1, <1>2

\* Of the numbers up to n in S there is a greatest one.
LEMMA GreatestElement ==
  ASSUME NEW n \in Nat, NEW S \in SUBSET (0..n), S # {}
  PROVE  \E x \in S : \A y \in S : y <= x
<1> DEFINE Mirror == {k \in 0..n : n - k \in S}
<1>1. PICK s \in S : TRUE
  OBVIOUS
<1>2. n - s \in Mirror
  BY <1>1
<1>3. PICK m \in Mirror : \A k \in Mirror : m <= k
  <2>1. Mirror \in SUBSET Nat /\ Mirror # {}
    BY <1>2
  <2> HIDE DEF Mirror
  <2>2. QED
    BY <2>1, LeastElement
<1>4. \A y \in S : n - y \in Mirror
  OBVIOUS
<1>5. \A y \in S : m <= n - y
  BY <1>3, <1>4
<1>6. n - m \in S /\ \A y \in S : y <= n - m
  BY <1>3, <1>5
<1>7. QED
  BY <1>6

\* A function on 0..n by its value at 0 and the step from each value to the next.
Steps(S, n) == [S \X (1..n) -> S]
IterationOf(f, n, S, base, step) ==
  f \in [0..n -> S] /\ f[0] = base /\ \A k \in 1..n : f[k] = step[<<f[k - 1], k>>]

LEMMA Iterated ==
  ASSUME NEW n \in Nat, NEW S, NEW base \in S, NEW step \in Steps(S, n)
  PROVE  \E f : IterationOf(f, n, S, base, step)
<1> USE DEF Steps, IterationOf
<1> DEFINE Good(m) == \E f \in [0..m -> S] :
                        f[0] = base /\ \A k \in 1..m : f[k] = step[<<f[k - 1], k>>]
           Those == {m \in 0..n : Good(m)}
<1>1. 0 \in Those
  <2>1. [k \in 0..0 |-> base] \in [0..0 -> S] /\ [k \in 0..0 |-> base][0] = base
    OBVIOUS
  <2>2. \A k \in 1..0 : FALSE
    OBVIOUS
  <2>3. Good(0)
    <3> WITNESS [k \in 0..0 |-> base] \in [0..0 -> S]
    <3>1. QED
      BY <2>1, <2>2
  <2>4. QED
    BY <2>3
<1>2. ASSUME NEW m \in 0..(n - 1), m \in Those
      PROVE  m + 1 \in Those
  <2>1. PICK f \in [0..m -> S] : f[0] = base /\ \A k \in 1..m : f[k] = step[<<f[k - 1], k>>]
    BY <1>2
  <2> DEFINE g == [k \in 0..(m + 1) |-> IF k = m + 1 THEN step[<<f[m], m + 1>>] ELSE f[k]]
  <2>2. step[<<f[m], m + 1>>] \in S
    BY <2>1
  <2>3. g \in [0..(m + 1) -> S] /\ g[0] = base
    BY <2>1, <2>2
  <2>4. ASSUME NEW k \in 1..(m + 1) PROVE g[k] = step[<<g[k - 1], k>>]
    <3>1. CASE k = m + 1
      <4>1. k - 1 = m /\ m \in 0..(m + 1) /\ m # m + 1 /\ m + 1 \in 0..(m + 1)
        BY <3>1
      <4>2. g[m] = f[m] /\ g[m + 1] = step[<<f[m], m + 1>>]
        BY <4>1
      <4>3. QED
        BY <3>1, <4>1, <4>2
    <3>2. CASE k # m + 1
      BY <2>1, <3>2
    <3>3. QED
      BY <3>1, <3>2
  <2>5. Good(m + 1)
    <3> HIDE DEF g
    <3>1. QED
      BY <2>3, <2>4
  <2>6. QED
    BY <2>5
<1>3. \A m \in 0..(n - 1) : m \in Those => m + 1 \in Those
  BY <1>2
<1>4. n \in Those
  <2> HIDE DEF Those
  <2>1. 0..n \subseteq Those
    BY <1>1, <1>3, UpTo
  <2>2. QED
    BY <2>1
<1>5. QED
  BY <1>4
=============================================================================
