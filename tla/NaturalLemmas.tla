---------------------------- MODULE NaturalLemmas ----------------------------
(***************************************************************************)
(* Induction over the naturals in a form that the provers can use: about   *)
(* sets of numbers instead of predicates.                                  *)
(***************************************************************************)
EXTENDS Integers, WellFoundedInduction, TLAPS

(* A non-empty set of naturals has a least element.                        *)
LEMMA LeastExists ==
  ASSUME NEW I, I \subseteq Nat, I # {}
  PROVE  \E i \in I : \A j \in I : i <= j
<1> DEFINE R == OpToRel(<, Nat)
<1>1. IsWellFoundedOn(R, Nat)
  BY NatLessThanWellFounded
<1>2. \A m, n \in Nat : <<m, n>> \in R <=> m < n
  BY DEF OpToRel
<1> HIDE DEF R
<1>3. PICK i \in I : \A j \in I : ~(<<j, i>> \in R)
  BY <1>1, WFMin, Zenon
<1>4. ASSUME NEW j \in I PROVE i <= j
  <2>1. ~(j < i)
    BY <1>2, <1>3
  <2> QED BY <2>1
<1> QED BY <1>4

(* A non-empty set of naturals with an upper bound has a greatest element. *)
LEMMA GreatestExists ==
  ASSUME NEW n \in Nat, NEW I, I \subseteq 1 .. n, I # {}
  PROVE  \E i \in I : \A j \in I : i >= j
<1> DEFINE J == {n - i : i \in I}
<1>1. J \subseteq Nat /\ J # {}
  <2>1. \A i \in I : n - i \in Nat
    OBVIOUS
  <2>2. PICK i \in I : TRUE
    OBVIOUS
  <2>3. n - i \in J
    BY <2>2
  <2> QED BY <2>1, <2>3
<1> HIDE DEF J
<1>2. PICK k \in J : \A j \in J : k <= j
  BY <1>1, LeastExists
<1>3. PICK i \in I : k = n - i
  BY <1>2 DEF J
<1>4. \A j \in I : n - j \in J
  BY DEF J
<1>5. \A j \in I : i >= j
  BY <1>2, <1>3, <1>4
<1> QED BY <1>5

(* A set that has a number and with each its successor has all from there. *)
LEMMA InductionFrom ==
  ASSUME NEW S, NEW m \in Nat, m \in S,
         \A n \in Nat : n >= m /\ n \in S => n + 1 \in S
  PROVE  \A n \in Nat : n >= m => n \in S
<1> DEFINE I == {n \in Nat : n >= m /\ n \notin S}
<1> SUFFICES ASSUME I # {} PROVE FALSE
  OBVIOUS
<1>1. I \subseteq Nat
  OBVIOUS
<1>2. PICK i \in I : \A j \in I : i <= j
  BY <1>1, LeastExists
<1>3. i \in Nat /\ i > m /\ i \notin S
  BY <1>2
<1>4. i - 1 \in Nat /\ i - 1 >= m /\ i - 1 \in S
  BY <1>2, <1>3
<1>5. (i - 1) + 1 \in S
  BY <1>4
<1> QED
  BY <1>3, <1>5

(* Two functions that start alike and, where they agree, agree one further *)
(* on, are alike.                                                          *)
LEMMA AgreeUpTo ==
  ASSUME NEW f, NEW g, NEW m \in Nat, f[0] = g[0],
         \A n \in 1..m : f[n - 1] = g[n - 1] => f[n] = g[n]
  PROVE  f[m] = g[m]
<1> DEFINE S == {n \in Nat : n <= m => f[n] = g[n]}
<1>1. 0 \in S
  OBVIOUS
<1>2. ASSUME NEW n \in Nat, n \in S PROVE n + 1 \in S
  <2> SUFFICES ASSUME n + 1 <= m PROVE f[n + 1] = g[n + 1]
    OBVIOUS
  <2>1. n + 1 \in 1..m /\ (n + 1) - 1 = n /\ f[n] = g[n]
    BY <1>2
  <2> QED
    BY <2>1
<1>3. m \in S
  <2> HIDE DEF S
  <2> QED
    BY <1>1, <1>2, InductionFrom
<1> QED
  BY <1>3

(* A function on 0..last that is given at 0, and at every further number   *)
(* by its value at the one before.                                         *)
IsRecursion(f, last, D, base, step) ==
  /\ f \in [0..last -> D]
  /\ f[0] = base /\ \A n \in 1..last : f[n] = step[n][f[n - 1]]

IsStep(step, last, D) == \A n \in 1..last, v \in D : step[n][v] \in D

LEMMA RecursionExists ==
  ASSUME NEW last \in Nat, NEW D, NEW base \in D, NEW step, IsStep(step, last, D)
  PROVE  \E f : IsRecursion(f, last, D, base, step)
<1> DEFINE Is(f, m) == f[0] = base /\ \A n \in 1..m : f[n] = step[n][f[n - 1]]
           S == {m \in Nat : m <= last => \E f \in [0..m -> D] : Is(f, m)}
<1>1. 0 \in S
  <2> DEFINE f == [n \in 0..0 |-> base]
  <2>1. f \in [0..0 -> D] /\ Is(f, 0)
    OBVIOUS
  <2> QED
    BY <2>1
<1>2. ASSUME NEW m \in Nat, m \in S PROVE m + 1 \in S
  <2> SUFFICES ASSUME m + 1 <= last PROVE \E g \in [0..m + 1 -> D] : Is(g, m + 1)
    OBVIOUS
  <2>1. PICK f \in [0..m -> D] : Is(f, m)
    BY <1>2
  <2>2. step[m + 1][f[m]] \in D
    <3>1. m + 1 \in 1..last /\ f[m] \in D
      OBVIOUS
    <3> QED
      BY <3>1 DEF IsStep
  <2> DEFINE g == [n \in 0..m + 1 |-> IF n <= m THEN f[n] ELSE step[m + 1][f[m]]]
  <2>3. g \in [0..m + 1 -> D]
    BY <2>2
  <2>4. g[0] = base
    BY <2>1
  <2>5. ASSUME NEW n \in 1..m + 1 PROVE g[n] = step[n][g[n - 1]]
    <3>1. CASE n <= m
      <4>1. g[n] = f[n] /\ g[n - 1] = f[n - 1] /\ n \in 1..m
        BY <3>1
      <4> HIDE DEF g
      <4> QED
        BY <2>1, <4>1
    <3>2. CASE n = m + 1
      <4>1. g[n] = step[m + 1][f[m]] /\ g[n - 1] = f[m]
        BY <3>2
      <4> HIDE DEF g
      <4> QED
        BY <3>2, <4>1
    <3> QED
      BY <3>1, <3>2
  <2> HIDE DEF g
  <2> QED
    BY <2>3, <2>4, <2>5
<1>3. last \in S
  <2> HIDE DEF S
  <2> QED
    BY <1>1, <1>2, InductionFrom
<1> QED
  BY <1>3 DEF IsRecursion
=============================================================================
