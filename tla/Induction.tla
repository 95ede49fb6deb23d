----------------------------- MODULE Induction -----------------------------
(***************************************************************************)
(* Induction over the natural numbers, stated of sets instead of           *)
(* predicates: what holds in a set that contains 0 and is closed under the *)
(* successor holds of every number.  It follows from the least element of  *)
(* the set's complement.  The recursive functions of the specifications    *)
(* are unfolded with it.                                                   *)
(***************************************************************************)
EXTENDS Integers, WellFoundedInduction, TLAPS

(***************************************************************************)
(* A nonempty set of natural numbers has a least element.                  *)
(***************************************************************************)
LEMMA LeastNatural ==
    ASSUME NEW T \in SUBSET Nat, T # {}
    PROVE  \E x \in T : \A y \in T : x <= y
<1>1. IsWellFoundedOn(OpToRel(<, Nat), Nat)
  BY NatLessThanWellFounded, Zenon
<1>2. PICK x \in T : \A y \in T : ~(<<y, x>> \in OpToRel(<, Nat))
  BY <1>1, WFMin, Zenon
<1>3. \A y \in Nat, z \in Nat : (<<y, z>> \in OpToRel(<, Nat)) <=> y < z
  BY Zenon DEF OpToRel
<1>4. \A y \in T : ~(y < x)
  BY <1>2, <1>3, Zenon
<1> QED
  BY <1>4, SMT

(***************************************************************************)
(* Induction: a set that contains 0, and n + 1 with n, contains Nat.       *)
(***************************************************************************)
LEMMA SetInduction ==
    ASSUME NEW S, 0 \in S, \A n \in Nat : n \in S => n + 1 \in S
    PROVE  \A n \in Nat : n \in S
<1> SUFFICES ASSUME NEW m \in Nat, m \notin S PROVE FALSE
  OBVIOUS
<1> DEFINE T == {n \in Nat : n \notin S}
<1>1. PICK x \in T : \A y \in T : x <= y
  <2>1. T \in SUBSET Nat /\ T # {}
    OBVIOUS
  <2> HIDE DEF T
  <2> QED
    BY <2>1, LeastNatural
<1>2. x \in Nat /\ x # 0 /\ x \notin S
  OBVIOUS
<1>3. x - 1 \in Nat /\ x - 1 \in S
  BY <1>1, <1>2
<1> QED
  BY <1>2, <1>3

(***************************************************************************)
(* Induction up to a bound: 0 is in S, and n + 1 if n is and is below it.  *)
(***************************************************************************)
LEMMA BoundedInduction ==
    ASSUME NEW bound \in Nat, NEW S, 0 \in S, \A n \in 0..(bound - 1) : n \in S => n + 1 \in S
    PROVE  \A n \in 0..bound : n \in S
<1> DEFINE U == {n \in Nat : n <= bound => n \in S}
<1>1. 0 \in U
  OBVIOUS
<1>2. \A n \in Nat : n \in U => n + 1 \in U
  OBVIOUS
<1>3. \A n \in Nat : n \in U
  <2> HIDE DEF U
  <2> QED
    BY <1>1, <1>2, SetInduction
<1> QED
  BY <1>3

-----------------------------------------------------------------------------
(***************************************************************************)
(* A function that is defined by iteration up to n: it exists, and so the  *)
(* CHOOSE behind its definition returns it.                                *)
(***************************************************************************)
IsIteration(f, x, g, n) == f = [i \in 0..n |-> IF i = 0 THEN x ELSE g[f[i - 1]]]

LEMMA IterationExists ==
    ASSUME NEW x, NEW g, NEW m \in Nat
    PROVE  \E f : IsIteration(f, x, g, m)
<1> DEFINE S == {n \in Nat : \E f : IsIteration(f, x, g, n)}
<1>1. 0 \in S
  <2> DEFINE f == [i \in 0..0 |-> x]
  <2>1. IsIteration(f, x, g, 0)
    BY DEF IsIteration
  <2> QED
    BY <2>1
<1>2. ASSUME NEW n \in Nat, n \in S PROVE n + 1 \in S
  <2>1. PICK f : IsIteration(f, x, g, n)
    BY <1>2
  <2> DEFINE Iterate(h, i) == IF i = 0 THEN x ELSE g[h[i - 1]]
             h == [i \in 0..(n + 1) |-> IF i = n + 1 THEN Iterate(f, n + 1) ELSE f[i]]
  <2>2. \A i \in 0..n : f[i] = Iterate(f, i)
    BY <2>1 DEF IsIteration
  <2>3. \A i \in 0..n : i \in 0..(n + 1) /\ i # n + 1
    OBVIOUS
  <2>4. \A i \in 0..n : h[i] = f[i]
    BY <2>3
  <2>5. ASSUME NEW i \in 0..(n + 1) PROVE h[i] = Iterate(h, i)
    <3>1. i = 0 \/ i - 1 \in 0..n
      OBVIOUS
    <3>2. Iterate(h, i) = Iterate(f, i)
      BY <2>4, <3>1
    <3>3. i = n + 1 \/ i \in 0..n
      OBVIOUS
    <3> QED
      BY <2>2, <2>4, <3>2, <3>3
  <2>6. IsIteration(h, x, g, n + 1)
    <3>1. h = [i \in 0..(n + 1) |-> h[i]]
      OBVIOUS
    <3> HIDE DEF h
    <3> QED
      BY <2>5, <3>1 DEF IsIteration
  <2> HIDE DEF h
  <2> QED
    BY <2>6
<1> HIDE DEF S
<1>3. m \in S
  BY <1>1, <1>2, SetInduction
<1> QED
  BY <1>3 DEF S

(***************************************************************************)
(* Its values, when the step keeps them in a set.                          *)
(***************************************************************************)
LEMMA IterationValues ==
    ASSUME NEW T, NEW x, x \in T, NEW g, g \in [T -> T], NEW m, m \in Nat,
           NEW f, IsIteration(f, x, g, m)
    PROVE  /\ f \in [0..m -> T] /\ f[0] = x
           /\ \A n \in 0..(m - 1) : f[n + 1] = g[f[n]]
<1>1. 0 \in 0..m /\ \A n \in 0..(m - 1) : n + 1 \in 0..m /\ n + 1 # 0 /\ (n + 1) - 1 = n
  OBVIOUS
<1>2. f[0] = x /\ \A n \in 0..(m - 1) : f[n + 1] = g[f[n]]
  BY <1>1 DEF IsIteration
<1> DEFINE S == {n \in Nat : f[n] \in T}
<1>3. 0 \in S /\ \A n \in 0..(m - 1) : n \in S => n + 1 \in S
  BY <1>2
<1>4. \A n \in 0..m : n \in S
  <2> HIDE DEF S
  <2> QED
    BY <1>3, BoundedInduction
<1>5. f \in [0..m -> T]
  BY <1>4 DEF IsIteration
<1> QED
  BY <1>2, <1>5
=============================================================================
