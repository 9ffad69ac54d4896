---- MODULE NaturalRecursion ----
(* Least elements, induction over an interval and functions by recursion, stated over sets and *)
(* functions: what the proofs about the recursive functions of the model rest on.              *)
EXTENDS Naturals, WellFoundedInduction, NaturalsInduction, TLAPS

\* A set of natural numbers that is not empty has a least element.
LEMMA Least ==
    ASSUME NEW T, T \subseteq Nat, T # {}
    PROVE  \E n \in T : \A m \in T : n <= m
<1>1. IsWellFoundedOn(OpToRel(<, Nat), Nat)
      BY NatLessThanWellFounded
<1>2. \E x \in T : \A y \in T : ~ (<<y, x>> \in OpToRel(<, Nat))
      BY <1>1, WFMin
<1>3. PICK x \in T : \A y \in T : ~ (<<y, x>> \in {ss \in Nat \X Nat : ss[1] < ss[2]})
      BY <1>2 DEF OpToRel
<1>4. \A y \in T : ~ (y < x)
      BY <1>3
<1> QED
    BY <1>4

\* A set that holds 0, and k + 1 whenever it holds k, holds the interval.
LEMMA Induction ==
    ASSUME NEW m \in Nat, NEW T, 0 \in T, \A k \in 0 .. m - 1 : k \in T => k + 1 \in T
    PROVE  0 .. m \subseteq T
<1> DEFINE Out == (0 .. m) \ T
<1> SUFFICES ASSUME Out # {} PROVE FALSE
    OBVIOUS
<1>1. Out \subseteq Nat
      OBVIOUS
<1>2. PICK k \in Out : \A j \in Out : k <= j
  <2> HIDE DEF Out
  <2> QED
      BY <1>1, Least
<1>3. k # 0 /\ k - 1 \in 0 .. m - 1 /\ k - 1 \notin Out
      BY <1>2
<1> QED
    BY <1>2, <1>3

\* f is defined by recursion up to m: a first value, and a step from each value to the next.
Iterates(f, first, step, m) == f[0] = first /\ \A k \in 1 .. m : f[k] = step[<<k, f[k - 1]>>]

\* Such a function exists, and takes its values in the set.
LEMMA RecursionExists ==
    ASSUME NEW X, NEW first \in X, NEW step \in [Nat \X X -> X], NEW m \in Nat
    PROVE  \E f \in [0 .. m -> X] : Iterates(f, first, step, m)
<1> DEFINE Holds(f, n) == Iterates(f, first, step, n)
           T == {n \in 0 .. m : \E f \in [0 .. n -> X] : Holds(f, n)}
<1>1. 0 \in T
  <2> DEFINE f == [k \in 0 .. 0 |-> first]
  <2>1. f \in [0 .. 0 -> X] /\ Holds(f, 0)
        BY DEF Iterates
  <2> HIDE DEF f
  <2> QED
      BY <2>1, 0 \in 0 .. m
<1>2. ASSUME NEW n \in 0 .. m - 1, n \in T PROVE n + 1 \in T
  <2>1. PICK f \in [0 .. n -> X] : Holds(f, n)
        BY <1>2
  <2> DEFINE h == [k \in 0 .. n + 1 |-> IF k = n + 1 THEN step[<<n + 1, f[n]>>] ELSE f[k]]
  <2>2. <<n + 1, f[n]>> \in Nat \X X
        OBVIOUS
  <2>3. step[<<n + 1, f[n]>>] \in X
        BY <2>2
  <2>4. h \in [0 .. n + 1 -> X]
        BY <2>3
  <2>5. \A k \in 0 .. n : h[k] = f[k]
        OBVIOUS
  <2>6. h[n + 1] = step[<<n + 1, h[n]>>]
    <3>1. h[n + 1] = step[<<n + 1, f[n]>>]
          OBVIOUS
    <3>2. h[n] = f[n]
          BY <2>5
    <3> HIDE DEF h
    <3> QED
        BY <3>1, <3>2
  <2>7. h[0] = first
        BY <2>1, <2>5 DEF Iterates
  <2> HIDE DEF h
  <2>8. ASSUME NEW k \in 1 .. n + 1 PROVE h[k] = step[<<k, h[k - 1]>>]
    <3>1. CASE k = n + 1
          BY <3>1, <2>6
    <3>2. CASE k # n + 1
          BY <3>2, <2>1, <2>5 DEF Iterates
    <3> QED
        BY <3>1, <3>2
  <2>9. Holds(h, n + 1)
        BY <2>7, <2>8 DEF Iterates
  <2> HIDE DEF Holds
  <2> QED
      BY <2>4, <2>9
<1>3. m \in T
  <2> HIDE DEF T
  <2> QED
      BY <1>1, <1>2, Induction
<1> QED
    BY <1>3
====
