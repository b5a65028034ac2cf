--------------------------- MODULE NaturalRecursion ---------------------------
(***************************************************************************)
(* Induction and recursion over the natural numbers, with sets and         *)
(* functions in place of predicates and operators, so that they can be     *)
(* cited for any particular one.                                           *)
(***************************************************************************)
EXTENDS Integers, WellFoundedInduction, TLAPS

\* A set of natural numbers that is not empty has a least element.
LEMMA LeastElement ==
  ASSUME NEW T \in SUBSET Nat, T # {}
  PROVE  \E n \in T : \A m \in T : n <= m
<1> DEFINE below == {pair \in Nat \X Nat : pair[1] < pair[2]}
<1>1. below = OpToRel(<, Nat)
  BY Zenon DEF OpToRel
<1>2. IsWellFoundedOn(below, Nat)
  BY <1>1, NatLessThanWellFounded, Zenon
<1> HIDE DEF below
<1>3. PICK n \in T : \A m \in T : <<m, n>> \notin below
  BY <1>2, WFMin
<1>4. \A m \in T : ~(m < n)
  BY <1>3 DEF below
<1>5. QED
  BY <1>3, <1>4

\* Induction: what holds of zero, and of the next of each of which it holds,
\* holds of all.
THEOREM Induction ==
  ASSUME NEW T \in SUBSET Nat, 0 \in T, \A n \in T : n + 1 \in T
  PROVE  T = Nat
<1> SUFFICES ASSUME Nat \ T # {}
             PROVE  FALSE
  OBVIOUS
<1>1. PICK n \in Nat \ T : \A m \in Nat \ T : n <= m
  BY LeastElement
<1>2. n - 1 \in T
  BY <1>1
<1>3. n = (n - 1) + 1
  BY <1>1
<1>4. QED
  BY <1>1, <1>2, <1>3

\* The same up to a bound.
THEOREM BoundedInduction ==
  ASSUME NEW n \in Nat, NEW T, 0 \in T, \A k \in 1..n : k - 1 \in T => k \in T
  PROVE  \A k \in 0..n : k \in T
<1> DEFINE U == {k \in Nat : k <= n => k \in T}
<1>1. 0 \in U
  OBVIOUS
<1>2. ASSUME NEW k \in U
      PROVE  k + 1 \in U
  <2>1. CASE k + 1 <= n
    <3>1. k + 1 \in 1..n /\ (k + 1) - 1 = k /\ k \in T
      BY <2>1
    <3>2. QED
      BY <3>1
  <2>2. CASE ~(k + 1 <= n)
    BY <2>2
  <2>3. QED
    BY <2>1, <2>2
<1>3. U = Nat
  BY <1>1, <1>2, Induction
<1>4. QED
  BY <1>3

\* f has a first value and follows next up to n.
Follows(f, n, first, next) ==
  f[0] = first /\ \A k \in 1..n : f[k] = next[<<f[k - 1], k>>]

\* Recursion: there is such a function for each first value and each next.
THEOREM Recursion ==
  ASSUME NEW S, NEW n \in Nat, NEW first \in S, NEW next \in [S \X (1..n) -> S]
  PROVE  \E f \in [0..n -> S] : Follows(f, n, first, next)
<1> DEFINE T == {k \in Nat : k <= n => \E f \in [0..k -> S] : Follows(f, k, first, next)}
<1> USE DEF Follows
<1>1. 0 \in T
  <2>1. [j \in 0..0 |-> first] \in [0..0 -> S]
    OBVIOUS
  <2>2. Follows([j \in 0..0 |-> first], 0, first, next)
    OBVIOUS
  <2>3. QED
    BY <2>1, <2>2
<1>2. ASSUME NEW k \in T
      PROVE  k + 1 \in T
  <2> SUFFICES ASSUME k + 1 <= n
               PROVE  \E f \in [0..(k + 1) -> S] : Follows(f, k + 1, first, next)
    OBVIOUS
  <2>1. PICK f \in [0..k -> S] : Follows(f, k, first, next)
    OBVIOUS
  <2> DEFINE g == [j \in 0..(k + 1) |-> IF j = k + 1 THEN next[<<f[k], k + 1>>] ELSE f[j]]
  <2>2. next[<<f[k], k + 1>>] \in S
    <3>1. f[k] \in S /\ k + 1 \in 1..n
      OBVIOUS
    <3>2. QED
      BY <3>1
  <2>3. g \in [0..(k + 1) -> S]
    BY <2>2
  <2>4. g[0] = first
    BY <2>1
  <2>5. ASSUME NEW j \in 1..(k + 1)
        PROVE  g[j] = next[<<g[j - 1], j>>]
    <3>1. g[j - 1] = f[j - 1]
      OBVIOUS
    <3>2. CASE j = k + 1
      <4>1. j - 1 = k /\ g[j] = next[<<f[k], k + 1>>]
        BY <3>2
      <4>2. QED
        BY <3>1, <3>2, <4>1, Zenon
    <3>3. CASE j # k + 1
      BY <2>1, <3>1, <3>3
    <3>4. QED
      BY <3>2, <3>3
  <2>6. QED
    BY <2>3, <2>4, <2>5
<1>3. n \in T
  BY <1>1, <1>2, Induction
<1>4. QED
  BY <1>3
=============================================================================
