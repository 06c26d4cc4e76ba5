--------------------------- MODULE NaturalsLemmas ---------------------------
(***************************************************************************)
(* What the proofs need of the natural numbers: least elements, and with   *)
(* them induction, over a set of numbers, and that recursive definitions   *)
(* have solutions.                                                         *)
(***************************************************************************)
EXTENDS Integers, WellFoundedInduction, TLAPS

CONSTANT RecStep(_, _)  \* the step of a recursion, for RecursionExists

\* A set of numbers has a least one: what the searches of the bitmap, of the
\* tables and of the ramdisk's files stop at.
LEMMA LeastNatural ==
  ASSUME NEW S, S \subseteq Nat, S # {}
  PROVE  \E m \in S : \A n \in S : m <= n
<1> DEFINE R == OpToRel(<, Nat)
<1>1. IsWellFoundedOn(R, Nat)
  BY NatLessThanWellFounded, Zenon
<1>2. \A a, b \in Nat : <<a, b>> \in R <=> a < b
  BY DEF OpToRel
<1> HIDE DEF R
<1>3. PICK m \in S : \A n \in S : ~(<<n, m>> \in R)
  BY <1>1, WFMin, Zenon
<1>4. ASSUME NEW n \in S PROVE m <= n
  <2>1. m \in Nat /\ n \in Nat
    OBVIOUS
  <2>2. ~(n < m)
    BY <1>2, <1>3, <2>1, Zenon
  <2> QED
    BY <2>1, <2>2
<1> QED
  BY <1>4

\* Induction: a set that has 0 and, with a number, the next one.
LEMMA SetInduction ==
  ASSUME NEW S, 0 \in S, \A n \in Nat : n \in S => n + 1 \in S
  PROVE  \A n \in Nat : n \in S
<1> SUFFICES ASSUME NEW k \in Nat, k \notin S PROVE FALSE
  OBVIOUS
<1>1. PICK m \in Nat \ S : \A n \in Nat \ S : m <= n
  <2> DEFINE R == Nat \ S
  <2>1. R \subseteq Nat /\ R # {}
    OBVIOUS
  <2> HIDE DEF R
  <2>2. \E m \in R : \A n \in R : m <= n
    BY <2>1, LeastNatural
  <2> QED
    BY <2>2 DEF R
<1>2. m # 0 /\ m - 1 \in Nat /\ ~(m <= m - 1)
  OBVIOUS
<1>3. m - 1 \in S
  BY <1>1, <1>2
<1>4. (m - 1) + 1 \in S
  BY <1>2, <1>3
<1> QED
  BY <1>4

\* What N rounds of a loop compute, round by round.
Rounds(g, N, D, base, step) ==
  /\ g \in [0..N -> D]
  /\ g[0] = base
  /\ \A n \in 1..N : g[n] = step[<<n, g[n - 1]>>]

\* Such a recursive definition has a solution.
LEMMA LoopExists ==
  ASSUME NEW N \in Nat, NEW D, NEW base \in D, NEW step \in [(1..N) \X D -> D]
  PROVE  \E g : Rounds(g, N, D, base, step)
<1> DEFINE Solves(g, k) == Rounds(g, k, D, base, step)
           S == {k \in Nat : k <= N => \E g : Solves(g, k)}
<1>1. 0 \in S
  <2>1. Solves([n \in 0..0 |-> base], 0)
    BY DEF Rounds
  <2> QED
    BY <2>1
<1>2. ASSUME NEW k \in Nat, k \in S PROVE k + 1 \in S
  <2> SUFFICES ASSUME k + 1 <= N PROVE \E g : Solves(g, k + 1)
    OBVIOUS
  <2>1. k <= N /\ k + 1 \in 1..N
    OBVIOUS
  <2>2. PICK g : Solves(g, k)
    BY <1>2, <2>1
  <2>3. PICK y : y = step[<<k + 1, g[k]>>]
    OBVIOUS
  <2>4. g[k] \in D
    BY <2>2 DEF Rounds
  <2>5. y \in D
    BY <2>1, <2>3, <2>4
  <2>6. PICK f : f = [n \in 0..(k + 1) |-> IF n = k + 1 THEN y ELSE g[n]]
    OBVIOUS
  <2>7. f \in [0..(k + 1) -> D] /\ f[0] = base
    BY <2>2, <2>5, <2>6 DEF Rounds
  <2>8. ASSUME NEW n \in 1..(k + 1) PROVE f[n] = step[<<n, f[n - 1]>>]
    <3>1. CASE n = k + 1
      <4>1. f[n] = y /\ f[n - 1] = g[k]
        BY <2>6, <3>1
      <4> QED
        BY <2>3, <3>1, <4>1
    <3>2. CASE n # k + 1
      <4>1. n \in 1..k /\ n - 1 \in 0..k
        BY <3>2
      <4>2. f[n] = g[n] /\ f[n - 1] = g[n - 1]
        BY <2>6, <4>1
      <4> QED
        BY <2>2, <4>1, <4>2 DEF Rounds
    <3> QED
      BY <3>1, <3>2
  <2> QED
    BY <2>7, <2>8 DEF Rounds
<1>3. \A k \in Nat : k \in S
  <2> HIDE DEF S
  <2> QED
    BY <1>1, <1>2, SetInduction
<1>4. PICK g : Solves(g, N)
  BY <1>3
<1> QED
  BY <1>4

\* g has the values of the recursion up to k.
Recursion(g, k) ==
  /\ g[0] = RecStep(0, 0)
  /\ \A n \in 1..k : g[n] = RecStep(n, g[n - 1])

\* The values up to a number are unique.
LEMMA RecursionUnique ==
  ASSUME NEW g, NEW h, NEW k \in Nat, NEW l \in Nat, Recursion(g, k), Recursion(h, l),
         NEW m \in Nat, m <= k, m <= l
  PROVE  g[m] = h[m]
<1> DEFINE E == {n \in Nat : n <= k /\ n <= l => g[n] = h[n]}
<1>1. 0 \in E
  BY DEF Recursion
<1>2. ASSUME NEW n \in Nat, n \in E PROVE n + 1 \in E
  <2> SUFFICES ASSUME n + 1 <= k, n + 1 <= l PROVE g[n + 1] = h[n + 1]
    OBVIOUS
  <2>1. g[n] = h[n] /\ n + 1 \in 1..k /\ n + 1 \in 1..l /\ (n + 1) - 1 = n
    BY <1>2
  <2>2. g[n + 1] = RecStep(n + 1, g[n]) /\ h[n + 1] = RecStep(n + 1, h[n])
    BY <2>1 DEF Recursion
  <2> QED
    BY <2>1, <2>2
<1>3. \A n \in Nat : n \in E
  <2> HIDE DEF E
  <2> QED
    BY <1>1, <1>2, SetInduction
<1> QED
  BY <1>3

\* There are such values up to any number.
LEMMA RecursionUpTo ==
  \A k \in Nat : \E g : Recursion(g, k)
<1> DEFINE S == {k \in Nat : \E g : Recursion(g, k)}
<1>1. 0 \in S
  <2>1. PICK x : x = RecStep(0, 0)
    OBVIOUS
  <2>2. PICK g : g = [n \in 0..0 |-> x]
    OBVIOUS
  <2>3. Recursion(g, 0)
    BY <2>1, <2>2 DEF Recursion
  <2> QED
    BY <2>3
<1>2. ASSUME NEW k \in Nat, k \in S PROVE k + 1 \in S
  <2>1. PICK g : Recursion(g, k)
    BY <1>2
  <2>2. PICK y : y = RecStep(k + 1, g[k])
    OBVIOUS
  <2>3. PICK f : f = [n \in 0..(k + 1) |-> IF n = k + 1 THEN y ELSE g[n]]
    OBVIOUS
  <2>4. ASSUME NEW n \in 1..(k + 1) PROVE f[n] = RecStep(n, f[n - 1])
    <3>1. CASE n = k + 1
      <4>1. f[n] = y /\ f[n - 1] = g[k]
        BY <2>3, <3>1
      <4> QED
        BY <2>2, <3>1, <4>1
    <3>2. CASE n # k + 1
      <4>1. n \in 1..k /\ n - 1 \in 0..k
        BY <3>2
      <4>2. f[n] = g[n] /\ f[n - 1] = g[n - 1]
        BY <2>3, <4>1
      <4>3. g[n] = RecStep(n, g[n - 1])
        BY <2>1, <4>1 DEF Recursion
      <4> QED
        BY <4>2, <4>3
    <3> QED
      BY <3>1, <3>2
  <2>5. f[0] = RecStep(0, 0)
    BY <2>1, <2>3 DEF Recursion
  <2>6. Recursion(f, k + 1)
    BY <2>4, <2>5 DEF Recursion
  <2> QED
    BY <2>6
<1>3. \A k \in Nat : k \in S
  <2> HIDE DEF S
  <2> QED
    BY <1>1, <1>2, SetInduction
<1> QED
  BY <1>3

\* A recursive function on the natural numbers exists whatever its step does.
\* A lemma cannot take the step as a parameter that the provers instantiate;
\* an INSTANCE of this module can.
LEMMA RecursionExists ==
  ASSUME \A x, y : RecStep(0, x) = RecStep(0, y)
  PROVE  \E f : f = [n \in Nat |-> RecStep(n, f[n - 1])]
<1> DEFINE G(k) == CHOOSE g : Recursion(g, k)
<1>1. ASSUME NEW k \in Nat PROVE Recursion(G(k), k)
  BY RecursionUpTo
<1> HIDE DEF G
<1>2. PICK f : f = [n \in Nat |-> G(n)[n]]
  OBVIOUS
<1>3. ASSUME NEW n \in Nat PROVE f[n] = RecStep(n, f[n - 1])
  <2>1. f[n] = G(n)[n] /\ Recursion(G(n), n)
    BY <1>1, <1>2
  <2>2. CASE n = 0
    <3>1. f[0] = RecStep(0, 0)
      BY <2>1, <2>2 DEF Recursion
    <3> QED
      BY <2>2, <3>1
  <2>3. CASE n # 0
    <3>1. n - 1 \in Nat /\ n - 1 <= n /\ n - 1 <= n - 1
      BY <2>3
    <3>2. PICK g : g = G(n)
      OBVIOUS
    <3>3. PICK h : h = G(n - 1)
      OBVIOUS
    <3>4. Recursion(g, n) /\ Recursion(h, n - 1)
      BY <1>1, <3>1, <3>2, <3>3
    <3>5. g[n - 1] = h[n - 1]
      BY <3>1, <3>4, RecursionUnique
    <3>6. f[n - 1] = h[n - 1]
      BY <1>2, <3>1, <3>3
    <3>7. g[n] = RecStep(n, g[n - 1])
      BY <2>3, <3>4 DEF Recursion
    <3> QED
      BY <2>1, <3>2, <3>5, <3>6, <3>7
  <2> QED
    BY <2>2, <2>3
<1>4. f = [n \in Nat |-> RecStep(n, f[n - 1])]
  BY <1>2, <1>3
<1> QED
  BY <1>4
=============================================================================
