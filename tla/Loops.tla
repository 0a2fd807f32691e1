-------------------------------- MODULE Loops --------------------------------
(***************************************************************************)
(* What proofs need of numbers and of loops: least elements, induction for *)
(* a set of numbers, and what a loop with a counter makes.                 *)
(***************************************************************************)
EXTENDS Naturals, WellFoundedInduction, TLAPS

\* A set of numbers that is not empty has a least one.
LEMMA Least ==
  ASSUME NEW T \in SUBSET Nat, T # {}
  PROVE  \E k \in T : \A j \in T : k <= j
<1> DEFINE R == OpToRel(<, Nat)
<1>1. R = {p \in Nat \X Nat : p[1] < p[2]}
  BY Zenon DEF OpToRel
<1>2. \E k \in T : \A j \in T : <<j, k>> \notin R
  BY NatLessThanWellFounded, WFMin, Zenon
<1> HIDE DEF R
<1>3. PICK k \in T : \A j \in T : <<j, k>> \notin R
  BY <1>2
<1>4. ASSUME NEW j \in T PROVE k <= j
  <2>1. ~ (j < k)
    BY <1>1, <1>3
  <2> QED
    BY <2>1
<1> QED
  BY <1>4

\* Induction, for a set of numbers.
LEMMA Counting ==
  ASSUME NEW S, 0 \in S, \A n \in Nat : n \in S => n + 1 \in S
  PROVE  Nat \subseteq S
<1> DEFINE T == Nat \ S
<1>1. SUFFICES ASSUME T # {} PROVE FALSE
  OBVIOUS
<1>2. PICK k \in T : \A j \in T : k <= j
  BY <1>1, Least
<1>3. k # 0 /\ k - 1 \in Nat
  BY <1>2
<1>4. k - 1 \in S
  BY <1>2, <1>3
<1> QED
  BY <1>2, <1>3, <1>4

\* f[n] is what n iterations of F make of a.
IsLoop(f, F, a, N) == f = [n \in 0 .. N |-> IF n = 0 THEN a ELSE F[<<n - 1, f[n - 1]>>]]

\* A loop has an outcome.
LEMMA Loop ==
  ASSUME NEW D, NEW F \in [Nat \X D -> D], NEW a \in D, NEW N \in Nat
  PROVE  \E f \in [0 .. N -> D] : IsLoop(f, F, a, N)
<1> DEFINE Is(f, n) == /\ f \in [0 .. n -> D] /\ f[0] = a
                       /\ \A k \in 0 .. n - 1 : f[k + 1] = F[<<k, f[k]>>]
           S == {n \in Nat : \E f \in [0 .. n -> D] : Is(f, n)}
<1>1. 0 \in S
  <2> DEFINE f == [k \in 0 .. 0 |-> a]
  <2>1. Is(f, 0)
    OBVIOUS
  <2> QED
    BY <2>1
<1>2. ASSUME NEW n \in Nat, n \in S PROVE n + 1 \in S
  <2>1. PICK f \in [0 .. n -> D] : Is(f, n)
    BY <1>2
  <2> DEFINE g == [k \in 0 .. n + 1 |-> IF k <= n THEN f[k] ELSE F[<<n, f[n]>>]]
  <2>2. F[<<n, f[n]>>] \in D
    OBVIOUS
  <2>3. g \in [0 .. n + 1 -> D]
    BY <2>2
  <2>4. g[0] = a
    BY <2>1
  <2>5. ASSUME NEW k \in 0 .. n PROVE g[k + 1] = F[<<k, g[k]>>]
    <3>1. CASE k = n
      BY <3>1
    <3>2. CASE k # n
      <4>1. k \in 0 .. n - 1 /\ k + 1 \in 0 .. n
        BY <3>2
      <4>3. g[k + 1] = f[k + 1] /\ g[k] = f[k]
        BY <4>1
      <4>2. f[k + 1] = F[<<k, f[k]>>]
        BY <2>1, <4>1
      <4> QED
        BY <4>1, <4>2, <4>3
    <3> QED
      BY <3>1, <3>2
  <2>6. Is(g, n + 1)
    <3>1. (n + 1) - 1 = n
      OBVIOUS
    <3> HIDE DEF g
    <3> QED
      BY <2>3, <2>4, <2>5, <3>1
  <2> HIDE DEF Is, g
  <2> QED
    BY <2>3, <2>6
<1> HIDE DEF S
<1>3. N \in S
  BY <1>1, <1>2, Counting
<1> USE DEF S
<1>4. PICK f \in [0 .. N -> D] : Is(f, N)
  BY <1>3
<1>5. \A n \in 0 .. N : f[n] = IF n = 0 THEN a ELSE F[<<n - 1, f[n - 1]>>]
  <2> SUFFICES ASSUME NEW n \in 0 .. N, n # 0 PROVE f[n] = F[<<n - 1, f[n - 1]>>]
    BY <1>4
  <2>1. n - 1 \in 0 .. N - 1 /\ (n - 1) + 1 = n
    OBVIOUS
  <2> QED
    BY <1>4, <2>1
<1> HIDE DEF Is
<1>6. IsLoop(f, F, a, N)
  BY <1>5 DEF IsLoop
<1> QED
  BY <1>6

\* A property of the loop counter that holds up to N.
LEMMA CountingTo ==
  ASSUME NEW S, NEW N \in Nat, 0 \in S, \A n \in 0 .. N - 1 : n \in S => n + 1 \in S
  PROVE  \A n \in 0 .. N : n \in S
<1> DEFINE U == {n \in Nat : n <= N => n \in S}
<1>1. 0 \in U
  OBVIOUS
<1>2. ASSUME NEW n \in Nat, n \in U PROVE n + 1 \in U
  <2>1. CASE n + 1 <= N
    BY <1>2, <2>1
  <2>2. CASE ~ (n + 1 <= N)
    BY <2>2
  <2> QED
    BY <2>1, <2>2
<1>3. Nat \subseteq U
  <2> HIDE DEF U
  <2> QED
    BY <1>1, <1>2, Counting
<1> QED
  BY <1>3
=============================================================================
