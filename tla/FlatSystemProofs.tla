--------------------------- MODULE FlatSystemProofs ---------------------------
(***************************************************************************)
(* Proofs about Iterators and FlatSystem, for any processes and systems:   *)
(* the nested iterators enumerate the global edges of a tuple of locations *)
(* (EnumeratesGlobalEdges), and the processes move along these only        *)
(* (MovesAlongGlobalEdges).                                                *)
(***************************************************************************)
EXTENDS FlatSystem, Loops, FiniteSetTheorems, TLAPS

-----------------------------------------------------------------------------
(* Ranges, and the elements that a loop keeps. *)

\* The elements of F are those of the range at the positions [kept], in some order, each once.
Keeps(F, range, kept, p) ==
  /\ p \in [1 .. Len(F) -> kept]
  /\ \A i \in 1 .. Len(F) : F[i] = range[p[i]]
  /\ \A i, j \in 1 .. Len(F) : p[i] = p[j] => i = j
  /\ \A n \in kept : \E i \in 1 .. Len(F) : p[i] = n

\* One more element is kept.
LEMMA KeepsMore ==
  ASSUME NEW S, NEW range \in Seq(S), NEW F \in Seq(S), NEW kept \in SUBSET (1 .. Len(range)),
         NEW p, Keeps(F, range, kept, p), NEW n \in 1 .. Len(range), n \notin kept
  PROVE  \E q : Keeps(Append(F, range[n]), range, kept \cup {n}, q)
<1> DEFINE G == Append(F, range[n])
           q == [i \in 1 .. Len(F) + 1 |-> IF i = Len(F) + 1 THEN n ELSE p[i]]
<1>1. /\ G \in Seq(S) /\ Len(G) = Len(F) + 1 /\ Len(F) \in Nat
      /\ G[Len(F) + 1] = range[n]
      /\ \A i \in 1 .. Len(F) : G[i] = F[i]
  OBVIOUS
<1>2. \A i \in 1 .. Len(F) : i \in 1 .. Len(F) + 1 /\ i # Len(F) + 1 /\ q[i] = p[i] /\ p[i] \in kept
  BY <1>1 DEF Keeps
<1>3. Len(F) + 1 \in 1 .. Len(F) + 1 /\ q[Len(F) + 1] = n
  BY <1>1
<1>4. \A i \in 1 .. Len(F) + 1 : i = Len(F) + 1 \/ i \in 1 .. Len(F)
  BY <1>1
<1>5. q \in [1 .. Len(G) -> kept \cup {n}]
  BY <1>1, <1>2, <1>3, <1>4
<1> HIDE DEF q, G
<1>6. \A i \in 1 .. Len(G) : G[i] = range[q[i]]
  BY <1>1, <1>2, <1>3, <1>4 DEF Keeps
<1>7. \A i, j \in 1 .. Len(G) : q[i] = q[j] => i = j
  <2> SUFFICES ASSUME NEW i \in 1 .. Len(G), NEW j \in 1 .. Len(G), q[i] = q[j] PROVE i = j
    OBVIOUS
  <2>1. CASE i \in 1 .. Len(F) /\ j \in 1 .. Len(F)
    BY <2>1, <1>2 DEF Keeps
  <2>2. CASE i = Len(F) + 1 \/ j = Len(F) + 1
    BY <2>2, <1>1, <1>2, <1>3, <1>4
  <2> QED
    BY <2>1, <2>2, <1>1, <1>4
<1>8. \A m \in kept \cup {n} : \E i \in 1 .. Len(G) : q[i] = m
  BY <1>1, <1>2, <1>3 DEF Keeps
<1>9. Keeps(G, range, kept \cup {n}, q)
  BY <1>5, <1>6, <1>7, <1>8 DEF Keeps
<1> QED
  BY <1>9 DEF G

\* Filtered keeps the elements that it is asked to keep.
LEMMA FilteredFacts ==
  ASSUME NEW S, NEW range \in Seq(S), NEW kept \in SUBSET (1 .. Len(range))
  PROVE  /\ Filtered(range, kept) \in Seq(S)
         /\ \E p : Keeps(Filtered(range, kept), range, kept, p)
<1> DEFINE N == Len(range)
           F == [x \in Nat \X Seq(S) |->
                   IF x[1] + 1 \in kept THEN Append(x[2], range[x[1] + 1]) ELSE x[2]]
           Def(f) == f = [n \in 0 .. N |->
                      IF n = 0 THEN <<>>
                      ELSE IF n \in kept THEN Append(f[n - 1], range[n])
                      ELSE f[n - 1]]
<1>1. N \in Nat /\ \A n \in 1 .. N : range[n] \in S
  OBVIOUS
<1>2. F \in [Nat \X Seq(S) -> Seq(S)]
  <2> SUFFICES ASSUME NEW x \in Nat \X Seq(S), x[1] + 1 \in kept
               PROVE  Append(x[2], range[x[1] + 1]) \in Seq(S)
    OBVIOUS
  <2> QED
    BY <1>1
<1>3. <<>> \in Seq(S)
  OBVIOUS
<1>4. PICK f \in [0 .. N -> Seq(S)] : IsLoop(f, F, <<>>, N)
  <2> HIDE DEF F, N
  <2> QED
    BY <1>1, <1>2, <1>3, Loop
<1>5. \A n \in 0 .. N : f[n] = IF n = 0 THEN <<>>
                               ELSE IF n \in kept THEN Append(f[n - 1], range[n])
                               ELSE f[n - 1]
  <2> SUFFICES ASSUME NEW n \in 0 .. N, n # 0
               PROVE  f[n] = IF n \in kept THEN Append(f[n - 1], range[n]) ELSE f[n - 1]
    BY <1>1, <1>4 DEF IsLoop
  <2>1. n - 1 \in Nat /\ n - 1 \in 0 .. N /\ (n - 1) + 1 = n
    BY <1>1
  <2>3. f[n - 1] \in Seq(S)
    <3> HIDE DEF N
    <3> QED
      BY <2>1
  <2>2. f[n] = F[<<n - 1, f[n - 1]>>]
    BY <1>4, <1>1 DEF IsLoop
  <2> QED
    BY <2>1, <2>2, <2>3
<1>6. Def(f)
  <2>1. f = [n \in 0 .. N |-> f[n]]
    OBVIOUS
  <2> QED
    BY <1>5, <2>1
<1>7. Def(CHOOSE g : Def(g))
  BY <1>6
<1> DEFINE h == CHOOSE g : Def(g)
<1>8. Filtered(range, kept) = h[N]
  BY DEF Filtered
<1>9. \A n \in 0 .. N : h[n] = IF n = 0 THEN <<>>
                               ELSE IF n \in kept THEN Append(h[n - 1], range[n])
                               ELSE h[n - 1]
  <2> HIDE DEF h
  <2>1. Def(h)
    BY <1>7 DEF h
  <2> QED
    BY <2>1
<1> DEFINE T == {n \in 0 .. N : /\ h[n] \in Seq(S)
                                /\ \E p : Keeps(h[n], range, kept \cap (1 .. n), p)}
<1> HIDE DEF h, F
<1>10. 0 \in T
  <2>1. h[0] = <<>> /\ kept \cap (1 .. 0) = {} /\ 0 \in 0 .. N
    BY <1>1, <1>9
  <2>2. Keeps(<<>>, range, {}, <<>>)
    BY DEF Keeps
  <2>3. h[0] \in Seq(S) /\ Keeps(h[0], range, kept \cap (1 .. 0), <<>>)
    BY <2>1, <2>2, Zenon, <1>3
  <2> QED
    BY <2>1, <2>3
<1>11. ASSUME NEW n \in 0 .. N - 1, n \in T PROVE n + 1 \in T
  <2>1. n + 1 \in 1 .. N /\ n + 1 \in 0 .. N /\ n + 1 # 0 /\ (n + 1) - 1 = n /\ n \in 0 .. N
    BY <1>1
  <2>2. PICK p : Keeps(h[n], range, kept \cap (1 .. n), p)
    BY <1>11
  <2>3. h[n] \in Seq(S)
    BY <1>11
  <2>4. CASE n + 1 \in kept
    <3>1. kept \cap (1 .. n + 1) = (kept \cap (1 .. n)) \cup {n + 1} /\
            n + 1 \notin kept \cap (1 .. n)
      BY <2>1, <2>4
    <3>2. h[n + 1] = Append(h[n], range[n + 1])
      BY <2>1, <2>4, <1>9
    <3>3. kept \cap (1 .. n) \in SUBSET (1 .. N)
      OBVIOUS
    <3>4. \E q : Keeps(Append(h[n], range[n + 1]), range, (kept \cap (1 .. n)) \cup {n + 1}, q)
      BY <2>1, <2>2, <2>3, <3>1, <3>3, KeepsMore
    <3>5. \E q : Keeps(h[n + 1], range, kept \cap (1 .. n + 1), q)
      BY <3>1, <3>2, <3>4, Zenon
    <3>6. h[n + 1] \in Seq(S)
      BY <2>1, <2>3, <3>2, <1>1
    <3> QED
      BY <2>1, <3>5, <3>6
  <2>5. CASE n + 1 \notin kept
    <3>1. kept \cap (1 .. n + 1) = kept \cap (1 .. n)
      BY <2>1, <2>5
    <3>2. h[n + 1] = h[n]
      BY <2>1, <2>5, <1>9
    <3> QED
      BY <2>1, <2>2, <2>3, <3>1, <3>2
  <2> QED
    BY <2>4, <2>5
<1>12. \A n \in 0 .. N : n \in T
  <2> HIDE DEF T, N
  <2> QED
    BY <1>1, <1>10, <1>11, CountingTo
<1>13. kept \cap (1 .. N) = kept
  OBVIOUS
<1>14. N \in T
  BY <1>1, <1>12
<1> QED
  BY <1>8, <1>13, <1>14, Zenon

-----------------------------------------------------------------------------
(* Products: an iterator goes through the tuples of positions in the        *)
(* lexicographic order.                                                     *)

SomeEmpty(R, n) == \E j \in 1 .. n : R[j] = <<>>

\* What the first n calls to push_back make.
Upto(R, n) ==
  [ranges |-> [i \in 1 .. n |-> R[i]],
   its |-> [i \in 1 .. n |-> IF i = 1 /\ SomeEmpty(R, n) THEN PastTheEnd(R[1]) ELSE 1]]

\* A function whose domain is an initial part of the numbers is a sequence.
LEMMA SequenceFacts ==
  ASSUME NEW n \in Nat, NEW S, NEW f \in [1 .. n -> S]
  PROVE  f \in Seq(S) /\ Len(f) = n /\ DOMAIN f = 1 .. n
OBVIOUS

\* A sequence with one more element.
LEMMA AppendFacts ==
  ASSUME NEW S, NEW s \in Seq(S), NEW x \in S, NEW n \in Nat, Len(s) = n
  PROVE  /\ Append(s, x) \in Seq(S)
         /\ Append(s, x) = [i \in 1 .. n + 1 |-> IF i = n + 1 THEN x ELSE s[i]]
         /\ Append(s, x)[n + 1] = x
         /\ \A i \in 1 .. n : Append(s, x)[i] = s[i]
         /\ \A i \in 1 .. n + 1 : i = n + 1 \/ i \in 1 .. n
<1> DEFINE a == Append(s, x)
<1>1. a \in Seq(S) /\ Len(a) = n + 1
  OBVIOUS
<1>2. a[n + 1] = x
  OBVIOUS
<1>3. \A i \in 1 .. n : a[i] = s[i] /\ i # n + 1
  OBVIOUS
<1>4. \A i \in 1 .. n + 1 : i = n + 1 \/ i \in 1 .. n
  OBVIOUS
<1> HIDE DEF a
<1>5. a = [i \in 1 .. n + 1 |-> a[i]]
  BY <1>1
<1>6. \A i \in 1 .. n + 1 : a[i] = IF i = n + 1 THEN x ELSE s[i]
  BY <1>2, <1>3, <1>4
<1> QED
  BY <1>1, <1>2, <1>3, <1>4, <1>5, <1>6 DEF a

\* push_back adds a range; if it is empty, the first iterator goes past the end.
LEMMA PushFacts ==
  ASSUME NEW S, NEW R \in Seq(Seq(S)), NEW n \in 0 .. Len(R) - 1
  PROVE  push_back(Upto(R, n), R[n + 1]) = Upto(R, n + 1)
<1> DEFINE c == Upto(R, n)
           d == [ranges |-> Append(c.ranges, R[n + 1]), its |-> Append(c.its, 1)]
           u == Upto(R, n + 1)
<1>1. n \in Nat /\ Len(R) \in Nat /\ \A i \in 1 .. n + 1 : i \in 1 .. Len(R) /\ R[i] \in Seq(S)
  OBVIOUS
<1>2. c.ranges \in Seq(Seq(S)) /\ Len(c.ranges) = n
  <2>1. c.ranges \in [1 .. n -> Seq(S)]
    BY <1>1 DEF Upto
  <2> QED
    BY <2>1, <1>1, SequenceFacts
<1>3. c.its \in Seq(Nat) /\ Len(c.its) = n
  <2>1. ASSUME NEW i \in 1 .. n PROVE c.its[i] \in Nat
    <3>1. PastTheEnd(R[1]) \in Nat
      BY <1>1 DEF PastTheEnd
    <3> QED
      BY <3>1 DEF Upto
  <2>2. c.its = [i \in 1 .. n |-> c.its[i]]
    BY DEF Upto
  <2>3. c.its \in [1 .. n -> Nat]
    BY <2>1, <2>2
  <2> QED
    BY <2>3, <1>1, SequenceFacts
<1>4. Append(c.ranges, R[n + 1]) = u.ranges
  <2> DEFINE a == Append(c.ranges, R[n + 1])
  <2>1. a = [i \in 1 .. n + 1 |-> IF i = n + 1 THEN R[n + 1] ELSE c.ranges[i]]
    BY <1>1, <1>2, AppendFacts
  <2>2. ASSUME NEW i \in 1 .. n + 1, i # n + 1 PROVE c.ranges[i] = R[i]
    <3>1. i \in 1 .. n
      BY <1>1, <2>2
    <3> QED
      BY <3>1 DEF Upto
  <2>3. u.ranges = [i \in 1 .. n + 1 |-> R[i]]
    BY DEF Upto
  <2> HIDE DEF a, c, u
  <2> QED
    BY <2>1, <2>2, <2>3 DEF a
<1> DEFINE b == Append(c.its, 1)
<1>5. /\ b = [i \in 1 .. n + 1 |-> IF i = n + 1 THEN 1 ELSE c.its[i]]
      /\ \A i \in 1 .. n + 1 : i = n + 1 \/ i \in 1 .. n
  <2> HIDE DEF c
  <2> QED
    BY <1>1, <1>3, AppendFacts
<1>6. /\ \A i \in 1 .. n : c.its[i] = IF i = 1 /\ SomeEmpty(R, n) THEN PastTheEnd(R[1]) ELSE 1
      /\ u.its = [i \in 1 .. n + 1 |-> IF i = 1 /\ SomeEmpty(R, n + 1) THEN PastTheEnd(R[1]) ELSE 1]
      /\ u = [ranges |-> u.ranges, its |-> u.its]
  BY DEF Upto
<1>7. d = [ranges |-> u.ranges, its |-> b]
  BY <1>4
<1>8. u.ranges # <<>> /\ u.ranges[1] = R[1]
  <2>1. 1 \in 1 .. n + 1
    BY <1>1
  <2>2. u.ranges = [i \in 1 .. n + 1 |-> R[i]]
    BY DEF Upto
  <2> HIDE DEF u
  <2>3. DOMAIN u.ranges = 1 .. n + 1 /\ u.ranges[1] = R[1]
    BY <2>1, <2>2
  <2> QED
    BY <2>1, <2>3
<1> HIDE DEF b, c, u
<1>9. CASE R[n + 1] = <<>>
  <2>1. SomeEmpty(R, n + 1)
    BY <1>1, <1>9 DEF SomeEmpty
  <2>2. push_back(c, R[n + 1]) = [d EXCEPT !.its[1] = PastTheEnd(R[1])]
    BY <1>7, <1>8, <1>9 DEF push_back, to_end
  <2> DEFINE b2 == [b EXCEPT ![1] = PastTheEnd(R[1])]
  <2> HIDE DEF d
  <2>3. [d EXCEPT !.its[1] = PastTheEnd(R[1])] = [ranges |-> u.ranges, its |-> b2]
    <3>1. [d EXCEPT !.its[1] = PastTheEnd(R[1])] =
            [d EXCEPT !.its = [d.its EXCEPT ![1] = PastTheEnd(R[1])]]
      OBVIOUS
    <3>2. d.its = b
      BY <1>7
    <3>3. [d EXCEPT !.its = b2] = [ranges |-> u.ranges, its |-> b2]
      <4> HIDE DEF b2
      <4> QED
        BY <1>7
    <3> QED
      BY <3>1, <3>2, <3>3
  <2>4. ASSUME NEW i \in 1 .. n + 1, i # 1 PROVE b[i] = 1
    BY <1>1, <1>5, <1>6, <2>4
  <2>5. b2 = [i \in 1 .. n + 1 |-> IF i = 1 THEN PastTheEnd(R[1]) ELSE 1]
    <3>1. DOMAIN b = 1 .. n + 1
      BY <1>5
    <3> QED
      BY <3>1, <2>4
  <2>6. b2 = u.its
    BY <2>1, <2>5, <1>6
  <2> HIDE DEF b2
  <2> QED
    BY <2>2, <2>3, <2>6, <1>6 DEF c, u
<1>10. CASE R[n + 1] # <<>>
  <2>1. SomeEmpty(R, n + 1) <=> SomeEmpty(R, n)
    BY <1>1, <1>10 DEF SomeEmpty
  <2>2. push_back(c, R[n + 1]) = d
    BY <1>10 DEF push_back
  <2>3. ~ SomeEmpty(R, 0)
    BY DEF SomeEmpty
  <2>4. ASSUME NEW i \in 1 .. n + 1
        PROVE  b[i] = IF i = 1 /\ SomeEmpty(R, n) THEN PastTheEnd(R[1]) ELSE 1
    <3>1. CASE i = n + 1
      <4>1. b[i] = 1 /\ (i = 1 => n = 0)
        BY <1>1, <1>5, <3>1
      <4> QED
        BY <4>1, <2>3
    <3>2. CASE i \in 1 .. n
      BY <1>1, <1>5, <1>6, <3>2
    <3> QED
      BY <1>5, <3>1, <3>2
  <2>5. b = u.its
    BY <1>5, <2>1, <2>4, <1>6
  <2> QED
    BY <1>7, <2>2, <2>5, <1>6 DEF c, u
<1> QED
  BY <1>9, <1>10

\* A product starts with the first element of each range, or at the end if a range is empty.
LEMMA ProductFacts ==
  ASSUME NEW S, NEW R \in Seq(Seq(S))
  PROVE  Product(R) = [ranges |-> R,
                       its |-> [i \in 1 .. Len(R) |->
                                  IF i = 1 /\ SomeEmpty(R, Len(R)) THEN PastTheEnd(R[1]) ELSE 1]]
<1> DEFINE N == Len(R)
           Def(f) == f = [n \in 0 .. N |-> IF n = 0 THEN EmptyProduct
             ELSE push_back(f[n - 1], R[n])]
           f0 == [n \in 0 .. N |-> Upto(R, n)]
<1>1. N \in Nat
  OBVIOUS
<1>2. Upto(R, 0) = EmptyProduct
  BY DEF Upto, EmptyProduct
<1>3. ASSUME NEW n \in 1 .. N PROVE push_back(Upto(R, n - 1), R[n]) = Upto(R, n)
  <2>1. n - 1 \in 0 .. Len(R) - 1 /\ (n - 1) + 1 = n
    BY <1>1
  <2> QED
    BY <2>1, PushFacts
<1>4. Def(f0)
  <2>1. \A n \in 0 .. N : Upto(R, n) = IF n = 0 THEN EmptyProduct ELSE push_back(f0[n - 1], R[n])
    <3> SUFFICES ASSUME NEW n \in 0 .. N, n # 0 PROVE Upto(R, n) = push_back(f0[n - 1], R[n])
      BY <1>2
    <3>1. n \in 1 .. N /\ n - 1 \in 0 .. N
      BY <1>1
    <3>2. f0[n - 1] = Upto(R, n - 1)
      BY <3>1
    <3> QED
      BY <3>1, <3>2, <1>3
  <2> QED
    BY <2>1
<1> DEFINE h == CHOOSE g : Def(g)
<1>5. Def(h)
  <2> HIDE DEF f0, Def
  <2> QED
    BY <1>4
<1>6. Product(R) = h[N]
  BY DEF Product
<1> HIDE DEF h
<1>7. \A n \in 0 .. N : h[n] = IF n = 0 THEN EmptyProduct ELSE push_back(h[n - 1], R[n])
  BY <1>5
<1> DEFINE T == {n \in 0 .. N : h[n] = Upto(R, n)}
<1>8. 0 \in T
  BY <1>1, <1>2, <1>7
<1>9. ASSUME NEW n \in 0 .. N - 1, n \in T PROVE n + 1 \in T
  <2>1. n + 1 \in 1 .. N /\ n + 1 \in 0 .. N /\ n + 1 # 0 /\ (n + 1) - 1 = n
    BY <1>1
  <2>2. h[n + 1] = push_back(h[n], R[n + 1])
    BY <2>1, <1>7
  <2>3. h[n] = Upto(R, n)
    BY <1>9
  <2>4. push_back(Upto(R, n), R[n + 1]) = Upto(R, n + 1)
    BY <2>1, <1>3
  <2> QED
    BY <2>1, <2>2, <2>3, <2>4
<1>10. N \in T
  <2>1. N \in 0 .. N
    BY <1>1
  <2> HIDE DEF T, N
  <2>2. \A n \in 0 .. N : n \in T
    BY <1>1, <1>8, <1>9, CountingTo
  <2> QED
    BY <2>1, <2>2
<1>11. [i \in 1 .. N |-> R[i]] = R
  OBVIOUS
<1> QED
  BY <1>6, <1>10, <1>11 DEF Upto

\* The tuples of positions in ranges.
Tuples(R) ==
  {t \in [1 .. Len(R) -> Nat] : \A i \in 1 .. Len(R) : t[i] \in 1 .. Len(R[i])}

\* The lexicographic order.
Before(t, u, n) == \E i \in 1 .. n : t[i] < u[i] /\ \A j \in 1 .. n : j < i => t[j] = u[j]

IsProduct(c, R) == c = [ranges |-> R, its |-> c.its] /\ c.its \in [1 .. Len(R) -> Nat]

\* All the tuples have been gone through.
Exhausted(c, R) ==
  /\ IsProduct(c, R) /\ at_end(c)
  /\ \A i \in 1 .. Len(R) : c.its[i] \in 1 .. PastTheEnd(R[i])
  /\ R # <<>> => c.its[1] = PastTheEnd(R[1])

\* Not all.
Inside(c, R) == IsProduct(c, R) /\ R # <<>> /\ c.its \in Tuples(R) /\ ~at_end(c)

\* a is c after [last] moves, and those after [last], on their last elements, start again.
Turn(c, a, R, last) ==
  /\ a = [ranges |-> R,
          its |-> [i \in 1 .. Len(R) |-> IF i < last THEN c.its[i]
            ELSE IF i = last THEN c.its[i] + 1 ELSE 1]]
  /\ \A i \in 1 .. Len(R) : i > last => c.its[i] = Len(R[i])
  /\ c.its[last] < Len(R[last]) \/ (last = 1 /\ c.its[1] = Len(R[1]))

\* A set of numbers up to n that is not empty has a greatest one.
LEMMA Greatest ==
  ASSUME NEW n \in Nat, NEW T \in SUBSET (1 .. n), T # {}
  PROVE  \E k \in T : \A j \in T : j <= k
<1> DEFINE U == {m \in Nat : n - m \in T}
<1>1. PICK x \in T : TRUE
  OBVIOUS
<1>2. n - x \in U
  <2>1. n - x \in Nat /\ n - (n - x) = x
    BY <1>1
  <2> QED
    BY <1>1, <2>1
<1>3. PICK m \in U : \A j \in U : m <= j
  <2>1. U \in SUBSET Nat /\ U # {}
    BY <1>2
  <2> HIDE DEF U
  <2> QED
    BY <2>1, Least
<1>4. ASSUME NEW j \in T PROVE j <= n - m
  <2>1. n - j \in Nat /\ n - (n - j) = j
    OBVIOUS
  <2>2. n - j \in U
    BY <2>1
  <2>3. m <= n - j
    BY <1>3, <2>2
  <2> QED
    BY <2>1, <2>3, <1>3
<1> QED
  BY <1>3, <1>4

\* operator++ of a product.
LEMMA AdvancedTurn ==
  ASSUME NEW S, NEW R \in Seq(Seq(S)), NEW c, Inside(c, R)
  PROVE  \E last \in 1 .. Len(R) : Turn(c, Advanced(c), R, last)
<1> DEFINE N == Len(R)
           ahead == {i \in DOMAIN c.its : c.its[i] < Len(c.ranges[i])}
           last == IF ahead = {} THEN 1 ELSE CHOOSE i \in ahead : \A j \in ahead : j <= i
           its == [i \in 1 .. N |-> IF i < last THEN c.its[i] ELSE IF i = last THEN c.its[i] + 1
             ELSE 1]
<1>1. /\ N \in Nat \ {0} /\ c.ranges = R /\ c.its \in [1 .. N -> Nat] /\ DOMAIN c.its = 1 .. N
      /\ c = [ranges |-> R, its |-> c.its]
      /\ \A i \in 1 .. N : c.its[i] \in 1 .. Len(R[i]) /\ R[i] \in Seq(S) /\ Len(R[i]) \in Nat
  BY DEF Inside, IsProduct, Tuples
<1>2. ahead = {i \in 1 .. N : c.its[i] < Len(R[i])}
  BY <1>1
<1>3. Advanced(c) = [ranges |-> R, its |-> its]
  <2>1. Advanced(c) = [c EXCEPT !.its = its]
    BY <1>1 DEF Advanced
  <2> HIDE DEF its
  <2>2. [c EXCEPT !.its = its] = [ranges |-> R, its |-> its]
    BY <1>1
  <2> QED
    BY <2>1, <2>2
<1>4. CASE ahead = {}
  <2>1. last = 1 /\ last \in 1 .. N
    BY <1>1, <1>4
  <2>2. \A i \in 1 .. N : c.its[i] = Len(R[i])
    BY <1>1, <1>2, <1>4
  <2>3. Turn(c, Advanced(c), R, last)
    BY <1>3, <2>1, <2>2 DEF Turn
  <2> QED
    BY <2>1, <2>3
<1>5. CASE ahead # {}
  <2>1. \E k \in ahead : \A j \in ahead : j <= k
    <3>1. ahead \in SUBSET (1 .. N) /\ N \in Nat
      BY <1>1, <1>2
    <3> HIDE DEF ahead, N
    <3> QED
      BY <3>1, <1>5, Greatest
  <2>2. last \in ahead /\ \A j \in ahead : j <= last
    <3> HIDE DEF ahead
    <3> QED
      BY <2>1, <1>5
  <2> HIDE DEF last
  <2>3. last \in 1 .. N /\ c.its[last] < Len(R[last])
    BY <2>2, <1>2
  <2>4. ASSUME NEW i \in 1 .. N, i > last PROVE c.its[i] = Len(R[i])
    <3>1. i \notin ahead
      BY <2>2, <2>3, <2>4, <1>1
    <3> QED
      BY <3>1, <1>1, <1>2
  <2>5. Turn(c, Advanced(c), R, last)
    BY <1>3, <2>3, <2>4 DEF Turn
  <2> QED
    BY <2>3, <2>5
<1> QED
  BY <1>4, <1>5

\* After the advance: the tuples before are those before, and the one that was left.
LEMMA AdvancedFacts ==
  ASSUME NEW S, NEW R \in Seq(Seq(S)), NEW c, Inside(c, R)
  PROVE  /\ Inside(Advanced(c), R) \/ Exhausted(Advanced(c), R)
         /\ \A t \in Tuples(R) :
              Before(t, Advanced(c).its, Len(R)) <=> (Before(t, c.its, Len(R)) \/ t = c.its)
<1> DEFINE N == Len(R)
<1>1. /\ N \in Nat \ {0} /\ c.ranges = R /\ c.its \in [1 .. N -> Nat] /\ R # <<>>
      /\ \A i \in 1 .. N : c.its[i] \in 1 .. Len(R[i]) /\ R[i] \in Seq(S) /\ Len(R[i]) \in Nat
  BY DEF Inside, IsProduct, Tuples
<1> DEFINE a == Advanced(c)
<1>2. PICK last \in 1 .. N : Turn(c, a, R, last)
  BY AdvancedTurn
<1> HIDE DEF a
<1>3. /\ a = [ranges |-> R, its |-> a.its] /\ a.its \in [1 .. N -> Nat]
      /\ \A i \in 1 .. N : /\ i < last => a.its[i] = c.its[i]
                           /\ i = last => a.its[i] = c.its[i] + 1
                           /\ i > last => a.its[i] = 1 /\ c.its[i] = Len(R[i])
  <2> DEFINE its == [i \in 1 .. N |-> IF i < last THEN c.its[i] ELSE IF i = last THEN c.its[i] + 1
               ELSE 1]
  <2>1. a = [ranges |-> R, its |-> its]
    BY <1>2 DEF Turn
  <2>2. its \in [1 .. N -> Nat]
    BY <1>1
  <2>3. \A i \in 1 .. N : i > last => c.its[i] = Len(R[i])
    BY <1>2 DEF Turn
  <2>4. a.its = its
    BY <2>1
  <2> QED
    BY <2>1, <2>2, <2>3, <2>4, <1>1
<1>4. Inside(a, R) \/ Exhausted(a, R)
  <2>1. at_end(a) <=> a.its[1] = Len(R[1]) + 1
    BY <1>1, <1>3 DEF at_end, PastTheEnd
  <2>2. 1 \in 1 .. N
    BY <1>1
  <2>3. CASE c.its[last] < Len(R[last])
    <3>1. ASSUME NEW i \in 1 .. N PROVE a.its[i] \in 1 .. Len(R[i])
      <4>1. /\ i \in Nat /\ last \in Nat /\ c.its[i] \in 1 .. Len(R[i]) /\ Len(R[i]) \in Nat
            /\ i < last => a.its[i] = c.its[i]
            /\ i = last => a.its[i] = c.its[i] + 1
            /\ i > last => a.its[i] = 1
        BY <1>1, <1>3
      <4> HIDE DEF N
      <4> QED
        BY <4>1, <2>3
    <3>2. a.its \in Tuples(R)
      BY <3>1, <1>3 DEF Tuples
    <3>3. a.its[1] # Len(R[1]) + 1
      BY <3>1, <1>1, <2>2
    <3> QED
      BY <1>1, <1>3, <2>1, <3>2, <3>3 DEF Inside, IsProduct
  <2>4. CASE last = 1 /\ c.its[1] = Len(R[1])
    <3>1. a.its[1] = Len(R[1]) + 1
      BY <1>1, <1>3, <2>2, <2>4
    <3>2. ASSUME NEW i \in 1 .. N PROVE a.its[i] \in 1 .. Len(R[i]) + 1
      <4>1. /\ i \in Nat /\ last = 1 /\ c.its[i] \in 1 .. Len(R[i]) /\ Len(R[i]) \in Nat
            /\ i = last => a.its[i] = c.its[i] + 1
            /\ i > last => a.its[i] = 1
            /\ i = last \/ i > last
        BY <1>1, <1>3, <2>4
      <4>2. a.its[i] = c.its[i] + 1 \/ a.its[i] = 1
        BY <4>1
      <4> HIDE DEF N
      <4> QED
        BY <4>1, <4>2
    <3> QED
      BY <1>3, <2>1, <3>1, <3>2 DEF Exhausted, IsProduct, PastTheEnd
  <2> QED
    BY <2>3, <2>4, <1>2 DEF Turn
<1>5. ASSUME NEW t \in Tuples(R) PROVE Before(t, a.its, N) => Before(t, c.its, N) \/ t = c.its
  <2>1. t \in [1 .. N -> Nat] /\ \A i \in 1 .. N : t[i] \in 1 .. Len(R[i])
    BY DEF Tuples
  <2>2. SUFFICES ASSUME NEW i \in 1 .. N, t[i] < a.its[i], \A j \in 1 .. N : j < i =>
                          t[j] = a.its[j],
                        ~ Before(t, c.its, N)
                 PROVE  t = c.its
    BY DEF Before
  <2>3. ASSUME NEW k \in 1 .. N, \A j \in 1 .. N : j < k => t[j] = c.its[j] PROVE t[k] >= c.its[k]
    <3>1. ~ (t[k] < c.its[k])
      BY <2>2, <2>3 DEF Before
    <3>2. t[k] \in Nat /\ c.its[k] \in Nat
      BY <2>1, <1>1
    <3> QED
      BY <3>1, <3>2
  <2>4. i = last
    <3>1. CASE i < last
      <4>1. t[i] < c.its[i] /\ \A j \in 1 .. N : j < i => t[j] = c.its[j]
        BY <2>2, <1>3, <3>1
      <4>2. t[i] >= c.its[i] /\ t[i] \in Nat /\ c.its[i] \in Nat
        BY <2>1, <2>3, <4>1, <1>1
      <4> QED
        BY <4>1, <4>2
    <3>2. CASE i > last
      BY <2>1, <2>2, <1>3, <3>2
    <3> QED
      BY <3>1, <3>2, <1>1
  <2>5. \A j \in 1 .. N : j < last => t[j] = c.its[j]
    BY <2>2, <2>4, <1>3
  <2>6. t[last] = c.its[last]
    <3>1. t[last] < c.its[last] + 1
      BY <2>2, <2>4, <1>3
    <3>2. t[last] >= c.its[last]
      BY <2>3, <2>5
    <3> QED
      BY <2>1, <3>1, <3>2, <1>1
  <2> DEFINE D == {k \in 1 .. N : t[k] # c.its[k]}
  <2>7. D = {}
    <3> SUFFICES ASSUME D # {} PROVE FALSE
      OBVIOUS
    <3>1. PICK k \in D : \A j \in D : k <= j
      <4>1. D \in SUBSET Nat
        BY <1>1
      <4> HIDE DEF D
      <4> QED
        BY <4>1, Least
    <3>2. k \in 1 .. N /\ t[k] # c.its[k] /\ \A j \in 1 .. N : j < k => t[j] = c.its[j]
      <4>1. ASSUME NEW j \in 1 .. N, j < k PROVE t[j] = c.its[j]
        <5>1. ~ (k <= j) /\ k \in 1 .. N
          BY <4>1, <1>1
        <5> QED
          BY <5>1, <3>1
      <4> QED
        BY <3>1, <4>1
    <3>3. k > last
      BY <2>5, <2>6, <3>2, <1>1
    <3>4. t[k] >= c.its[k] /\ c.its[k] = Len(R[k]) /\ t[k] <= Len(R[k])
      BY <2>1, <2>3, <3>2, <3>3, <1>3
    <3> QED
      BY <2>1, <3>2, <3>4, <1>1
  <2>8. \A k \in 1 .. N : t[k] = c.its[k]
    BY <2>7
  <2> HIDE DEF D, N
  <2> QED
    BY <2>1, <2>8, <1>1
<1>6. ASSUME NEW t \in Tuples(R), Before(t, c.its, N) PROVE Before(t, a.its, N)
  <2>1. t \in [1 .. N -> Nat] /\ \A i \in 1 .. N : t[i] \in 1 .. Len(R[i])
    BY DEF Tuples
  <2>2. PICK i \in 1 .. N : t[i] < c.its[i] /\ \A j \in 1 .. N : j < i => t[j] = c.its[j]
    BY <1>6 DEF Before
  <2>3. CASE i <= last
    <3>1. t[i] < a.its[i]
      <4>1. t[i] \in Nat /\ c.its[i] \in Nat /\ a.its[i] \in Nat /\ t[i] < c.its[i]
        BY <1>1, <1>3, <2>1, <2>2
      <4>2. a.its[i] = c.its[i] \/ a.its[i] = c.its[i] + 1
        BY <1>1, <1>3, <2>3
      <4> QED
        BY <4>1, <4>2
    <3>2. \A j \in 1 .. N : j < i => t[j] = a.its[j]
      BY <1>1, <1>3, <2>2, <2>3
    <3> QED
      BY <3>1, <3>2 DEF Before
  <2>4. CASE i > last
    <3>1. t[last] < a.its[last]
      BY <1>1, <1>3, <2>1, <2>2, <2>4
    <3>2. \A j \in 1 .. N : j < last => t[j] = a.its[j]
      BY <1>1, <1>3, <2>2, <2>4
    <3> QED
      BY <3>1, <3>2 DEF Before
  <2> QED
    BY <2>3, <2>4, <1>1
<1>7. Before(c.its, a.its, N)
  <2>1. c.its[last] < a.its[last] /\ \A j \in 1 .. N : j < last => c.its[j] = a.its[j]
    BY <1>1, <1>3
  <2> QED
    BY <2>1 DEF Before
<1> QED
  BY <1>4, <1>5, <1>6, <1>7 DEF a

\* No tuple is before itself, all are before the end, and none before the start.
LEMMA BeforeFacts ==
  ASSUME NEW S, NEW R \in Seq(Seq(S))
  PROVE  /\ \A t \in Tuples(R) : ~ Before(t, t, Len(R))
         /\ \A c : (Exhausted(c, R) /\ R # <<>>) => \A t \in Tuples(R) : Before(t, c.its, Len(R))
         /\ SomeEmpty(R, Len(R)) => Tuples(R) = {} /\ Exhausted(Product(R), R)
         /\ (R # <<>> /\ ~ SomeEmpty(R, Len(R))) =>
              /\ Inside(Product(R), R)
              /\ \A t \in Tuples(R) : ~ Before(t, Product(R).its, Len(R))
<1> DEFINE N == Len(R)
<1>1. N \in Nat /\ \A i \in 1 .. N : R[i] \in Seq(S) /\ Len(R[i]) \in Nat
  OBVIOUS
<1>2. ASSUME NEW t \in Tuples(R) PROVE ~ Before(t, t, N)
  <2>1. \A i \in 1 .. N : t[i] \in Nat
    BY DEF Tuples
  <2> QED
    BY <2>1 DEF Before
<1>3. ASSUME NEW c, Exhausted(c, R), R # <<>>, NEW t \in Tuples(R) PROVE Before(t, c.its, N)
  <2>1. 1 \in 1 .. N /\ \A j \in 1 .. N : ~ (j < 1)
    BY <1>1, <1>3
  <2>2. t[1] \in 1 .. Len(R[1]) /\ c.its[1] = Len(R[1]) + 1
    BY <1>3, <2>1 DEF Tuples, Exhausted, PastTheEnd
  <2>3. t[1] < c.its[1]
    BY <2>1, <2>2, <1>1
  <2> QED
    BY <2>1, <2>3 DEF Before
<1> DEFINE its == [i \in 1 .. N |-> IF i = 1 /\ SomeEmpty(R, N) THEN PastTheEnd(R[1]) ELSE 1]
           p == Product(R)
<1>4. p = [ranges |-> R, its |-> its]
  BY ProductFacts
<1>5. p.its = its /\ p.ranges = R
  BY <1>4
<1> HIDE DEF p
<1>6. ASSUME NEW i \in 1 .. N PROVE its[i] \in Nat /\ its[i] \in 1 .. PastTheEnd(R[i])
  BY <1>1 DEF PastTheEnd
<1>7. IsProduct(p, R)
  <2>1. its \in [1 .. N -> Nat]
    BY <1>6
  <2> HIDE DEF its
  <2> QED
    BY <1>4, <1>5, <2>1 DEF IsProduct
<1>8. ASSUME SomeEmpty(R, N) PROVE Tuples(R) = {} /\ Exhausted(p, R)
  <2>1. PICK j \in 1 .. N : R[j] = <<>>
    BY <1>8 DEF SomeEmpty
  <2>2. Tuples(R) = {}
    <3> SUFFICES ASSUME NEW t \in Tuples(R) PROVE FALSE
      OBVIOUS
    <3>1. t[j] \in 1 .. Len(R[j]) /\ Len(R[j]) = 0
      BY <2>1 DEF Tuples
    <3> QED
      BY <3>1
  <2>3. 1 \in 1 .. N /\ R # <<>>
    BY <1>1, <2>1
  <2>4. its[1] = PastTheEnd(R[1])
    BY <1>8, <2>3
  <2>5. at_end(p)
    BY <1>5, <2>4 DEF at_end
  <2> HIDE DEF its
  <2> QED
    BY <2>2, <2>4, <2>5, <1>5, <1>6, <1>7 DEF Exhausted
<1>9. ASSUME R # <<>>, ~ SomeEmpty(R, N)
      PROVE  Inside(p, R) /\ \A t \in Tuples(R) : ~ Before(t, p.its, N)
  <2>1. 1 \in 1 .. N
    BY <1>1, <1>9
  <2>2. \A i \in 1 .. N : its[i] = 1 /\ Len(R[i]) >= 1
    <3> SUFFICES ASSUME NEW i \in 1 .. N PROVE its[i] = 1 /\ Len(R[i]) >= 1
      OBVIOUS
    <3>1. its[i] = 1
      BY <1>9
    <3>2. R[i] # <<>>
      BY <1>9 DEF SomeEmpty
    <3> QED
      BY <1>1, <3>1, <3>2
  <2> HIDE DEF its
  <2>3. its \in Tuples(R)
    BY <2>2, <1>1, <1>5, <1>7 DEF Tuples, IsProduct
  <2>4. ~ at_end(p)
    BY <1>1, <1>5, <1>9, <2>1, <2>2 DEF at_end, PastTheEnd
  <2>5. ASSUME NEW t \in Tuples(R) PROVE ~ Before(t, its, N)
    <3>1. \A i \in 1 .. N : t[i] \in Nat /\ t[i] >= 1
      BY <1>1 DEF Tuples
    <3> QED
      BY <2>2, <3>1 DEF Before
  <2> QED
    BY <1>5, <1>7, <1>9, <2>3, <2>4, <2>5 DEF Inside
<1> HIDE DEF its
<1> QED
  BY <1>2, <1>3, <1>8, <1>9 DEF p

\* r[n] is the rank of the n first positions of c.
Ranks(r, c, R) ==
  /\ r \in [0 .. Len(R) -> Nat] /\ r[0] = 0
  /\ \A n \in 1 .. Len(R) : r[n] = r[n - 1] * Len(R[n]) + c.its[n] - 1

\* The rank of an iterator is computed position by position.
LEMMA RankFacts ==
  ASSUME NEW S, NEW R \in Seq(Seq(S)), NEW c, IsProduct(c, R), \A i \in 1 .. Len(R) : c.its[i] >= 1
  PROVE  \E r : Ranks(r, c, R) /\ Rank(c) = r[Len(R)]
<1> DEFINE N == Len(R)
           F == [x \in Nat \X Nat |->
                   IF x[1] + 1 \in 1 .. N THEN x[2] * Len(R[x[1] + 1]) + c.its[x[1] + 1] - 1 ELSE 0]
           Def(f) == f = [n \in 0 .. N |-> IF n = 0 THEN 0
             ELSE f[n - 1] * Len(c.ranges[n]) + c.its[n] - 1]
<1>1. /\ N \in Nat /\ c.ranges = R /\ c.its \in [1 .. N -> Nat]
      /\ \A i \in 1 .. N : Len(R[i]) \in Nat /\ c.its[i] \in Nat /\ c.its[i] >= 1
  BY DEF IsProduct
<1>2. Len(c.its) = N
  BY <1>1, SequenceFacts
<1> HIDE DEF N
<1>3. ASSUME NEW m \in Nat, NEW i \in 1 .. N PROVE m * Len(R[i]) + c.its[i] - 1 \in Nat
  <2>1. m * Len(R[i]) \in Nat
    BY <1>1
  <2> QED
    BY <1>1, <2>1
<1>4. F \in [Nat \X Nat -> Nat]
  <2> SUFFICES ASSUME NEW x \in Nat \X Nat, x[1] + 1 \in 1 .. N
               PROVE  x[2] * Len(R[x[1] + 1]) + c.its[x[1] + 1] - 1 \in Nat
    OBVIOUS
  <2>1. x[2] \in Nat
    OBVIOUS
  <2> QED
    BY <1>3, <2>1
<1>5. PICK f \in [0 .. N -> Nat] : IsLoop(f, F, 0, N)
  <2> HIDE DEF F
  <2> QED
    BY <1>1, <1>4, Loop
<1>6. ASSUME NEW n \in 0 .. N
      PROVE  f[n] = IF n = 0 THEN 0 ELSE f[n - 1] * Len(c.ranges[n]) + c.its[n] - 1
  <2>1. CASE n = 0
    BY <1>5, <2>1 DEF IsLoop
  <2>2. CASE n # 0
    <3>1. n - 1 \in Nat /\ n - 1 \in 0 .. N /\ (n - 1) + 1 = n /\ n \in 1 .. N
      BY <1>1, <2>2
    <3>2. f[n] = F[<<n - 1, f[n - 1]>>]
      BY <1>5, <2>2 DEF IsLoop
    <3>3. f[n - 1] \in Nat
      BY <3>1
    <3> QED
      BY <3>1, <3>2, <3>3, <2>2, <1>1
  <2> QED
    BY <2>1, <2>2
<1>7. Def(f)
  <2>1. f = [n \in 0 .. N |-> f[n]]
    OBVIOUS
  <2> QED
    BY <1>6, <2>1
<1> DEFINE r == CHOOSE g : Def(g)
<1>8. Def(r)
  <2> HIDE DEF Def
  <2> QED
    BY <1>7
<1>9. Rank(c) = r[N]
  BY <1>2 DEF Rank
<1> HIDE DEF r
<1>10. \A n \in 0 .. N : r[n] = IF n = 0 THEN 0 ELSE r[n - 1] * Len(c.ranges[n]) + c.its[n] - 1
  BY <1>8
<1> DEFINE T == {n \in 0 .. N : r[n] \in Nat}
<1>11. 0 \in T
  BY <1>1, <1>10
<1>12. ASSUME NEW n \in 0 .. N - 1, n \in T PROVE n + 1 \in T
  <2>1. n + 1 \in 1 .. N /\ n + 1 \in 0 .. N /\ n + 1 # 0 /\ (n + 1) - 1 = n
    BY <1>1
  <2>2. r[n + 1] = r[n] * Len(R[n + 1]) + c.its[n + 1] - 1
    BY <2>1, <1>1, <1>10
  <2>3. r[n + 1] \in Nat
    BY <1>3, <1>12, <2>1, <2>2
  <2> QED
    BY <2>1, <2>3
<1>13. \A n \in 0 .. N : n \in T
  <2> HIDE DEF T
  <2> QED
    BY <1>1, <1>11, <1>12, CountingTo
<1>14. r = [n \in 0 .. N |-> r[n]]
  BY <1>8
<1>15. r \in [0 .. N -> Nat]
  BY <1>13, <1>14
<1>16. ASSUME NEW n \in 1 .. N PROVE r[n] = r[n - 1] * Len(R[n]) + c.its[n] - 1
  <2>1. n \in 0 .. N /\ n # 0
    BY <1>1
  <2> QED
    BY <2>1, <1>1, <1>10
<1>17. r[0] = 0
  BY <1>1, <1>10
<1> QED
  BY <1>9, <1>15, <1>16, <1>17 DEF Ranks, N

\* The next tuple has the next rank.
LEMMA AdvancedRank ==
  ASSUME NEW S, NEW R \in Seq(Seq(S)), NEW c, Inside(c, R)
  PROVE  Rank(Advanced(c)) = Rank(c) + 1
<1> DEFINE N == Len(R)
           a == Advanced(c)
<1>1. /\ N \in Nat \ {0} /\ IsProduct(c, R) /\ c.its \in [1 .. N -> Nat]
      /\ \A i \in 1 .. N : c.its[i] \in 1 .. Len(R[i]) /\ c.its[i] >= 1 /\ Len(R[i]) \in Nat
  BY DEF Inside, IsProduct, Tuples
<1>2. PICK last \in 1 .. N : Turn(c, a, R, last)
  BY AdvancedTurn
<1>3. IsProduct(a, R) /\ \A i \in 1 .. N : a.its[i] >= 1
  <2>1. Inside(a, R) \/ Exhausted(a, R)
    BY AdvancedFacts
  <2>2. IsProduct(a, R)
    BY <2>1 DEF Inside, Exhausted
  <2> HIDE DEF a
  <2>3. ASSUME NEW i \in 1 .. N PROVE a.its[i] >= 1
    <3>1. CASE Inside(a, R)
      BY <3>1, <1>1 DEF Inside, Tuples
    <3>2. CASE Exhausted(a, R)
      <4>1. a.its[i] \in 1 .. Len(R[i]) + 1
        BY <3>2 DEF Exhausted, PastTheEnd
      <4> QED
        BY <4>1, <1>1
    <3> QED
      BY <2>1, <3>1, <3>2
  <2> QED
    BY <2>2, <2>3
<1> HIDE DEF a
<1>4. PICK r : Ranks(r, c, R) /\ Rank(c) = r[N]
  BY <1>1, RankFacts
<1>5. PICK s : Ranks(s, a, R) /\ Rank(a) = s[N]
  BY <1>3, RankFacts
<1>6. \A i \in 1 .. N : /\ i < last => a.its[i] = c.its[i]
                        /\ i = last => a.its[i] = c.its[i] + 1
                        /\ i > last => a.its[i] = 1 /\ c.its[i] = Len(R[i])
  <2>1. /\ a.its = [i \in 1 .. N |-> IF i < last THEN c.its[i] ELSE IF i = last THEN c.its[i] + 1
             ELSE 1]
        /\ \A i \in 1 .. N : i > last => c.its[i] = Len(R[i])
    BY <1>2 DEF Turn
  <2> QED
    BY <2>1, <1>1
<1> DEFINE T == {n \in 0 .. N : s[n] = IF n < last THEN r[n] ELSE r[n] + 1}
<1>7. 0 \in T
  BY <1>1, <1>4, <1>5 DEF Ranks
<1>8. ASSUME NEW n \in 0 .. N - 1, n \in T PROVE n + 1 \in T
  <2>1. n + 1 \in 1 .. N /\ n \in 0 .. N /\ (n + 1) - 1 = n /\ n + 1 \in 0 .. N /\ last \in Nat
    BY <1>1
  <2> DEFINE l == Len(R[n + 1])
             p == r[n]
             x == c.its[n + 1]
             y == a.its[n + 1]
  <2>2. p \in Nat /\ l \in Nat /\ x \in Nat /\ y \in Nat
    BY <2>1, <1>1, <1>3, <1>4 DEF Ranks, IsProduct
  <2>3. r[n + 1] = p * l + x - 1
    BY <2>1, <1>4 DEF Ranks
  <2>4. s[n + 1] = s[n] * l + y - 1
    BY <2>1, <1>5 DEF Ranks
  <2>5. s[n] = IF n < last THEN p ELSE p + 1
    BY <1>8
  <2>6. /\ n + 1 < last => y = x
        /\ n + 1 = last => y = x + 1
        /\ n + 1 > last => y = 1 /\ x = l
    BY <2>1, <1>6
  <2>7. p * l \in Nat /\ (p + 1) * l = p * l + l
    <3> HIDE DEF p, l
    <3> QED
      BY <2>2
  <2> HIDE DEF p, l, x, y
  <2>8. s[n + 1] = IF n + 1 < last THEN r[n + 1] ELSE r[n + 1] + 1
    <3>1. CASE n + 1 < last
      <4>1. n < last
        BY <3>1, <2>1
      <4> QED
        BY <4>1, <3>1, <2>3, <2>4, <2>5, <2>6
    <3>2. CASE n + 1 = last
      <4>1. n < last /\ ~ (n + 1 < last)
        BY <3>2, <2>1
      <4>2. s[n + 1] = p * l + y - 1 /\ y = x + 1
        BY <4>1, <3>2, <2>4, <2>5, <2>6
      <4> QED
        BY <4>1, <4>2, <2>2, <2>3, <2>7
    <3>3. CASE n + 1 > last
      <4>1. ~ (n < last) /\ ~ (n + 1 < last)
        BY <3>3, <2>1
      <4>2. s[n + 1] = (p + 1) * l + y - 1 /\ y = 1 /\ x = l
        BY <4>1, <3>3, <2>4, <2>5, <2>6
      <4> QED
        BY <4>1, <4>2, <2>2, <2>3, <2>7
    <3> QED
      BY <3>1, <3>2, <3>3, <2>1
  <2> QED
    BY <2>1, <2>8
<1>9. N \in T
  <2>1. N \in 0 .. N /\ N \in Nat
    BY <1>1
  <2> HIDE DEF T, N
  <2>2. \A n \in 0 .. N : n \in T
    BY <2>1, <1>7, <1>8, CountingTo
  <2> QED
    BY <2>1, <2>2
<1>10. s[N] = r[N] + 1
  BY <1>1, <1>9
<1> QED
  BY <1>4, <1>5, <1>10 DEF a

-----------------------------------------------------------------------------
(* Sequences of ranges: an iterator goes through the positions of each range *)
(* in turn.                                                                  *)

Positions(R) == {x \in Nat \X Nat : x[1] \in 1 .. Len(R) /\ x[2] \in 1 .. Len(R[x[1]])}

Passed(x, j) == x[1] < j.it \/ (x[1] = j.it /\ x[2] < j.pos)

OnElement(R, j) == <<j.it, j.pos>> \in Positions(R)

IsJoin(R, j) ==
  /\ j = [it |-> j.it, pos |-> j.pos] /\ j.it \in Nat /\ j.pos \in Nat
  /\ OnElement(R, j) \/ JoinAtEnd(R, j)

\* The first element from a range on, or the end.
LEMMA FirstFrom ==
  ASSUME NEW S, NEW R \in Seq(Seq(S)), NEW k \in 1 .. Len(R) + 1
  PROVE  LET j == AdvanceWhileEmptyRange(R, k)
         IN IsJoin(R, j) /\ \A x \in Positions(R) : Passed(x, j) <=> x[1] < k
<1> DEFINE N == Len(R)
           found == {i \in k .. N : R[i] # <<>>}
           j == AdvanceWhileEmptyRange(R, k)
<1>1. N \in Nat /\ k \in Nat /\ \A i \in 1 .. N : R[i] \in Seq(S) /\ Len(R[i]) \in Nat
  OBVIOUS
<1>2. ASSUME NEW x \in Positions(R)
      PROVE  x[1] \in 1 .. N /\ x[2] \in 1 .. Len(R[x[1]]) /\ R[x[1]] # <<>>
  <2>1. x[1] \in 1 .. N /\ x[2] \in 1 .. Len(R[x[1]])
    BY DEF Positions
  <2>2. R[x[1]] # <<>>
    <3> SUFFICES ASSUME R[x[1]] = <<>> PROVE FALSE
      OBVIOUS
    <3>1. Len(R[x[1]]) = 0
      OBVIOUS
    <3> QED
      BY <2>1, <3>1
  <2> QED
    BY <2>1, <2>2
<1>3. CASE found = {}
  <2>1. j = [it |-> N + 1, pos |-> 0]
    BY <1>3 DEF AdvanceWhileEmptyRange, PastTheEnd
  <2>2. IsJoin(R, j)
    BY <1>1, <2>1 DEF IsJoin, JoinAtEnd, PastTheEnd
  <2>3. ASSUME NEW x \in Positions(R) PROVE Passed(x, j) /\ x[1] < k
    <3>1. x[1] \in 1 .. N /\ R[x[1]] # <<>> /\ x[1] \notin found
      BY <1>2, <1>3
    <3> QED
      BY <1>1, <2>1, <3>1 DEF Passed
  <2> HIDE DEF j
  <2> QED
    BY <2>2, <2>3 DEF j
<1>4. CASE found # {}
  <2> DEFINE f == CHOOSE i \in found : \A m \in found : i <= m
  <2>1. f \in found /\ \A m \in found : f <= m
    <3>1. found \in SUBSET Nat
      BY <1>1
    <3> HIDE DEF found
    <3>2. \E i \in found : \A m \in found : i <= m
      BY <3>1, <1>4, Least
    <3> QED
      BY <3>2
  <2>2. j = [it |-> f, pos |-> 1]
    BY <1>4 DEF AdvanceWhileEmptyRange
  <2> HIDE DEF f, j
  <2>3. f \in k .. N /\ f \in 1 .. N /\ R[f] # <<>>
    BY <2>1, <1>1
  <2>4. Len(R[f]) >= 1
    BY <2>3, <1>1
  <2>5. IsJoin(R, j)
    <3>1. 1 \in 1 .. Len(R[f]) /\ f \in Nat
      BY <2>3, <2>4, <1>1
    <3>2. <<f, 1>> \in Positions(R)
      BY <2>3, <3>1 DEF Positions
    <3> QED
      BY <2>2, <3>1, <3>2 DEF IsJoin, OnElement
  <2>6. ASSUME NEW x \in Positions(R) PROVE Passed(x, j) <=> x[1] < k
    <3>1. x[1] \in 1 .. N /\ R[x[1]] # <<>> /\ x[2] \in 1 .. Len(R[x[1]])
      BY <1>2
    <3>2. x[2] \in Nat /\ ~ (x[2] < 1)
      BY <3>1, <1>1
    <3>3. x[1] >= k => x[1] \in found
      BY <3>1, <1>1
    <3>4. x[1] >= k => x[1] >= f
      BY <3>1, <3>3, <2>1, <2>3, <1>1
    <3>5. Passed(x, j) <=> x[1] < f
      BY <2>2, <3>2 DEF Passed
    <3> QED
      BY <3>1, <3>4, <3>5, <2>3, <1>1
  <2> QED
    BY <2>5, <2>6 DEF j
<1> QED
  BY <1>3, <1>4

\* join_iterator_t: it starts before all the elements, passes one, ends after all.
LEMMA JoinFacts ==
  ASSUME NEW S, NEW R \in Seq(Seq(S))
  PROVE  /\ IsJoin(R, Join(R)) /\ \A x \in Positions(R) : ~ Passed(x, Join(R))
         /\ \A j : IsJoin(R, j) /\ ~JoinAtEnd(R, j) =>
              /\ OnElement(R, j) /\ ~ Passed(<<j.it, j.pos>>, j)
              /\ IsJoin(R, JoinAdvanced(R, j))
              /\ \A x \in Positions(R) :
                   Passed(x, JoinAdvanced(R, j)) <=> (Passed(x, j) \/ x = <<j.it, j.pos>>)
         /\ \A j : IsJoin(R, j) /\ JoinAtEnd(R, j) => \A x \in Positions(R) : Passed(x, j)
<1> DEFINE N == Len(R)
<1>1. N \in Nat /\ \A i \in 1 .. N : R[i] \in Seq(S) /\ Len(R[i]) \in Nat
  OBVIOUS
<1>2. ASSUME NEW x \in Positions(R)
      PROVE x[1] \in 1 .. N /\ x[2] \in 1 .. Len(R[x[1]]) /\ x = <<x[1], x[2]>> /\ x[2] \in Nat
  BY DEF Positions
<1>3. IsJoin(R, Join(R)) /\ \A x \in Positions(R) : ~ Passed(x, Join(R))
  <2>1. 1 \in 1 .. N + 1
    BY <1>1
  <2>2. \A x \in Positions(R) : ~ (x[1] < 1)
    BY <1>1, <1>2
  <2> QED
    BY <2>1, <2>2, FirstFrom DEF Join
<1>4. ASSUME NEW j, IsJoin(R, j), ~JoinAtEnd(R, j)
      PROVE  /\ OnElement(R, j) /\ ~ Passed(<<j.it, j.pos>>, j)
             /\ IsJoin(R, JoinAdvanced(R, j))
             /\ \A x \in Positions(R) :
                  Passed(x, JoinAdvanced(R, j)) <=> (Passed(x, j) \/ x = <<j.it, j.pos>>)
  <2> DEFINE a == JoinAdvanced(R, j)
  <2>1. OnElement(R, j) /\ j.it \in 1 .. N /\ j.pos \in 1 .. Len(R[j.it]) /\ j.pos \in Nat /\
          j.it \in Nat
    BY <1>4 DEF IsJoin, OnElement, Positions
  <2>2. ~ Passed(<<j.it, j.pos>>, j)
    BY <2>1 DEF Passed
  <2>3. CASE j.pos < Len(R[j.it])
    <3>1. a = [it |-> j.it, pos |-> j.pos + 1]
      BY <1>4, <2>3 DEF JoinAdvanced, IsJoin
    <3> HIDE DEF a
    <3>2. j.pos + 1 \in 1 .. Len(R[j.it]) /\ j.pos + 1 \in Nat
      BY <2>1, <2>3, <1>1
    <3>3. IsJoin(R, a)
      BY <2>1, <3>1, <3>2 DEF IsJoin, OnElement, Positions
    <3>4. ASSUME NEW x \in Positions(R) PROVE Passed(x, a) <=> (Passed(x, j) \/ x = <<j.it, j.pos>>)
      <4>1. x[2] < j.pos + 1 <=> (x[2] < j.pos \/ x[2] = j.pos)
        BY <1>2, <2>1
      <4>2. x = <<j.it, j.pos>> <=> (x[1] = j.it /\ x[2] = j.pos)
        BY <1>2
      <4> QED
        BY <3>1, <4>1, <4>2 DEF Passed
    <3> QED
      BY <2>1, <2>2, <3>3, <3>4 DEF a
  <2>4. CASE ~ (j.pos < Len(R[j.it]))
    <3>1. a = AdvanceWhileEmptyRange(R, j.it + 1)
      BY <2>4 DEF JoinAdvanced
    <3>2. j.it + 1 \in 1 .. N + 1
      BY <2>1, <1>1
    <3>3. IsJoin(R, a) /\ \A x \in Positions(R) : Passed(x, a) <=> x[1] < j.it + 1
      BY <3>1, <3>2, FirstFrom
    <3> HIDE DEF a
    <3>4. ASSUME NEW x \in Positions(R) PROVE Passed(x, a) <=> (Passed(x, j) \/ x = <<j.it, j.pos>>)
      <4>1. x[1] \in Nat /\ (x[1] < j.it + 1 <=> (x[1] < j.it \/ x[1] = j.it))
        BY <1>1, <1>2, <2>1
      <4>2. x[1] = j.it => (x[2] < j.pos \/ x[2] = j.pos)
        BY <1>1, <1>2, <2>1, <2>4
      <4>3. x = <<j.it, j.pos>> <=> (x[1] = j.it /\ x[2] = j.pos)
        BY <1>2
      <4> QED
        BY <3>3, <4>1, <4>2, <4>3 DEF Passed
    <3> QED
      BY <2>1, <2>2, <3>3, <3>4 DEF a
  <2> QED
    BY <2>3, <2>4
<1>5. ASSUME NEW j, IsJoin(R, j), JoinAtEnd(R, j), NEW x \in Positions(R) PROVE Passed(x, j)
  <2>1. j.it = N + 1
    BY <1>5 DEF JoinAtEnd, PastTheEnd
  <2> QED
    BY <1>1, <1>2, <2>1 DEF Passed
<1> QED
  BY <1>3, <1>4, <1>5

-----------------------------------------------------------------------------
(* The edges of locations. *)

ProcessCount == Cardinality(Processes)
Edges == EdgesOf(system)

\* The elements of s are those of T, each once.
Lists(s, T) ==
  /\ \A i \in 1 .. Len(s) : s[i] \in T
  /\ \A e \in T : \E i \in 1 .. Len(s) : s[i] = e
  /\ \A i, j \in 1 .. Len(s) : s[i] = s[j] => i = j

At(loc, event, d) == {e \in Edges : Loc(e, d) = loc /\ e.event = event}
Alone(loc, d) == {e \in Edges : Loc(e, d) = loc /\ IsAsynchronous(e.pid, e.event)}

\* Where v puts a process, there are edges of this process only.
Located(v) == \A p \in Processes : \A e \in Edges : v[p] \in Ends(e) => e.pid = p

\* Processes are numbered.
LEMMA Numbered == ProcessCount \in Nat /\ Processes = 1 .. ProcessCount
BY ProcessesAssumption, FS_CardinalityType DEF ProcessCount

\* A system is what the builder of systems makes.
LEMMA SystemFacts ==
  ASSUME system \in Systems
  PROVE  /\ system.edges \in Seq(Edges)
         /\ \A i, j \in DOMAIN system.edges : system.edges[i] = system.edges[j] => i = j
         /\ \A e \in Edges : e.pid \in Processes
         /\ \A e, f \in Edges : Ends(e) \cap Ends(f) # {} => e.pid = f.pid
         /\ Len(system.syncs) \in Nat /\ DOMAIN system.syncs = 1 .. Len(system.syncs)
<1>1. IsSystem(system)
  BY SystemsAssumption
<1>2. system.syncs \in Seq({system.syncs[k] : k \in DOMAIN system.syncs})
  BY <1>1 DEF IsSystem
<1> DEFINE S == {system.syncs[k] : k \in DOMAIN system.syncs}
<1> HIDE DEF S
<1>3. Len(system.syncs) \in Nat /\ DOMAIN system.syncs = 1 .. Len(system.syncs)
  <2>1. system.syncs \in Seq(S)
    BY <1>2 DEF S
  <2> QED
    BY <2>1
<1> QED
  BY <1>1, <1>3 DEF IsSystem, Edges

\* A synchronization is a sequence of constraints on different processes.
LEMMA SyncFacts ==
  ASSUME system \in Systems, NEW k \in 1 .. Len(system.syncs)
  PROVE  LET sync == system.syncs[k]
         IN /\ Len(sync) \in Nat /\ DOMAIN sync = 1 .. Len(sync)
            /\ \A j \in DOMAIN sync : sync[j].pid \in Processes /\
                 sync[j].strength \in {"strong", "weak"}
            /\ \A i, j \in DOMAIN sync : sync[i].pid = sync[j].pid => i = j
<1>1. k \in DOMAIN system.syncs
  BY SystemFacts
<1> DEFINE sync == system.syncs[k]
<1>2. /\ sync \in Seq(ConstraintsOf(sync))
      /\ \A c \in ConstraintsOf(sync) : c.pid \in Processes /\ c.strength \in {"strong", "weak"}
      /\ \A i, j \in DOMAIN sync : sync[i].pid = sync[j].pid => i = j
  BY <1>1, SystemsAssumption DEF IsSystem
<1>3. \A j \in DOMAIN sync : sync[j] \in ConstraintsOf(sync)
  BY DEF ConstraintsOf
<1> HIDE DEF sync
<1>4. Len(sync) \in Nat /\ DOMAIN sync = 1 .. Len(sync)
  BY <1>2
<1> QED
  BY <1>2, <1>3, <1>4 DEF sync

\* The initial locations of each process.
LEMMA InitialFacts ==
  ASSUME system \in Systems
  PROVE  /\ \E S : system.initial \in Seq(Seq(S))
         /\ Len(system.initial) = ProcessCount
         /\ \A p \in Processes, e \in Edges : \A i \in 1 .. Len(system.initial[p]) :
              system.initial[p][i] \in Ends(e) => e.pid = p
         /\ \A p \in Processes : DOMAIN system.initial[p] = 1 .. Len(system.initial[p])
<1> DEFINE I == system.initial
           Of(p) == {I[p][i] : i \in DOMAIN I[p]}
           S == UNION {Of(p) : p \in Processes}
<1>1. I \in [Processes -> {I[p] : p \in Processes}]
  BY SystemsAssumption DEF IsSystem
<1>2. ASSUME NEW p \in Processes
      PROVE  /\ I[p] \in Seq(Of(p)) /\ I[p] \in Seq(S)
             /\ DOMAIN I[p] = 1 .. Len(I[p])
             /\ \A i \in DOMAIN I[p], e \in Edges : I[p][i] \in Ends(e) => e.pid = p
  <2>1. I[p] \in Seq(Of(p)) /\ \A i \in DOMAIN I[p], e \in Edges : I[p][i] \in Ends(e) => e.pid = p
    BY SystemsAssumption DEF IsSystem, Edges
  <2>2. DOMAIN I[p] = 1 .. Len(I[p]) /\ Len(I[p]) \in Nat
    <3> HIDE DEF I, Of
    <3> QED
      BY <2>1
  <2>3. \A i \in 1 .. Len(I[p]) : I[p][i] \in S
    BY <2>2
  <2>4. I[p] \in [1 .. Len(I[p]) -> S]
    <3> HIDE DEF I, S
    <3>1. I[p] = [i \in 1 .. Len(I[p]) |-> I[p][i]]
      BY <2>1, <2>2
    <3> QED
      BY <2>3, <3>1
  <2>5. I[p] \in Seq(S)
    <3> HIDE DEF I, S
    <3> QED
      BY <2>2, <2>4, SequenceFacts
  <2> QED
    BY <2>1, <2>2, <2>5
<1> HIDE DEF I, S
<1>3. I \in [1 .. ProcessCount -> Seq(S)]
  BY <1>1, <1>2, Numbered
<1>4. I \in Seq(Seq(S)) /\ Len(I) = ProcessCount
  BY <1>3, Numbered, SequenceFacts
<1> QED
  BY <1>2, <1>4 DEF I

\* A filtered range lists the edges that it should.
LEMMA EdgesKept ==
  ASSUME system \in Systems, NEW T \in SUBSET Edges,
         NEW kept, kept = {i \in DOMAIN system.edges : system.edges[i] \in T}
  PROVE  Filtered(system.edges, kept) \in Seq(Edges) /\ Lists(Filtered(system.edges, kept), T)
<1> DEFINE F == Filtered(system.edges, kept)
<1>1. /\ system.edges \in Seq(Edges) /\ DOMAIN system.edges = 1 .. Len(system.edges)
      /\ \A i, j \in DOMAIN system.edges : system.edges[i] = system.edges[j] => i = j
  BY SystemFacts
<1>2. F \in Seq(Edges) /\ \E p : Keeps(F, system.edges, kept, p)
  BY <1>1, FilteredFacts
<1> HIDE DEF F
<1>3. PICK p : Keeps(F, system.edges, kept, p)
  BY <1>2
<1>4. \A e \in T : \E i \in kept : system.edges[i] = e
  BY DEF Edges, EdgesOf
<1>5. \A i \in 1 .. Len(F) : F[i] = system.edges[p[i]] /\ p[i] \in kept
  BY <1>3 DEF Keeps
<1>6. \A i \in 1 .. Len(F) : F[i] \in T
  BY <1>5
<1>7. \A i, j \in 1 .. Len(F) : F[i] = F[j] => i = j
  <2> SUFFICES ASSUME NEW i \in 1 .. Len(F), NEW j \in 1 .. Len(F), F[i] = F[j] PROVE i = j
    OBVIOUS
  <2>1. p[i] = p[j]
    BY <1>1, <1>5
  <2> QED
    BY <2>1, <1>3 DEF Keeps
<1>8. \A e \in T : \E i \in 1 .. Len(F) : F[i] = e
  <2> SUFFICES ASSUME NEW e \in T PROVE \E i \in 1 .. Len(F) : F[i] = e
    OBVIOUS
  <2>1. PICK n \in kept : system.edges[n] = e
    BY <1>4
  <2>2. PICK i \in 1 .. Len(F) : p[i] = n
    BY <1>3 DEF Keeps
  <2> QED
    BY <1>5, <2>1, <2>2
<1> QED
  BY <1>2, <1>6, <1>7, <1>8 DEF Lists, F

\* The edges of a location with an event, and the asynchronous ones.
LEMMA LocationFacts ==
  ASSUME system \in Systems, NEW loc, NEW event, NEW d
  PROVE  /\ LocEventEdges(loc, event, d) \in Seq(Edges)
         /\ Lists(LocEventEdges(loc, event, d), At(loc, event, d))
         /\ LocHasEvent(loc, event, d) <=> At(loc, event, d) # {}
         /\ LocEventEdges(loc, event, d) = <<>> <=> At(loc, event, d) = {}
         /\ LocationEdges(loc, d) \in Seq(Edges)
         /\ Lists(LocationEdges(loc, d), Alone(loc, d))
<1>1. \A i \in DOMAIN system.edges : system.edges[i] \in Edges
  BY DEF Edges, EdgesOf
<1>2. {i \in DOMAIN system.edges : Loc(system.edges[i], d) = loc /\ system.edges[i].event = event}
        = {i \in DOMAIN system.edges : system.edges[i] \in At(loc, event, d)}
  BY <1>1 DEF At
<1>3. {i \in DOMAIN system.edges :
         Loc(system.edges[i], d) = loc /\
           IsAsynchronous(system.edges[i].pid, system.edges[i].event)}
        = {i \in DOMAIN system.edges : system.edges[i] \in Alone(loc, d)}
  BY <1>1 DEF Alone
<1>4. At(loc, event, d) \in SUBSET Edges /\ Alone(loc, d) \in SUBSET Edges
  BY DEF At, Alone
<1> DEFINE s == LocEventEdges(loc, event, d)
<1>5. s \in Seq(Edges) /\ Lists(s, At(loc, event, d))
  BY <1>2, <1>4, EdgesKept DEF LocEventEdges
<1>6. LocationEdges(loc, d) \in Seq(Edges) /\ Lists(LocationEdges(loc, d), Alone(loc, d))
  BY <1>3, <1>4, EdgesKept DEF LocationEdges
<1>7. LocHasEvent(loc, event, d) <=> At(loc, event, d) # {}
  BY DEF LocHasEvent, At, Edges
<1> HIDE DEF s
<1>8. s = <<>> <=> At(loc, event, d) = {}
  <2>1. ASSUME s = <<>> PROVE At(loc, event, d) = {}
    BY <1>5, <2>1 DEF Lists
  <2>2. ASSUME s # <<>> PROVE At(loc, event, d) # {}
    <3>1. 1 \in 1 .. Len(s)
      BY <1>5, <2>2
    <3> QED
      BY <1>5, <3>1 DEF Lists
  <2> QED
    BY <2>1, <2>2
<1> QED
  BY <1>5, <1>6, <1>7, <1>8 DEF s

-----------------------------------------------------------------------------
(* The products of a synchronization. *)

\* The edges for a constraint, and the constraints that take part.
Can(sync, v, d, j) == At(v[sync[j].pid], sync[j].event, d)
TakesPart(sync, v, d) ==
  {j \in DOMAIN sync : ~(sync[j].strength = "weak" /\ Can(sync, v, d, j) = {})}

\* The ranges are those of the constraints that take part.
Covers(R, sync, v, d, p) ==
  /\ p \in [1 .. Len(R) -> TakesPart(sync, v, d)]
  /\ \A i \in 1 .. Len(R) : Lists(R[i], Can(sync, v, d, p[i]))
  /\ \A i, j \in 1 .. Len(R) : p[i] = p[j] => i = j
  /\ \A j \in TakesPart(sync, v, d) : \E i \in 1 .. Len(R) : p[i] = j

\* The sets of edges that instantiate a synchronization, in either direction.
Instances(sync, v, d) ==
  {X \in SUBSET Edges :
     /\ X # {}
     /\ \A j \in DOMAIN sync :
          \/ \E e \in X \cap Can(sync, v, d, j) : X \cap Can(sync, v, d, j) = {e}
          \/ sync[j].strength = "weak" /\ Can(sync, v, d, j) = {}
     /\ \A e \in X : \E j \in DOMAIN sync : e \in Can(sync, v, d, j)}

Chosen(R, t) == [i \in 1 .. Len(R) |-> R[i][t[i]]]

\* The loop over the constraints of a synchronization.
LEMMA RangesFacts ==
  ASSUME system \in Systems, NEW k \in 1 .. Len(system.syncs), NEW v, NEW d
  PROVE  LET sync == system.syncs[k]
         IN Ranges(sync, v, d) \in Seq(Seq(Edges)) /\
           \E p : Covers(Ranges(sync, v, d), sync, v, d, p)
<1> DEFINE sync == system.syncs[k]
           range == [j \in DOMAIN sync |-> LocEventEdges(v[sync[j].pid], sync[j].event, d)]
           kept == {j \in DOMAIN sync : ~(sync[j].strength = "weak" /\ range[j] = <<>>)}
           R == Ranges(sync, v, d)
<1>1. Len(sync) \in Nat /\ DOMAIN sync = 1 .. Len(sync)
  BY SyncFacts
<1>2. R = Filtered(range, kept)
  BY DEF Ranges
<1> HIDE DEF sync, R
<1>3. ASSUME NEW j \in DOMAIN sync
      PROVE  /\ range[j] \in Seq(Edges) /\ Lists(range[j], Can(sync, v, d, j))
             /\ range[j] = <<>> <=> Can(sync, v, d, j) = {}
  BY LocationFacts DEF Can
<1>4. range \in Seq(Seq(Edges)) /\ Len(range) = Len(sync)
  <2>1. range \in [1 .. Len(sync) -> Seq(Edges)]
    BY <1>1, <1>3
  <2> HIDE DEF range
  <2> QED
    BY <1>1, <2>1, SequenceFacts
<1>5. kept = TakesPart(sync, v, d) /\ kept \in SUBSET (1 .. Len(range))
  <2> HIDE DEF range
  <2> QED
    BY <1>1, <1>3, <1>4 DEF TakesPart
<1> HIDE DEF range, kept
<1>6. R \in Seq(Seq(Edges)) /\ \E p : Keeps(R, range, kept, p)
  BY <1>2, <1>4, <1>5, FilteredFacts
<1>7. PICK p : Keeps(R, range, kept, p)
  BY <1>6
<1>8. ASSUME NEW i \in 1 .. Len(R) PROVE Lists(R[i], Can(sync, v, d, p[i]))
  <2>1. p[i] \in kept /\ R[i] = range[p[i]]
    BY <1>7 DEF Keeps
  <2>2. p[i] \in DOMAIN sync
    BY <2>1, <1>5 DEF TakesPart
  <2> QED
    BY <2>1, <2>2, <1>3
<1>9. Covers(R, sync, v, d, p)
  BY <1>5, <1>7, <1>8 DEF Covers, Keeps
<1> QED
  BY <1>6, <1>9 DEF R, sync

\* A synchronization is enabled when no range is empty, and there is one.
LEMMA EnabledFacts ==
  ASSUME system \in Systems, NEW k \in 1 .. Len(system.syncs), NEW v, NEW d
  PROVE  LET sync == system.syncs[k]
             R == Ranges(sync, v, d)
         IN /\ IsEnabled(sync, v, d) => R # <<>> /\ ~ SomeEmpty(R, Len(R))
            /\ ~ IsEnabled(sync, v, d) => Instances(sync, v, d) = {}
<1> DEFINE sync == system.syncs[k]
           R == Ranges(sync, v, d)
<1>1. R \in Seq(Seq(Edges)) /\ \E p : Covers(R, sync, v, d, p)
  BY RangesFacts
<1>2. PICK p : Covers(R, sync, v, d, p)
  BY <1>1
<1>3. \A j \in DOMAIN sync : sync[j].strength \in {"strong", "weak"}
  BY SyncFacts
<1> HIDE DEF R, sync
<1>4. IsEnabled(sync, v, d) <=>
        /\ \A j \in DOMAIN sync : sync[j].strength = "weak" \/ Can(sync, v, d, j) # {}
        /\ \E j \in DOMAIN sync : Can(sync, v, d, j) # {}
  BY LocationFacts DEF IsEnabled, Can
<1>5. ASSUME IsEnabled(sync, v, d) PROVE R # <<>> /\ ~ SomeEmpty(R, Len(R))
  <2>1. PICK j \in DOMAIN sync : Can(sync, v, d, j) # {}
    BY <1>4, <1>5
  <2>2. j \in TakesPart(sync, v, d)
    BY <2>1 DEF TakesPart
  <2>3. PICK i \in 1 .. Len(R) : p[i] = j
    BY <1>2, <2>2 DEF Covers
  <2>4. ASSUME NEW m \in 1 .. Len(R) PROVE R[m] # <<>>
    <3>1. p[m] \in TakesPart(sync, v, d) /\ Lists(R[m], Can(sync, v, d, p[m]))
      BY <1>2 DEF Covers
    <3>2. p[m] \in DOMAIN sync /\ Can(sync, v, d, p[m]) # {}
      BY <3>1, <1>3, <1>4, <1>5 DEF TakesPart
    <3> SUFFICES ASSUME R[m] = <<>> PROVE FALSE
      OBVIOUS
    <3>3. Len(R[m]) = 0
      OBVIOUS
    <3> QED
      BY <3>1, <3>2, <3>3 DEF Lists
  <2>5. R # <<>>
    BY <2>3
  <2> QED
    BY <2>4, <2>5 DEF SomeEmpty
<1>6. ASSUME ~ IsEnabled(sync, v, d), NEW X \in Instances(sync, v, d) PROVE FALSE
  <2>1. /\ X # {}
        /\ \A j \in DOMAIN sync :
             \/ \E e \in X \cap Can(sync, v, d, j) : X \cap Can(sync, v, d, j) = {e}
             \/ sync[j].strength = "weak" /\ Can(sync, v, d, j) = {}
        /\ \A e \in X : \E j \in DOMAIN sync : e \in Can(sync, v, d, j)
    BY DEF Instances
  <2>2. CASE \E j \in DOMAIN sync : sync[j].strength # "weak" /\ Can(sync, v, d, j) = {}
    BY <2>1, <2>2
  <2>3. CASE \A j \in DOMAIN sync : Can(sync, v, d, j) = {}
    BY <2>1, <2>3
  <2> QED
    BY <1>4, <1>6, <2>2, <2>3
<1> QED
  BY <1>5, <1>6 DEF R, sync

\* A tuple of edges from v, or to v, one for each constraint that takes part.
OneOfEach(w, R, sync, v, d) ==
  /\ w \in Seq(Edges) /\ Len(w) = Len(R)
  /\ \A i \in 1 .. Len(w) : Loc(w[i], d) = v[w[i].pid]
  /\ \A i, j \in 1 .. Len(w) : w[i].pid = w[j].pid => i = j
  /\ \A p : Covers(R, sync, v, d, p) =>
       \A i \in 1 .. Len(w) : w[i] \in Can(sync, v, d, p[i]) /\ w[i].pid = sync[p[i]].pid

\* A tuple of the product takes one edge of each process that takes part.
LEMMA ChosenFacts ==
  ASSUME system \in Systems, NEW k \in 1 .. Len(system.syncs), NEW v, NEW d \in Directions,
         Located(v),
         NEW t \in Tuples(Ranges(system.syncs[k], v, d))
  PROVE  OneOfEach(Chosen(Ranges(system.syncs[k], v, d), t), Ranges(system.syncs[k], v, d),
           system.syncs[k], v, d)
<1> DEFINE sync == system.syncs[k]
           R == Ranges(sync, v, d)
           w == Chosen(R, t)
<1>1. R \in Seq(Seq(Edges)) /\ \E p : Covers(R, sync, v, d, p)
  BY RangesFacts
<1>2. /\ DOMAIN sync = 1 .. Len(sync)
      /\ \A j \in DOMAIN sync : sync[j].pid \in Processes
      /\ \A i, j \in DOMAIN sync : sync[i].pid = sync[j].pid => i = j
  BY SyncFacts
<1>3. t \in Tuples(R)
  OBVIOUS
<1> HIDE DEF R, sync
<1>4. \A i \in 1 .. Len(R) : w[i] = R[i][t[i]] /\ t[i] \in 1 .. Len(R[i])
  BY <1>3 DEF Chosen, Tuples
<1>5. w \in Seq(Edges) /\ Len(w) = Len(R)
  <2>1. \A i \in 1 .. Len(R) : R[i][t[i]] \in Edges
    BY <1>1, <1>4
  <2>2. w \in [1 .. Len(R) -> Edges]
    BY <2>1 DEF Chosen
  <2>3. Len(R) \in Nat
    BY <1>1
  <2> QED
    BY <2>2, <2>3, SequenceFacts
<1> HIDE DEF w
<1>6. ASSUME NEW p, Covers(R, sync, v, d, p), NEW i \in 1 .. Len(R)
      PROVE  /\ w[i] \in Can(sync, v, d, p[i]) /\ w[i].pid = sync[p[i]].pid
             /\ Loc(w[i], d) = v[w[i].pid] /\ p[i] \in DOMAIN sync
  <2>1. w[i] \in Can(sync, v, d, p[i]) /\ p[i] \in DOMAIN sync
    BY <1>4, <1>6 DEF Covers, Lists, TakesPart
  <2>2. w[i] \in Edges /\ Loc(w[i], d) = v[sync[p[i]].pid]
    BY <2>1 DEF Can, At
  <2>3. Loc(w[i], d) \in Ends(w[i])
    BY DEF Loc, Ends, Directions
  <2>4. w[i].pid = sync[p[i]].pid
    BY <1>2, <2>1, <2>2, <2>3 DEF Located
  <2> QED
    BY <2>1, <2>2, <2>4
<1>7. PICK p : Covers(R, sync, v, d, p)
  BY <1>1
<1>8. \A i, j \in 1 .. Len(R) : w[i].pid = w[j].pid => i = j
  <2> SUFFICES ASSUME NEW i \in 1 .. Len(R), NEW j \in 1 .. Len(R), w[i].pid = w[j].pid PROVE i = j
    OBVIOUS
  <2>1. p[i] = p[j]
    BY <1>2, <1>6, <1>7
  <2> QED
    BY <2>1, <1>7 DEF Covers
<1> QED
  BY <1>5, <1>6, <1>7, <1>8 DEF w, R, sync, OneOfEach

\* The products are the instances, each tuple another one.
LEMMA InstancesFacts ==
  ASSUME system \in Systems, NEW k \in 1 .. Len(system.syncs), NEW v, NEW d \in Directions,
         Located(v),
         IsEnabled(system.syncs[k], v, d)
  PROVE  LET sync == system.syncs[k]
             R == Ranges(sync, v, d)
         IN /\ Instances(sync, v, d) = {VedgeEdges(Chosen(R, t)) : t \in Tuples(R)}
            /\ \A t, u \in Tuples(R) : VedgeEdges(Chosen(R, t)) = VedgeEdges(Chosen(R, u)) => t = u
<1> DEFINE sync == system.syncs[k]
           R == Ranges(sync, v, d)
<1>1. R \in Seq(Seq(Edges)) /\ \E p : Covers(R, sync, v, d, p)
  BY RangesFacts
<1>2. /\ DOMAIN sync = 1 .. Len(sync)
      /\ \A j \in DOMAIN sync : sync[j].pid \in Processes /\ sync[j].strength \in {"strong", "weak"}
      /\ \A i, j \in DOMAIN sync : sync[i].pid = sync[j].pid => i = j
  BY SyncFacts
<1>3. PICK p : Covers(R, sync, v, d, p)
  BY <1>1
<1>4. ASSUME NEW t \in Tuples(R)
      PROVE  LET w == Chosen(R, t)
             IN /\ w \in Seq(Edges) /\ Len(w) = Len(R) /\ DOMAIN w = 1 .. Len(R)
                /\ \A i, j \in 1 .. Len(R) : w[i].pid = w[j].pid => i = j
                /\ \A i \in 1 .. Len(R) :
                     w[i] \in Can(sync, v, d, p[i]) /\ w[i].pid = sync[p[i]].pid /\
                       w[i] = R[i][t[i]]
  <2> DEFINE w == Chosen(R, t)
  <2>1. /\ w \in Seq(Edges) /\ Len(w) = Len(R)
        /\ \A i, j \in 1 .. Len(R) : w[i].pid = w[j].pid => i = j
        /\ \A i \in 1 .. Len(R) : w[i] \in Can(sync, v, d, p[i]) /\ w[i].pid = sync[p[i]].pid
    <3>1. OneOfEach(w, R, sync, v, d)
      BY ChosenFacts
    <3> HIDE DEF R, sync, w
    <3> QED
      BY <1>3, <3>1 DEF OneOfEach
  <2>2. DOMAIN w = 1 .. Len(R) /\ \A i \in 1 .. Len(R) : w[i] = R[i][t[i]]
    <3> HIDE DEF R
    <3> QED
      BY DEF Chosen
  <2> HIDE DEF R, sync
  <2> QED
    BY <2>1, <2>2
<1>5. R # <<>>
  BY EnabledFacts
<1>6. \A j \in DOMAIN sync : \A e \in Can(sync, v, d, j) : e.pid = sync[j].pid /\ e \in Edges
  <2> SUFFICES ASSUME NEW j \in DOMAIN sync, NEW e \in Can(sync, v, d, j)
               PROVE  e.pid = sync[j].pid /\ e \in Edges
    OBVIOUS
  <2>1. e \in Edges /\ Loc(e, d) = v[sync[j].pid] /\ sync[j].pid \in Processes
    BY <1>2 DEF Can, At
  <2>2. Loc(e, d) \in Ends(e)
    BY DEF Loc, Ends, Directions
  <2> QED
    BY <2>1, <2>2 DEF Located
<1> HIDE DEF R, sync
<1>7. ASSUME NEW t \in Tuples(R), NEW u \in Tuples(R),
             VedgeEdges(Chosen(R, t)) = VedgeEdges(Chosen(R, u))
      PROVE  t = u
  <2> DEFINE w == Chosen(R, t)
             x == Chosen(R, u)
  <2>1. ASSUME NEW i \in 1 .. Len(R) PROVE t[i] = u[i]
    <3>1. w[i] \in VedgeEdges(x)
      BY <1>4, <1>7 DEF VedgeEdges
    <3>2. PICK m \in 1 .. Len(R) : w[i] = x[m]
      BY <3>1, <1>4 DEF VedgeEdges
    <3>3. sync[p[i]].pid = sync[p[m]].pid
      BY <1>4, <3>2
    <3>4. i = m
      BY <1>2, <1>3, <3>3 DEF Covers, TakesPart
    <3>5. R[i][t[i]] = R[i][u[i]]
      BY <1>4, <3>2, <3>4
    <3>6. t[i] \in 1 .. Len(R[i]) /\ u[i] \in 1 .. Len(R[i])
      BY DEF Tuples
    <3>7. Lists(R[i], Can(sync, v, d, p[i]))
      BY <1>3 DEF Covers
    <3> QED
      BY <3>5, <3>6, <3>7 DEF Lists
  <2>2. t \in [1 .. Len(R) -> Nat] /\ u \in [1 .. Len(R) -> Nat]
    BY DEF Tuples
  <2> QED
    BY <2>1, <2>2
<1>8. ASSUME NEW t \in Tuples(R) PROVE VedgeEdges(Chosen(R, t)) \in Instances(sync, v, d)
  <2> DEFINE w == Chosen(R, t)
             X == VedgeEdges(w)
  <2>1. \A i \in 1 .. Len(R) : w[i] \in Can(sync, v, d, p[i]) /\ w[i] \in Edges /\
          p[i] \in DOMAIN sync
    BY <1>3, <1>4, <1>6 DEF Covers, TakesPart
  <2>2. X = {w[i] : i \in 1 .. Len(R)}
    BY <1>4 DEF VedgeEdges
  <2> HIDE DEF X, w
  <2>3. X \in SUBSET Edges
    BY <2>1, <2>2
  <2>4. X # {}
    <3>1. 1 \in 1 .. Len(R)
      BY <1>1, <1>5
    <3> QED
      BY <2>2, <3>1
  <2>5. \A e \in X : \E j \in DOMAIN sync : e \in Can(sync, v, d, j)
    BY <2>1, <2>2
  <2>6. ASSUME NEW j \in DOMAIN sync, ~ (sync[j].strength = "weak" /\ Can(sync, v, d, j) = {})
        PROVE  \E e \in X \cap Can(sync, v, d, j) : X \cap Can(sync, v, d, j) = {e}
    <3>1. PICK i \in 1 .. Len(R) : p[i] = j
      BY <1>3, <2>6 DEF Covers, TakesPart
    <3>2. w[i] \in X \cap Can(sync, v, d, j)
      BY <2>1, <2>2, <3>1
    <3>3. ASSUME NEW e \in X \cap Can(sync, v, d, j) PROVE e = w[i]
      <4>1. PICK m \in 1 .. Len(R) : e = w[m]
        BY <2>2
      <4>2. w[m].pid = sync[j].pid /\ w[i].pid = sync[j].pid
        BY <1>6, <4>1, <3>2
      <4>3. i = m
        BY <1>4, <4>2 DEF w
      <4> QED
        BY <4>1, <4>3
    <3> QED
      BY <3>2, <3>3
  <2>7. X \in Instances(sync, v, d)
    BY <2>3, <2>4, <2>5, <2>6 DEF Instances
  <2> QED
    BY <2>7 DEF X, w
<1>9. ASSUME NEW X \in Instances(sync, v, d) PROVE \E t \in Tuples(R) : X = VedgeEdges(Chosen(R, t))
  <2>1. /\ X \in SUBSET Edges
        /\ \A j \in DOMAIN sync :
             \/ \E e \in X \cap Can(sync, v, d, j) : X \cap Can(sync, v, d, j) = {e}
             \/ sync[j].strength = "weak" /\ Can(sync, v, d, j) = {}
        /\ \A e \in X : \E j \in DOMAIN sync : e \in Can(sync, v, d, j)
    BY DEF Instances
  <2> DEFINE t == [i \in 1 .. Len(R) |-> CHOOSE q \in 1 .. Len(R[i]) : R[i][q] \in X]
  <2>2. ASSUME NEW i \in 1 .. Len(R)
        PROVE  /\ \E e \in X \cap Can(sync, v, d, p[i]) : X \cap Can(sync, v, d, p[i]) = {e}
               /\ t[i] \in 1 .. Len(R[i]) /\ R[i][t[i]] \in X \cap Can(sync, v, d, p[i])
    <3>1. p[i] \in DOMAIN sync /\ ~ (sync[p[i]].strength = "weak" /\ Can(sync, v, d, p[i]) = {})
      BY <1>3 DEF Covers, TakesPart
    <3>2. PICK e \in X \cap Can(sync, v, d, p[i]) : X \cap Can(sync, v, d, p[i]) = {e}
      BY <2>1, <3>1
    <3>3. Lists(R[i], Can(sync, v, d, p[i]))
      BY <1>3 DEF Covers
    <3>4. \E q \in 1 .. Len(R[i]) : R[i][q] \in X
      BY <3>2, <3>3 DEF Lists
    <3>5. t[i] \in 1 .. Len(R[i]) /\ R[i][t[i]] \in X
      BY <3>4
    <3> HIDE DEF t
    <3>6. R[i][t[i]] \in Can(sync, v, d, p[i])
      BY <3>3, <3>5 DEF Lists
    <3> QED
      BY <3>2, <3>5, <3>6
  <2>3. t \in Tuples(R)
    <3>1. \A i \in 1 .. Len(R) : t[i] \in Nat
      <4>1. \A i \in 1 .. Len(R) : Len(R[i]) \in Nat
        BY <1>1
      <4> HIDE DEF t
      <4> QED
        BY <2>2, <4>1
    <3>2. t \in [1 .. Len(R) -> Nat]
      BY <3>1
    <3> HIDE DEF t
    <3> QED
      BY <2>2, <3>2 DEF Tuples
  <2> HIDE DEF t
  <2>4. VedgeEdges(Chosen(R, t)) = {R[i][t[i]] : i \in 1 .. Len(R)}
    BY <2>3, <1>4 DEF VedgeEdges
  <2>5. ASSUME NEW e \in X PROVE \E i \in 1 .. Len(R) : e = R[i][t[i]]
    <3>1. PICK j \in DOMAIN sync : e \in Can(sync, v, d, j)
      BY <2>1
    <3>2. PICK i \in 1 .. Len(R) : p[i] = j
      BY <1>3, <3>1 DEF Covers, TakesPart
    <3> QED
      BY <2>2, <3>1, <3>2
  <2>6. X = {R[i][t[i]] : i \in 1 .. Len(R)}
    BY <2>2, <2>5
  <2> QED
    BY <2>3, <2>4, <2>6
<1> QED
  BY <1>7, <1>8, <1>9 DEF R, sync

-----------------------------------------------------------------------------
(* Global edges. *)

OnePerProcess(X) == \A e, f \in X : e.pid = f.pid => e = f

\* The asynchronous edges from a tuple of locations, or to it.
AloneFrom(v, d) == {e \in Edges : Loc(e, d) = v[e.pid] /\ IsAsynchronous(e.pid, e.event)}

\* The two notions of an asynchronous edge are the same.
LEMMA AsynchronousFacts ==
  \A e : IsAsynchronous(e.pid, e.event) <=> Configured!IsAsynchronous(system, e)
BY DEF IsAsynchronous, Configured!IsAsynchronous, Configured!IsOf

\* The ranges of asynchronous edges hold those of each process once.
LEMMA AsyncFacts ==
  ASSUME system \in Systems, NEW v, NEW d \in Directions, Located(v)
  PROVE  LET R == AsyncRanges(v, d)
         IN /\ R \in Seq(Seq(Edges))
            /\ AloneFrom(v, d) = {R[x[1]][x[2]] : x \in Positions(R)}
            /\ \A x, y \in Positions(R) : R[x[1]][x[2]] = R[y[1]][y[2]] => x = y
<1> DEFINE R == AsyncRanges(v, d)
<1>1. R \in Seq(Seq(Edges)) /\ Len(R) = ProcessCount /\
        \A p \in Processes : R[p] = LocationEdges(v[p], d)
  <2>1. \A p \in Processes : LocationEdges(v[p], d) \in Seq(Edges)
    BY LocationFacts
  <2>2. R \in [1 .. ProcessCount -> Seq(Edges)] /\
          \A p \in Processes : R[p] = LocationEdges(v[p], d)
    BY <2>1, Numbered DEF AsyncRanges
  <2> HIDE DEF R
  <2> QED
    BY <2>2, Numbered, SequenceFacts
<1> HIDE DEF R
<1>2. \A p \in Processes : Lists(R[p], Alone(v[p], d))
  BY <1>1, LocationFacts
<1>3. \A e \in Edges : Loc(e, d) \in Ends(e) /\ e.pid \in Processes
  BY SystemFacts DEF Loc, Ends, Directions
<1>4. ASSUME NEW x \in Positions(R)
      PROVE  LET e == R[x[1]][x[2]]
             IN e \in AloneFrom(v, d) /\ e.pid = x[1] /\ x[1] \in Processes /\
               x[2] \in 1 .. Len(R[x[1]])
  <2> DEFINE e == R[x[1]][x[2]]
  <2>1. x[1] \in Processes /\ x[2] \in 1 .. Len(R[x[1]])
    BY <1>1, Numbered DEF Positions
  <2>2. e \in Alone(v[x[1]], d)
    BY <1>2, <2>1 DEF Lists
  <2> HIDE DEF e
  <2>3. e \in Edges /\ Loc(e, d) = v[x[1]] /\ IsAsynchronous(e.pid, e.event)
    BY <2>2 DEF Alone
  <2>4. e.pid = x[1]
    BY <1>3, <2>1, <2>3 DEF Located
  <2> QED
    BY <2>1, <2>3, <2>4 DEF AloneFrom, e
<1>5. ASSUME NEW e \in AloneFrom(v, d) PROVE \E x \in Positions(R) : e = R[x[1]][x[2]]
  <2>1. e \in Edges /\ e.pid \in Processes /\ e \in Alone(v[e.pid], d)
    BY <1>3 DEF AloneFrom, Alone
  <2>2. PICK i \in 1 .. Len(R[e.pid]) : R[e.pid][i] = e
    BY <1>2, <2>1 DEF Lists
  <2>3. <<e.pid, i>> \in Positions(R)
    <3>1. e.pid \in 1 .. Len(R) /\ e.pid \in Nat /\ i \in Nat
      BY <1>1, <2>1, <2>2, Numbered
    <3> QED
      BY <2>2, <3>1 DEF Positions
  <2> QED
    BY <2>2, <2>3
<1>6. ASSUME NEW x \in Positions(R), NEW y \in Positions(R), R[x[1]][x[2]] = R[y[1]][y[2]]
      PROVE  x = y
  <2>1. x[1] = y[1]
    BY <1>4, <1>6
  <2>2. x[2] = y[2]
    <3>1. x[1] \in Processes /\ x[2] \in 1 .. Len(R[x[1]]) /\ y[2] \in 1 .. Len(R[x[1]])
      BY <1>4, <2>1
    <3>2. R[x[1]][x[2]] = R[x[1]][y[2]]
      BY <1>6, <2>1
    <3> QED
      BY <1>2, <3>1, <3>2 DEF Lists
  <2> QED
    BY <2>1, <2>2 DEF Positions
<1>7. AloneFrom(v, d) = {R[x[1]][x[2]] : x \in Positions(R)}
  BY <1>4, <1>5
<1> QED
  BY <1>1, <1>6, <1>7 DEF R

\* From a tuple of locations, the instances are what a synchronization is defined to be.
LEMMA OutgoingFacts ==
  ASSUME system \in Systems, NEW k \in 1 .. Len(system.syncs), NEW v, Located(v)
  PROVE  /\ Configured!Edges(system) = Edges
         /\ Instances(system.syncs[k], v, "outgoing")
              = {X \in SUBSET Edges : Configured!Instantiates(system, v, X, system.syncs[k])}
<1> DEFINE sync == system.syncs[k]
<1>1. Configured!Edges(system) = Edges
  BY DEF Configured!Edges, Edges, EdgesOf
<1>2. \A j \in DOMAIN sync : sync[j].pid \in Processes
  BY SyncFacts
<1> HIDE DEF sync
<1>3. ASSUME NEW j \in DOMAIN sync
      PROVE  Can(sync, v, "outgoing", j) = Configured!Outgoing(system, v, sync[j])
  <2>1. Can(sync, v, "outgoing", j) =
          {e \in Edges : e.src = v[sync[j].pid] /\ e.event = sync[j].event}
    BY DEF Can, At, Loc
  <2>2. Configured!Outgoing(system, v, sync[j])
          = {e \in Edges : (e.pid = sync[j].pid /\ e.event = sync[j].event) /\
            e.src = v[sync[j].pid]}
    BY <1>1 DEF Configured!Outgoing, Configured!IsOf
  <2>3. \A e \in Edges : e.src = v[sync[j].pid] => e.pid = sync[j].pid
    BY <1>2 DEF Located, Ends
  <2> QED
    BY <2>1, <2>2, <2>3
<1>4. ASSUME NEW X \in SUBSET Edges
      PROVE  X \in Instances(sync, v, "outgoing") <=> Configured!Instantiates(system, v, X, sync)
  BY <1>3 DEF Instances, Configured!Instantiates
<1> QED
  BY <1>1, <1>4 DEF sync, Instances

\* An instance takes one edge of a process.
LEMMA InstanceOnePerProcess ==
  ASSUME system \in Systems, NEW k \in 1 .. Len(system.syncs), NEW v, NEW d \in Directions,
         Located(v),
         NEW X \in Instances(system.syncs[k], v, d)
  PROVE  OnePerProcess(X) /\ \A e \in X : Loc(e, d) = v[e.pid]
<1> DEFINE sync == system.syncs[k]
<1>1. /\ \A j \in DOMAIN sync : sync[j].pid \in Processes
      /\ \A i, j \in DOMAIN sync : sync[i].pid = sync[j].pid => i = j
  BY SyncFacts
<1>2. X \in Instances(sync, v, d)
  OBVIOUS
<1> HIDE DEF sync
<1>3. ASSUME NEW e \in X, NEW j \in DOMAIN sync, e \in Can(sync, v, d, j)
      PROVE  e.pid = sync[j].pid /\ Loc(e, d) = v[e.pid] /\ X \cap Can(sync, v, d, j) = {e}
  <2>1. e \in Edges /\ Loc(e, d) = v[sync[j].pid]
    BY <1>3 DEF Can, At
  <2>2. Loc(e, d) \in Ends(e)
    BY DEF Loc, Ends, Directions
  <2>3. e.pid = sync[j].pid
    BY <1>1, <2>1, <2>2 DEF Located
  <2>4. X \cap Can(sync, v, d, j) = {e}
    BY <1>2, <1>3 DEF Instances
  <2> QED
    BY <2>1, <2>3, <2>4
<1>4. \A e \in X : \E j \in DOMAIN sync : e \in Can(sync, v, d, j)
  BY <1>2 DEF Instances
<1>5. ASSUME NEW e \in X, NEW f \in X, e.pid = f.pid PROVE e = f
  <2>1. PICK i \in DOMAIN sync : e \in Can(sync, v, d, i)
    BY <1>4
  <2>2. PICK j \in DOMAIN sync : f \in Can(sync, v, d, j)
    BY <1>4
  <2>3. i = j
    BY <1>1, <1>3, <1>5, <2>1, <2>2
  <2> QED
    BY <1>3, <2>1, <2>2, <2>3
<1> QED
  BY <1>3, <1>4, <1>5 DEF OnePerProcess

\* What the target is when there is one edge for a process.
LEMMA TargetFacts ==
  ASSUME NEW X, OnePerProcess(X), NEW v
  PROVE  /\ \A e \in X : e.pid \in Processes =>
              Configured!Target(v, X)[e.pid] = e.tgt /\ Back(X)[e.pid] = e.src
         /\ \A p \in Processes : (\A e \in X : e.pid # p) =>
              Configured!Target(v, X)[p] = v[p] /\ Back(X)[p] = vloc[p]
         /\ Configured!Target(v, X) = [p \in Processes |-> Configured!Target(v, X)[p]]
<1>1. ASSUME NEW e \in X PROVE (CHOOSE f \in X : f.pid = e.pid) = e
  BY DEF OnePerProcess
<1>2. ASSUME NEW e \in X, e.pid \in Processes
      PROVE  Configured!Target(v, X)[e.pid] = e.tgt /\ Back(X)[e.pid] = e.src
  BY <1>1, <1>2 DEF Configured!Target, Back
<1>3. ASSUME NEW p \in Processes, \A e \in X : e.pid # p
      PROVE  Configured!Target(v, X)[p] = v[p] /\ Back(X)[p] = vloc[p]
  BY <1>3 DEF Configured!Target, Back
<1>4. Configured!Target(v, X) = [p \in Processes |-> Configured!Target(v, X)[p]]
  BY DEF Configured!Target
<1> QED
  BY <1>2, <1>3, <1>4

\* The incoming edges of strong synchronizations lead to the tuple of locations.
LEMMA IncomingSync ==
  ASSUME system \in Systems, Strong, NEW k \in 1 .. Len(system.syncs), Located(vloc),
         vloc = [p \in Processes |-> vloc[p]], NEW X \in SUBSET Edges
  PROVE  X \in Instances(system.syncs[k], vloc, "incoming")
           <=> /\ Configured!Instantiates(system, Back(X), X, system.syncs[k])
               /\ Configured!Target(Back(X), X) = vloc
<1> DEFINE sync == system.syncs[k]
           B == Back(X)
           Into(j) == Can(sync, vloc, "incoming", j)
           From(j) == Configured!Outgoing(system, B, sync[j])
<1>1. /\ \A j \in DOMAIN sync : sync[j].pid \in Processes /\ sync[j].strength # "weak"
      /\ \A i, j \in DOMAIN sync : sync[i].pid = sync[j].pid => i = j
  <2>1. \A j \in DOMAIN sync : sync[j].strength = "strong"
    BY SystemFacts DEF Strong
  <2> QED
    BY <2>1, SyncFacts
<1>2. Configured!Edges(system) = Edges /\ \A e \in Edges : e.pid \in Processes
  BY SystemFacts DEF Configured!Edges, Edges, EdgesOf
<1>3. Configured!Instantiates(system, B, X, sync) <=>
        /\ X # {}
        /\ \A j \in DOMAIN sync : \E e \in X \cap From(j) : X \cap From(j) = {e}
        /\ \A e \in X : \E j \in DOMAIN sync : e \in From(j)
  BY <1>1 DEF Configured!Instantiates
<1>4. X \in Instances(sync, vloc, "incoming") <=>
        /\ X # {}
        /\ \A j \in DOMAIN sync : \E e \in X \cap Into(j) : X \cap Into(j) = {e}
        /\ \A e \in X : \E j \in DOMAIN sync : e \in Into(j)
  <2> HIDE DEF sync
  <2> QED
    BY <1>1 DEF Instances
<1>5. X \in Instances(sync, vloc, "incoming") => OnePerProcess(X)
  BY InstanceOnePerProcess DEF Directions
<1> HIDE DEF sync
<1>6. \A j \in DOMAIN sync : \A e \in Edges : e \in From(j) <=>
        (e.pid = sync[j].pid /\ e.event = sync[j].event /\ e.src = B[sync[j].pid])
  BY <1>2 DEF Configured!Outgoing, Configured!IsOf
<1>7. \A j \in DOMAIN sync : \A e \in Edges : e \in Into(j) <=>
        (e.pid = sync[j].pid /\ e.event = sync[j].event /\ e.tgt = vloc[sync[j].pid])
  <2> SUFFICES ASSUME NEW j \in DOMAIN sync, NEW e \in Edges
               PROVE  e \in Into(j) <=>
                        (e.pid = sync[j].pid /\ e.event = sync[j].event /\
                          e.tgt = vloc[sync[j].pid])
    OBVIOUS
  <2>1. e \in Into(j) <=> (e.tgt = vloc[sync[j].pid] /\ e.event = sync[j].event)
    BY DEF Can, At, Loc
  <2>2. e.tgt = vloc[sync[j].pid] => e.pid = sync[j].pid
    BY <1>1 DEF Located, Ends
  <2> QED
    BY <2>1, <2>2
<1> HIDE DEF Into, From
\* Where each process has one edge, these lead to vloc exactly if all end there.
<1>8. ASSUME OnePerProcess(X)
      PROVE  /\ \A e \in X : B[e.pid] = e.src
             /\ Configured!Target(B, X) = vloc <=> \A e \in X : e.tgt = vloc[e.pid]
  <2>1. /\ \A e \in X : Configured!Target(B, X)[e.pid] = e.tgt /\ B[e.pid] = e.src
        /\ \A p \in Processes : (\A e \in X : e.pid # p) =>
             Configured!Target(B, X)[p] = B[p] /\ B[p] = vloc[p]
        /\ Configured!Target(B, X) = [p \in Processes |-> Configured!Target(B, X)[p]]
    BY <1>2, <1>8, TargetFacts
  <2> HIDE DEF B
  <2>2. ASSUME \A e \in X : e.tgt = vloc[e.pid], NEW p \in Processes
        PROVE  Configured!Target(B, X)[p] = vloc[p]
    BY <2>1, <2>2
  <2>3. (\A e \in X : e.tgt = vloc[e.pid]) => Configured!Target(B, X) = vloc
    BY <2>1, <2>2
  <2>4. Configured!Target(B, X) = vloc => \A e \in X : e.tgt = vloc[e.pid]
    BY <2>1
  <2> QED
    BY <2>1, <2>3, <2>4
<1> HIDE DEF B
<1>9. ASSUME X \in Instances(sync, vloc, "incoming")
      PROVE  Configured!Instantiates(system, B, X, sync) /\ Configured!Target(B, X) = vloc
  <2>1. OnePerProcess(X)
    BY <1>5, <1>9 DEF sync
  <2>2. \A e \in X : \E j \in DOMAIN sync : e \in Into(j)
    BY <1>4, <1>9
  <2>3. \A j \in DOMAIN sync : \A e \in X : e \in Into(j) <=> e \in From(j)
    <3> SUFFICES ASSUME NEW j \in DOMAIN sync, NEW e \in X PROVE e \in Into(j) <=> e \in From(j)
      OBVIOUS
    <3>1. e \in Edges /\ e.src = B[e.pid]
      BY <1>8, <2>1
    <3>2. e.tgt = vloc[e.pid]
      BY <1>7, <2>2
    <3> QED
      BY <1>6, <1>7, <3>1, <3>2
  <2>4. \A j \in DOMAIN sync : X \cap Into(j) = X \cap From(j)
    BY <2>3
  <2>5. Configured!Instantiates(system, B, X, sync)
    BY <1>3, <1>4, <1>9, <2>3, <2>4
  <2>6. \A e \in X : e.tgt = vloc[e.pid]
    BY <1>7, <2>2
  <2> QED
    BY <1>8, <2>1, <2>5, <2>6
<1>10. ASSUME Configured!Instantiates(system, B, X, sync), Configured!Target(B, X) = vloc
       PROVE  X \in Instances(sync, vloc, "incoming")
  <2>1. \A e \in X : \E j \in DOMAIN sync : e \in From(j)
    BY <1>3, <1>10
  <2>2. OnePerProcess(X)
    <3> SUFFICES ASSUME NEW e \in X, NEW f \in X, e.pid = f.pid PROVE e = f
      BY DEF OnePerProcess
    <3>1. PICK i \in DOMAIN sync : e \in From(i)
      BY <2>1
    <3>2. PICK j \in DOMAIN sync : f \in From(j)
      BY <2>1
    <3>3. i = j
      BY <1>1, <1>6, <3>1, <3>2
    <3>4. PICK g \in X \cap From(i) : X \cap From(i) = {g}
      BY <1>3, <1>10
    <3> QED
      BY <3>1, <3>2, <3>3, <3>4
  <2>3. \A j \in DOMAIN sync : \A e \in X : e \in Into(j) <=> e \in From(j)
    <3> SUFFICES ASSUME NEW j \in DOMAIN sync, NEW e \in X PROVE e \in Into(j) <=> e \in From(j)
      OBVIOUS
    <3>1. e \in Edges /\ e.src = B[e.pid] /\ e.tgt = vloc[e.pid]
      BY <1>8, <1>10, <2>2
    <3> QED
      BY <1>6, <1>7, <3>1
  <2>4. \A j \in DOMAIN sync : X \cap Into(j) = X \cap From(j)
    BY <2>3
  <2> QED
    BY <1>3, <1>4, <1>10, <2>3, <2>4
<1> QED
  BY <1>9, <1>10 DEF sync, B

\* The processes of the first n edges have moved.
MovedBy(v, w, n) ==
  [p \in Processes |->
     IF \E i \in 1 .. n : w[i].pid = p THEN w[CHOOSE i \in 1 .. n : w[i].pid = p].tgt ELSE v[p]]

\* What next makes of an edge.
MovedByOne(r, e) ==
  IF r.status # "STATE_OK" THEN r
  ELSE IF r.vloc[e.pid] # e.src THEN Incompatible(r.vloc)
  ELSE Ok([r.vloc EXCEPT ![e.pid] = e.tgt])

\* next takes the edges of a tuple one after another: from the source, this leads to the target.
LEMMA MovedFacts ==
  ASSUME NEW v, v = [p \in Processes |-> v[p]], NEW w, system \in Systems, w \in Seq(Edges),
         \A i \in 1 .. Len(w) : w[i].src = v[w[i].pid],
         \A i, j \in 1 .. Len(w) : w[i].pid = w[j].pid => i = j
  PROVE  Moved(v, w) = Ok(Configured!Target(v, VedgeEdges(w)))
<1> DEFINE L == Len(w)
           Def(f) == f = [n \in 0 .. L |->
                            IF n = 0 THEN Ok(v)
                            ELSE LET r == f[n - 1]
                                     e == w[n]
                                 IN IF r.status # "STATE_OK" THEN r
                                    ELSE IF r.vloc[e.pid] # e.src THEN Incompatible(r.vloc)
                                    ELSE Ok([r.vloc EXCEPT ![e.pid] = e.tgt])]
           f0 == [n \in 0 .. L |-> Ok(MovedBy(v, w, n))]
<1>1. L \in Nat /\ DOMAIN w = 1 .. L /\ \A i \in 1 .. L : w[i] \in Edges /\ w[i].pid \in Processes
  BY SystemFacts
<1> HIDE DEF L
<1>2. MovedBy(v, w, 0) = v
  BY DEF MovedBy
<1>3. ASSUME NEW n \in 0 .. L, NEW i \in 1 .. n
      PROVE  (CHOOSE j \in 1 .. n : w[j].pid = w[i].pid) = i
  <2>1. i \in 1 .. L /\ \A j \in 1 .. n : j \in 1 .. L
    BY <1>1
  <2>2. \A j \in 1 .. n : w[j].pid = w[i].pid => j = i
    BY <2>1 DEF L
  <2> QED
    BY <2>2
<1>4. ASSUME NEW n \in 0 .. L, NEW i \in 1 .. n PROVE MovedBy(v, w, n)[w[i].pid] = w[i].tgt
  <2>1. w[i].pid \in Processes
    BY <1>1
  <2> QED
    BY <1>3, <2>1 DEF MovedBy
<1>5. ASSUME NEW n \in 0 .. L, NEW p \in Processes, \A i \in 1 .. n : w[i].pid # p
      PROVE  MovedBy(v, w, n)[p] = v[p]
  BY <1>5 DEF MovedBy
<1>6. ASSUME NEW n \in 1 .. L
      PROVE  /\ MovedBy(v, w, n - 1)[w[n].pid] = w[n].src
             /\ MovedBy(v, w, n) = [MovedBy(v, w, n - 1) EXCEPT ![w[n].pid] = w[n].tgt]
  <2>1. n - 1 \in 0 .. L /\ n \in 0 .. L /\ n \in 1 .. n /\
          \A i \in 1 .. n : i = n \/ i \in 1 .. n - 1
    BY <1>1
  <2>2. \A i \in 1 .. n - 1 : i \in 1 .. n /\ i \in 1 .. L /\ i # n
    BY <1>1
  <2>3. \A i \in 1 .. n - 1 : w[i].pid # w[n].pid
    BY <2>2 DEF L
  <2>4. MovedBy(v, w, n - 1)[w[n].pid] = v[w[n].pid]
    BY <1>1, <1>5, <2>1, <2>3
  <2>5. ASSUME NEW p \in Processes
        PROVE  MovedBy(v, w, n)[p] = [MovedBy(v, w, n - 1) EXCEPT ![w[n].pid] = w[n].tgt][p]
    <3> DEFINE m == MovedBy(v, w, n - 1)
    <3>0. DOMAIN m = Processes
      BY DEF MovedBy
    <3>1. CASE p = w[n].pid
      BY <1>4, <2>1, <3>0, <3>1
    <3>2. CASE p # w[n].pid
      <4>1. [m EXCEPT ![w[n].pid] = w[n].tgt][p] = m[p]
        BY <3>0, <3>2
      <4>2. CASE \E i \in 1 .. n - 1 : w[i].pid = p
        <5>1. PICK i \in 1 .. n - 1 : w[i].pid = p
          BY <4>2
        <5>2. m[p] = w[i].tgt
          BY <1>4, <2>1, <5>1
        <5>3. MovedBy(v, w, n)[p] = w[i].tgt
          BY <1>4, <2>1, <2>2, <5>1
        <5> QED
          BY <4>1, <5>2, <5>3
      <4>3. CASE \A i \in 1 .. n - 1 : w[i].pid # p
        <5>1. m[p] = v[p]
          BY <1>5, <2>1, <4>3
        <5>2. \A i \in 1 .. n : w[i].pid # p
          BY <2>1, <3>2, <4>3
        <5>3. MovedBy(v, w, n)[p] = v[p]
          BY <1>5, <2>1, <5>2
        <5> QED
          BY <4>1, <5>1, <5>3
      <4> QED
        BY <4>2, <4>3
    <3> QED
      BY <3>1, <3>2
  <2>6. MovedBy(v, w, n) = [MovedBy(v, w, n - 1) EXCEPT ![w[n].pid] = w[n].tgt]
    <3> DEFINE m == MovedBy(v, w, n - 1)
               a == MovedBy(v, w, n)
               b == [m EXCEPT ![w[n].pid] = w[n].tgt]
    <3>1. a = [p \in Processes |-> a[p]] /\ DOMAIN m = Processes
      BY DEF MovedBy
    <3> HIDE DEF m, a
    <3>2. b = [p \in Processes |-> b[p]]
      BY <3>1
    <3>3. \A p \in Processes : a[p] = b[p]
      BY <2>5 DEF m, a
    <3> HIDE DEF b
    <3>4. a = b
      BY <3>1, <3>2, <3>3
    <3> QED
      BY <3>4 DEF m, a, b
  <2>7. v[w[n].pid] = w[n].src
    <3>1. \A i \in 1 .. L : w[i].src = v[w[i].pid]
      BY DEF L
    <3> QED
      BY <3>1
  <2> QED
    BY <2>4, <2>6, <2>7
<1>7. ASSUME NEW n \in 1 .. L
      PROVE  MovedByOne(Ok(MovedBy(v, w, n - 1)), w[n]) = Ok(MovedBy(v, w, n))
  <2> DEFINE m == MovedBy(v, w, n - 1)
  <2>1. Ok(m).status = "STATE_OK" /\ Ok(m).vloc = m
    BY DEF Ok
  <2>2. m[w[n].pid] = w[n].src
    BY <1>6
  <2>3. MovedByOne(Ok(m), w[n]) = Ok([m EXCEPT ![w[n].pid] = w[n].tgt])
    <3> HIDE DEF m
    <3> QED
      BY <2>1, <2>2 DEF MovedByOne
  <2> QED
    BY <2>3, <1>6
<1>8. Def(f0)
  <2>1. ASSUME NEW n \in 0 .. L
        PROVE  Ok(MovedBy(v, w, n)) = IF n = 0 THEN Ok(v) ELSE MovedByOne(f0[n - 1], w[n])
    <3>1. CASE n = 0
      BY <1>2, <3>1
    <3>2. CASE n # 0
      <4>1. n \in 1 .. L /\ n - 1 \in 0 .. L
        BY <1>1, <3>2
      <4>2. f0[n - 1] = Ok(MovedBy(v, w, n - 1))
        BY <4>1
      <4> HIDE DEF f0
      <4> QED
        BY <1>7, <3>2, <4>1, <4>2
    <3> QED
      BY <3>1, <3>2
  <2>2. f0 = [n \in 0 .. L |-> IF n = 0 THEN Ok(v) ELSE MovedByOne(f0[n - 1], w[n])]
    BY <2>1
  <2> HIDE DEF f0
  <2> QED
    BY <2>2, Zenon DEF MovedByOne
<1> DEFINE h == CHOOSE g : Def(g)
<1>9. Def(h)
  <2> HIDE DEF f0, Def
  <2> QED
    BY <1>8
<1>10. Moved(v, w) = h[L]
  BY Zenon DEF Moved, L
<1> HIDE DEF h
<1>11. ASSUME NEW n \in 0 .. L PROVE h[n] = IF n = 0 THEN Ok(v) ELSE MovedByOne(h[n - 1], w[n])
  <2>1. h = [m \in 0 .. L |-> IF m = 0 THEN Ok(v) ELSE MovedByOne(h[m - 1], w[m])]
    BY <1>9, Zenon DEF MovedByOne
  <2> HIDE DEF Def
  <2> QED
    BY <2>1
<1> DEFINE T == {n \in 0 .. L : h[n] = Ok(MovedBy(v, w, n))}
<1>12. 0 \in T
  <2>1. 0 \in 0 .. L
    BY <1>1
  <2>2. h[0] = Ok(v)
    BY <2>1, <1>11
  <2> QED
    BY <2>1, <2>2, <1>2
<1>13. ASSUME NEW n \in 0 .. L - 1, n \in T PROVE n + 1 \in T
  <2>1. n + 1 \in 1 .. L /\ n + 1 \in 0 .. L /\ n + 1 # 0 /\ (n + 1) - 1 = n
    BY <1>1
  <2>2. h[n + 1] = MovedByOne(h[n], w[n + 1])
    BY <2>1, <1>11
  <2>3. MovedByOne(Ok(MovedBy(v, w, n)), w[n + 1]) = Ok(MovedBy(v, w, n + 1))
    BY <2>1, <1>7
  <2> QED
    BY <2>1, <2>2, <2>3, <1>13
<1>14. L \in T
  <2>1. L \in 0 .. L
    BY <1>1
  <2> HIDE DEF T
  <2>2. \A n \in 0 .. L : n \in T
    BY <1>1, <1>12, <1>13, CountingTo
  <2> QED
    BY <2>1, <2>2
<1>15. MovedBy(v, w, L) = Configured!Target(v, VedgeEdges(w))
  <2> DEFINE X == VedgeEdges(w)
  <2>1. X = {w[i] : i \in 1 .. L}
    BY <1>1 DEF VedgeEdges
  <2> HIDE DEF X
  <2>2. OnePerProcess(X)
    <3>1. \A i, j \in 1 .. L : w[i].pid = w[j].pid => i = j
      BY DEF L
    <3> QED
      BY <2>1, <3>1 DEF OnePerProcess
  <2>3. /\ \A e \in X : e.pid \in Processes => Configured!Target(v, X)[e.pid] = e.tgt
        /\ \A p \in Processes : (\A e \in X : e.pid # p) => Configured!Target(v, X)[p] = v[p]
        /\ Configured!Target(v, X) = [p \in Processes |-> Configured!Target(v, X)[p]]
    BY <2>2, TargetFacts
  <2>4. L \in 0 .. L
    BY <1>1
  <2>5. ASSUME NEW p \in Processes PROVE MovedBy(v, w, L)[p] = Configured!Target(v, X)[p]
    <3>1. CASE \E i \in 1 .. L : w[i].pid = p
      <4>1. PICK i \in 1 .. L : w[i].pid = p
        BY <3>1
      <4>2. w[i] \in X
        BY <2>1
      <4>3. Configured!Target(v, X)[p] = w[i].tgt
        BY <2>3, <4>1, <4>2
      <4>4. MovedBy(v, w, L)[p] = w[i].tgt
        BY <1>4, <2>4, <4>1
      <4> QED
        BY <4>3, <4>4
    <3>2. CASE \A i \in 1 .. L : w[i].pid # p
      BY <1>5, <2>1, <2>3, <2>4, <3>2
    <3> QED
      BY <3>1, <3>2
  <2>6. MovedBy(v, w, L) = [p \in Processes |-> MovedBy(v, w, L)[p]]
    BY DEF MovedBy
  <2>7. MovedBy(v, w, L) = Configured!Target(v, X)
    BY <2>3, <2>5, <2>6
  <2> QED
    BY <2>7 DEF X
<1> QED
  BY <1>10, <1>14, <1>15

\* Where all is strong, the incoming instances and asynchronous edges lead here.
LEMMA LeadFacts ==
  ASSUME system \in Systems, Strong, Located(vloc), vloc = [p \in Processes |-> vloc[p]]
  PROVE  LeadHere = {X \in SUBSET Edges :
                       \/ \E k \in 1 .. Len(system.syncs) :
                            X \in Instances(system.syncs[k], vloc, "incoming")
                       \/ \E e \in AloneFrom(vloc, "incoming") : X = {e}}
<1>1. Configured!Edges(system) = Edges /\ DOMAIN system.syncs = 1 .. Len(system.syncs)
      /\ \A e \in Edges : e.pid \in Processes
  BY SystemFacts DEF Configured!Edges, Edges, EdgesOf
<1>2. ASSUME NEW e \in Edges
      PROVE  /\ Back({e})[e.pid] = e.src
             /\ Configured!Target(Back({e}), {e}) = vloc <=> e.tgt = vloc[e.pid]
  <2> DEFINE B == Back({e})
  <2>1. OnePerProcess({e})
    BY DEF OnePerProcess
  <2>2. /\ Configured!Target(B, {e})[e.pid] = e.tgt /\ B[e.pid] = e.src
        /\ \A p \in Processes : e.pid # p => Configured!Target(B, {e})[p] = B[p] /\ B[p] = vloc[p]
        /\ Configured!Target(B, {e}) = [p \in Processes |-> Configured!Target(B, {e})[p]]
    <3>1. /\ \A f \in {e} : f.pid \in Processes =>
               Configured!Target(B, {e})[f.pid] = f.tgt /\ B[f.pid] = f.src
          /\ \A p \in Processes : (\A f \in {e} : f.pid # p) =>
               Configured!Target(B, {e})[p] = B[p] /\ B[p] = vloc[p]
          /\ Configured!Target(B, {e}) = [p \in Processes |-> Configured!Target(B, {e})[p]]
      BY <2>1, TargetFacts
    <3> HIDE DEF B
    <3> QED
      BY <1>1, <3>1
  <2> HIDE DEF B
  <2>3. e.tgt = vloc[e.pid] => \A p \in Processes : Configured!Target(B, {e})[p] = vloc[p]
    BY <2>2
  <2>4. e.tgt = vloc[e.pid] => Configured!Target(B, {e}) = vloc
    BY <2>2, <2>3
  <2>5. Configured!Target(B, {e}) = vloc => e.tgt = vloc[e.pid]
    BY <2>2
  <2> QED
    BY <2>2, <2>4, <2>5 DEF B
<1>3. ASSUME NEW X \in SUBSET Edges
      PROVE  (\E e \in AloneFrom(vloc, "incoming") : X = {e})
               <=> /\ \E e \in X : X = {e} /\ e.src = Back(X)[e.pid] /\
                      Configured!IsAsynchronous(system, e)
                   /\ Configured!Target(Back(X), X) = vloc
  <2>1. \A e : e \in AloneFrom(vloc, "incoming")
                 <=> (e \in Edges /\ e.tgt = vloc[e.pid] /\ Configured!IsAsynchronous(system, e))
    BY AsynchronousFacts DEF AloneFrom, Loc
  <2> QED
    BY <1>2, <2>1
<1>4. ASSUME NEW X \in SUBSET Edges
      PROVE  (\E k \in 1 .. Len(system.syncs) : X \in Instances(system.syncs[k], vloc, "incoming"))
               <=> /\ \E k \in DOMAIN system.syncs :
                      Configured!Instantiates(system, Back(X), X, system.syncs[k])
                   /\ Configured!Target(Back(X), X) = vloc
  BY <1>1, IncomingSync
<1> QED
  BY <1>1, <1>3, <1>4 DEF LeadHere, Configured!IsGlobalEdge

-----------------------------------------------------------------------------
(* The iterator over edges, at i, over the edges from v (or to v). *)

RangesOf(k, v, d) == Ranges(system.syncs[k], v, d)
SyncCount == Len(system.syncs)

IsIterator(i, v, d) ==
  /\ i = [sync |-> i.sync, product |-> i.product, async |-> i.async]
  /\ i.sync \in 1 .. SyncCount + 1
  /\ IsJoin(AsyncRanges(v, d), i.async)
  /\ InRange(i.product)
  /\ i.sync <= SyncCount =>
       /\ IsEnabled(system.syncs[i.sync], v, d)
       /\ at_end(i.product) \/ Inside(i.product, RangesOf(i.sync, v, d))

\* The tuples of edges that the iterator has left behind: of synchronization k, or
\* asynchronous ones if k is 0.
Behind(t, k, i, v, d) ==
  /\ IsEnabled(system.syncs[k], v, d)
  /\ \/ k < i.sync
     \/ k = i.sync /\ Inside(i.product, RangesOf(k, v, d)) /\
          Before(t, i.product.its, Len(RangesOf(k, v, d)))
SyncBehind(k, i, v, d) ==
  {Chosen(RangesOf(k, v, d), t) : t \in {u \in Tuples(RangesOf(k, v, d)) : Behind(u, k, i, v, d)}}
AsyncBehind(i, v, d) ==
  {<<AsyncRanges(v, d)[x[1]][x[2]]>> :
    x \in {y \in Positions(AsyncRanges(v, d)) : Passed(y, i.async)}}
LeftBehind(k, i, v, d) == IF k = 0 THEN AsyncBehind(i, v, d) ELSE SyncBehind(k, i, v, d)

\* The filter iterator skips synchronizations that are not enabled, and these only.
LEMMA NextEnabledFacts ==
  ASSUME SyncCount \in Nat, NEW k \in 1 .. SyncCount + 1, NEW v, NEW d
  PROVE  /\ NextEnabled(k, v, d) \in k .. SyncCount + 1
         /\ NextEnabled(k, v, d) <= SyncCount => IsEnabled(system.syncs[NextEnabled(k, v, d)], v, d)
         /\ \A l \in k .. SyncCount : l < NextEnabled(k, v, d) => ~ IsEnabled(system.syncs[l], v, d)
<1> DEFINE n == NextEnabled(k, v, d)
           enabled == {l \in k .. SyncCount : IsEnabled(system.syncs[l], v, d)}
<1>1. n = IF enabled = {} THEN SyncCount + 1 ELSE CHOOSE l \in enabled : \A j \in enabled : l <= j
  BY DEF NextEnabled, PastTheEnd, SyncCount
<1>2. CASE enabled = {}
  BY <1>1, <1>2
<1>3. CASE enabled # {}
  <2>1. enabled \subseteq Nat
    OBVIOUS
  <2>2. \E l \in enabled : \A j \in enabled : l <= j
    BY <1>3, <2>1, Least
  <2>3. n = CHOOSE l \in enabled : \A j \in enabled : l <= j
    BY <1>1, <1>3
  <2>4. n \in enabled /\ \A j \in enabled : n <= j
    BY <2>2, <2>3
  <2> QED
    BY <2>4
<1> QED
  BY <1>2, <1>3

\* The iterator that begin makes has left nothing behind.
LEMMA BeginFacts ==
  ASSUME system \in Systems, NEW v, NEW d \in Directions, Located(v)
  PROVE  /\ IsIterator(BeginIt(v, d), v, d)
         /\ \A k \in 0 .. SyncCount : LeftBehind(k, BeginIt(v, d), v, d) = {}
<1> DEFINE i == BeginIt(v, d)
<1>1. SyncCount \in Nat
  BY SystemFacts DEF SyncCount
<1>2. i = [sync |-> NextEnabled(1, v, d), product |-> EmptyProduct,
        async |-> Join(AsyncRanges(v, d))]
  BY DEF BeginIt
<1>3. i.sync = NextEnabled(1, v, d) /\ i.product = EmptyProduct /\ i.async = Join(AsyncRanges(v, d))
  BY <1>2
<1>4. i = [sync |-> i.sync, product |-> i.product, async |-> i.async]
  BY <1>2
<1> HIDE DEF i
<1>5. /\ i.sync \in 1 .. SyncCount + 1
      /\ i.sync <= SyncCount => IsEnabled(system.syncs[i.sync], v, d)
      /\ \A k \in 1 .. SyncCount : k < i.sync => ~ IsEnabled(system.syncs[k], v, d)
  BY <1>1, <1>3, NextEnabledFacts
<1>6. at_end(i.product) /\ InRange(i.product) /\ \A R : ~ Inside(i.product, R)
  BY <1>3 DEF EmptyProduct, at_end, InRange, Inside
<1>7. IsJoin(AsyncRanges(v, d), i.async) /\
        \A x \in Positions(AsyncRanges(v, d)) : ~ Passed(x, i.async)
  BY <1>3, AsyncFacts, JoinFacts
<1>8. IsIterator(i, v, d)
  BY <1>4, <1>5, <1>6, <1>7 DEF IsIterator
<1>9. AsyncBehind(i, v, d) = {}
  BY <1>7 DEF AsyncBehind
<1>10. ASSUME NEW k \in 1 .. SyncCount
       PROVE  SyncBehind(k, i, v, d) = {}
  <2>1. \A t : ~ Behind(t, k, i, v, d)
    BY <1>5, <1>6 DEF Behind
  <2> QED
    BY <2>1 DEF SyncBehind
<1>11. ASSUME NEW k \in 0 .. SyncCount
       PROVE  LeftBehind(k, i, v, d) = {}
  <2>1. k = 0 \/ k \in 1 .. SyncCount
    BY <1>1
  <2> QED
    BY <2>1, <1>9, <1>10 DEF LeftBehind
<1> QED
  BY <1>8, <1>11 DEF i

\* A turn of the loop that fills the product leaves nothing behind.
LEMMA FillFacts ==
  ASSUME system \in Systems, NEW v, NEW d \in Directions, NEW i, IsIterator(i, v, d), MustFill(i)
  PROVE  LET j == [i EXCEPT !.product = Product(Ranges(system.syncs[i.sync], v, d))]
         IN /\ IsIterator(j, v, d) /\ ~ MustFill(j)
            /\ \A k \in 0 .. SyncCount : LeftBehind(k, j, v, d) = LeftBehind(k, i, v, d)
<1> DEFINE R == RangesOf(i.sync, v, d)
           j == [i EXCEPT !.product = Product(R)]
<1>1. SyncCount \in Nat
  BY SystemFacts DEF SyncCount
<1>2. i.sync \in 1 .. SyncCount /\ at_end(i.product)
  BY <1>1 DEF IsIterator, MustFill, SyncAtEnd, PastTheEnd, SyncCount
<1>3. IsEnabled(system.syncs[i.sync], v, d)
  BY <1>2 DEF IsIterator
<1>4. R \in Seq(Seq(Edges)) /\ R # <<>> /\ ~ SomeEmpty(R, Len(R))
  BY <1>2, <1>3, RangesFacts, EnabledFacts DEF RangesOf, SyncCount
<1> HIDE DEF R
<1>5. Inside(Product(R), R) /\ \A t \in Tuples(R) : ~ Before(t, Product(R).its, Len(R))
  BY <1>4, BeforeFacts
<1>6. /\ j = [sync |-> i.sync, product |-> Product(R), async |-> i.async]
      /\ j.sync = i.sync /\ j.product = Product(R) /\ j.async = i.async
  BY DEF IsIterator
<1> HIDE DEF j
<1>7. InRange(j.product)
  <2>1. Product(R) = [ranges |-> R, its |-> Product(R).its] /\ Product(R).its \in Tuples(R)
    BY <1>5 DEF Inside, IsProduct
  <2>2. /\ Product(R).ranges = R /\ DOMAIN Product(R).its = 1 .. Len(R)
        /\ \A n \in 1 .. Len(R) : Product(R).its[n] \in 1 .. Len(R[n]) /\ Len(R[n]) \in Nat
    BY <2>1, <1>4 DEF Tuples
  <2> QED
    BY <2>2, <1>6 DEF InRange, PastTheEnd
<1>8. IsIterator(j, v, d)
  BY <1>3, <1>5, <1>6, <1>7 DEF IsIterator, R
<1>9. ~ MustFill(j)
  BY <1>5, <1>6 DEF MustFill, Inside
<1>10. ASSUME NEW k \in 1 .. SyncCount, NEW t \in Tuples(RangesOf(k, v, d))
       PROVE  Behind(t, k, j, v, d) <=> Behind(t, k, i, v, d)
  <2>1. CASE k = i.sync
    <3>1. ~ Inside(i.product, R)
      BY <1>2 DEF Inside
    <3>2. ~ Before(t, j.product.its, Len(R))
      BY <2>1, <1>5, <1>6 DEF R
    <3> QED
      BY <2>1, <3>1, <3>2, <1>6 DEF Behind, R
  <2>2. CASE k # i.sync
    BY <2>2, <1>6 DEF Behind
  <2> QED
    BY <2>1, <2>2
<1>11. ASSUME NEW k \in 0 .. SyncCount
       PROVE  LeftBehind(k, j, v, d) = LeftBehind(k, i, v, d)
  <2>1. AsyncBehind(j, v, d) = AsyncBehind(i, v, d)
    BY <1>6 DEF AsyncBehind
  <2>2. k \in 1 .. SyncCount => SyncBehind(k, j, v, d) = SyncBehind(k, i, v, d)
    BY <1>10 DEF SyncBehind
  <2> QED
    BY <1>1, <2>1, <2>2 DEF LeftBehind
<1> QED
  BY <1>8, <1>9, <1>11 DEF j, R, RangesOf

\* Dereferencing and advancing the iterator over a synchronization: the tuple it was on is
\* the next one left behind.
LEMMA AdvancedSync ==
  ASSUME system \in Systems, NEW v, NEW d \in Directions, Located(v), NEW i, IsIterator(i, v, d),
         ~ MustFill(i), ~ SyncAtEnd(i)
  PROVE  LET j == AdvancedIt(i, v, d)
             R == RangesOf(i.sync, v, d)
         IN /\ i.sync \in 1 .. SyncCount /\ IsEnabled(system.syncs[i.sync], v, d) /\
                 i.product.its \in Tuples(R)
            /\ Vedge(i, v, d) = Chosen(R, i.product.its) /\ SyncOf(i) = i.sync
            /\ Vedge(i, v, d) \notin SyncBehind(i.sync, i, v, d)
            /\ IsIterator(j, v, d)
            /\ AsyncBehind(j, v, d) = AsyncBehind(i, v, d)
            /\ \A k \in 1 .. SyncCount :
                 SyncBehind(k, j, v, d)
                   = SyncBehind(k, i, v, d) \cup (IF k = SyncOf(i) THEN {Vedge(i, v, d)} ELSE {})
<1> DEFINE s == i.sync
           R == RangesOf(s, v, d)
           N == Len(R)
           c == i.product
           a == Advanced(c)
           j == AdvancedIt(i, v, d)
<1>1. SyncCount \in Nat
  BY SystemFacts DEF SyncCount
<1>2. s \in 1 .. SyncCount
  BY <1>1 DEF IsIterator, SyncAtEnd, PastTheEnd, SyncCount
<1>3. ~ at_end(c) /\ IsEnabled(system.syncs[s], v, d) /\ Inside(c, R)
  BY <1>2 DEF MustFill, IsIterator
<1>4. R \in Seq(Seq(Edges)) /\ R # <<>>
  BY <1>2, <1>3, RangesFacts, EnabledFacts DEF RangesOf, SyncCount
<1>5. c = [ranges |-> R, its |-> c.its] /\ c.its \in Tuples(R)
  BY <1>3 DEF Inside, IsProduct
<1>6. Vedge(i, v, d) = Chosen(R, c.its) /\ SyncOf(i) = s
  <2>1. Vedge(i, v, d) = Values(c)
    BY DEF Vedge
  <2>2. DOMAIN c.its = 1 .. N /\ c.ranges = R
    BY <1>5 DEF Tuples
  <2> QED
    BY <2>1, <2>2 DEF Values, Chosen, SyncOf
<1> HIDE DEF R, a
<1>7. /\ Inside(a, R) \/ Exhausted(a, R)
      /\ \A t \in Tuples(R) : Before(t, a.its, N) <=> (Before(t, c.its, N) \/ t = c.its)
  BY <1>3, <1>4, AdvancedFacts DEF a
<1>8. /\ \A t \in Tuples(R) : ~ Before(t, t, N)
      /\ Exhausted(a, R) => \A t \in Tuples(R) : Before(t, a.its, N)
  BY <1>4, BeforeFacts
<1>9. /\ j = [sync |-> IF at_end(a) THEN NextEnabled(s + 1, v, d) ELSE s, product |-> a,
           async |-> i.async]
      /\ j.sync = IF at_end(a) THEN NextEnabled(s + 1, v, d) ELSE s
      /\ j.product = a /\ j.async = i.async
  BY DEF AdvancedIt, IsIterator, a
<1> HIDE DEF j
<1>10. at_end(a) <=> Exhausted(a, R)
  BY <1>7 DEF Inside, Exhausted
<1>11. /\ at_end(a) => /\ j.sync \in s + 1 .. SyncCount + 1
                       /\ j.sync <= SyncCount => IsEnabled(system.syncs[j.sync], v, d)
                       /\ \A l \in s + 1 .. SyncCount : l < j.sync =>
                            ~ IsEnabled(system.syncs[l], v, d)
       /\ ~ at_end(a) => j.sync = s
  <2>1. s + 1 \in 1 .. SyncCount + 1
    BY <1>1, <1>2
  <2> QED
    BY <1>1, <1>9, <2>1, NextEnabledFacts
<1>12. InRange(a)
  <2>1. a.ranges = R /\ DOMAIN a.its = 1 .. N
    BY <1>7 DEF Inside, Exhausted, IsProduct
  <2>2. \A n \in 1 .. N : Len(R[n]) \in Nat
    BY <1>4
  <2>3. \A n \in 1 .. N : a.its[n] \in 1 .. PastTheEnd(R[n])
    BY <1>7, <2>2 DEF Inside, Exhausted, Tuples, PastTheEnd
  <2> QED
    BY <2>1, <2>3 DEF InRange
<1>13. IsIterator(j, v, d)
  <2>1. j.sync \in 1 .. SyncCount + 1
    BY <1>1, <1>2, <1>11
  <2>2. j.sync <= SyncCount => IsEnabled(system.syncs[j.sync], v, d)
    BY <1>3, <1>11
  <2>3. at_end(j.product) \/ Inside(j.product, RangesOf(j.sync, v, d))
    BY <1>7, <1>9, <1>10, <1>11 DEF R
  <2>4. j = [sync |-> j.sync, product |-> j.product, async |-> j.async]
    BY <1>9
  <2>5. IsJoin(AsyncRanges(v, d), j.async)
    BY <1>9 DEF IsIterator
  <2> QED
    BY <1>9, <1>12, <2>1, <2>2, <2>3, <2>4, <2>5 DEF IsIterator
<1>14. AsyncBehind(j, v, d) = AsyncBehind(i, v, d)
  BY <1>9 DEF AsyncBehind
<1>15. \A t \in Tuples(R) : Behind(t, s, i, v, d) <=> Before(t, c.its, N)
  BY <1>2, <1>3 DEF Behind, R
<1>16. \A t \in Tuples(R) : Behind(t, s, j, v, d) <=> (Before(t, c.its, N) \/ t = c.its)
  <2>1. CASE at_end(a)
    BY <1>1, <1>2, <1>3, <1>7, <1>8, <1>10, <1>11, <2>1 DEF Behind
  <2>2. CASE ~ at_end(a)
    BY <1>2, <1>3, <1>7, <1>9, <1>10, <1>11, <2>2 DEF Behind, R
  <2> QED
    BY <2>1, <2>2
<1>17. Vedge(i, v, d) \notin SyncBehind(s, i, v, d)
  <2>1. \A t, u \in Tuples(R) : VedgeEdges(Chosen(R, t)) = VedgeEdges(Chosen(R, u)) => t = u
    BY <1>2, <1>3, InstancesFacts DEF R, RangesOf, SyncCount
  <2>2. SUFFICES ASSUME NEW t \in Tuples(R), Behind(t, s, i, v, d), Chosen(R, c.its) = Chosen(R, t)
                 PROVE  FALSE
    BY <1>6 DEF SyncBehind, R
  <2>3. t = c.its
    BY <1>5, <2>1, <2>2
  <2> QED
    BY <1>8, <1>15, <2>2, <2>3
<1>18. SyncBehind(s, j, v, d) = SyncBehind(s, i, v, d) \cup {Vedge(i, v, d)}
  <2>1. SyncBehind(s, j, v, d) = {Chosen(R, t) : t \in {u \in Tuples(R) : Behind(u, s, j, v, d)}}
    BY DEF SyncBehind, R
  <2>2. SyncBehind(s, i, v, d) = {Chosen(R, t) : t \in {u \in Tuples(R) : Behind(u, s, i, v, d)}}
    BY DEF SyncBehind, R
  <2> QED
    BY <2>1, <2>2, <1>5, <1>6, <1>15, <1>16
<1>19. ASSUME NEW k \in 1 .. SyncCount, k # s
       PROVE  SyncBehind(k, j, v, d) = SyncBehind(k, i, v, d)
  <2>1. \A t : Behind(t, k, j, v, d) <=> Behind(t, k, i, v, d)
    <3>1. CASE IsEnabled(system.syncs[k], v, d)
      <4>1. k < i.sync <=> k < j.sync
        BY <1>1, <1>2, <1>11, <1>19, <3>1
      <4>2. k = j.sync => ~ Inside(j.product, RangesOf(k, v, d))
        BY <1>9, <1>10, <1>11, <1>19 DEF Exhausted, Inside
      <4> QED
        BY <1>19, <4>1, <4>2 DEF Behind
    <3>2. CASE ~ IsEnabled(system.syncs[k], v, d)
      BY <3>2 DEF Behind
    <3> QED
      BY <3>1, <3>2
  <2> QED
    BY <2>1 DEF SyncBehind
<1> QED
  BY <1>2, <1>3, <1>5, <1>6, <1>13, <1>14, <1>17, <1>18, <1>19 DEF j, R

\* The same, over asynchronous edges.
LEMMA AdvancedAsync ==
  ASSUME system \in Systems, NEW v, NEW d \in Directions, Located(v), NEW i, IsIterator(i, v, d),
         SyncAtEnd(i), ~ ItAtEnd(i, v, d)
  PROVE  LET j == AdvancedIt(i, v, d)
         IN /\ \E e \in AloneFrom(v, d) : Vedge(i, v, d) = <<e>>
            /\ SyncOf(i) = 0
            /\ Vedge(i, v, d) \notin AsyncBehind(i, v, d)
            /\ IsIterator(j, v, d)
            /\ AsyncBehind(j, v, d) = AsyncBehind(i, v, d) \cup {Vedge(i, v, d)}
            /\ \A k \in 1 .. SyncCount : SyncBehind(k, j, v, d) = SyncBehind(k, i, v, d)
<1> DEFINE R == AsyncRanges(v, d)
           a == i.async
           b == JoinAdvanced(R, a)
           x == <<a.it, a.pos>>
           j == AdvancedIt(i, v, d)
           w == Vedge(i, v, d)
<1>1. /\ R \in Seq(Seq(Edges))
      /\ AloneFrom(v, d) = {R[y[1]][y[2]] : y \in Positions(R)}
      /\ \A y, z \in Positions(R) : R[y[1]][y[2]] = R[z[1]][z[2]] => y = z
  BY AsyncFacts
<1>2. IsJoin(R, a) /\ ~ JoinAtEnd(R, a)
  BY DEF IsIterator, ItAtEnd
<1>3. w = <<R[a.it][a.pos]>> /\ SyncOf(i) = 0
  BY DEF Vedge, JoinValue, SyncOf
<1>4. /\ j = [sync |-> i.sync, product |-> i.product, async |-> b]
      /\ j.sync = i.sync /\ j.product = i.product /\ j.async = b
  BY DEF AdvancedIt, IsIterator
<1> HIDE DEF R, b, j, w
<1>5. /\ x \in Positions(R) /\ ~ Passed(x, a)
      /\ IsJoin(R, b)
      /\ \A y \in Positions(R) : Passed(y, b) <=> (Passed(y, a) \/ y = x)
  BY <1>1, <1>2, JoinFacts DEF OnElement, b
<1>6. IsIterator(j, v, d)
  BY <1>4, <1>5 DEF IsIterator, R
<1>7. AsyncBehind(i, v, d) = {<<R[z[1]][z[2]]>> : z \in {y \in Positions(R) : Passed(y, a)}}
  BY DEF AsyncBehind, R
<1>8. AsyncBehind(j, v, d) = {<<R[z[1]][z[2]]>> : z \in {y \in Positions(R) : Passed(y, b)}}
  BY <1>4 DEF AsyncBehind, R
<1>9. w = <<R[x[1]][x[2]]>>
  BY <1>3
<1>10. w \notin AsyncBehind(i, v, d)
  <2>1. SUFFICES ASSUME NEW z \in Positions(R), Passed(z, a), <<R[x[1]][x[2]]>> = <<R[z[1]][z[2]]>>
                 PROVE  FALSE
    BY <1>7, <1>9
  <2>2. R[x[1]][x[2]] = R[z[1]][z[2]]
    BY <2>1
  <2>3. x = z
    BY <1>1, <1>5, <2>2
  <2> QED
    BY <1>5, <2>1, <2>3
<1>11. AsyncBehind(j, v, d) = AsyncBehind(i, v, d) \cup {w}
  BY <1>5, <1>7, <1>8, <1>9
<1>12. \E e \in AloneFrom(v, d) : w = <<e>>
  <2>1. R[x[1]][x[2]] \in AloneFrom(v, d)
    BY <1>1, <1>5
  <2> QED
    BY <1>9, <2>1
<1>13. \A k \in 1 .. SyncCount : SyncBehind(k, j, v, d) = SyncBehind(k, i, v, d)
  BY <1>4 DEF SyncBehind, Behind
<1> QED
  BY <1>3, <1>6, <1>10, <1>11, <1>12, <1>13 DEF j, w

\* At the end, all has been left behind.
LEMMA EndFacts ==
  ASSUME system \in Systems, NEW v, NEW d \in Directions, Located(v), NEW i, IsIterator(i, v, d),
         ItAtEnd(i, v, d)
  PROVE  /\ \A k \in 1 .. SyncCount :
              {VedgeEdges(w) : w \in SyncBehind(k, i, v, d)} = Instances(system.syncs[k], v, d)
         /\ AsyncBehind(i, v, d) = {<<e>> : e \in AloneFrom(v, d)}
<1>1. SyncCount \in Nat /\ i.sync = SyncCount + 1
  BY SystemFacts DEF SyncCount, ItAtEnd, SyncAtEnd, PastTheEnd
<1>2. ASSUME NEW k \in 1 .. SyncCount
      PROVE  {VedgeEdges(w) : w \in SyncBehind(k, i, v, d)} = Instances(system.syncs[k], v, d)
  <2>1. CASE IsEnabled(system.syncs[k], v, d)
    <3> DEFINE R == RangesOf(k, v, d)
    <3>1. \A t : Behind(t, k, i, v, d)
      BY <1>1, <2>1 DEF Behind
    <3>2. SyncBehind(k, i, v, d) = {Chosen(R, t) : t \in Tuples(R)}
      BY <3>1 DEF SyncBehind
    <3>3. Instances(system.syncs[k], v, d) = {VedgeEdges(Chosen(R, t)) : t \in Tuples(R)}
      BY <2>1, InstancesFacts DEF RangesOf, SyncCount
    <3> HIDE DEF R
    <3> QED
      BY <3>2, <3>3
  <2>2. CASE ~ IsEnabled(system.syncs[k], v, d)
    <3>1. SyncBehind(k, i, v, d) = {}
      BY <2>2 DEF SyncBehind, Behind
    <3>2. Instances(system.syncs[k], v, d) = {}
      BY <2>2, EnabledFacts DEF SyncCount
    <3> QED
      BY <3>1, <3>2
  <2> QED
    BY <2>1, <2>2
<1>3. AsyncBehind(i, v, d) = {<<e>> : e \in AloneFrom(v, d)}
  <2> DEFINE R == AsyncRanges(v, d)
  <2>1. R \in Seq(Seq(Edges)) /\ AloneFrom(v, d) = {R[y[1]][y[2]] : y \in Positions(R)}
    BY AsyncFacts
  <2>2. IsJoin(R, i.async) /\ JoinAtEnd(R, i.async)
    BY DEF IsIterator, ItAtEnd
  <2>3. AsyncBehind(i, v, d) = {<<R[x[1]][x[2]]>> : x \in {y \in Positions(R) : Passed(y, i.async)}}
    BY DEF AsyncBehind
  <2> HIDE DEF R
  <2>4. \A y \in Positions(R) : Passed(y, i.async)
    BY <2>1, <2>2, JoinFacts
  <2>5. AsyncBehind(i, v, d) = {<<R[x[1]][x[2]]>> : x \in Positions(R)}
    BY <2>3, <2>4
  <2> QED
    BY <2>1, <2>5
<1> QED
  BY <1>2, <1>3

-----------------------------------------------------------------------------
(* What was produced from v: what the iterator left behind, each once. *)

GlobalEdges(v) == {X \in SUBSET Edges : Configured!IsGlobalEdge(system, v, X)}
YieldedBy(k, pr) == {pr[n].vedge : n \in {m \in 1 .. Len(pr) : pr[m].sync = k}}

Enumerating(v, d, i, pr, su) ==
  /\ Located(v) /\ v = [p \in Processes |-> v[p]]
  /\ IsIterator(i, v, d)
  /\ pr \in Seq([sync : 0 .. SyncCount, vedge : Seq(Edges)])
  /\ \A k \in 0 .. SyncCount : YieldedBy(k, pr) = LeftBehind(k, i, v, d)
  /\ \A m, n \in 1 .. Len(pr) : pr[m] = pr[n] => m = n
  /\ su \in Seq({Ok(Configured!Target(v, X)) : X \in GlobalEdges(v)})

\* At the beginning, nothing.
LEMMA BeginEnumerating ==
  ASSUME system \in Systems, NEW v, NEW d \in Directions, Located(v), v = [p \in Processes |-> v[p]]
  PROVE  Enumerating(v, d, BeginIt(v, d), <<>>, <<>>)
<1>1. \A k \in 0 .. SyncCount : YieldedBy(k, <<>>) = {}
  BY DEF YieldedBy
<1>2. IsIterator(BeginIt(v, d), v, d) /\
        \A k \in 0 .. SyncCount : LeftBehind(k, BeginIt(v, d), v, d) = {}
  BY BeginFacts
<1>3. \A S : <<>> \in Seq(S)
  OBVIOUS
<1>4. \A m, n \in 1 .. Len(<<>>) : <<>>[m] = <<>>[n] => m = n
  OBVIOUS
<1>5. /\ <<>> \in Seq([sync : 0 .. SyncCount, vedge : Seq(Edges)])
      /\ <<>> \in Seq({Ok(Configured!Target(v, X)) : X \in GlobalEdges(v)})
  BY <1>3
<1>6. \A k \in 0 .. SyncCount : YieldedBy(k, <<>>) = LeftBehind(k, BeginIt(v, d), v, d)
  BY <1>1, <1>2
<1> QED
  BY <1>2, <1>4, <1>5, <1>6 DEF Enumerating

\* A tuple that the iterator is on is a global edge, when the edges are outgoing.
LEMMA VedgeFacts ==
  ASSUME system \in Systems, NEW v, NEW d \in Directions, Located(v),
         v = [p \in Processes |-> v[p]],
         NEW i, IsIterator(i, v, d), ~ MustFill(i), ~ ItAtEnd(i, v, d)
  PROVE  /\ Vedge(i, v, d) \in Seq(Edges) /\ SyncOf(i) \in 0 .. SyncCount
         /\ d = "outgoing" => /\ VedgeEdges(Vedge(i, v, d)) \in GlobalEdges(v)
                              /\ Moved(v, Vedge(i, v, d)) =
                                   Ok(Configured!Target(v, VedgeEdges(Vedge(i, v, d))))
<1> DEFINE w == Vedge(i, v, d)
           X == VedgeEdges(w)
<1>1. SyncCount \in Nat /\ DOMAIN system.syncs = 1 .. SyncCount
  BY SystemFacts DEF SyncCount
<1>2. CASE ~ SyncAtEnd(i)
  <2> DEFINE k == i.sync
             R == RangesOf(k, v, d)
             t == i.product.its
  <2>1. /\ k \in 1 .. SyncCount /\ IsEnabled(system.syncs[k], v, d) /\ t \in Tuples(R)
        /\ w = Chosen(R, t) /\ SyncOf(i) = k
    BY <1>2, AdvancedSync
  <2> HIDE DEF w, t
  <2>2. OneOfEach(Chosen(R, t), R, system.syncs[k], v, d)
    BY <2>1, ChosenFacts DEF RangesOf, SyncCount
  <2>3. /\ w \in Seq(Edges)
        /\ \A n \in 1 .. Len(w) : Loc(w[n], d) = v[w[n].pid]
        /\ \A m, n \in 1 .. Len(w) : w[m].pid = w[n].pid => m = n
    BY <2>1, <2>2 DEF OneOfEach
  <2>4. ASSUME d = "outgoing"
        PROVE  X \in GlobalEdges(v) /\ Moved(v, w) = Ok(Configured!Target(v, X))
    <3>1. k \in 1 .. Len(system.syncs) /\ R = Ranges(system.syncs[k], v, d)
      BY <2>1 DEF RangesOf, SyncCount
    <3>2. Instances(system.syncs[k], v, d) = {VedgeEdges(Chosen(R, u)) : u \in Tuples(R)}
      <4>1. \A m \in 1 .. Len(system.syncs) : IsEnabled(system.syncs[m], v, d) =>
              Instances(system.syncs[m], v, d)
                = {VedgeEdges(Chosen(Ranges(system.syncs[m], v, d), u)) :
                  u \in Tuples(Ranges(system.syncs[m], v, d))}
        BY InstancesFacts
      <4>2. IsEnabled(system.syncs[k], v, d)
        BY <2>1
      <4> HIDE DEF R, k
      <4>3. Instances(system.syncs[k], v, d)
              = {VedgeEdges(Chosen(Ranges(system.syncs[k], v, d), u)) :
                u \in Tuples(Ranges(system.syncs[k], v, d))}
        BY <3>1, <4>1, <4>2, Zenon
      <4> QED
        BY <3>1, <4>3
    <3> HIDE DEF R, k
    <3>3. X \in Instances(system.syncs[k], v, d)
      BY <2>1, <3>2
    <3> HIDE DEF X
    <3>4. X \in {Y \in SUBSET Edges : Configured!Instantiates(system, v, Y, system.syncs[k])}
      BY <2>4, <3>1, <3>3, OutgoingFacts
    <3>5. X \in SUBSET Edges /\ Configured!Instantiates(system, v, X, system.syncs[k])
      BY <3>4
    <3>6. Configured!IsGlobalEdge(system, v, X)
      BY <1>1, <2>1, <3>5 DEF Configured!IsGlobalEdge
    <3>7. \A n \in 1 .. Len(w) : w[n].src = v[w[n].pid]
      BY <2>3, <2>4 DEF Loc
    <3>8. Moved(v, w) = Ok(Configured!Target(v, X))
      BY <2>3, <3>7, MovedFacts DEF X
    <3> QED
      BY <3>5, <3>6, <3>8 DEF GlobalEdges
  <2> QED
    BY <1>1, <2>1, <2>3, <2>4 DEF w
<1>3. CASE SyncAtEnd(i)
  <2>1. SyncOf(i) = 0 /\ \E e \in AloneFrom(v, d) : w = <<e>>
    BY <1>3, AdvancedAsync
  <2> HIDE DEF w
  <2>2. PICK e \in AloneFrom(v, d) : w = <<e>>
    BY <2>1
  <2>3. e \in Edges /\ Loc(e, d) = v[e.pid] /\ IsAsynchronous(e.pid, e.event)
    BY DEF AloneFrom
  <2>4. w \in Seq(Edges) /\ Len(w) = 1 /\ w[1] = e /\ DOMAIN w = 1 .. 1
    BY <2>2, <2>3
  <2>5. X = {e}
    BY <2>4 DEF VedgeEdges
  <2>6. ASSUME d = "outgoing"
        PROVE  X \in GlobalEdges(v) /\ Moved(v, w) = Ok(Configured!Target(v, X))
    <3>1. e.src = v[e.pid] /\ Configured!IsAsynchronous(system, e)
      BY <2>3, <2>6, AsynchronousFacts DEF Loc
    <3>2. X \in GlobalEdges(v)
      BY <2>3, <2>5, <3>1 DEF GlobalEdges, Configured!IsGlobalEdge
    <3>3. Moved(v, w) = Ok(Configured!Target(v, X))
      BY <2>4, <3>1, MovedFacts
    <3> QED
      BY <3>2, <3>3
  <2> QED
    BY <1>1, <2>1, <2>4, <2>6 DEF w
<1> QED
  BY <1>2, <1>3

\* A turn of the loop that fills the product.
LEMMA FillEnumerating ==
  ASSUME system \in Systems, NEW v, NEW d \in Directions, NEW i, NEW pr, NEW su,
         Enumerating(v, d, i, pr, su), MustFill(i)
  PROVE  Enumerating(v, d, [i EXCEPT !.product = Product(Ranges(system.syncs[i.sync], v, d))], pr,
           su)
<1> DEFINE j == [i EXCEPT !.product = Product(Ranges(system.syncs[i.sync], v, d))]
<1>1. IsIterator(i, v, d)
  BY DEF Enumerating
<1>2. IsIterator(j, v, d) /\ \A k \in 0 .. SyncCount :
        LeftBehind(k, j, v, d) = LeftBehind(k, i, v, d)
  BY <1>1, FillFacts
<1> HIDE DEF j
<1>3. Enumerating(v, d, j, pr, su)
  BY <1>2 DEF Enumerating
<1> QED
  BY <1>3 DEF j

\* The iterator is dereferenced, and advances.
LEMMA ExpandEnumerating ==
  ASSUME system \in Systems, NEW v, NEW d \in Directions, NEW i, NEW pr, NEW su,
         Enumerating(v, d, i, pr, su), ~ MustFill(i), ~ ItAtEnd(i, v, d)
  PROVE  LET w == Vedge(i, v, d)
         IN Enumerating(v, d, AdvancedIt(i, v, d), Append(pr, [sync |-> SyncOf(i), vedge |-> w]),
                        IF d = "outgoing" THEN Append(su, Moved(v, w)) ELSE su)
<1> DEFINE w == Vedge(i, v, d)
           j == AdvancedIt(i, v, d)
           x == [sync |-> SyncOf(i), vedge |-> w]
           Records == [sync : 0 .. SyncCount, vedge : Seq(Edges)]
           Successors == {Ok(Configured!Target(v, X)) : X \in GlobalEdges(v)}
           sv == IF d = "outgoing" THEN Append(su, Moved(v, w)) ELSE su
           L == Len(pr)
           qr == Append(pr, x)
<1>0. Located(v) /\ IsIterator(i, v, d)
  BY DEF Enumerating
<1>1. /\ Located(v) /\ v = [p \in Processes |-> v[p]]
      /\ IsIterator(i, v, d)
      /\ pr \in Seq(Records) /\ su \in Seq(Successors)
      /\ \A k \in 0 .. SyncCount : YieldedBy(k, pr) = LeftBehind(k, i, v, d)
      /\ \A m, n \in 1 .. L : pr[m] = pr[n] => m = n
  BY DEF Enumerating
<1>2. SyncCount \in Nat /\ L \in Nat
  BY <1>1, SystemFacts DEF SyncCount
<1>3. /\ w \in Seq(Edges) /\ SyncOf(i) \in 0 .. SyncCount
      /\ d = "outgoing" => VedgeEdges(w) \in GlobalEdges(v) /\
           Moved(v, w) = Ok(Configured!Target(v, VedgeEdges(w)))
  BY <1>1, VedgeFacts
<1>4. /\ IsIterator(j, v, d)
      /\ w \notin LeftBehind(SyncOf(i), i, v, d)
      /\ \A k \in 0 .. SyncCount :
           LeftBehind(k, j, v, d) = LeftBehind(k, i, v, d) \cup (IF k = SyncOf(i) THEN {w} ELSE {})
  <2>1. CASE ~ SyncAtEnd(i)
    <3>1. /\ i.sync \in 1 .. SyncCount /\ SyncOf(i) = i.sync
          /\ w \notin SyncBehind(i.sync, i, v, d)
          /\ IsIterator(j, v, d)
          /\ AsyncBehind(j, v, d) = AsyncBehind(i, v, d)
          /\ \A k \in 1 .. SyncCount :
               SyncBehind(k, j, v, d) =
                 SyncBehind(k, i, v, d) \cup (IF k = SyncOf(i) THEN {w} ELSE {})
      BY <1>1, <2>1, AdvancedSync
    <3> HIDE DEF w, j
    <3> QED
      BY <1>2, <3>1 DEF LeftBehind
  <2>2. CASE SyncAtEnd(i)
    <3>1. /\ SyncOf(i) = 0 /\ w \notin AsyncBehind(i, v, d) /\ IsIterator(j, v, d)
          /\ AsyncBehind(j, v, d) = AsyncBehind(i, v, d) \cup {w}
          /\ \A k \in 1 .. SyncCount : SyncBehind(k, j, v, d) = SyncBehind(k, i, v, d)
      BY <1>0, <2>2, AdvancedAsync
    <3> HIDE DEF w, j
    <3> QED
      BY <1>2, <3>1 DEF LeftBehind
  <2> QED
    BY <2>1, <2>2
<1> HIDE DEF w, j, Records, Successors
<1>5. x \in Records
  BY <1>3 DEF Records
<1>6. /\ qr \in Seq(Records) /\ Len(qr) = L + 1 /\ qr[L + 1] = x
      /\ \A n \in 1 .. L : qr[n] = pr[n]
      /\ \A n \in 1 .. L + 1 : n = L + 1 \/ n \in 1 .. L
  BY <1>1, <1>2, <1>5, AppendFacts
<1> HIDE DEF qr
<1>7. ASSUME NEW k \in 0 .. SyncCount
      PROVE  YieldedBy(k, qr) = YieldedBy(k, pr) \cup (IF k = SyncOf(i) THEN {w} ELSE {})
  <2>1. x.sync = SyncOf(i) /\ x.vedge = w
    OBVIOUS
  <2> HIDE DEF x
  <2>2. L + 1 \in 1 .. Len(qr) /\ \A n \in 1 .. L : n \in 1 .. Len(qr)
    BY <1>2, <1>6
  <2>3. ASSUME NEW y \in YieldedBy(k, qr)
        PROVE  y \in YieldedBy(k, pr) \/ (k = SyncOf(i) /\ y = w)
    <3>1. PICK n \in 1 .. Len(qr) : qr[n].sync = k /\ y = qr[n].vedge
      BY DEF YieldedBy
    <3>2. n = L + 1 \/ n \in 1 .. L
      BY <1>6
    <3> QED
      BY <1>6, <2>1, <3>1, <3>2 DEF YieldedBy
  <2>4. ASSUME NEW y \in YieldedBy(k, pr)
        PROVE  y \in YieldedBy(k, qr)
    <3>1. PICK n \in 1 .. L : pr[n].sync = k /\ y = pr[n].vedge
      BY DEF YieldedBy
    <3> QED
      BY <1>6, <2>2, <3>1 DEF YieldedBy
  <2>5. k = SyncOf(i) => w \in YieldedBy(k, qr)
    BY <1>6, <2>1, <2>2 DEF YieldedBy
  <2> QED
    BY <2>3, <2>4, <2>5
<1>8. \A k \in 0 .. SyncCount : YieldedBy(k, qr) = LeftBehind(k, j, v, d)
  BY <1>1, <1>4, <1>7
<1>9. \A n \in 1 .. L : pr[n] # x
  <2>1. SUFFICES ASSUME NEW n \in 1 .. L, pr[n] = x
                 PROVE  FALSE
    OBVIOUS
  <2>2. w \in YieldedBy(SyncOf(i), pr)
    BY <2>1 DEF YieldedBy
  <2> QED
    BY <1>1, <1>3, <1>4, <2>2
<1>10. \A m, n \in 1 .. Len(qr) : qr[m] = qr[n] => m = n
  BY <1>1, <1>6, <1>9
<1>11. sv \in Seq(Successors)
  <2>1. CASE d = "outgoing"
    <3>1. Moved(v, w) \in Successors
      BY <1>3, <2>1 DEF Successors
    <3> QED
      BY <1>1, <2>1, <3>1
  <2>2. CASE d # "outgoing"
    BY <1>1, <2>2
  <2> QED
    BY <2>1, <2>2
<1> HIDE DEF sv
<1>12. Enumerating(v, d, j, qr, sv)
  BY <1>1, <1>4, <1>6, <1>8, <1>10, <1>11 DEF Enumerating, Records, Successors
<1> QED
  BY <1>12 DEF j, qr, sv, w

\* At the end: all the instances and asynchronous edges, each once.
LEMMA AllEnumerated ==
  ASSUME system \in Systems, NEW v, NEW d \in Directions, NEW i, NEW su,
         Enumerating(v, d, i, produced, su)
  PROVE  /\ ItAtEnd(i, v, d) =>
              /\ \A k \in 1 .. SyncCount : ProducedBy(k) = Instances(system.syncs[k], v, d)
              /\ ProducedBy(0) = {{e} : e \in AloneFrom(v, d)}
         /\ EnumeratesOnce
<1>1. /\ Located(v) /\ IsIterator(i, v, d)
      /\ produced \in Seq([sync : 0 .. SyncCount, vedge : Seq(Edges)])
      /\ \A k \in 0 .. SyncCount : YieldedBy(k, produced) = LeftBehind(k, i, v, d)
      /\ \A m, n \in 1 .. Len(produced) : produced[m] = produced[n] => m = n
  BY DEF Enumerating
<1>2. SyncCount \in Nat
  BY SystemFacts DEF SyncCount
<1>3. DOMAIN produced = 1 .. Len(produced)
  BY <1>1
<1>4. ASSUME NEW k
      PROVE  ProducedBy(k) = {VedgeEdges(w) : w \in YieldedBy(k, produced)}
  BY <1>3 DEF ProducedBy, YieldedBy
<1>5. \A e : VedgeEdges(<<e>>) = {e}
  BY DEF VedgeEdges
<1>6. \A k \in 1 .. SyncCount : k # 0 /\ k \in 0 .. SyncCount
  BY <1>2
<1>7. ASSUME ItAtEnd(i, v, d)
      PROVE  /\ \A k \in 1 .. SyncCount : ProducedBy(k) = Instances(system.syncs[k], v, d)
             /\ ProducedBy(0) = {{e} : e \in AloneFrom(v, d)}
  <2>1. /\ \A k \in 1 .. SyncCount :
             {VedgeEdges(w) : w \in SyncBehind(k, i, v, d)} = Instances(system.syncs[k], v, d)
        /\ AsyncBehind(i, v, d) = {<<e>> : e \in AloneFrom(v, d)}
    BY <1>1, <1>7, EndFacts
  <2>2. ASSUME NEW k \in 1 .. SyncCount
        PROVE  ProducedBy(k) = Instances(system.syncs[k], v, d)
    <3>1. YieldedBy(k, produced) = SyncBehind(k, i, v, d)
      BY <1>1, <1>6 DEF LeftBehind
    <3> QED
      BY <1>4, <2>1, <3>1
  <2>3. YieldedBy(0, produced) = {<<e>> : e \in AloneFrom(v, d)}
    BY <1>1, <1>2, <2>1 DEF LeftBehind
  <2>4. ProducedBy(0) = {{e} : e \in AloneFrom(v, d)}
    <3> DEFINE A == AloneFrom(v, d)
    <3> HIDE DEF A
    <3>1. {VedgeEdges(w) : w \in {<<e>> : e \in A}} = {VedgeEdges(<<e>>) : e \in A}
      OBVIOUS
    <3>2. {VedgeEdges(<<e>>) : e \in A} = {{e} : e \in A}
      BY <1>5
    <3> QED
      BY <1>4, <2>3, <3>1, <3>2 DEF A
  <2> QED
    BY <2>2, <2>4
\* The sets of edges of two tuples of a synchronization are not the same either.
<1>8. ASSUME NEW k \in 0 .. SyncCount, NEW w \in LeftBehind(k, i, v, d),
             NEW x \in LeftBehind(k, i, v, d),
             VedgeEdges(w) = VedgeEdges(x)
      PROVE  w = x
  <2>1. CASE k = 0
    <3>1. \A y \in AsyncBehind(i, v, d) : \E e : y = <<e>>
      BY DEF AsyncBehind
    <3>2. PICK e, f : w = <<e>> /\ x = <<f>>
      BY <2>1, <3>1 DEF LeftBehind
    <3> QED
      BY <1>5, <1>8, <3>2
  <2>2. CASE k # 0
    <3>1. k \in 1 .. SyncCount
      BY <1>2, <2>2
    <3> DEFINE R == RangesOf(k, v, d)
    <3>2. LeftBehind(k, i, v, d) = {Chosen(R, t) : t \in {u \in Tuples(R) : Behind(u, k, i, v, d)}}
      BY <2>2 DEF LeftBehind, SyncBehind
    <3> HIDE DEF R
    <3>3. PICK t \in Tuples(R) : w = Chosen(R, t) /\ Behind(t, k, i, v, d)
      BY <3>2
    <3>4. PICK u \in Tuples(R) : x = Chosen(R, u)
      BY <3>2
    <3>5. IsEnabled(system.syncs[k], v, d)
      BY <3>3 DEF Behind
    <3>6. \A y, z \in Tuples(R) : VedgeEdges(Chosen(R, y)) = VedgeEdges(Chosen(R, z)) => y = z
      BY <1>1, <3>1, <3>5, InstancesFacts DEF R, RangesOf, SyncCount
    <3> QED
      BY <1>8, <3>3, <3>4, <3>6
  <2> QED
    BY <2>1, <2>2
<1>9. ASSUME NEW m \in DOMAIN produced, NEW n \in DOMAIN produced, m # n,
             produced[m].sync = produced[n].sync
      PROVE  VedgeEdges(produced[m].vedge) # VedgeEdges(produced[n].vedge)
  <2> DEFINE a == produced[m]
             b == produced[n]
  <2>1. a \in [sync : 0 .. SyncCount, vedge : Seq(Edges)] /\
          b \in [sync : 0 .. SyncCount, vedge : Seq(Edges)]
    <3> DEFINE S == [sync : 0 .. SyncCount, vedge : Seq(Edges)]
    <3>1. produced \in Seq(S) /\ m \in 1 .. Len(produced) /\ n \in 1 .. Len(produced)
      BY <1>1, <1>3
    <3> HIDE DEF S
    <3>2. a \in S /\ b \in S
      BY <3>1
    <3> QED
      BY <3>2 DEF S
  <2>2. a # b
    BY <1>1, <1>3, <1>9
  <2>3. a.vedge # b.vedge
    BY <1>9, <2>1, <2>2
  <2>4. a.vedge \in YieldedBy(a.sync, produced) /\ b.vedge \in YieldedBy(a.sync, produced)
    BY <1>3, <1>9 DEF YieldedBy
  <2>5. a.sync \in 0 .. SyncCount
    BY <2>1
  <2> HIDE DEF a, b
  <2>6. a.vedge \in LeftBehind(a.sync, i, v, d) /\ b.vedge \in LeftBehind(a.sync, i, v, d)
    BY <1>1, <2>4, <2>5
  <2>7. VedgeEdges(a.vedge) # VedgeEdges(b.vedge)
    BY <1>8, <2>3, <2>5, <2>6
  <2> QED
    BY <2>7 DEF a, b
<1> QED
  BY <1>7, <1>9 DEF EnumeratesOnce

\* Where a global edge leads, there are edges of each process only.
LEMMA TargetLocated ==
  ASSUME system \in Systems, NEW v, Located(v), NEW X \in SUBSET Edges
  PROVE  LET w == Configured!Target(v, X)
         IN Located(w) /\ w = [p \in Processes |-> w[p]]
<1> DEFINE w == Configured!Target(v, X)
<1>1. w = [p \in Processes |->
             IF \E e \in X : e.pid = p THEN (CHOOSE e \in X : e.pid = p).tgt ELSE v[p]]
  BY DEF Configured!Target
<1> HIDE DEF w
<1>2. ASSUME NEW p \in Processes, NEW f \in Edges, w[p] \in Ends(f)
      PROVE  f.pid = p
  <2>1. CASE \E e \in X : e.pid = p
    <3>1. PICK e \in X : e.pid = p /\ w[p] = e.tgt
      BY <1>1, <2>1
    <3>2. Ends(e) \cap Ends(f) # {}
      BY <1>2, <3>1 DEF Ends
    <3> QED
      BY <3>1, <3>2, SystemFacts
  <2>2. CASE ~ \E e \in X : e.pid = p
    BY <1>1, <1>2, <2>2 DEF Located
  <2> QED
    BY <2>1, <2>2
<1>3. w = [p \in Processes |-> w[p]]
  BY <1>1
<1> QED
  BY <1>2, <1>3 DEF Located, w

\* The tuple of locations that the initial iterator is on.
LEMMA InitialValues ==
  ASSUME system \in Systems, Inside(initials, system.initial)
  PROVE  LET v == Values(initials)
         IN v \in Configured!InitialVlocs(system) /\ Located(v) /\ v = [p \in Processes |-> v[p]]
<1> DEFINE v == Values(initials)
           I == system.initial
           Of(p) == {I[p][n] : n \in DOMAIN I[p]}
<1>1. /\ Len(I) = ProcessCount
      /\ \A p \in Processes : DOMAIN I[p] = 1 .. Len(I[p])
      /\ \A p \in Processes, e \in Edges : \A n \in 1 .. Len(I[p]) : I[p][n] \in Ends(e) =>
           e.pid = p
  BY InitialFacts
<1>2. /\ initials.ranges = I /\ DOMAIN initials.its = Processes
      /\ \A p \in Processes : initials.its[p] \in 1 .. Len(I[p])
  BY <1>1, Numbered DEF Inside, IsProduct, Tuples
<1>3. v = [p \in Processes |-> I[p][initials.its[p]]]
  BY <1>2 DEF Values
<1> HIDE DEF v, I
<1>4. \A p \in Processes : v[p] \in Of(p)
  BY <1>1, <1>2, <1>3
<1>5. v \in Configured!InitialVlocs(system)
  BY <1>3, <1>4 DEF Configured!InitialVlocs, I
<1>6. Located(v)
  BY <1>1, <1>2, <1>3 DEF Located
<1>7. v = [p \in Processes |-> v[p]]
  BY <1>3
<1> QED
  BY <1>5, <1>6, <1>7 DEF v

-----------------------------------------------------------------------------
(* The inductive invariant. *)

IInv ==
  /\ system \in Systems /\ phase \in {"initial", "edges"} /\ direction \in Directions
  /\ Inside(initials, system.initial) \/ Exhausted(initials, system.initial)
  /\ phase = "initial" => vloc = NoVloc /\ it.product = EmptyProduct /\ produced = <<>> /\
       successors = <<>>
  /\ phase = "edges" => Enumerating(vloc, direction, it, produced, successors)

\* What is defined from the system does not change, as it does not.
LEMMA SameSystem ==
  ASSUME system' = system
  PROVE  \A v, d, i, pr, su : Enumerating(v, d, i, pr, su)' <=> Enumerating(v, d, i, pr, su)
<1>1. \A loc, event, d : LocHasEvent(loc, event, d)' <=> LocHasEvent(loc, event, d)
  BY DEF LocHasEvent
<1>2. \A sync, v, d : IsEnabled(sync, v, d)' <=> IsEnabled(sync, v, d)
  BY <1>1 DEF IsEnabled
<1>3. \A sync, v, d : Ranges(sync, v, d)' = Ranges(sync, v, d)
  BY DEF Ranges, LocEventEdges
<1>4. \A v, d : AsyncRanges(v, d)' = AsyncRanges(v, d)
  BY DEF AsyncRanges, LocationEdges, IsAsynchronous
<1>5. \A k, v, d : RangesOf(k, v, d)' = RangesOf(k, v, d)
  BY <1>3 DEF RangesOf
<1>6. SyncCount' = SyncCount /\ Edges' = Edges
  BY DEF SyncCount, Edges
<1>7. \A v : Located(v)' <=> Located(v)
  BY <1>6 DEF Located
<1>8. \A i, v, d : IsIterator(i, v, d)' <=> IsIterator(i, v, d)
  BY <1>2, <1>4, <1>5, <1>6 DEF IsIterator
<1>9. \A t, k, i, v, d : Behind(t, k, i, v, d)' <=> Behind(t, k, i, v, d)
  BY <1>2, <1>5 DEF Behind
<1>10. \A k, i, v, d : SyncBehind(k, i, v, d)' = SyncBehind(k, i, v, d)
  BY <1>5, <1>9 DEF SyncBehind
<1>11. \A i, v, d : AsyncBehind(i, v, d)' = AsyncBehind(i, v, d)
  BY <1>4 DEF AsyncBehind
<1>12. \A k, i, v, d : LeftBehind(k, i, v, d)' = LeftBehind(k, i, v, d)
  BY <1>10, <1>11 DEF LeftBehind
<1>13. \A v : GlobalEdges(v)' = GlobalEdges(v)
  BY <1>6 DEF GlobalEdges
<1> QED
  BY <1>6, <1>7, <1>8, <1>12, <1>13 DEF Enumerating

\* The invariant holds initially.
LEMMA InitInv == Init => IInv
<1> SUFFICES ASSUME Init
             PROVE  IInv
  OBVIOUS
<1>1. system \in Systems /\ phase = "initial" /\ direction = "outgoing" /\
        initials = Product(system.initial)
  BY DEF Init
<1>2. vloc = NoVloc /\ it.product = EmptyProduct /\ produced = <<>> /\ successors = <<>>
  BY DEF Init
<1> DEFINE R == system.initial
           c == Product(R)
<1>3. PICK S : R \in Seq(Seq(S))
  BY <1>1, InitialFacts
<1> HIDE DEF R
<1>4. Inside(c, R) \/ Exhausted(c, R)
  <2>1. CASE R = <<>>
    <3> DEFINE P == [i \in 1 .. Len(R) |-> IF i = 1 /\ SomeEmpty(R, Len(R)) THEN PastTheEnd(R[1])
                 ELSE 1]
    <3>0. c = [ranges |-> R, its |-> P]
      BY <1>3, ProductFacts
    <3>1. DOMAIN P = 1 .. Len(R) /\ P = [i \in 1 .. Len(R) |-> P[i]]
      OBVIOUS
    <3>2. Len(R) = 0 /\ \A i \in 1 .. Len(R) : FALSE
      BY <2>1
    <3> HIDE DEF P, c
    <3>3. P \in [1 .. Len(R) -> Nat]
      BY <3>1, <3>2
    <3>4. c = [ranges |-> R, its |-> c.its] /\ c.its \in [1 .. Len(R) -> Nat] /\ c.ranges = <<>>
      BY <2>1, <3>0, <3>3
    <3> QED
      BY <2>1, <3>2, <3>4 DEF Exhausted, IsProduct, at_end
  <2>2. CASE R # <<>>
    BY <1>3, <2>2, BeforeFacts
  <2> QED
    BY <2>1, <2>2
<1> QED
  BY <1>1, <1>2, <1>4 DEF IInv, R, Directions

\* The edges of a tuple of locations are begun with.
LEMMA BeginInv ==
  ASSUME IInv, NEW v, NEW d \in Directions, Located(v), v = [p \in Processes |-> v[p]],
         Begin(v, d), UNCHANGED <<system, initials>>
  PROVE  IInv'
<1>1. /\ system' = system /\ initials' = initials /\ phase' = "edges"
      /\ vloc' = v /\ direction' = d /\ it' = BeginIt(v, d) /\ produced' = <<>> /\
           successors' = <<>>
  BY DEF Begin
<1>2. system \in Systems /\ (Inside(initials, system.initial) \/
        Exhausted(initials, system.initial))
  BY DEF IInv
<1>3. Enumerating(v, d, BeginIt(v, d), <<>>, <<>>)
  BY <1>2, BeginEnumerating
<1>4. Enumerating(vloc, direction, it, produced, successors)'
  BY <1>1, <1>3, SameSystem
<1> QED
  BY <1>1, <1>2, <1>4 DEF IInv

\* Where the algorithm goes on from, there are edges of each process only.
LEMMA FollowedFacts ==
  ASSUME IInv, phase = "edges", NEW n \in DOMAIN successors
  PROVE  /\ \E X \in GlobalEdges(vloc) : successors[n] = Ok(Configured!Target(vloc, X))
         /\ successors[n].status = "STATE_OK"
         /\ Located(successors[n].vloc) /\
              successors[n].vloc = [p \in Processes |-> successors[n].vloc[p]]
<1> DEFINE S == {Ok(Configured!Target(vloc, X)) : X \in GlobalEdges(vloc)}
<1>1. successors \in Seq(S) /\ system \in Systems /\ Located(vloc)
  BY DEF IInv, Enumerating
<1> HIDE DEF S
<1>2. successors[n] \in S
  BY <1>1
<1>3. PICK X \in GlobalEdges(vloc) : successors[n] = Ok(Configured!Target(vloc, X))
  BY <1>2 DEF S
<1>4. X \in SUBSET Edges
  BY DEF GlobalEdges
<1>5. successors[n].vloc = Configured!Target(vloc, X) /\ successors[n].status = "STATE_OK"
  BY <1>3 DEF Ok
<1>6. Located(Configured!Target(vloc, X))
         /\ Configured!Target(vloc, X) = [p \in Processes |-> Configured!Target(vloc, X)[p]]
  BY <1>1, <1>4, TargetLocated
<1> QED
  BY <1>3, <1>5, <1>6

\* Each step preserves the invariant.
LEMMA NextInv == IInv /\ [Next]_vars => IInv'
<1> SUFFICES ASSUME IInv, [Next]_vars
             PROVE  IInv'
  OBVIOUS
<1>1. /\ system \in Systems /\ phase \in {"initial", "edges"} /\ direction \in Directions
      /\ Inside(initials, system.initial) \/ Exhausted(initials, system.initial)
      /\ phase = "edges" => Enumerating(vloc, direction, it, produced, successors)
  BY DEF IInv
<1>2. CASE NextInitial
  <2>1. /\ phase = "initial" /\ ~ at_end(initials) /\ initials' = Advanced(initials)
        /\ UNCHANGED <<system, phase, vloc, direction, it, produced, successors>>
    BY <1>2 DEF NextInitial
  <2>2. Inside(initials, system.initial)
    BY <1>1, <2>1 DEF Exhausted
  <2>3. \E S : system.initial \in Seq(Seq(S))
    BY <1>1, InitialFacts
  <2>4. Inside(initials', system.initial) \/ Exhausted(initials', system.initial)
    BY <2>1, <2>2, <2>3, AdvancedFacts
  <2>5. NoVloc' = NoVloc
    BY DEF NoVloc
  <2> QED
    BY <2>1, <2>4, <2>5, "initial" # "edges" DEF IInv
<1>3. CASE Initialize
  <2>1. PICK d \in Directions : Begin(Values(initials), d)
    BY <1>3 DEF Initialize
  <2>2. ~ at_end(initials) /\ UNCHANGED <<system, initials>>
    BY <1>3 DEF Initialize
  <2>3. Inside(initials, system.initial)
    BY <1>1, <2>2 DEF Exhausted
  <2>4. Located(Values(initials)) /\ Values(initials) = [p \in Processes |-> Values(initials)[p]]
    BY <1>1, <2>3, InitialValues
  <2> QED
    BY <2>1, <2>2, <2>4, BeginInv
<1>4. CASE Fill
  <2> DEFINE j == [it EXCEPT !.product = Product(Ranges(system.syncs[it.sync], vloc, direction))]
  <2>1. /\ phase = "edges" /\ MustFill(it) /\ it' = j
        /\ UNCHANGED <<system, phase, initials, vloc, direction, produced, successors>>
    BY <1>4 DEF Fill
  <2>2. Enumerating(vloc, direction, j, produced, successors)
    BY <1>1, <2>1, FillEnumerating
  <2> HIDE DEF j
  <2>3. Enumerating(vloc, direction, it, produced, successors)'
    BY <2>1, <2>2, SameSystem
  <2> QED
    BY <1>1, <2>1, <2>3 DEF IInv
<1>5. CASE Expand
  <2> DEFINE w == Vedge(it, vloc, direction)
             pr == Append(produced, [sync |-> SyncOf(it), vedge |-> w])
             su == IF direction = "outgoing" THEN Append(successors, Moved(vloc, w)) ELSE successors
             j == AdvancedIt(it, vloc, direction)
  <2>1. /\ phase = "edges" /\ ~ MustFill(it) /\ ~ ItAtEnd(it, vloc, direction)
        /\ it' = j /\ produced' = pr /\ successors' = su
        /\ UNCHANGED <<system, phase, initials, vloc, direction>>
    BY <1>5 DEF Expand
  <2>2. Enumerating(vloc, direction, j, pr, su)
    BY <1>1, <2>1, ExpandEnumerating
  <2> HIDE DEF j, pr, su
  <2>3. Enumerating(vloc, direction, it, produced, successors)'
    BY <2>1, <2>2, SameSystem
  <2> QED
    BY <1>1, <2>1, <2>3 DEF IInv
<1>6. CASE Follow
  <2>1. PICK n \in DOMAIN successors, d \in Directions : Begin(successors[n].vloc, d)
    BY <1>6 DEF Follow
  <2>2. phase = "edges" /\ UNCHANGED <<system, initials>>
    BY <1>6 DEF Follow
  <2>3. Located(successors[n].vloc) /\
          successors[n].vloc = [p \in Processes |-> successors[n].vloc[p]]
    BY <2>2, FollowedFacts
  <2> QED
    BY <2>1, <2>2, <2>3, BeginInv
<1>7. CASE UNCHANGED vars
  <2>1. UNCHANGED <<system, phase, initials, vloc, direction, it, produced, successors>>
    BY <1>7 DEF vars
  <2>2. NoVloc' = NoVloc
    BY DEF NoVloc
  <2> QED
    BY <1>1, <2>1, <2>2, SameSystem DEF IInv
<1> QED
  BY <1>2, <1>3, <1>4, <1>5, <1>6, <1>7 DEF Next

\* The strengthening of the properties is an invariant.
THEOREM InvariantCorrect == Spec => []IInv
<1> QED
  BY InitInv, NextInv, PTL DEF Spec

-----------------------------------------------------------------------------
(* What the invariant implies. *)

\* Positions are in their ranges.
LEMMA InvType == IInv => TypeOK
<1> SUFFICES ASSUME IInv
             PROVE  TypeOK
  OBVIOUS
<1>1. /\ system \in Systems /\ phase \in {"initial", "edges"} /\ direction \in Directions
      /\ Inside(initials, system.initial) \/ Exhausted(initials, system.initial)
      /\ phase = "initial" => it.product = EmptyProduct /\ produced = <<>>
      /\ phase = "edges" => /\ IsIterator(it, vloc, direction)
                            /\ produced \in Seq([sync : 0 .. SyncCount, vedge : Seq(Edges)])
  BY DEF IInv, Enumerating
<1>2. InRange(initials)
  <2> DEFINE R == system.initial
  <2>1. PICK S : R \in Seq(Seq(S))
    BY <1>1, InitialFacts
  <2> HIDE DEF R
  <2>2. \A n \in 1 .. Len(R) : Len(R[n]) \in Nat
    BY <2>1
  <2>3. Inside(initials, R) \/ Exhausted(initials, R)
    BY <1>1 DEF R
  <2>4. initials.ranges = R /\ DOMAIN initials.its = 1 .. Len(R)
    BY <2>3 DEF Inside, Exhausted, IsProduct
  <2>5. \A n \in 1 .. Len(R) : initials.its[n] \in 1 .. PastTheEnd(R[n])
    BY <2>2, <2>3 DEF Inside, Exhausted, Tuples, PastTheEnd
  <2> QED
    BY <2>4, <2>5 DEF InRange
<1>3. InRange(it.product)
  BY <1>1 DEF IsIterator, InRange, EmptyProduct
<1>4. phase = "edges" => it.sync \in 1 .. PastTheEnd(system.syncs)
  BY <1>1 DEF IsIterator, PastTheEnd, SyncCount
<1>5. \A n \in DOMAIN produced : produced[n].sync \in 0 .. Len(system.syncs)
  <2>1. CASE phase = "initial"
    BY <1>1, <2>1
  <2>2. CASE phase = "edges"
    <3> DEFINE S == [sync : 0 .. SyncCount, vedge : Seq(Edges)]
    <3>1. produced \in Seq(S)
      BY <1>1, <2>2
    <3>2. \A x \in S : x.sync \in 0 .. SyncCount
      OBVIOUS
    <3> HIDE DEF S
    <3> QED
      BY <3>1, <3>2 DEF SyncCount
  <2> QED
    BY <1>1, <2>1, <2>2
<1> QED
  BY <1>1, <1>2, <1>3, <1>4, <1>5 DEF TypeOK

\* What was produced is what the iterator was to go through.
LEMMA InvEnumerates == IInv => EnumeratesAll /\ EnumeratesOnce /\ IncomingEdgesLeadHere
<1> SUFFICES ASSUME IInv
             PROVE  EnumeratesAll /\ EnumeratesOnce /\ IncomingEdgesLeadHere
  OBVIOUS
<1>1. /\ system \in Systems /\ phase \in {"initial", "edges"} /\ direction \in Directions
      /\ phase = "initial" => produced = <<>>
      /\ phase = "edges" => Enumerating(vloc, direction, it, produced, successors)
  BY DEF IInv
<1>2. SyncCount \in Nat /\ DOMAIN system.syncs = 1 .. SyncCount
  BY <1>1, SystemFacts DEF SyncCount
<1>3. EnumeratesOnce
  <2>1. CASE phase = "initial"
    BY <1>1, <2>1 DEF EnumeratesOnce
  <2>2. CASE phase = "edges"
    BY <1>1, <2>2, AllEnumerated
  <2> QED
    BY <1>1, <2>1, <2>2
<1>4. ASSUME AtEnd
      PROVE  /\ \A k \in 1 .. SyncCount :
                  ProducedBy(k) = Instances(system.syncs[k], vloc, direction)
             /\ ProducedBy(0) = {{e} : e \in AloneFrom(vloc, direction)}
             /\ Located(vloc) /\ vloc = [p \in Processes |-> vloc[p]]
  <2>1. phase = "edges" /\ ItAtEnd(it, vloc, direction)
    BY <1>4 DEF AtEnd
  <2>2. Enumerating(vloc, direction, it, produced, successors)
    BY <1>1, <2>1
  <2>3. Located(vloc) /\ vloc = [p \in Processes |-> vloc[p]]
    BY <2>2 DEF Enumerating
  <2> QED
    BY <1>1, <2>1, <2>2, <2>3, AllEnumerated
<1>5. ASSUME AtEnd, direction = "outgoing"
      PROVE  LET edges == Configured!Edges(system)
             IN /\ \A k \in DOMAIN system.syncs :
                     ProducedBy(k) = {E \in SUBSET edges :
                       Configured!Instantiates(system, vloc, E, system.syncs[k])}
                /\ ProducedBy(0)
                     = {{e} : e \in {e \in edges : e.src = vloc[e.pid] /\
                       Configured!IsAsynchronous(system, e)}}
  <2>1. Configured!Edges(system) = Edges
    BY DEF Configured!Edges, Edges, EdgesOf
  <2>2. ASSUME NEW k \in 1 .. SyncCount
        PROVE  ProducedBy(k) = {E \in SUBSET Edges :
                 Configured!Instantiates(system, vloc, E, system.syncs[k])}
    <3>1. ProducedBy(k) = Instances(system.syncs[k], vloc, "outgoing") /\ Located(vloc)
      BY <1>4, <1>5
    <3>2. Instances(system.syncs[k], vloc, "outgoing")
            = {X \in SUBSET Edges : Configured!Instantiates(system, vloc, X, system.syncs[k])}
      BY <1>1, <3>1, OutgoingFacts DEF SyncCount
    <3> QED
      BY <3>1, <3>2
  <2>3. AloneFrom(vloc, "outgoing") =
          {e \in Edges : e.src = vloc[e.pid] /\ Configured!IsAsynchronous(system, e)}
    BY AsynchronousFacts DEF AloneFrom, Loc
  <2>4. ProducedBy(0) = {{e} : e \in AloneFrom(vloc, "outgoing")}
    BY <1>4, <1>5
  <2> QED
    BY <1>2, <2>1, <2>2, <2>3, <2>4
<1>6. ASSUME AtEnd, direction = "incoming", Strong
      PROVE  AllProduced = LeadHere
  <2> DEFINE Here(X) ==
               \/ \E k \in 1 .. SyncCount : X \in Instances(system.syncs[k], vloc, "incoming")
               \/ \E e \in AloneFrom(vloc, "incoming") : X = {e}
  <2>1. /\ \A k \in 1 .. SyncCount : ProducedBy(k) = Instances(system.syncs[k], vloc, "incoming")
        /\ ProducedBy(0) = {{e} : e \in AloneFrom(vloc, "incoming")}
    BY <1>4, <1>6
  <2>2. LeadHere = {X \in SUBSET Edges : Here(X)}
    BY <1>1, <1>4, <1>6, LeadFacts DEF SyncCount
  <2>3. \A X : (\E n \in DOMAIN produced : X = VedgeEdges(produced[n].vedge))
                  <=> \E k \in 0 .. SyncCount : X \in ProducedBy(k)
    <3>1. \A n \in DOMAIN produced : produced[n].sync \in 0 .. SyncCount
      BY InvType DEF TypeOK, SyncCount
    <3> QED
      BY <3>1 DEF ProducedBy
  <2>4. \A k : k \in 0 .. SyncCount <=> (k = 0 \/ k \in 1 .. SyncCount)
    BY <1>2
  <2>5. \A X : (\E k \in 0 .. SyncCount : X \in ProducedBy(k)) <=> Here(X)
    BY <2>1, <2>4
  <2>6. \A X : Here(X) => X \in SUBSET Edges
    BY DEF Instances, AloneFrom
  <2> HIDE DEF Here
  <2>7. \A X : X \in AllProduced <=> Here(X)
    BY <2>3, <2>5 DEF AllProduced
  <2> QED
    BY <2>2, <2>6, <2>7
<1> QED
  BY <1>3, <1>5, <1>6 DEF EnumeratesAll, IncomingEdgesLeadHere

\* No tuple of edges is found that cannot be taken.
LEMMA InvCompatible == IInv => EdgesAreCompatible
<1> SUFFICES ASSUME IInv, NEW n \in DOMAIN successors
             PROVE  successors[n].status = "STATE_OK"
  BY DEF EdgesAreCompatible
<1>1. CASE phase = "initial"
  BY <1>1 DEF IInv
<1>2. CASE phase = "edges"
  BY <1>2, FollowedFacts
<1> QED
  BY <1>1, <1>2 DEF IInv

\* The nested iterators enumerate the global edges of a tuple of locations, all, each once
\* (synchronizer.hh, operator++ and advance_while_empty_cartesian_product; iterator.hh).
THEOREM EnumerationCorrect == Spec => []EnumeratesGlobalEdges
<1>1. IInv => EnumeratesGlobalEdges
  BY InvType, InvEnumerates, InvCompatible DEF EnumeratesGlobalEdges
<1> QED
  BY <1>1, InvariantCorrect, PTL

\* A step moves processes along a global edge, or starts them at an initial tuple.
LEMMA StepMoves == IInv /\ [Next]_vars => [Configured!Next]_<<system, vloc>>
<1> SUFFICES ASSUME IInv, [Next]_vars
             PROVE  [Configured!Next]_<<system, vloc>>
  OBVIOUS
<1>1. CASE Initialize
  <2>1. PICK d \in Directions : Begin(Values(initials), d)
    BY <1>1 DEF Initialize
  <2>2. phase = "initial" /\ ~ at_end(initials) /\ system' = system
    BY <1>1 DEF Initialize
  <2>3. vloc = NoVloc /\ system \in Systems /\ Inside(initials, system.initial)
    BY <2>2 DEF IInv, Exhausted
  <2>4. Values(initials) \in Configured!InitialVlocs(system)
    BY <2>3, InitialValues
  <2>5. vloc' = Values(initials)
    BY <2>1 DEF Begin
  <2> QED
    BY <2>2, <2>3, <2>4, <2>5 DEF Configured!Next, Configured!Start, Configured!Nowhere, NoVloc
<1>2. CASE Follow
  <2>1. PICK n \in DOMAIN successors, d \in Directions : Begin(successors[n].vloc, d)
    BY <1>2 DEF Follow
  <2>2. phase = "edges" /\ system' = system
    BY <1>2 DEF Follow
  <2>3. PICK X \in GlobalEdges(vloc) : successors[n] = Ok(Configured!Target(vloc, X))
    BY <2>2, FollowedFacts
  <2>4. vloc' = Configured!Target(vloc, X)
    BY <2>1, <2>3 DEF Begin, Ok
  <2>5. X \in SUBSET Configured!Edges(system) /\ Configured!IsGlobalEdge(system, vloc, X)
    BY DEF GlobalEdges, Edges, EdgesOf, Configured!Edges
  <2> QED
    BY <2>2, <2>4, <2>5 DEF Configured!Next, Configured!Move
<1>3. CASE NextInitial \/ Fill \/ Expand \/ UNCHANGED vars
  BY <1>3 DEF NextInitial, Fill, Expand, vars
<1> QED
  BY <1>1, <1>2, <1>3 DEF Next

\* The next initial tuple has the next rank.
LEMMA StepInOrder == IInv /\ [Next]_vars =>
  [initials' # initials => Rank(initials') = Rank(initials) + 1]_vars
<1> SUFFICES ASSUME IInv, Next, initials' # initials
             PROVE  Rank(initials') = Rank(initials) + 1
  OBVIOUS
<1>1. NextInitial
  BY DEF Next, Initialize, Fill, Expand, Follow
<1>2. ~ at_end(initials) /\ initials' = Advanced(initials)
  BY <1>1 DEF NextInitial
<1>3. system \in Systems /\ Inside(initials, system.initial)
  BY <1>2 DEF IInv, Exhausted
<1>4. PICK S : system.initial \in Seq(Seq(S))
  BY <1>3, InitialFacts
<1>5. Rank(Advanced(initials)) = Rank(initials) + 1
  BY <1>3, <1>4, AdvancedRank
<1> QED
  BY <1>2, <1>5

\* The locations of processes are those of the initial tuples, in the lexicographic order,
\* then move along global edges only (flat_system.hh, initialize and next).
THEOREM MovesCorrect == Spec => MovesAlongGlobalEdges
<1>1. Init => Configured!Init
  BY DEF Init, Configured!Init, Configured!Nowhere, NoVloc
<1> QED
  BY <1>1, InvariantCorrect, StepMoves, StepInOrder, PTL
     DEF Spec, MovesAlongGlobalEdges, InitialTuplesInOrder, Configured!Spec

=============================================================================
