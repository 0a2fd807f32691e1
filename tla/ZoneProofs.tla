------------------------------ MODULE ZoneProofs ------------------------------
(***************************************************************************)
(* Proofs about Dbm and Zone, for every number of clocks and every width   *)
(* of the bounds: in every order of the operations, a zone that is not told*)
(* empty is in canonical form, although tighten skips rows and columns; the*)
(* operations of the semantics are exact, and none loses a valuation; the  *)
(* extrapolations add none that is not simulated, and the comparisons of   *)
(* zones decide inclusion and simulation.  The steps of ZoneSemantics and  *)
(* of OffsetZoneSemantics lose no run; synchronize and to_dbm are exact.   *)
(***************************************************************************)
EXTENDS Zone, OffsetZoneSemantics, Loops, FiniteSetTheorems, TLAPS

-----------------------------------------------------------------------------
(* Bounds. *)

\* Bounds, and what a sum out of bounds gives.
Entries == Bound \cup {OutOfBounds}

\* The bounds that are values.
Proper(b) == b \in Entries \ {LT_INFINITY, OutOfBounds}

\* The bound of a path, whatever its size.
Plus(a, b) == 2 * (Value(a) + Value(b)) + Comparator(a) * Comparator(b)

\* The encoding of the bounds: what they are between, and which are values.
LEMMA BoundFacts ==
  /\ INF_VALUE \in Nat /\ INF_VALUE > 0
  /\ MAX_VALUE = INF_VALUE - 1 /\ MIN_VALUE = -INF_VALUE - 1
  /\ LT_INFINITY = 2 * INF_VALUE /\ OutOfBounds = 2 * MIN_VALUE - 1
  /\ LE_ZERO = 1 /\ LT_ZERO = 0
  /\ Entries = OutOfBounds .. LT_INFINITY
  /\ LE_ZERO \in Bound /\ LT_ZERO \in Bound /\ LT_INFINITY \in Bound
  /\ Proper(LE_ZERO) /\ Proper(LT_ZERO)
  /\ \A b : Proper(b) <=> b \in 2 * MIN_VALUE .. LT_INFINITY - 1
<1>1. INF_VALUE \in Nat /\ INF_VALUE > 0
  BY IntMaxAssumption DEF INF_VALUE
<1>2. /\ MAX_VALUE = INF_VALUE - 1 /\ MIN_VALUE = -INF_VALUE - 1
      /\ LT_INFINITY = 2 * INF_VALUE /\ OutOfBounds = 2 * MIN_VALUE - 1
      /\ LE_ZERO = 1 /\ LT_ZERO = 0
  BY <1>1 DEF MAX_VALUE, MIN_VALUE, LT_INFINITY, OutOfBounds, LE_ZERO, LT_ZERO, LT, LE
<1>3. Entries = OutOfBounds .. LT_INFINITY
  BY <1>1, <1>2 DEF Entries, Bound
<1>4. LE_ZERO \in Bound /\ LT_ZERO \in Bound /\ LT_INFINITY \in Bound
  BY <1>1, <1>2 DEF Bound
<1>5. \A b : Proper(b) <=> b \in 2 * MIN_VALUE .. LT_INFINITY - 1
  BY <1>1, <1>2, <1>3 DEF Proper
<1>6. Proper(LE_ZERO) /\ Proper(LT_ZERO)
  BY <1>1, <1>2, <1>5
<1> QED
  BY <1>1, <1>2, <1>3, <1>4, <1>5, <1>6

\* A bound is its value and its comparator.
LEMMA Parts ==
  ASSUME NEW a \in Int
  PROVE  /\ Value(a) \in Int /\ Comparator(a) \in {0, 1}
         /\ a = 2 * Value(a) + Comparator(a)
BY DEF Value, Comparator

\* An integer is made from its parts.
LEMMA PartsOf ==
  ASSUME NEW v \in Int, NEW c \in {0, 1}
  PROVE  Value(2 * v + c) = v /\ Comparator(2 * v + c) = c
BY DEF Value, Comparator

\* The parts of the bound of a path, which a bound of 0 does not change.
LEMMA PlusParts ==
  ASSUME NEW a \in Int, NEW b \in Int
  PROVE  /\ Plus(a, b) \in Int
         /\ Value(Plus(a, b)) = Value(a) + Value(b)
         /\ Comparator(Plus(a, b)) = Comparator(a) * Comparator(b)
         /\ Plus(a, b) = Plus(b, a)
         /\ Plus(a, LE_ZERO) = a /\ Plus(LE_ZERO, a) = a
<1>1. /\ Value(a) \in Int /\ Comparator(a) \in {0, 1} /\ a = 2 * Value(a) + Comparator(a)
      /\ Value(b) \in Int /\ Comparator(b) \in {0, 1}
  BY Parts
<1>2. Value(a) + Value(b) \in Int /\ Comparator(a) * Comparator(b) \in {0, 1}
  BY <1>1
<1>3. Value(LE_ZERO) = 0 /\ Comparator(LE_ZERO) = 1
  BY BoundFacts DEF Value, Comparator
<1>4. /\ Value(Plus(a, b)) = Value(a) + Value(b)
      /\ Comparator(Plus(a, b)) = Comparator(a) * Comparator(b)
  BY <1>2, PartsOf DEF Plus
<1>5. Plus(a, b) \in Int /\ Plus(a, b) = Plus(b, a)
  BY <1>1 DEF Plus
<1>6. Plus(a, LE_ZERO) = a /\ Plus(LE_ZERO, a) = a
  BY <1>1, <1>3 DEF Plus
<1> QED
  BY <1>4, <1>5, <1>6

\* The bound of a path of three clocks.
LEMMA PlusAssociates ==
  ASSUME NEW a \in Int, NEW b \in Int, NEW c \in Int
  PROVE  Plus(Plus(a, b), c) = Plus(a, Plus(b, c))
<1>1. /\ Value(a) \in Int /\ Comparator(a) \in {0, 1}
      /\ Value(b) \in Int /\ Comparator(b) \in {0, 1}
      /\ Value(c) \in Int /\ Comparator(c) \in {0, 1}
  BY Parts
<1>2. /\ Value(Plus(a, b)) = Value(a) + Value(b)
      /\ Comparator(Plus(a, b)) = Comparator(a) * Comparator(b)
      /\ Value(Plus(b, c)) = Value(b) + Value(c)
      /\ Comparator(Plus(b, c)) = Comparator(b) * Comparator(c)
  BY PlusParts
<1>3. Plus(Plus(a, b), c) =
        2 * (Value(Plus(a, b)) + Value(c)) + Comparator(Plus(a, b)) * Comparator(c)
  BY DEF Plus
<1>4. Plus(a, Plus(b, c)) =
        2 * (Value(a) + Value(Plus(b, c))) + Comparator(a) * Comparator(Plus(b, c))
  BY DEF Plus
<1> QED
  BY <1>1, <1>2, <1>3, <1>4

\* A path of lesser bounds has a lesser bound.
LEMMA PlusMonotone ==
  ASSUME NEW a \in Int, NEW b \in Int, NEW a2 \in Int, NEW b2 \in Int, a <= a2, b <= b2
  PROVE  Plus(a, b) <= Plus(a2, b2)
<1>1. ASSUME NEW c \in Int, NEW d \in Int, NEW d2 \in Int, d <= d2
      PROVE  Plus(c, d) <= Plus(c, d2)
  <2>1. /\ Value(c) \in Int /\ Comparator(c) \in {0, 1}
        /\ Value(d) \in Int /\ Comparator(d) \in {0, 1} /\ d = 2 * Value(d) + Comparator(d)
        /\ Value(d2) \in Int /\ Comparator(d2) \in {0, 1} /\ d2 = 2 * Value(d2) + Comparator(d2)
    BY Parts
  <2>2. \/ Value(d) < Value(d2)
        \/ Value(d) = Value(d2) /\ Comparator(d) <= Comparator(d2)
    BY <1>1, <2>1
  <2>3. Comparator(c) * Comparator(d) \in {0, 1} /\ Comparator(c) * Comparator(d2) \in {0, 1}
    BY <2>1
  <2>4. Comparator(d) <= Comparator(d2) =>
          Comparator(c) * Comparator(d) <= Comparator(c) * Comparator(d2)
    BY <2>1
  <2> QED
    BY <2>1, <2>2, <2>3, <2>4 DEF Plus
<1>2. Plus(a, b) <= Plus(a, b2)
  BY <1>1
<1>3. Plus(b2, a) <= Plus(b2, a2)
  BY <1>1
<1> QED
  BY <1>2, <1>3, PlusParts

\* The sum is the bound of the path, but when one of the bounds is not a value or
\* when it is out of bounds.
LEMMA SumFacts ==
  ASSUME NEW a \in Entries, NEW b \in Entries
  PROVE  /\ Sum(a, b) \in Entries
         /\ Proper(a) /\ Proper(b) =>
              \/ Sum(a, b) = OutOfBounds
              \/ Proper(Sum(a, b)) /\ Sum(a, b) = Plus(a, b)
         /\ OutOfBounds \in {a, b} => Sum(a, b) = OutOfBounds
         /\ a = LT_INFINITY /\ b # OutOfBounds => Sum(a, b) = LT_INFINITY
         /\ b = LT_INFINITY /\ a # OutOfBounds => Sum(a, b) = LT_INFINITY
         /\ Sum(a, LE_ZERO) = a /\ Sum(LE_ZERO, a) = a
<1>1. a \in Int /\ b \in Int
  BY BoundFacts
<1>2. /\ Value(a) \in Int /\ Comparator(a) \in {0, 1} /\ a = 2 * Value(a) + Comparator(a)
      /\ Value(b) \in Int /\ Comparator(b) \in {0, 1} /\ b = 2 * Value(b) + Comparator(b)
  BY <1>1, Parts
<1>3. Comparator(a) * Comparator(b) \in {0, 1}
  BY <1>2
<1>4. ASSUME Proper(a), Proper(b)
      PROVE  \/ Sum(a, b) = OutOfBounds
             \/ Proper(Sum(a, b)) /\ Sum(a, b) = Plus(a, b)
  <2>1. Sum(a, b) = MakeBound(Comparator(a) * Comparator(b), Value(a) + Value(b))
    BY <1>4 DEF Sum, Proper
  <2>2. CASE Value(a) + Value(b) \in MIN_VALUE .. MAX_VALUE
    <3>1. Sum(a, b) = Plus(a, b)
      BY <2>1, <2>2 DEF MakeBound, Plus
    <3>2. Plus(a, b) \in 2 * MIN_VALUE .. LT_INFINITY - 1
      <4>1. \A s \in MIN_VALUE .. MAX_VALUE, q \in {0, 1} :
              2 * s + q \in 2 * MIN_VALUE .. LT_INFINITY - 1
        BY BoundFacts
      <4> QED
        BY <1>3, <2>2, <4>1 DEF Plus
    <3> QED
      BY <3>1, <3>2, BoundFacts
  <2>3. CASE Value(a) + Value(b) \notin MIN_VALUE .. MAX_VALUE
    BY <2>1, <2>3 DEF MakeBound
  <2> QED
    BY <2>2, <2>3
<1>5. OutOfBounds \in {a, b} => Sum(a, b) = OutOfBounds
  BY DEF Sum
<1>6. LT_INFINITY # OutOfBounds
  BY BoundFacts
<1>7. /\ a = LT_INFINITY /\ b # OutOfBounds => Sum(a, b) = LT_INFINITY
      /\ b = LT_INFINITY /\ a # OutOfBounds => Sum(a, b) = LT_INFINITY
  BY <1>6 DEF Sum
<1>8. OutOfBounds \in Entries /\ LT_INFINITY \in Entries
  BY BoundFacts DEF Entries
<1>9. Sum(a, b) \in Entries
  BY <1>4, <1>5, <1>7, <1>8 DEF Proper
<1>10. Sum(a, LE_ZERO) = a /\ Sum(LE_ZERO, a) = a
  <2>1. LE_ZERO # OutOfBounds /\ LE_ZERO # LT_INFINITY
    BY BoundFacts
  <2>2. CASE a = OutOfBounds \/ a = LT_INFINITY
    BY <1>6, <2>1, <2>2 DEF Sum
  <2>3. CASE Proper(a)
    <3>1. Value(LE_ZERO) = 0 /\ Comparator(LE_ZERO) = 1
      BY BoundFacts DEF Value, Comparator
    <3>2. Value(a) \in MIN_VALUE .. MAX_VALUE
      BY <1>2, <2>3, BoundFacts
    <3>3. /\ Sum(a, LE_ZERO) = MakeBound(Comparator(a), Value(a))
          /\ Sum(LE_ZERO, a) = MakeBound(Comparator(a), Value(a))
      BY <1>2, <2>1, <2>3, <3>1 DEF Sum, Proper
    <3> QED
      BY <1>2, <3>2, <3>3 DEF MakeBound
  <2> QED
    BY <2>2, <2>3 DEF Proper
<1> QED
  BY <1>4, <1>5, <1>7, <1>9, <1>10

-----------------------------------------------------------------------------
(* Matrices that are being tightened. *)

EntryMatrices == [Clocks \X Clocks -> Entries]

\* The clocks, and the entries of matrices.
LEMMA ClockFacts ==
  /\ Clocks = 0 .. Dim - 1 /\ Dim \in Nat \ {0} /\ 0 \in Clocks
  /\ \A m \in EntryMatrices : \A x, y \in Clocks :
       m[<<x, y>>] \in Entries /\ m[<<x, y>>] \in Int
  /\ \A b \in Entries : b \in Int
BY DimAssumption, BoundFacts DEF Clocks, EntryMatrices

\* What is between the entries, in their order.
LEMMA EntryFacts ==
  /\ LT_INFINITY \in Int /\ LT_INFINITY > 1 /\ OutOfBounds \in Int /\ OutOfBounds < 0
  /\ LE_ZERO = 1 /\ Proper(LE_ZERO)
  /\ \A b \in Entries : /\ b \in Int /\ OutOfBounds <= b /\ b <= LT_INFINITY
                         /\ Proper(b) <=> b # OutOfBounds /\ b # LT_INFINITY
  /\ \A b : Proper(b) => b \in Entries /\ b \in Int /\ OutOfBounds < b /\ b < LT_INFINITY
BY BoundFacts DEF Proper

\* The least of two.
LEMMA MinFacts ==
  ASSUME NEW a \in Int, NEW b \in Int
  PROVE  /\ Min(a, b) \in {a, b} /\ Min(a, b) <= a /\ Min(a, b) <= b
BY DEF Min

\* What has stopped the loops.
LEMMA OutcomeFacts ==
  /\ Thrown \in EntryMatrices /\ Empty \in Matrices /\ Empty \in EntryMatrices
  /\ IsStopped(Thrown) /\ IsStopped(Empty) /\ IsEmpty0(Empty)
<1>1. LE_ZERO = 1 /\ LT_ZERO = 0 /\ OutOfBounds < 0 /\ OutOfBounds \in Entries
  BY BoundFacts
<1>2. LE_ZERO \in Bound /\ LT_ZERO \in Bound /\ LT_INFINITY \in Bound
  BY BoundFacts
<1>3. Empty \in Matrices /\ Empty[<<0, 0>>] = LT_ZERO
  BY <1>2, ClockFacts DEF Empty, Matrices
<1>4. Thrown \in EntryMatrices /\ Thrown[<<0, 0>>] = OutOfBounds
  BY <1>1, ClockFacts DEF Thrown, EntryMatrices
<1>5. Empty \in EntryMatrices
  BY <1>3 DEF Matrices, EntryMatrices, Entries
<1> QED
  BY <1>1, <1>3, <1>4, <1>5 DEF IsStopped, IsEmpty0

\* row[n] is what n iterations of the loop over the columns make of m.
IsRowLoop(row, m, i, z) ==
  /\ TightenRow(m, i, z) = row[Dim] /\ row[0] = m
  /\ \A j \in Clocks :
       row[j + 1] =
         [row[j] EXCEPT ![<<i, j>>] =
            Min(row[j][<<i, j>>], Sum(row[j][<<i, z>>], row[j][<<z, j>>]))]

\* The loop over the columns computes matrices.
LEMMA RowLoop ==
  ASSUME NEW m \in EntryMatrices, NEW i \in Clocks, NEW z \in Clocks
  PROVE  \E row \in [0 .. Dim -> EntryMatrices] : IsRowLoop(row, m, i, z)
<1> DEFINE Step(r, j) == [r EXCEPT ![<<i, j>>] = Min(r[<<i, j>>], Sum(r[<<i, z>>], r[<<z, j>>]))]
           F == [p \in Nat \X EntryMatrices |->
                   IF p[1] \in Clocks THEN Step(p[2], p[1]) ELSE p[2]]
           row[j \in 0 .. Dim] ==
             IF j = 0 THEN m
             ELSE LET r == row[j - 1]
                  IN [r EXCEPT ![<<i, j - 1>>] = Min(@, Sum(r[<<i, z>>], r[<<z, j - 1>>]))]
<1>1. TightenRow(m, i, z) = row[Dim]
  BY DEF TightenRow
<1>2. ASSUME NEW r \in EntryMatrices, NEW j \in Clocks PROVE Step(r, j) \in EntryMatrices
  <2>1. r[<<i, j>>] \in Entries /\ Sum(r[<<i, z>>], r[<<z, j>>]) \in Entries
    BY ClockFacts, SumFacts
  <2>2. Min(r[<<i, j>>], Sum(r[<<i, z>>], r[<<z, j>>])) \in Entries
    BY <2>1, MinFacts, ClockFacts
  <2> QED
    BY <2>2 DEF EntryMatrices
<1>3. F \in [Nat \X EntryMatrices -> EntryMatrices]
  BY <1>2
<1>4. PICK f \in [0 .. Dim -> EntryMatrices] :
        IsLoop(f, F, m, Dim)
  <2> HIDE DEF F
  <2>1. Dim \in Nat
    BY ClockFacts
  <2> QED
    BY <1>3, <2>1, Loop, Zenon
<1>5. \A n \in 0 .. Dim : n # 0 => n - 1 \in Clocks /\ n - 1 \in Nat /\ f[n - 1] \in EntryMatrices
  BY ClockFacts
<1>6. f = [n \in 0 .. Dim |->
             IF n = 0 THEN m
             ELSE LET r == f[n - 1]
                  IN [r EXCEPT ![<<i, n - 1>>] = Min(@, Sum(r[<<i, z>>], r[<<z, n - 1>>]))]]
  <2>1. \A n \in 0 .. Dim : n # 0 => F[<<n - 1, f[n - 1]>>] = Step(f[n - 1], n - 1)
    BY <1>5
  <2> HIDE DEF F
  <2> QED
    BY <1>4, <2>1 DEF IsLoop
<1>7. row = [n \in 0 .. Dim |->
               IF n = 0 THEN m
               ELSE LET r == row[n - 1]
                    IN [r EXCEPT ![<<i, n - 1>>] = Min(@, Sum(r[<<i, z>>], r[<<z, n - 1>>]))]]
  BY <1>6, Zenon DEF row
<1> HIDE DEF row, F
<1>8. \A n \in 0 .. Dim : row[n] = IF n = 0 THEN m ELSE Step(row[n - 1], n - 1)
  BY <1>7
<1>9. \A n \in 0 .. Dim : row[n] \in EntryMatrices
  <2> DEFINE S == {n \in 0 .. Dim : row[n] \in EntryMatrices}
  <2>0. 0 \in 0 .. Dim
    BY ClockFacts
  <2>1. 0 \in S
    BY <1>8, <2>0
  <2>2. \A n \in 0 .. Dim - 1 : n \in S => n + 1 \in S
    <3> SUFFICES ASSUME NEW n \in 0 .. Dim - 1, n \in S PROVE n + 1 \in S
      OBVIOUS
    <3>2. n + 1 \in 0 .. Dim /\ n \in Clocks /\ n + 1 # 0 /\ (n + 1) - 1 = n
      BY ClockFacts
    <3> HIDE DEF Step
    <3>1. row[n + 1] = Step(row[n], n)
      BY <1>8, <3>2
    <3> QED
      BY <1>2, <3>1, <3>2
  <2> HIDE DEF S
  <2>3. \A n \in 0 .. Dim : n \in S
    BY <2>1, <2>2, CountingTo, ClockFacts
  <2> QED
    BY <2>3 DEF S
<1>10. row[0] = m /\ \A j \in Clocks : row[j + 1] = Step(row[j], j)
  <2>1. \A j \in Clocks : j + 1 \in 0 .. Dim /\ j + 1 # 0 /\ (j + 1) - 1 = j
    BY ClockFacts
  <2>2. 0 \in 0 .. Dim
    BY ClockFacts
  <2> QED
    BY <1>8, <2>1, <2>2
<1>11. row \in [0 .. Dim -> EntryMatrices]
  BY <1>7, <1>9
<1> QED
  BY <1>1, <1>10, <1>11 DEF IsRowLoop

\* What the loop over the columns leaves alone: the other rows.  A row only decreases.
LEMMA RowFacts ==
  ASSUME NEW m \in EntryMatrices, NEW i \in Clocks, NEW z \in Clocks
  PROVE  /\ TightenRow(m, i, z) \in EntryMatrices
         /\ \A x, y \in Clocks : x # i => TightenRow(m, i, z)[<<x, y>>] = m[<<x, y>>]
         /\ \A y \in Clocks : TightenRow(m, i, z)[<<i, y>>] <= m[<<i, y>>]
<1>1. PICK row \in [0 .. Dim -> EntryMatrices] : IsRowLoop(row, m, i, z)
  BY RowLoop, Zenon
<1> DEFINE P(r) == \A x, y \in Clocks : /\ x # i => r[<<x, y>>] = m[<<x, y>>]
                                        /\ r[<<x, y>>] <= m[<<x, y>>]
           S == {n \in 0 .. Dim : P(row[n])}
<1>2. 0 \in S
  <2>1. \A x, y \in Clocks : m[<<x, y>>] <= m[<<x, y>>]
    <3>1. \A b \in Int : b <= b
      OBVIOUS
    <3> QED
      BY <3>1, ClockFacts
  <2> QED
    BY <1>1, <2>1, ClockFacts DEF IsRowLoop
<1>3. ASSUME NEW n \in 0 .. Dim - 1, n \in S PROVE n + 1 \in S
  <2>1. n \in Clocks /\ n \in 0 .. Dim /\ n + 1 \in 0 .. Dim
    BY ClockFacts
  <2>2. row[n] \in EntryMatrices /\ P(row[n])
    BY <1>3, <2>1
  <2> DEFINE v == Min(row[n][<<i, n>>], Sum(row[n][<<i, z>>], row[n][<<z, n>>]))
  <2>3. v <= row[n][<<i, n>>] /\ v \in Int
    <3>1. row[n][<<i, n>>] \in Entries /\ Sum(row[n][<<i, z>>], row[n][<<z, n>>]) \in Entries
      BY <2>1, <2>2, ClockFacts, SumFacts
    <3> QED
      BY <3>1, ClockFacts, MinFacts
  <2>4. row[n + 1] = [row[n] EXCEPT ![<<i, n>>] = v]
    BY <1>1, <2>1 DEF IsRowLoop
  <2> HIDE DEF v
  <2>5. \A x, y \in Clocks :
          row[n + 1][<<x, y>>] = IF x = i /\ y = n THEN v ELSE row[n][<<x, y>>]
    BY <2>1, <2>2, <2>4 DEF EntryMatrices
  <2>6. P(row[n + 1])
    <3> SUFFICES ASSUME NEW x \in Clocks, NEW y \in Clocks
                 PROVE  /\ x # i => row[n + 1][<<x, y>>] = m[<<x, y>>]
                        /\ row[n + 1][<<x, y>>] <= m[<<x, y>>]
      OBVIOUS
    <3>1. m[<<x, y>>] \in Int /\ row[n][<<x, y>>] \in Int
      BY <2>2, ClockFacts
    <3> QED
      BY <2>2, <2>3, <2>5, <3>1
  <2> QED
    BY <2>1, <2>6
<1> HIDE DEF S
<1>4. \A n \in 0 .. Dim : n \in S
  BY <1>2, <1>3, CountingTo, ClockFacts
<1>5. Dim \in 0 .. Dim
  BY ClockFacts
<1> QED
  BY <1>1, <1>4, <1>5 DEF IsRowLoop, S

\* The row through a clock z of bound 0 with itself: its bound with z does not change
\* on the way, so that the new bounds are those of the paths through z.
LEMMA RowExact ==
  ASSUME NEW m \in EntryMatrices, NEW i \in Clocks, NEW z \in Clocks,
         i # z, m[<<z, z>>] = LE_ZERO
  PROVE  \A y \in Clocks :
           TightenRow(m, i, z)[<<i, y>>] =
             Min(m[<<i, y>>], Sum(m[<<i, z>>], m[<<z, y>>]))
<1>1. PICK row \in [0 .. Dim -> EntryMatrices] : IsRowLoop(row, m, i, z)
  BY RowLoop, Zenon
<1> DEFINE new(y) == Min(m[<<i, y>>], Sum(m[<<i, z>>], m[<<z, y>>]))
           P(r, n) == /\ \A y \in Clocks : r[<<z, y>>] = m[<<z, y>>]
                      /\ \A y \in Clocks : r[<<i, y>>] = IF y < n THEN new(y) ELSE m[<<i, y>>]
           S == {n \in 0 .. Dim : P(row[n], n)}
<1>2. new(z) = m[<<i, z>>]
  BY SumFacts, ClockFacts DEF Min
<1> HIDE DEF new
<1>3. 0 \in S
  <2>1. \A y \in Clocks : ~ (y < 0)
    BY ClockFacts
  <2>2. 0 \in 0 .. Dim
    BY ClockFacts
  <2> QED
    BY <1>1, <2>1, <2>2 DEF IsRowLoop
<1>4. ASSUME NEW n \in 0 .. Dim - 1, n \in S PROVE n + 1 \in S
  <2>1. n \in Clocks /\ n \in 0 .. Dim /\ n + 1 \in 0 .. Dim
    BY ClockFacts
  <2>2. row[n] \in EntryMatrices /\ P(row[n], n)
    BY <1>4, <2>1
  <2>3. row[n][<<i, z>>] = m[<<i, z>>] /\ row[n][<<z, n>>] = m[<<z, n>>]
        /\ row[n][<<i, n>>] = m[<<i, n>>]
    BY <1>2, <2>1, <2>2
  <2>4. row[n + 1] = [row[n] EXCEPT ![<<i, n>>] = new(n)]
    BY <1>1, <2>1, <2>3 DEF IsRowLoop, new
  <2>5. \A x, y \in Clocks :
          row[n + 1][<<x, y>>] = IF x = i /\ y = n THEN new(n) ELSE row[n][<<x, y>>]
    BY <2>1, <2>2, <2>4 DEF EntryMatrices
  <2>6. \A y \in Clocks : y < n + 1 <=> y < n \/ y = n
    BY <2>1, ClockFacts
  <2>7. P(row[n + 1], n + 1)
    BY <2>1, <2>2, <2>5, <2>6
  <2> QED
    BY <2>1, <2>7
<1> HIDE DEF S
<1>5. \A n \in 0 .. Dim : n \in S
  BY <1>3, <1>4, CountingTo, ClockFacts
<1>6. Dim \in 0 .. Dim /\ \A y \in Clocks : y < Dim
  BY ClockFacts
<1> QED
  BY <1>1, <1>5, <1>6 DEF IsRowLoop, S, new

-----------------------------------------------------------------------------
(* Tightening through one clock. *)

\* A row that passes the check is in bounds and does not tell the zone empty.
LEMMA CheckFacts ==
  ASSUME NEW m \in EntryMatrices, NEW i \in Clocks
  PROVE  /\ CheckRow(m, i) \in EntryMatrices
         /\ \/ CheckRow(m, i) \in {Thrown, Empty}
            \/ /\ CheckRow(m, i) = m
               /\ ~ (m[<<i, i>>] < LE_ZERO)
               /\ \A y \in Clocks : m[<<i, y>>] # OutOfBounds
BY OutcomeFacts DEF CheckRow

\* An iteration of the loop over the rows.
ViaStep(t, i, z) ==
  IF IsStopped(t) \/ i = z \/ t[<<i, z>>] = LT_INFINITY THEN t
  ELSE CheckRow(TightenRow(t, i, z), i)

\* An iteration of the loop over the rows yields a matrix.
LEMMA ViaStepType ==
  ASSUME NEW t \in EntryMatrices, NEW i \in Clocks, NEW z \in Clocks
  PROVE  ViaStep(t, i, z) \in EntryMatrices
BY RowFacts, CheckFacts DEF ViaStep

\* rows[n] is what n iterations of the loop over the rows make of m.
IsViaLoop(rows, m, z) ==
  /\ TightenVia(m, z) = rows[Dim] /\ rows[0] = m
  /\ \A i \in Clocks : rows[i + 1] = ViaStep(rows[i], i, z)

\* The loop over the rows computes matrices.
LEMMA ViaLoop ==
  ASSUME NEW m \in EntryMatrices, NEW z \in Clocks
  PROVE  \E rows \in [0 .. Dim -> EntryMatrices] : IsViaLoop(rows, m, z)
<1> DEFINE F == [p \in Nat \X EntryMatrices |->
                   IF p[1] \in Clocks THEN ViaStep(p[2], p[1], z) ELSE p[2]]
           rows[n \in 0 .. Dim] ==
             IF n = 0 THEN m
             ELSE LET t == rows[n - 1]
                      i == n - 1
                  IN IF IsStopped(t) \/ i = z \/ t[<<i, z>>] = LT_INFINITY THEN t
                     ELSE CheckRow(TightenRow(t, i, z), i)
<1>1. TightenVia(m, z) = rows[Dim]
  BY DEF TightenVia
<1>2. F \in [Nat \X EntryMatrices -> EntryMatrices]
  BY ViaStepType
<1>3. PICK f \in [0 .. Dim -> EntryMatrices] : IsLoop(f, F, m, Dim)
  <2> HIDE DEF F
  <2>1. Dim \in Nat
    BY ClockFacts
  <2> QED
    BY <1>2, <2>1, Loop, Zenon
<1>4. \A n \in 0 .. Dim : n # 0 => n - 1 \in Clocks /\ n - 1 \in Nat /\ f[n - 1] \in EntryMatrices
  BY ClockFacts
<1>5. f = [n \in 0 .. Dim |->
             IF n = 0 THEN m
             ELSE LET t == f[n - 1]
                      i == n - 1
                  IN IF IsStopped(t) \/ i = z \/ t[<<i, z>>] = LT_INFINITY THEN t
                     ELSE CheckRow(TightenRow(t, i, z), i)]
  <2>1. \A n \in 0 .. Dim : n # 0 => F[<<n - 1, f[n - 1]>>] = ViaStep(f[n - 1], n - 1, z)
    BY <1>4
  <2> HIDE DEF F
  <2> QED
    BY <1>3, <2>1 DEF IsLoop, ViaStep
<1>6. rows = [n \in 0 .. Dim |->
                IF n = 0 THEN m
                ELSE LET t == rows[n - 1]
                         i == n - 1
                     IN IF IsStopped(t) \/ i = z \/ t[<<i, z>>] = LT_INFINITY THEN t
                        ELSE CheckRow(TightenRow(t, i, z), i)]
  BY <1>5, Zenon DEF rows
<1> HIDE DEF rows, F
<1>7. \A n \in 0 .. Dim : rows[n] = IF n = 0 THEN m ELSE ViaStep(rows[n - 1], n - 1, z)
  BY <1>6 DEF ViaStep
<1>8. rows[0] = m /\ \A i \in Clocks : rows[i + 1] = ViaStep(rows[i], i, z)
  <2>1. \A i \in Clocks : i + 1 \in 0 .. Dim /\ i + 1 # 0 /\ (i + 1) - 1 = i
    BY ClockFacts
  <2>2. 0 \in 0 .. Dim
    BY ClockFacts
  <2> QED
    BY <1>7, <2>1, <2>2
<1>9. \A n \in 0 .. Dim : rows[n] \in EntryMatrices
  <2> DEFINE S == {n \in 0 .. Dim : rows[n] \in EntryMatrices}
  <2>1. 0 \in S
    BY <1>8, ClockFacts
  <2>2. \A n \in 0 .. Dim - 1 : n \in S => n + 1 \in S
    <3> SUFFICES ASSUME NEW n \in 0 .. Dim - 1, n \in S PROVE n + 1 \in S
      OBVIOUS
    <3>1. n + 1 \in 0 .. Dim /\ n \in Clocks
      BY ClockFacts
    <3> QED
      BY <1>8, <3>1, ViaStepType
  <2> HIDE DEF S
  <2>3. \A n \in 0 .. Dim : n \in S
    BY <2>1, <2>2, CountingTo, ClockFacts
  <2> QED
    BY <2>3 DEF S
<1>10. rows \in [0 .. Dim -> EntryMatrices]
  BY <1>6, <1>9
<1> QED
  BY <1>1, <1>8, <1>10 DEF IsViaLoop

\* Row i of u is row i of m through z.
RowThrough(u, m, i, z) ==
  IF i = z \/ m[<<i, z>>] = LT_INFINITY THEN \A y \in Clocks : u[<<i, y>>] = m[<<i, y>>]
  ELSE \A y \in Clocks : /\ u[<<i, y>>] = Min(m[<<i, y>>], Sum(m[<<i, z>>], m[<<z, y>>]))
                         /\ u[<<i, y>>] # OutOfBounds

\* The rows before n of t are those of m through z, and the other rows are those of m.
IsVia(t, m, z, n) ==
  /\ t \in EntryMatrices /\ IsConsistent(t)
  /\ \A i \in Clocks : IF i < n THEN RowThrough(t, m, i, z)
                       ELSE \A y \in Clocks : t[<<i, y>>] = m[<<i, y>>]

\* Row z does not change before it has been used by all the others.
LEMMA ViaKeeps ==
  ASSUME NEW m \in EntryMatrices, NEW z \in Clocks, NEW n \in Clocks, NEW t,
         IsVia(t, m, z, n)
  PROVE  ViaStep(t, n, z) \in {Thrown, Empty} \/ IsVia(ViaStep(t, n, z), m, z, n + 1)
<1> DEFINE u == ViaStep(t, n, z)
<1>1. t \in EntryMatrices /\ IsConsistent(t) /\ ~ IsStopped(t)
  BY ClockFacts DEF IsVia, IsConsistent, IsStopped
<1>2. \A y \in Clocks : t[<<z, y>>] = m[<<z, y>>] /\ t[<<n, y>>] = m[<<n, y>>]
  <2>1. ~ (n < n)
    BY ClockFacts
  <2>2. RowThrough(t, m, z, z) => \A y \in Clocks : t[<<z, y>>] = m[<<z, y>>]
    BY DEF RowThrough
  <2> QED
    BY <2>1, <2>2 DEF IsVia
<1>3. \A i \in Clocks : i < n + 1 <=> i < n \/ i = n
  BY ClockFacts
<1>4. CASE n = z \/ m[<<n, z>>] = LT_INFINITY
  <2>1. u = t
    BY <1>2, <1>4 DEF ViaStep
  <2>2. RowThrough(t, m, n, z)
    BY <1>2, <1>4 DEF RowThrough
  <2> QED
    BY <1>3, <2>1, <2>2 DEF IsVia
<1>5. CASE n # z /\ m[<<n, z>>] # LT_INFINITY
  <2> DEFINE r == TightenRow(t, n, z)
  <2>1. u = CheckRow(r, n)
    BY <1>1, <1>2, <1>5 DEF ViaStep
  <2>2. /\ r \in EntryMatrices
        /\ \A x, y \in Clocks : x # n => r[<<x, y>>] = t[<<x, y>>]
        /\ \A y \in Clocks : r[<<n, y>>] <= t[<<n, y>>]
    BY <1>1, RowFacts
  <2>3. \A y \in Clocks : r[<<n, y>>] = Min(m[<<n, y>>], Sum(m[<<n, z>>], m[<<z, y>>]))
    <3>1. t[<<z, z>>] = LE_ZERO
      BY <1>1 DEF IsConsistent
    <3>2. \A y \in Clocks : r[<<n, y>>] = Min(t[<<n, y>>], Sum(t[<<n, z>>], t[<<z, y>>]))
      BY <1>1, <1>5, <3>1, RowExact
    <3> QED
      BY <1>2, <3>2
  <2> HIDE DEF r
  <2>4. \/ u \in {Thrown, Empty}
        \/ /\ u = r
           /\ ~ (r[<<n, n>>] < LE_ZERO)
           /\ \A y \in Clocks : r[<<n, y>>] # OutOfBounds
    BY <2>1, <2>2, CheckFacts
  <2>5. CASE /\ u = r
             /\ ~ (r[<<n, n>>] < LE_ZERO)
             /\ \A y \in Clocks : r[<<n, y>>] # OutOfBounds
    <3>1. r[<<n, n>>] = LE_ZERO
      <4>1. r[<<n, n>>] <= LE_ZERO /\ r[<<n, n>>] \in Int /\ LE_ZERO \in Int
        BY <1>1, <2>2, ClockFacts, BoundFacts DEF IsConsistent
      <4> QED
        BY <2>5, <4>1
    <3>2. IsConsistent(r)
      BY <1>1, <2>2, <3>1 DEF IsConsistent
    <3>3. RowThrough(r, m, n, z)
      BY <1>5, <2>3, <2>5 DEF RowThrough
    <3>4. \A i \in Clocks : i # n /\ RowThrough(t, m, i, z) => RowThrough(r, m, i, z)
      BY <2>2 DEF RowThrough
    <3>5. \A i \in Clocks :
            IF i < n + 1 THEN RowThrough(r, m, i, z)
            ELSE \A y \in Clocks : r[<<i, y>>] = m[<<i, y>>]
      <4> SUFFICES ASSUME NEW i \in Clocks
                   PROVE  IF i < n + 1 THEN RowThrough(r, m, i, z)
                          ELSE \A y \in Clocks : r[<<i, y>>] = m[<<i, y>>]
        OBVIOUS
      <4>1. CASE i = n
        BY <1>3, <3>3, <4>1
      <4>2. CASE i # n
        BY <1>3, <2>2, <3>4, <4>2 DEF IsVia
      <4> QED
        BY <4>1, <4>2
    <3> QED
      BY <2>2, <2>5, <3>2, <3>5 DEF IsVia
  <2> QED
    BY <2>4, <2>5
<1> QED
  BY <1>4, <1>5

\* The loop over the rows stops, or tightens all the rows but z through z.
LEMMA ViaFacts ==
  ASSUME NEW m \in EntryMatrices, IsConsistent(m), NEW z \in Clocks
  PROVE  TightenVia(m, z) \in {Thrown, Empty} \/ IsVia(TightenVia(m, z), m, z, Dim)
<1>1. PICK rows \in [0 .. Dim -> EntryMatrices] : IsViaLoop(rows, m, z)
  BY ViaLoop, Zenon
<1> DEFINE S == {n \in 0 .. Dim : rows[n] \in {Thrown, Empty} \/ IsVia(rows[n], m, z, n)}
<1>2. 0 \in S
  <2>1. \A i \in Clocks : ~ (i < 0)
    BY ClockFacts
  <2>2. 0 \in 0 .. Dim /\ rows[0] = m
    BY <1>1, ClockFacts DEF IsViaLoop
  <2> QED
    BY <2>1, <2>2 DEF IsVia
<1>3. ASSUME NEW n \in 0 .. Dim - 1, n \in S PROVE n + 1 \in S
  <2>1. n \in Clocks /\ n + 1 \in 0 .. Dim
    BY ClockFacts
  <2>2. rows[n + 1] = ViaStep(rows[n], n, z)
    BY <1>1, <2>1 DEF IsViaLoop
  <2>3. CASE rows[n] \in {Thrown, Empty}
    <3>1. rows[n + 1] = rows[n]
      BY <2>2, <2>3, OutcomeFacts DEF ViaStep
    <3> QED
      BY <2>1, <2>3, <3>1
  <2>4. CASE IsVia(rows[n], m, z, n)
    BY <2>1, <2>2, <2>4, ViaKeeps
  <2> QED
    BY <1>3, <2>3, <2>4
<1> HIDE DEF S
<1>4. \A n \in 0 .. Dim : n \in S
  BY <1>2, <1>3, CountingTo, ClockFacts
<1> QED
  BY <1>1, <1>4, ClockFacts DEF IsViaLoop, S

-----------------------------------------------------------------------------
(* Tight matrices. *)

\* The bound of x - y is a value when the bounds of x - z and z - y are, and it is at
\* most that of the path.
Triangle(m, x, z, y) ==
  Proper(m[<<x, z>>]) /\ Proper(m[<<z, y>>]) =>
    m[<<x, y>>] <= Plus(m[<<x, z>>], m[<<z, y>>]) /\ m[<<x, y>>] # LT_INFINITY

\* t is d with its bounds i - j replaced with e[i] + d[y, j] when that is less.
IsRelaxed(t, d, e, y) ==
  \A i, j \in Clocks :
    /\ t[<<i, j>>] <= d[<<i, j>>]
    /\ Proper(e[i]) /\ Proper(d[<<y, j>>]) =>
         t[<<i, j>>] <= Plus(e[i], d[<<y, j>>]) /\ t[<<i, j>>] # LT_INFINITY
    /\ \/ t[<<i, j>>] = d[<<i, j>>]
       \/ Proper(e[i]) /\ Proper(d[<<y, j>>]) /\ t[<<i, j>>] = Plus(e[i], d[<<y, j>>])

\* The bounds that are replaced are tight with the ones that are not, if d is tight
\* on the same paths, and if e is tight with d and makes no negative cycle with row y.
LEMMA RelaxedTriangle ==
  ASSUME NEW d \in EntryMatrices, NEW t \in EntryMatrices, NEW e \in [Clocks -> Entries],
         NEW y \in Clocks, NEW i \in Clocks, NEW k \in Clocks, NEW j \in Clocks,
         IsRelaxed(t, d, e, y),
         Triangle(d, i, k, j),
         Proper(d[<<i, k>>]) /\ Proper(e[k]) =>
           Proper(e[i]) /\ e[i] <= Plus(d[<<i, k>>], e[k]),
         t[<<i, k>>] # d[<<i, k>>] /\ Proper(d[<<y, k>>]) /\ Proper(d[<<k, j>>]) =>
           Proper(d[<<y, j>>]) /\ d[<<y, j>>] <= Plus(d[<<y, k>>], d[<<k, j>>]),
         Proper(d[<<y, k>>]) /\ Proper(e[k]) => LE_ZERO <= Plus(d[<<y, k>>], e[k])
  PROVE  Triangle(t, i, k, j)
<1> DEFINE dik == d[<<i, k>>]
           dkj == d[<<k, j>>]
           dyk == d[<<y, k>>]
           dyj == d[<<y, j>>]
           tij == t[<<i, j>>]
<1> SUFFICES ASSUME Proper(t[<<i, k>>]), Proper(t[<<k, j>>])
             PROVE  tij <= Plus(t[<<i, k>>], t[<<k, j>>]) /\ tij # LT_INFINITY
  BY DEF Triangle
<1>1. /\ dik \in Int /\ dkj \in Int /\ dyk \in Int /\ dyj \in Int /\ tij \in Int
      /\ e[i] \in Int /\ e[k] \in Int /\ d[<<i, j>>] \in Entries /\ tij <= d[<<i, j>>]
  BY ClockFacts DEF IsRelaxed
<1>2. Proper(e[i]) /\ Proper(dyj) => tij <= Plus(e[i], dyj) /\ tij # LT_INFINITY
  BY DEF IsRelaxed
<1>3. \/ t[<<i, k>>] = dik
      \/ Proper(e[i]) /\ Proper(dyk) /\ t[<<i, k>>] = Plus(e[i], dyk)
  BY DEF IsRelaxed
<1>4. \/ t[<<k, j>>] = dkj
      \/ Proper(e[k]) /\ Proper(dyj) /\ t[<<k, j>>] = Plus(e[k], dyj)
  BY DEF IsRelaxed
<1> HIDE DEF dik, dkj, dyk, dyj, tij
<1>5. CASE t[<<i, k>>] = dik /\ t[<<k, j>>] = dkj
  <2>1. d[<<i, j>>] <= Plus(dik, dkj) /\ d[<<i, j>>] # LT_INFINITY
    BY <1>5 DEF Triangle, dik, dkj
  <2>2. Plus(dik, dkj) \in Int
    BY <1>1, PlusParts
  <2>3. d[<<i, j>>] \in Int /\ d[<<i, j>>] < LT_INFINITY /\ LT_INFINITY \in Int
    BY <1>1, <2>1, EntryFacts
  <2> QED
    BY <1>1, <1>5, <2>1, <2>2, <2>3
<1>6. CASE t[<<i, k>>] = dik /\ Proper(e[k]) /\ Proper(dyj) /\ t[<<k, j>>] = Plus(e[k], dyj)
  <2>1. Proper(e[i]) /\ e[i] <= Plus(dik, e[k])
    BY <1>6 DEF dik
  <2>2. /\ Plus(dik, e[k]) \in Int /\ Plus(e[i], dyj) \in Int /\ Plus(Plus(dik, e[k]), dyj) \in Int
    BY <1>1, PlusParts
  <2>3. Plus(e[i], dyj) <= Plus(Plus(dik, e[k]), dyj)
    BY <1>1, <2>1, <2>2, PlusMonotone
  <2>4. Plus(Plus(dik, e[k]), dyj) = Plus(dik, Plus(e[k], dyj))
    BY <1>1, PlusAssociates
  <2> QED
    BY <1>1, <1>2, <1>6, <2>1, <2>2, <2>3, <2>4
<1>7. CASE t[<<i, k>>] # dik /\ Proper(e[i]) /\ Proper(dyk) /\ t[<<i, k>>] = Plus(e[i], dyk)
           /\ t[<<k, j>>] = dkj
  <2>1. Proper(dyj) /\ dyj <= Plus(dyk, dkj)
    BY <1>7 DEF dik, dkj, dyk, dyj
  <2>2. /\ Plus(dyk, dkj) \in Int /\ Plus(e[i], dyj) \in Int /\ Plus(e[i], Plus(dyk, dkj)) \in Int
    BY <1>1, PlusParts
  <2>3. Plus(e[i], dyj) <= Plus(e[i], Plus(dyk, dkj))
    BY <1>1, <2>1, <2>2, PlusMonotone
  <2>4. Plus(Plus(e[i], dyk), dkj) = Plus(e[i], Plus(dyk, dkj))
    BY <1>1, PlusAssociates
  <2> QED
    BY <1>1, <1>2, <1>7, <2>1, <2>2, <2>3, <2>4
<1>8. CASE /\ Proper(e[i]) /\ Proper(dyk) /\ t[<<i, k>>] = Plus(e[i], dyk)
           /\ Proper(e[k]) /\ Proper(dyj) /\ t[<<k, j>>] = Plus(e[k], dyj)
  <2>1. LE_ZERO <= Plus(dyk, e[k])
    BY <1>8 DEF dyk
  <2>2. /\ Plus(dyk, e[k]) \in Int /\ Plus(e[i], dyj) \in Int /\ Plus(e[k], dyj) \in Int
        /\ Plus(LE_ZERO, dyj) = dyj
    BY <1>1, PlusParts
  <2>7. Plus(Plus(dyk, e[k]), dyj) \in Int /\ LE_ZERO \in Int
    BY <1>1, <2>2, PlusParts, BoundFacts
  <2>3. dyj <= Plus(Plus(dyk, e[k]), dyj)
    <3>1. Plus(LE_ZERO, dyj) <= Plus(Plus(dyk, e[k]), dyj)
      BY <1>1, <2>1, <2>2, <2>7, PlusMonotone
    <3> QED
      BY <2>2, <3>1
  <2>4. Plus(Plus(dyk, e[k]), dyj) = Plus(dyk, Plus(e[k], dyj))
    BY <1>1, PlusAssociates
  <2>5. Plus(e[i], dyj) <= Plus(e[i], Plus(dyk, Plus(e[k], dyj)))
    BY <1>1, <2>3, <2>4, <2>7, PlusMonotone
  <2>6. Plus(e[i], Plus(dyk, Plus(e[k], dyj))) = Plus(Plus(e[i], dyk), Plus(e[k], dyj))
    BY <1>1, <2>2, PlusAssociates
  <2>8. Plus(e[i], Plus(dyk, Plus(e[k], dyj))) \in Int
    BY <1>1, <2>4, <2>7, PlusParts
  <2> QED
    BY <1>1, <1>2, <1>8, <2>2, <2>5, <2>6, <2>8
<1> QED
  BY <1>3, <1>4, <1>5, <1>6, <1>7, <1>8

Column(m, z) == [i \in Clocks |-> m[<<i, z>>]]

\* A row through z, one bound at a time.
LEMMA ThroughFacts ==
  ASSUME NEW a \in Entries, NEW b \in Entries, NEW c \in Entries, NEW d,
         d = Min(c, Sum(a, b)), d # OutOfBounds
  PROVE  /\ a # OutOfBounds /\ b # OutOfBounds /\ d <= c
         /\ Proper(a) /\ Proper(b) => d <= Plus(a, b) /\ d # LT_INFINITY
         /\ d = c \/ (Proper(a) /\ Proper(b) /\ d = Plus(a, b))
<1> DEFINE s == Sum(a, b)
<1>1. s \in Entries /\ d \in {c, s} /\ d <= c /\ d <= s
  BY SumFacts, MinFacts, EntryFacts
<1>2. s # OutOfBounds
  BY <1>1, EntryFacts
<1>3. a # OutOfBounds /\ b # OutOfBounds
  BY <1>2, SumFacts
<1>4. Proper(a) /\ Proper(b) => Proper(s) /\ s = Plus(a, b)
  BY <1>2, SumFacts
<1>5. ~ (Proper(a) /\ Proper(b)) => s = LT_INFINITY
  BY <1>3, SumFacts, EntryFacts
<1> HIDE DEF s
<1>6. s < LT_INFINITY => Proper(a) /\ Proper(b)
  BY <1>5, EntryFacts
<1>7. Proper(a) /\ Proper(b) => d <= Plus(a, b) /\ d # LT_INFINITY
  BY <1>1, <1>4, EntryFacts
<1>8. d = c \/ (Proper(a) /\ Proper(b) /\ d = Plus(a, b))
  <2>1. CASE s < LT_INFINITY
    BY <1>1, <1>4, <1>6, <2>1
  <2>2. CASE ~ (s < LT_INFINITY)
    <3>1. s = LT_INFINITY /\ c <= LT_INFINITY /\ c \in Int /\ LT_INFINITY \in Int
      BY <1>1, <2>2, EntryFacts
    <3> QED
      BY <1>1, <3>1
  <2> QED
    BY <2>1, <2>2
<1> QED
  BY <1>1, <1>3, <1>7, <1>8

\* The rows through z are relaxed with column z, and nothing stays out of bounds that
\* a row has been computed from.
LEMMA ViaRelaxed ==
  ASSUME NEW m \in EntryMatrices, IsConsistent(m), NEW z \in Clocks, NEW u,
         IsVia(u, m, z, Dim)
  PROVE  /\ IsRelaxed(u, m, Column(m, z), z)
         /\ \A x \in Clocks : m[<<x, z>>] # OutOfBounds
         /\ \A x, y \in Clocks : u[<<x, y>>] = OutOfBounds => m[<<x, y>>] = OutOfBounds
         /\ \A x, k, y \in Clocks : u[<<x, k>>] # m[<<x, k>>] => m[<<z, y>>] # OutOfBounds
<1>1. \A x \in Clocks : RowThrough(u, m, x, z)
  BY ClockFacts DEF IsVia
<1>2. m[<<z, z>>] = LE_ZERO
  BY DEF IsConsistent
<1>3. ASSUME NEW i \in Clocks, i = z \/ m[<<i, z>>] = LT_INFINITY
      PROVE  /\ m[<<i, z>>] # OutOfBounds
             /\ \A j \in Clocks : u[<<i, j>>] = m[<<i, j>>]
             /\ \A j \in Clocks :
                  Proper(m[<<i, z>>]) => u[<<i, j>>] = Plus(m[<<i, z>>], m[<<z, j>>])
  <2>1. \A j \in Clocks : u[<<i, j>>] = m[<<i, j>>]
    BY <1>1, <1>3 DEF RowThrough
  <2>2. m[<<i, z>>] # OutOfBounds
    BY <1>2, <1>3, EntryFacts
  <2>3. ASSUME NEW j \in Clocks, Proper(m[<<i, z>>])
        PROVE  u[<<i, j>>] = Plus(m[<<i, z>>], m[<<z, j>>])
    <3>1. i = z
      BY <1>3, <2>3, EntryFacts
    <3>2. Plus(LE_ZERO, m[<<z, j>>]) = m[<<z, j>>]
      <4>1. m[<<z, j>>] \in Int /\ LE_ZERO \in Int
        BY ClockFacts, EntryFacts
      <4> QED
        BY <4>1, PlusParts
    <3> QED
      BY <1>2, <2>1, <3>1, <3>2
  <2> QED
    BY <2>1, <2>2, <2>3
<1>4. ASSUME NEW i \in Clocks, ~ (i = z \/ m[<<i, z>>] = LT_INFINITY), NEW j \in Clocks
      PROVE  /\ u[<<i, j>>] # OutOfBounds
             /\ m[<<i, z>>] # OutOfBounds /\ m[<<z, j>>] # OutOfBounds
             /\ u[<<i, j>>] <= m[<<i, j>>]
             /\ Proper(m[<<i, z>>]) /\ Proper(m[<<z, j>>]) =>
                  u[<<i, j>>] <= Plus(m[<<i, z>>], m[<<z, j>>]) /\ u[<<i, j>>] # LT_INFINITY
             /\ \/ u[<<i, j>>] = m[<<i, j>>]
                \/ /\ Proper(m[<<i, z>>]) /\ Proper(m[<<z, j>>])
                   /\ u[<<i, j>>] = Plus(m[<<i, z>>], m[<<z, j>>])
  <2>1. /\ u[<<i, j>>] = Min(m[<<i, j>>], Sum(m[<<i, z>>], m[<<z, j>>]))
        /\ u[<<i, j>>] # OutOfBounds
    BY <1>1, <1>4 DEF RowThrough
  <2>2. m[<<i, j>>] \in Entries /\ m[<<i, z>>] \in Entries /\ m[<<z, j>>] \in Entries
    BY ClockFacts
  <2> QED
    BY <2>1, <2>2, ThroughFacts
<1>5. IsRelaxed(u, m, Column(m, z), z)
  <2> SUFFICES ASSUME NEW i \in Clocks, NEW j \in Clocks
               PROVE  /\ u[<<i, j>>] <= m[<<i, j>>]
                      /\ Proper(m[<<i, z>>]) /\ Proper(m[<<z, j>>]) =>
                           /\ u[<<i, j>>] <= Plus(m[<<i, z>>], m[<<z, j>>])
                           /\ u[<<i, j>>] # LT_INFINITY
                      /\ \/ u[<<i, j>>] = m[<<i, j>>]
                         \/ /\ Proper(m[<<i, z>>]) /\ Proper(m[<<z, j>>])
                            /\ u[<<i, j>>] = Plus(m[<<i, z>>], m[<<z, j>>])
    BY DEF IsRelaxed, Column
  <2>1. CASE i = z \/ m[<<i, z>>] = LT_INFINITY
    <3>1. u[<<i, j>>] = m[<<i, j>>] /\ m[<<i, j>>] \in Int
      BY <1>3, <2>1, ClockFacts
    <3>2. ASSUME Proper(m[<<i, z>>]), Proper(m[<<z, j>>])
          PROVE  u[<<i, j>>] = Plus(m[<<i, z>>], m[<<z, j>>]) /\ u[<<i, j>>] # LT_INFINITY
      <4>1. i = z
        BY <2>1, <3>2, EntryFacts
      <4> QED
        BY <1>3, <3>1, <3>2, <4>1, EntryFacts
    <3>3. \A b \in Int : b <= b
      OBVIOUS
    <3> QED
      BY <3>1, <3>2, <3>3
  <2>2. CASE ~ (i = z \/ m[<<i, z>>] = LT_INFINITY)
    BY <1>4, <2>2
  <2> QED
    BY <2>1, <2>2
<1>6. \A x \in Clocks : m[<<x, z>>] # OutOfBounds
  BY <1>3, <1>4
<1>7. \A x, y \in Clocks : u[<<x, y>>] = OutOfBounds => m[<<x, y>>] = OutOfBounds
  BY <1>3, <1>4
<1>8. \A x, k, y \in Clocks : u[<<x, k>>] # m[<<x, k>>] => m[<<z, y>>] # OutOfBounds
  BY <1>3, <1>4
<1> QED
  BY <1>5, <1>6, <1>7, <1>8

\* The matrix is tight for the paths through the clocks before n, whose columns are
\* in bounds.  It only decreases from e.
TightBefore(m, n) ==
  /\ \A x, k \in Clocks : k < n => m[<<x, k>>] # OutOfBounds
  /\ \A x, k, y \in Clocks : k < n => Triangle(m, x, k, y)

IsTightened(m, e, n) ==
  /\ m \in EntryMatrices /\ IsConsistent(m)
  /\ \A x, y \in Clocks : m[<<x, y>>] <= e[<<x, y>>]
  /\ TightBefore(m, n)

\* Tightening through z keeps what has been gained for the clocks before z.
LEMMA ViaTightens ==
  ASSUME NEW e \in EntryMatrices, NEW z \in Clocks, NEW m, IsTightened(m, e, z)
  PROVE  TightenVia(m, z) \in {Thrown, Empty} \/ IsTightened(TightenVia(m, z), e, z + 1)
<1> DEFINE u == TightenVia(m, z)
<1>1. m \in EntryMatrices /\ IsConsistent(m) /\ TightBefore(m, z)
  BY DEF IsTightened
<1>2. SUFFICES ASSUME IsVia(u, m, z, Dim) PROVE IsTightened(u, e, z + 1)
  BY <1>1, ViaFacts
<1> HIDE DEF u
<1> DEFINE c == Column(m, z)
<1>3. /\ IsRelaxed(u, m, c, z)
      /\ \A x \in Clocks : m[<<x, z>>] # OutOfBounds
      /\ \A x, y \in Clocks : u[<<x, y>>] = OutOfBounds => m[<<x, y>>] = OutOfBounds
      /\ \A x, k, y \in Clocks : u[<<x, k>>] # m[<<x, k>>] => m[<<z, y>>] # OutOfBounds
  BY <1>1, <1>2, ViaRelaxed
<1>4. u \in EntryMatrices /\ IsConsistent(u)
  BY <1>2 DEF IsVia
<1>5. c \in [Clocks -> Entries] /\ \A x \in Clocks : c[x] = m[<<x, z>>]
  BY <1>1, ClockFacts DEF Column
<1>6. \A k \in Clocks : k < z + 1 <=> k < z \/ k = z
  BY ClockFacts
<1>7. ASSUME NEW x \in Clocks, NEW y \in Clocks
      PROVE  /\ u[<<x, y>>] <= e[<<x, y>>]
             /\ u[<<x, z>>] = m[<<x, z>>] /\ u[<<z, y>>] = m[<<z, y>>]
  <2>1. u[<<x, y>>] <= m[<<x, y>>] /\ m[<<x, y>>] <= e[<<x, y>>]
    BY <1>3 DEF IsRelaxed, IsTightened
  <2>2. u[<<x, y>>] \in Int /\ m[<<x, y>>] \in Int /\ e[<<x, y>>] \in Int
    BY <1>1, <1>4, ClockFacts
  <2>3. u[<<z, y>>] = m[<<z, y>>]
    BY <1>2, ClockFacts DEF IsVia, RowThrough
  <2>4. Plus(m[<<x, z>>], LE_ZERO) = m[<<x, z>>]
    <3>1. m[<<x, z>>] \in Int
      BY <1>1, ClockFacts
    <3> QED
      BY <3>1, PlusParts, EntryFacts
  <2>5. u[<<x, z>>] = m[<<x, z>>]
    <3>1. m[<<z, z>>] = LE_ZERO
      BY <1>1 DEF IsConsistent
    <3> QED
      BY <1>3, <1>5, <2>4, <3>1 DEF IsRelaxed
  <2> QED
    BY <2>1, <2>2, <2>3, <2>5
<1>8. \A x, k \in Clocks : k < z + 1 => u[<<x, k>>] # OutOfBounds
  <2> SUFFICES ASSUME NEW x \in Clocks, NEW k \in Clocks, k < z + 1
               PROVE  u[<<x, k>>] # OutOfBounds
    OBVIOUS
  <2>1. CASE k = z
    BY <1>3, <2>1
  <2>2. CASE k # z
    BY <1>1, <1>3, <1>6, <2>2 DEF TightBefore
  <2> QED
    BY <2>1, <2>2
<1>9. ASSUME NEW x \in Clocks, NEW k \in Clocks, k < z, NEW y \in Clocks
      PROVE  Triangle(u, x, k, y)
  <2>1. /\ Triangle(m, x, k, y) /\ Triangle(m, x, k, z)
        /\ Triangle(m, z, k, y) /\ Triangle(m, z, k, z)
    BY <1>1, <1>9 DEF TightBefore
  <2>2. /\ m[<<x, z>>] \in Entries /\ m[<<z, y>>] \in Entries
        /\ m[<<x, z>>] # OutOfBounds
    BY <1>1, <1>3, ClockFacts
  <2>3. Proper(m[<<x, k>>]) /\ Proper(c[k]) => Proper(c[x]) /\ c[x] <= Plus(m[<<x, k>>], c[k])
    BY <1>5, <2>1, <2>2, EntryFacts DEF Triangle
  <2>4. u[<<x, k>>] # m[<<x, k>>] /\ Proper(m[<<z, k>>]) /\ Proper(m[<<k, y>>]) =>
          Proper(m[<<z, y>>]) /\ m[<<z, y>>] <= Plus(m[<<z, k>>], m[<<k, y>>])
    BY <1>3, <2>1, <2>2, EntryFacts DEF Triangle
  <2>5. Proper(m[<<z, k>>]) /\ Proper(c[k]) => LE_ZERO <= Plus(m[<<z, k>>], c[k])
    BY <1>1, <1>5, <2>1 DEF Triangle, IsConsistent
  <2> HIDE DEF c
  <2> QED
    BY <1>1, <1>3, <1>4, <1>5, <2>1, <2>3, <2>4, <2>5, RelaxedTriangle
<1>10. ASSUME NEW x \in Clocks, NEW y \in Clocks PROVE Triangle(u, x, z, y)
  BY <1>3, <1>5, <1>7 DEF Triangle, IsRelaxed
<1>11. \A x, k, y \in Clocks : k < z + 1 => Triangle(u, x, k, y)
  BY <1>6, <1>9, <1>10
<1> QED
  BY <1>4, <1>7, <1>8, <1>11 DEF IsTightened, TightBefore

\* Tightening through one clock yields a matrix.
LEMMA ViaType ==
  ASSUME NEW m \in EntryMatrices, NEW z \in Clocks
  PROVE  TightenVia(m, z) \in EntryMatrices
<1>1. PICK rows \in [0 .. Dim -> EntryMatrices] : IsViaLoop(rows, m, z)
  BY ViaLoop, Zenon
<1> QED
  BY <1>1, ClockFacts DEF IsViaLoop

\* When it has stopped, nothing changes any more.
LEMMA ViaStopped ==
  ASSUME NEW m \in {Thrown, Empty}, NEW z \in Clocks
  PROVE  TightenVia(m, z) = m
<1>1. m \in EntryMatrices /\ IsStopped(m)
  BY OutcomeFacts
<1>2. PICK rows \in [0 .. Dim -> EntryMatrices] : IsViaLoop(rows, m, z)
  BY <1>1, ViaLoop, Zenon
<1> DEFINE S == {n \in 0 .. Dim : rows[n] = m}
<1>3. 0 \in S
  BY <1>2, ClockFacts DEF IsViaLoop
<1>4. ASSUME NEW n \in 0 .. Dim - 1, n \in S PROVE n + 1 \in S
  <2>1. n \in Clocks /\ n + 1 \in 0 .. Dim
    BY ClockFacts
  <2> QED
    BY <1>1, <1>2, <1>4, <2>1 DEF IsViaLoop, ViaStep
<1> HIDE DEF S
<1>5. \A n \in 0 .. Dim : n \in S
  BY <1>3, <1>4, CountingTo, ClockFacts
<1> QED
  BY <1>2, <1>5, ClockFacts DEF IsViaLoop, S

\* tight[n] is what tightening through the clocks before n makes of m.
IsThroughLoop(tight, m, N) ==
  /\ TightenThrough(m, N) = tight[N] /\ tight[0] = m
  /\ \A k \in 0 .. N - 1 : tight[k + 1] = TightenVia(tight[k], k)

\* The loop over the clocks computes matrices.
LEMMA ThroughLoop ==
  ASSUME NEW m \in EntryMatrices, NEW N \in 0 .. Dim
  PROVE  \E tight \in [0 .. N -> EntryMatrices] : IsThroughLoop(tight, m, N)
<1> DEFINE F == [p \in Nat \X EntryMatrices |->
                   IF p[1] \in Clocks THEN TightenVia(p[2], p[1]) ELSE p[2]]
           tight[k \in 0 .. N] == IF k = 0 THEN m ELSE TightenVia(tight[k - 1], k - 1)
<1>1. TightenThrough(m, N) = tight[N]
  BY DEF TightenThrough
<1>2. F \in [Nat \X EntryMatrices -> EntryMatrices]
  BY ViaType
<1>3. PICK f \in [0 .. N -> EntryMatrices] : IsLoop(f, F, m, N)
  <2> HIDE DEF F
  <2>1. N \in Nat
    BY ClockFacts
  <2> QED
    BY <1>2, <2>1, Loop, Zenon
<1>4. \A n \in 0 .. N : n # 0 => n - 1 \in Clocks /\ n - 1 \in Nat /\ f[n - 1] \in EntryMatrices
  BY ClockFacts
<1>5. f = [k \in 0 .. N |-> IF k = 0 THEN m ELSE TightenVia(f[k - 1], k - 1)]
  <2>1. \A n \in 0 .. N : n # 0 => F[<<n - 1, f[n - 1]>>] = TightenVia(f[n - 1], n - 1)
    BY <1>4
  <2> HIDE DEF F
  <2> QED
    BY <1>3, <2>1 DEF IsLoop
<1>6. tight = [k \in 0 .. N |-> IF k = 0 THEN m ELSE TightenVia(tight[k - 1], k - 1)]
  BY <1>5, Zenon DEF tight
<1> HIDE DEF tight, F
<1>7. tight[0] = m /\ \A k \in 0 .. N - 1 : tight[k + 1] = TightenVia(tight[k], k)
  <2>1. \A k \in 0 .. N - 1 : k + 1 \in 0 .. N /\ k + 1 # 0 /\ (k + 1) - 1 = k
    BY ClockFacts
  <2>2. 0 \in 0 .. N
    BY ClockFacts
  <2> QED
    BY <1>6, <2>1, <2>2
<1>8. \A n \in 0 .. N : tight[n] \in EntryMatrices
  <2> DEFINE S == {n \in 0 .. N : tight[n] \in EntryMatrices}
  <2>1. 0 \in S
    BY <1>7, ClockFacts
  <2>2. \A n \in 0 .. N - 1 : n \in S => n + 1 \in S
    <3> SUFFICES ASSUME NEW n \in 0 .. N - 1, n \in S PROVE n + 1 \in S
      OBVIOUS
    <3>1. n + 1 \in 0 .. N /\ n \in Clocks
      BY ClockFacts
    <3> QED
      BY <1>7, <3>1, ViaType
  <2> HIDE DEF S
  <2>3. \A n \in 0 .. N : n \in S
    BY <2>1, <2>2, CountingTo, ClockFacts
  <2> QED
    BY <2>3 DEF S
<1>9. tight \in [0 .. N -> EntryMatrices]
  BY <1>6, <1>8
<1> QED
  BY <1>1, <1>7, <1>9 DEF IsThroughLoop

\* tighten(dbm, dim) stops, or it makes the matrix tight, although it skips row z and
\* the rows without a bound through z when it goes through z.
LEMMA TightenFacts ==
  ASSUME NEW e \in EntryMatrices, IsConsistent(e)
  PROVE  Tighten(e) \in {Thrown, Empty} \/ IsTightened(Tighten(e), e, Dim)
<1>1. PICK tight \in [0 .. Dim -> EntryMatrices] : IsThroughLoop(tight, e, Dim)
  <2>1. Dim \in 0 .. Dim
    BY ClockFacts
  <2> QED
    BY <2>1, ThroughLoop, Zenon
<1> DEFINE S == {n \in 0 .. Dim : tight[n] \in {Thrown, Empty} \/ IsTightened(tight[n], e, n)}
<1>2. 0 \in S
  <2>1. \A k \in Clocks : ~ (k < 0)
    BY ClockFacts
  <2>2. \A x, y \in Clocks : e[<<x, y>>] <= e[<<x, y>>]
    <3>1. \A b \in Int : b <= b
      OBVIOUS
    <3> QED
      BY <3>1, ClockFacts
  <2>3. IsTightened(e, e, 0)
    BY <2>1, <2>2 DEF IsTightened, TightBefore
  <2> QED
    BY <1>1, <2>3, ClockFacts DEF IsThroughLoop
<1>3. ASSUME NEW n \in 0 .. Dim - 1, n \in S PROVE n + 1 \in S
  <2>1. n \in Clocks /\ n + 1 \in 0 .. Dim
    BY ClockFacts
  <2>2. tight[n + 1] = TightenVia(tight[n], n)
    BY <1>1, <2>1 DEF IsThroughLoop
  <2>3. CASE tight[n] \in {Thrown, Empty}
    <3>1. tight[n + 1] = tight[n]
      BY <2>1, <2>2, <2>3, ViaStopped
    <3> QED
      BY <2>1, <2>3, <3>1
  <2>4. CASE IsTightened(tight[n], e, n)
    BY <2>1, <2>2, <2>4, ViaTightens
  <2> QED
    BY <1>3, <2>3, <2>4
<1> HIDE DEF S
<1>4. \A n \in 0 .. Dim : n \in S
  BY <1>2, <1>3, CountingTo, ClockFacts
<1> QED
  BY <1>1, <1>4, ClockFacts DEF IsThroughLoop, S, Tighten

\* A zone that the functions of dbm.cc compute with.
Tightly(m) == \A x, z, y \in Clocks : Triangle(m, x, z, y)

Good(m) == m \in Matrices /\ IsConsistent(m) /\ Tightly(m)

\* What has been tightened through all the clocks can be computed with.
LEMMA TightenedIsGood ==
  ASSUME NEW e \in EntryMatrices, NEW m, IsTightened(m, e, Dim)
  PROVE  Good(m)
<1>1. m \in EntryMatrices /\ IsConsistent(m) /\ \A k \in Clocks : k < Dim
  BY ClockFacts DEF IsTightened
<1>2. \A x, y \in Clocks : m[<<x, y>>] # OutOfBounds
  BY <1>1 DEF IsTightened, TightBefore
<1>3. \A x, y \in Clocks : m[<<x, y>>] \in Bound
  <2>1. \A x, y \in Clocks : m[<<x, y>>] \in Entries
    BY <1>1, ClockFacts
  <2> QED
    BY <1>2, <2>1 DEF Entries
<1>4. m \in Matrices
  BY <1>1, <1>3 DEF EntryMatrices, Matrices
<1>5. Tightly(m)
  BY <1>1 DEF IsTightened, TightBefore, Tightly
<1> QED
  BY <1>1, <1>4, <1>5 DEF Good

-----------------------------------------------------------------------------
(* Tightening when one bound has changed. *)

\* An iteration of the loop over the rows.
FromStep(t, x, y, i) == IF IsStopped(t) THEN t ELSE TightenOne(t, x, y, i)

\* An iteration of the loop over the rows yields a matrix.
LEMMA FromStepType ==
  ASSUME NEW t \in EntryMatrices, NEW x \in Clocks, NEW y \in Clocks, NEW i \in Clocks
  PROVE  FromStep(t, x, y, i) \in EntryMatrices
<1> DEFINE ixy == Sum(t[<<i, x>>], t[<<x, y>>])
           s == [t EXCEPT ![<<i, y>>] = ixy]
<1>1. ixy \in Entries
  BY SumFacts, ClockFacts
<1> HIDE DEF ixy
<1>2. s \in EntryMatrices
  BY <1>1 DEF EntryMatrices
<1> HIDE DEF s
<1>3. TightenRow(t, x, y) \in EntryMatrices /\ TightenRow(s, i, y) \in EntryMatrices
  BY <1>2, RowFacts
<1>4. /\ CheckRow(TightenRow(t, x, y), x) \in EntryMatrices
      /\ CheckRow(TightenRow(s, i, y), i) \in EntryMatrices
  BY <1>3, CheckFacts
<1> QED
  BY <1>4 DEF FromStep, TightenOne, s, ixy

\* tight[n] is what n iterations of the loop over the rows make of m.
IsFromLoop(tight, m, x, y) ==
  /\ m[<<x, y>>] # LT_INFINITY => TightenFrom(m, x, y) = tight[Dim]
  /\ tight[0] = m
  /\ \A i \in Clocks : tight[i + 1] = FromStep(tight[i], x, y, i)

\* The loop over the rows computes matrices.
LEMMA FromLoop ==
  ASSUME NEW m \in EntryMatrices, NEW x \in Clocks, NEW y \in Clocks
  PROVE  \E tight \in [0 .. Dim -> EntryMatrices] : IsFromLoop(tight, m, x, y)
<1> DEFINE F == [p \in Nat \X EntryMatrices |->
                   IF p[1] \in Clocks THEN FromStep(p[2], x, y, p[1]) ELSE p[2]]
           tight[n \in 0 .. Dim] ==
             IF n = 0 THEN m
             ELSE LET t == tight[n - 1]
                  IN IF IsStopped(t) THEN t ELSE TightenOne(t, x, y, n - 1)
<1>1. m[<<x, y>>] # LT_INFINITY => TightenFrom(m, x, y) = tight[Dim]
  BY DEF TightenFrom
<1>2. F \in [Nat \X EntryMatrices -> EntryMatrices]
  BY FromStepType
<1>3. PICK f \in [0 .. Dim -> EntryMatrices] : IsLoop(f, F, m, Dim)
  <2> HIDE DEF F
  <2>1. Dim \in Nat
    BY ClockFacts
  <2> QED
    BY <1>2, <2>1, Loop, Zenon
<1>4. \A n \in 0 .. Dim : n # 0 => n - 1 \in Clocks /\ n - 1 \in Nat /\ f[n - 1] \in EntryMatrices
  BY ClockFacts
<1>5. f = [n \in 0 .. Dim |->
             IF n = 0 THEN m
             ELSE LET t == f[n - 1]
                  IN IF IsStopped(t) THEN t ELSE TightenOne(t, x, y, n - 1)]
  <2>1. \A n \in 0 .. Dim : n # 0 => F[<<n - 1, f[n - 1]>>] = FromStep(f[n - 1], x, y, n - 1)
    BY <1>4
  <2> HIDE DEF F
  <2> QED
    BY <1>3, <2>1 DEF IsLoop, FromStep
<1>6. tight = [n \in 0 .. Dim |->
                 IF n = 0 THEN m
                 ELSE LET t == tight[n - 1]
                      IN IF IsStopped(t) THEN t ELSE TightenOne(t, x, y, n - 1)]
  BY <1>5, Zenon DEF tight
<1> HIDE DEF tight, F
<1>7. tight[0] = m /\ \A i \in Clocks : tight[i + 1] = FromStep(tight[i], x, y, i)
  <2>1. \A i \in Clocks : i + 1 \in 0 .. Dim /\ i + 1 # 0 /\ (i + 1) - 1 = i
    BY ClockFacts
  <2>2. 0 \in 0 .. Dim
    BY ClockFacts
  <2> QED
    BY <1>6, <2>1, <2>2 DEF FromStep
<1>8. \A n \in 0 .. Dim : tight[n] \in EntryMatrices
  <2> DEFINE S == {n \in 0 .. Dim : tight[n] \in EntryMatrices}
  <2>1. 0 \in S
    BY <1>7, ClockFacts
  <2>2. \A n \in 0 .. Dim - 1 : n \in S => n + 1 \in S
    <3> SUFFICES ASSUME NEW n \in 0 .. Dim - 1, n \in S PROVE n + 1 \in S
      OBVIOUS
    <3>1. n + 1 \in 0 .. Dim /\ n \in Clocks
      BY ClockFacts
    <3> QED
      BY <1>7, <3>1, FromStepType
  <2> HIDE DEF S
  <2>3. \A n \in 0 .. Dim : n \in S
    BY <2>1, <2>2, CountingTo, ClockFacts
  <2> QED
    BY <2>3 DEF S
<1>9. tight \in [0 .. Dim -> EntryMatrices]
  BY <1>6, <1>8
<1> QED
  BY <1>1, <1>7, <1>9 DEF IsFromLoop

\* Row i of t is tight with the bound b of x - y, if d is tight without.
FromRow(t, d, x, y, b, i) ==
  /\ \A j \in Clocks :
       /\ t[<<i, j>>] # OutOfBounds
       /\ t[<<i, j>>] <= d[<<i, j>>]
       /\ Proper(t[<<i, y>>]) /\ Proper(d[<<y, j>>]) =>
            t[<<i, j>>] <= Plus(t[<<i, y>>], d[<<y, j>>]) /\ t[<<i, j>>] # LT_INFINITY
       /\ \/ t[<<i, j>>] = d[<<i, j>>]
          \/ /\ Proper(t[<<i, y>>]) /\ Proper(d[<<y, j>>])
             /\ t[<<i, j>>] = Plus(t[<<i, y>>], d[<<y, j>>])
  /\ \/ t[<<i, y>>] = d[<<i, y>>]
     \/ Proper(d[<<i, x>>]) /\ t[<<i, y>>] = Plus(d[<<i, x>>], b)
  /\ Proper(d[<<i, x>>]) =>
       t[<<i, y>>] <= Plus(d[<<i, x>>], b) /\ t[<<i, y>>] # LT_INFINITY

\* A row that goes through x and y.
LEMMA FromRowChanged ==
  ASSUME NEW d, Good(d), NEW x \in Clocks, NEW y \in Clocks, NEW b, Proper(b),
         NEW i \in Clocks, NEW q, q = Sum(d[<<i, x>>], b), q < d[<<i, y>>],
         NEW r \in EntryMatrices,
         \A j \in Clocks :
           /\ r[<<i, j>>] = Min(IF j = y THEN q ELSE d[<<i, j>>], Sum(q, d[<<y, j>>]))
           /\ r[<<i, j>>] # OutOfBounds
  PROVE  r[<<i, y>>] = q /\ FromRow(r, d, x, y, b, i)
<1>1. /\ d \in Matrices /\ d \in EntryMatrices /\ d[<<y, y>>] = LE_ZERO
      /\ b \in Entries /\ b \in Int
      /\ \A j, k \in Clocks : d[<<j, k>>] \in Entries /\ d[<<j, k>>] # OutOfBounds
  <2>1. d \in Matrices /\ d[<<y, y>>] = LE_ZERO
    BY DEF Good, IsConsistent
  <2>2. OutOfBounds \notin Bound
    BY BoundFacts DEF Bound
  <2>3. \A j, k \in Clocks : d[<<j, k>>] \in Bound
    BY <2>1 DEF Matrices
  <2>4. d \in EntryMatrices
    BY <2>1 DEF Matrices, EntryMatrices, Entries
  <2>5. \A j, k \in Clocks : d[<<j, k>>] \in Entries /\ d[<<j, k>>] # OutOfBounds
    BY <2>2, <2>3 DEF Entries
  <2> QED
    BY <2>1, <2>4, <2>5, EntryFacts
<1>2. q \in Entries /\ Sum(q, LE_ZERO) = q
  <2>1. d[<<i, x>>] \in Entries
    BY <1>1
  <2>2. q \in Entries
    BY <1>1, <2>1, SumFacts
  <2> QED
    BY <2>2, <1>1, SumFacts
<1>3. r[<<i, y>>] = q
  BY <1>1, <1>2 DEF Min
<1>4. Proper(q)
  <2>1. q # OutOfBounds
    BY <1>3
  <2>2. d[<<i, y>>] \in Entries
    BY <1>1
  <2> QED
    BY <1>2, <2>1, <2>2, EntryFacts
<1>5. Proper(d[<<i, x>>]) /\ q = Plus(d[<<i, x>>], b)
  <2>1. d[<<i, x>>] \in Entries /\ d[<<i, x>>] # OutOfBounds
    BY <1>1
  <2>2. b # OutOfBounds /\ q # LT_INFINITY /\ q # OutOfBounds
    BY <1>4, EntryFacts
  <2>3. d[<<i, x>>] # LT_INFINITY
    BY <1>1, <2>1, <2>2, SumFacts
  <2>4. Proper(d[<<i, x>>])
    BY <2>1, <2>3, EntryFacts
  <2> QED
    BY <1>1, <2>1, <2>2, <2>4, SumFacts
<1>6. ASSUME NEW j \in Clocks
      PROVE  /\ r[<<i, j>>] # OutOfBounds
             /\ r[<<i, j>>] <= d[<<i, j>>]
             /\ Proper(q) /\ Proper(d[<<y, j>>]) =>
                  r[<<i, j>>] <= Plus(q, d[<<y, j>>]) /\ r[<<i, j>>] # LT_INFINITY
             /\ \/ r[<<i, j>>] = d[<<i, j>>]
                \/ Proper(q) /\ Proper(d[<<y, j>>]) /\ r[<<i, j>>] = Plus(q, d[<<y, j>>])
  <2>1. CASE j = y
    <3>1. r[<<i, j>>] = q /\ Proper(d[<<y, j>>]) /\ Plus(q, d[<<y, j>>]) = q
      BY <1>1, <1>2, <1>3, <2>1, EntryFacts, PlusParts
    <3>2. q \in Int /\ d[<<i, j>>] \in Int /\ q < d[<<i, j>>] /\ q # LT_INFINITY
      <4>1. d[<<i, y>>] \in Int
        BY <1>1, EntryFacts
      <4> QED
        BY <1>4, <2>1, <4>1, EntryFacts
    <3>3. r[<<i, j>>] <= d[<<i, j>>] /\ q <= q
      BY <3>1, <3>2
    <3> QED
      BY <1>4, <3>1, <3>2, <3>3, EntryFacts
  <2>2. CASE j # y
    <3>1. r[<<i, j>>] = Min(d[<<i, j>>], Sum(q, d[<<y, j>>])) /\ r[<<i, j>>] # OutOfBounds
      BY <2>2
    <3>2. d[<<i, j>>] \in Entries /\ d[<<y, j>>] \in Entries
      BY <1>1
    <3> QED
      BY <1>2, <3>1, <3>2, ThroughFacts
  <2> QED
    BY <2>1, <2>2
<1>7. q <= Plus(d[<<i, x>>], b) /\ q # LT_INFINITY
  <2>1. \A a \in Int : a <= a
    OBVIOUS
  <2> QED
    BY <1>2, <1>4, <1>5, <2>1, EntryFacts
<1> QED
  BY <1>3, <1>5, <1>6, <1>7 DEF FromRow

\* A row that is tight already.
LEMMA FromRowSkipped ==
  ASSUME NEW d, Good(d), NEW x \in Clocks, NEW y \in Clocks, NEW b, Proper(b),
         NEW i \in Clocks, NEW t \in EntryMatrices,
         \A j \in Clocks : t[<<i, j>>] = d[<<i, j>>],
         Sum(d[<<i, x>>], b) >= d[<<i, y>>]
  PROVE  FromRow(t, d, x, y, b, i)
<1>1. \A j, k \in Clocks : d[<<j, k>>] \in Entries /\ d[<<j, k>>] # OutOfBounds
  <2>1. OutOfBounds \notin Bound
    BY BoundFacts DEF Bound
  <2>2. \A j, k \in Clocks : d[<<j, k>>] \in Bound
    BY DEF Good, Matrices
  <2> QED
    BY <2>1, <2>2 DEF Entries
<1>2. ASSUME NEW j \in Clocks
      PROVE  /\ d[<<i, j>>] # OutOfBounds
             /\ d[<<i, j>>] <= d[<<i, j>>]
             /\ Proper(d[<<i, y>>]) /\ Proper(d[<<y, j>>]) =>
                  d[<<i, j>>] <= Plus(d[<<i, y>>], d[<<y, j>>]) /\ d[<<i, j>>] # LT_INFINITY
  <2>1. d[<<i, j>>] \in Int
    BY <1>1, EntryFacts
  <2>2. Triangle(d, i, y, j)
    BY DEF Good, Tightly
  <2> QED
    BY <1>1, <2>1, <2>2 DEF Triangle
<1>3. ASSUME Proper(d[<<i, x>>])
      PROVE  d[<<i, y>>] <= Plus(d[<<i, x>>], b) /\ d[<<i, y>>] # LT_INFINITY
  <2> DEFINE s == Sum(d[<<i, x>>], b)
  <2>1. d[<<i, y>>] \in Entries /\ d[<<i, y>>] # OutOfBounds
    BY <1>1
  <2>2. s = OutOfBounds \/ (Proper(s) /\ s = Plus(d[<<i, x>>], b))
    BY <1>3, SumFacts, EntryFacts
  <2>3. s >= d[<<i, y>>]
    OBVIOUS
  <2> HIDE DEF s
  <2>4. s # OutOfBounds
    BY <2>1, <2>3, EntryFacts
  <2> QED
    BY <2>1, <2>2, <2>3, <2>4, EntryFacts
<1> QED
  BY <1>2, <1>3 DEF FromRow

\* The rows before n have been tightened, and the others are as they were.
IsFrom(t, d, x, y, b, n) ==
  /\ t \in EntryMatrices /\ IsConsistent(t) /\ t[<<x, y>>] = b
  /\ \A j \in Clocks : t[<<y, j>>] = d[<<y, j>>]
  /\ \A i \in Clocks :
       IF i < n THEN FromRow(t, d, x, y, b, i)
       ELSE \A j \in Clocks : t[<<i, j>>] = IF i = x /\ j = y THEN b ELSE d[<<i, j>>]

\* Row y, and the bound of x - y, do not change on the way: if row y did, the zone would
\* be told empty.
LEMMA FromKeeps ==
  ASSUME NEW d, Good(d), NEW x \in Clocks, NEW y \in Clocks, x # y, NEW b, Proper(b),
         b < d[<<x, y>>], NEW n \in Clocks, NEW t, IsFrom(t, d, x, y, b, n)
  PROVE  \/ FromStep(t, x, y, n) \in {Thrown, Empty}
         \/ IsFrom(FromStep(t, x, y, n), d, x, y, b, n + 1)
<1> DEFINE u == FromStep(t, x, y, n)
           ixy == Sum(t[<<n, x>>], t[<<x, y>>])
<1>1. /\ t \in EntryMatrices /\ IsConsistent(t) /\ t[<<x, y>>] = b
      /\ \A j \in Clocks : t[<<y, j>>] = d[<<y, j>>]
      /\ \A j \in Clocks : t[<<n, j>>] = IF n = x /\ j = y THEN b ELSE d[<<n, j>>]
  <2>1. ~ (n < n)
    BY ClockFacts
  <2> QED
    BY <2>1 DEF IsFrom
<1>2. u = TightenOne(t, x, y, n)
  BY <1>1, ClockFacts DEF FromStep, IsStopped, IsConsistent
<1>3. d[<<x, x>>] = LE_ZERO /\ d[<<y, y>>] = LE_ZERO /\ t[<<y, y>>] = LE_ZERO
  BY <1>1 DEF Good, IsConsistent
<1>4. b \in Entries /\ Sum(LE_ZERO, b) = b
  BY SumFacts, EntryFacts
<1>5. \A i \in Clocks : i < n + 1 <=> i < n \/ i = n
  BY ClockFacts
<1> HIDE DEF u
<1>6. CASE n # x /\ ixy >= t[<<n, y>>]
  <2>1. u = t
    BY <1>2, <1>6 DEF TightenOne
  <2>2. FromRow(t, d, x, y, b, n)
    <3>1. \A j \in Clocks : t[<<n, j>>] = d[<<n, j>>]
      BY <1>1, <1>6
    <3>2. Sum(d[<<n, x>>], b) >= d[<<n, y>>]
      BY <1>1, <1>6, <3>1
    <3> QED
      BY <1>1, <3>1, <3>2, FromRowSkipped
  <2> QED
    BY <1>5, <2>1, <2>2 DEF IsFrom, u
<1>7. CASE n = x \/ ~ (ixy >= t[<<n, y>>])
  <2> DEFINE q == IF n = x THEN b ELSE ixy
             s == [t EXCEPT ![<<n, y>>] = q]
             r == TightenRow(s, n, y)
  <2>1. q = Sum(d[<<n, x>>], b) /\ q \in Entries /\ q < d[<<n, y>>]
    <3>1. CASE n = x
      BY <1>3, <1>4, <3>1
    <3>2. CASE n # x
      <4>1. t[<<n, x>>] = d[<<n, x>>] /\ t[<<n, y>>] = d[<<n, y>>]
        BY <1>1, <3>2
      <4>2. t[<<n, x>>] \in Entries /\ t[<<n, y>>] \in Int
        BY <1>1, ClockFacts
      <4>3. ixy = Sum(d[<<n, x>>], b) /\ ixy \in Entries
        BY <1>1, <1>4, <4>1, <4>2, SumFacts
      <4>4. ixy < d[<<n, y>>]
        BY <1>7, <3>2, <4>1, <4>2, <4>3, EntryFacts
      <4> QED
        BY <3>2, <4>3, <4>4
    <3> QED
      BY <3>1, <3>2
  <2> HIDE DEF q
  <2>2. /\ s \in EntryMatrices
        /\ \A i, j \in Clocks : s[<<i, j>>] = IF i = n /\ j = y THEN q ELSE t[<<i, j>>]
    BY <1>1, <2>1 DEF EntryMatrices
  <2>3. u = CheckRow(r, n)
    <3>1. n = x => s = t
      BY <1>1 DEF q, EntryMatrices
    <3>2. n # x => q = ixy
      BY DEF q
    <3> HIDE DEF s
    <3>3. CASE n = x
      BY <1>2, <3>1, <3>3 DEF TightenOne
    <3>4. CASE n # x
      BY <1>2, <1>7, <3>2, <3>4 DEF TightenOne, s
    <3> QED
      BY <3>3, <3>4
  <2> HIDE DEF s
  <2>4. /\ r \in EntryMatrices
        /\ \A i, j \in Clocks : i # n => r[<<i, j>>] = s[<<i, j>>]
        /\ \A j \in Clocks : r[<<n, j>>] <= s[<<n, j>>]
    BY <2>2, RowFacts
  <2> HIDE DEF r
  <2>5. \/ u \in {Thrown, Empty}
        \/ /\ u = r
           /\ ~ (r[<<n, n>>] < LE_ZERO)
           /\ \A j \in Clocks : r[<<n, j>>] # OutOfBounds
    BY <2>3, <2>4, CheckFacts
  <2>6. CASE /\ u = r
             /\ ~ (r[<<n, n>>] < LE_ZERO)
             /\ \A j \in Clocks : r[<<n, j>>] # OutOfBounds
    <3>1. r[<<n, n>>] \in Int /\ s[<<n, n>>] \in Int /\ LE_ZERO \in Int /\ q \in Int
      BY <2>1, <2>2, <2>4, ClockFacts, EntryFacts
    <3>2. n # y
      <4> SUFFICES ASSUME n = y PROVE FALSE
        OBVIOUS
      <4>1. s[<<n, n>>] = q /\ q < LE_ZERO /\ r[<<n, n>>] <= s[<<n, n>>]
        BY <1>3, <2>1, <2>2, <2>4
      <4> QED
        BY <2>6, <3>1, <4>1
    <3>3. \A j \in Clocks :
            /\ s[<<n, j>>] = IF j = y THEN q ELSE d[<<n, j>>]
            /\ s[<<y, j>>] = d[<<y, j>>]
      BY <1>1, <2>2, <3>2
    <3>4. s[<<y, y>>] = LE_ZERO
      BY <1>3, <3>3
    <3>5. \A j \in Clocks : r[<<n, j>>] = Min(s[<<n, j>>], Sum(s[<<n, y>>], s[<<y, j>>]))
      BY <2>2, <3>2, <3>4, RowExact DEF r
    <3>6. \A j \in Clocks :
            /\ r[<<n, j>>] = Min(IF j = y THEN q ELSE d[<<n, j>>], Sum(q, d[<<y, j>>]))
            /\ r[<<n, j>>] # OutOfBounds
      BY <2>6, <3>3, <3>5
    <3>7. r[<<n, y>>] = q /\ FromRow(r, d, x, y, b, n)
      BY <2>1, <2>4, <3>6, FromRowChanged
    <3>8. r[<<n, n>>] = LE_ZERO
      <4>1. s[<<n, n>>] = LE_ZERO
        BY <1>1, <2>2, <3>2 DEF IsConsistent
      <4> QED
        BY <2>4, <2>6, <3>1, <4>1
    <3>9. \A i, j \in Clocks : i # n => r[<<i, j>>] = t[<<i, j>>]
      BY <2>2, <2>4
    <3>10. IsConsistent(r) /\ r[<<x, y>>] = b /\ \A j \in Clocks : r[<<y, j>>] = d[<<y, j>>]
      <4>1. IsConsistent(r)
        BY <1>1, <3>8, <3>9 DEF IsConsistent
      <4>2. r[<<x, y>>] = b
        BY <1>1, <3>7, <3>9 DEF q
      <4>3. \A j \in Clocks : r[<<y, j>>] = d[<<y, j>>]
        BY <1>1, <3>2, <3>9
      <4> QED
        BY <4>1, <4>2, <4>3
    <3>11. \A i \in Clocks : i # n /\ FromRow(t, d, x, y, b, i) => FromRow(r, d, x, y, b, i)
      BY <3>9 DEF FromRow
    <3>12. ASSUME NEW i \in Clocks
           PROVE  IF i < n + 1 THEN FromRow(r, d, x, y, b, i)
                  ELSE \A j \in Clocks : r[<<i, j>>] = IF i = x /\ j = y THEN b ELSE d[<<i, j>>]
      <4>1. CASE i = n
        BY <1>5, <3>7, <4>1
      <4>2. CASE i # n
        BY <1>5, <3>9, <3>11, <4>2 DEF IsFrom
      <4> QED
        BY <4>1, <4>2
    <3>13. IsFrom(r, d, x, y, b, n + 1)
      BY <2>4, <3>10, <3>12 DEF IsFrom
    <3> QED
      BY <2>6, <3>13 DEF u
  <2> QED
    BY <2>5, <2>6 DEF u
<1> QED
  BY <1>6, <1>7

\* All the rows have been tightened: the matrix is tight again.
LEMMA FromTight ==
  ASSUME NEW d, Good(d), NEW x \in Clocks, NEW y \in Clocks, NEW b, Proper(b),
         b < d[<<x, y>>], NEW t, IsFrom(t, d, x, y, b, Dim)
  PROVE  Good(t) /\ \A i, j \in Clocks : t[<<i, j>>] <= d[<<i, j>>]
<1> DEFINE e == Column(t, y)
<1>1. /\ t \in EntryMatrices /\ IsConsistent(t)
      /\ \A j \in Clocks : t[<<y, j>>] = d[<<y, j>>]
      /\ \A i \in Clocks : FromRow(t, d, x, y, b, i)
  BY ClockFacts DEF IsFrom
<1>2. d \in EntryMatrices /\ IsConsistent(d) /\ Tightly(d)
  BY DEF Good, Matrices, EntryMatrices, Entries
<1>3. e \in [Clocks -> Entries] /\ \A i \in Clocks : e[i] = t[<<i, y>>]
  BY <1>1, ClockFacts DEF Column
<1>4. IsRelaxed(t, d, e, y)
  BY <1>1, <1>3 DEF FromRow, IsRelaxed
<1> HIDE DEF e
<1>5. \A i \in Clocks :
        /\ e[i] # OutOfBounds /\ e[i] \in Entries /\ e[i] <= d[<<i, y>>]
        /\ e[i] = d[<<i, y>>] \/ (Proper(d[<<i, x>>]) /\ e[i] = Plus(d[<<i, x>>], b))
        /\ Proper(d[<<i, x>>]) => e[i] <= Plus(d[<<i, x>>], b) /\ e[i] # LT_INFINITY
  BY <1>1, <1>3 DEF FromRow
<1>6. \A i, j \in Clocks : d[<<i, j>>] \in Int /\ d[<<i, j>>] \in Entries
  BY <1>2, ClockFacts
<1>7. b \in Int /\ e[y] = LE_ZERO /\ d[<<y, y>>] = LE_ZERO
  BY <1>1, <1>2, <1>3, EntryFacts DEF IsConsistent
<1>8. ASSUME NEW i \in Clocks, NEW k \in Clocks, Proper(d[<<i, k>>]), Proper(e[k])
      PROVE  Proper(e[i]) /\ e[i] <= Plus(d[<<i, k>>], e[k])
  <2>1. /\ e[i] \in Int /\ e[k] \in Int /\ LT_INFINITY \in Int
        /\ e[i] # LT_INFINITY => Proper(e[i])
    BY <1>5, EntryFacts
  <2>2. CASE e[k] = d[<<k, y>>]
    <3>1. d[<<i, y>>] <= Plus(d[<<i, k>>], e[k]) /\ d[<<i, y>>] # LT_INFINITY
      BY <1>2, <1>8, <2>2 DEF Tightly, Triangle
    <3>2. e[i] <= d[<<i, y>>] /\ d[<<i, y>>] \in Int /\ d[<<i, y>>] < LT_INFINITY
      <4>1. d[<<i, y>>] \in Entries
        BY <1>6
      <4>2. d[<<i, y>>] \in Int /\ d[<<i, y>>] <= LT_INFINITY
        BY <4>1, EntryFacts
      <4>3. e[i] <= d[<<i, y>>]
        BY <1>5
      <4> QED
        BY <2>1, <3>1, <4>2, <4>3
    <3>3. Plus(d[<<i, k>>], e[k]) \in Int
      BY <1>6, <2>1, PlusParts
    <3> QED
      BY <2>1, <3>1, <3>2, <3>3
  <2>3. CASE Proper(d[<<k, x>>]) /\ e[k] = Plus(d[<<k, x>>], b)
    <3>1. d[<<i, x>>] <= Plus(d[<<i, k>>], d[<<k, x>>]) /\ d[<<i, x>>] # LT_INFINITY
      BY <1>2, <1>8, <2>3 DEF Tightly, Triangle
    <3>2. Proper(d[<<i, x>>])
      <4>1. d[<<i, x>>] # OutOfBounds
        <5>1. d[<<i, x>>] \in Bound /\ OutOfBounds \notin Bound
          BY BoundFacts DEF Good, Matrices, Bound
        <5> QED
          BY <5>1
      <4> QED
        BY <1>6, <3>1, <4>1, EntryFacts
    <3>3. e[i] <= Plus(d[<<i, x>>], b) /\ e[i] # LT_INFINITY
      BY <1>5, <3>2
    <3>4. Plus(d[<<i, k>>], d[<<k, x>>]) \in Int /\ Plus(d[<<i, x>>], b) \in Int
      BY <1>6, <1>7, PlusParts
    <3>5. Plus(d[<<i, x>>], b) <= Plus(Plus(d[<<i, k>>], d[<<k, x>>]), b)
      <4>1. \A a \in Int : a <= a
        OBVIOUS
      <4> QED
        BY <1>6, <1>7, <3>1, <3>4, <4>1, PlusMonotone
    <3>6. Plus(Plus(d[<<i, k>>], d[<<k, x>>]), b) = Plus(d[<<i, k>>], e[k])
      BY <1>6, <1>7, <2>3, PlusAssociates
    <3>7. Plus(d[<<i, k>>], e[k]) \in Int
      BY <1>6, <2>1, PlusParts
    <3> QED
      BY <2>1, <3>3, <3>4, <3>5, <3>6, <3>7
  <2> QED
    BY <1>5, <2>2, <2>3
<1>9. ASSUME NEW k \in Clocks, Proper(d[<<y, k>>]), Proper(e[k])
      PROVE  LE_ZERO <= Plus(d[<<y, k>>], e[k])
  BY <1>7, <1>8, <1>9
<1>10. ASSUME NEW k \in Clocks, NEW j \in Clocks, Proper(d[<<y, k>>]), Proper(d[<<k, j>>])
       PROVE  Proper(d[<<y, j>>]) /\ d[<<y, j>>] <= Plus(d[<<y, k>>], d[<<k, j>>])
  <2>1. /\ d[<<y, j>>] <= Plus(d[<<y, k>>], d[<<k, j>>])
        /\ d[<<y, j>>] # LT_INFINITY
    BY <1>2, <1>10 DEF Tightly, Triangle
  <2>2. d[<<y, j>>] \in Bound /\ OutOfBounds \notin Bound
    BY BoundFacts DEF Good, Matrices, Bound
  <2> QED
    BY <1>6, <2>1, <2>2, EntryFacts
<1>11. ASSUME NEW i \in Clocks, NEW k \in Clocks, NEW j \in Clocks PROVE Triangle(t, i, k, j)
  <2>1. Triangle(d, i, k, j)
    BY <1>2 DEF Tightly
  <2> QED
    BY <1>1, <1>2, <1>3, <1>4, <1>8, <1>9, <1>10, <2>1, RelaxedTriangle
<1>12. t \in Matrices
  <2>1. \A i, j \in Clocks : t[<<i, j>>] \in Entries /\ t[<<i, j>>] # OutOfBounds
    BY <1>1, ClockFacts DEF FromRow
  <2>2. \A i, j \in Clocks : t[<<i, j>>] \in Bound
    BY <2>1 DEF Entries
  <2> QED
    BY <1>1, <2>2 DEF EntryMatrices, Matrices
<1> QED
  BY <1>1, <1>4, <1>11, <1>12 DEF Good, Tightly, IsRelaxed

\* What a function of dbm.cc may return.
IsOutcome(u) == u \in Matrices \cup {Thrown} /\ (IsZone(u) => Good(u))

\* Outcomes that are no zones to compute with.
LEMMA OutcomesStopped ==
  /\ IsOutcome(Thrown) /\ IsOutcome(Empty)
  /\ \A u \in Matrices : IsEmpty0(u) => IsOutcome(u)
  /\ ~ IsZone(Thrown) /\ ~ IsZone(Empty)
BY OutcomeFacts DEF IsOutcome, IsZone

\* A zone to compute with is an outcome.
LEMMA OutcomesGood ==
  ASSUME NEW u, Good(u)
  PROVE  IsOutcome(u)
BY DEF IsOutcome, Good

\* t is d, with the bound b of x - y.
IsBounded(t, d, x, y, b) ==
  /\ Good(t) /\ t[<<x, y>>] = b
  /\ \A i, j \in Clocks : t[<<i, j>>] <= d[<<i, j>>]

\* tighten(dbm, dim, x, y) stops, or makes the matrix tight, although it looks at the
\* paths through the bound of x - y only, and skips the rows that this cannot change.
LEMMA FromFacts ==
  ASSUME NEW d, Good(d), NEW x \in Clocks, NEW y \in Clocks, x # y, NEW b, Proper(b),
         b < d[<<x, y>>], NEW t, t = TightenFrom([d EXCEPT ![<<x, y>>] = b], x, y)
  PROVE  \/ t \in {Thrown, Empty}
         \/ IsBounded(t, d, x, y, b)
<1> DEFINE m == [d EXCEPT ![<<x, y>>] = b]
<1>1. d \in EntryMatrices /\ b \in Entries /\ b # LT_INFINITY
  BY EntryFacts DEF Good, Matrices, EntryMatrices, Entries
<1>2. /\ m \in EntryMatrices
      /\ \A i, j \in Clocks : m[<<i, j>>] = IF i = x /\ j = y THEN b ELSE d[<<i, j>>]
  BY <1>1 DEF EntryMatrices
<1>3. t = TightenFrom(m, x, y)
  OBVIOUS
<1> HIDE DEF m
<1>4. PICK tight \in [0 .. Dim -> EntryMatrices] : IsFromLoop(tight, m, x, y)
  BY <1>2, FromLoop, Zenon
<1>5. t = tight[Dim]
  BY <1>1, <1>2, <1>3, <1>4 DEF IsFromLoop
<1> DEFINE S == {n \in 0 .. Dim : \/ tight[n] \in {Thrown, Empty}
                                  \/ IsFrom(tight[n], d, x, y, b, n)}
<1>6. 0 \in S
  <2>1. \A i \in Clocks : ~ (i < 0)
    BY ClockFacts
  <2>2. \A i \in Clocks : m[<<i, i>>] = LE_ZERO
    BY <1>2 DEF Good, IsConsistent
  <2>3. IsFrom(m, d, x, y, b, 0)
    BY <1>2, <2>1, <2>2 DEF IsFrom, IsConsistent
  <2> QED
    BY <1>4, <2>3, ClockFacts DEF IsFromLoop
<1>7. ASSUME NEW n \in 0 .. Dim - 1, n \in S PROVE n + 1 \in S
  <2>1. n \in Clocks /\ n + 1 \in 0 .. Dim
    BY ClockFacts
  <2>2. tight[n + 1] = FromStep(tight[n], x, y, n)
    BY <1>4, <2>1 DEF IsFromLoop
  <2>3. CASE tight[n] \in {Thrown, Empty}
    <3>1. tight[n + 1] = tight[n]
      BY <2>2, <2>3, OutcomeFacts DEF FromStep
    <3> QED
      BY <2>1, <2>3, <3>1
  <2>4. CASE IsFrom(tight[n], d, x, y, b, n)
    BY <2>1, <2>2, <2>4, FromKeeps
  <2> QED
    BY <1>7, <2>3, <2>4
<1> HIDE DEF S
<1>8. \A n \in 0 .. Dim : n \in S
  BY <1>6, <1>7, CountingTo, ClockFacts
<1>9. t \in {Thrown, Empty} \/ IsFrom(t, d, x, y, b, Dim)
  BY <1>5, <1>8, ClockFacts DEF S
<1>10. ASSUME IsFrom(t, d, x, y, b, Dim)
       PROVE  IsBounded(t, d, x, y, b)
  <2>1. t[<<x, y>>] = b
    BY <1>10 DEF IsFrom
  <2>2. Good(t) /\ \A i, j \in Clocks : t[<<i, j>>] <= d[<<i, j>>]
    BY <1>10, FromTight
  <2> QED
    BY <2>1, <2>2 DEF IsBounded
<1> QED
  BY <1>9, <1>10

\* A negative bound of a clock with itself empties the zone.
LEMMA FromSelf ==
  ASSUME NEW d, Good(d), NEW x \in Clocks, NEW b, Proper(b), b < LE_ZERO,
         NEW t, t = TightenFrom([d EXCEPT ![<<x, x>>] = b], x, x)
  PROVE  t \in {Thrown, Empty} \/ (t \in Matrices /\ IsEmpty0(t))
<1> DEFINE m == [d EXCEPT ![<<x, x>>] = b]
<1>1. /\ d \in Matrices /\ d \in EntryMatrices
      /\ b \in Bound /\ b \in Entries /\ b # LT_INFINITY
  BY EntryFacts DEF Good, Matrices, EntryMatrices, Entries, Proper
<1>2. /\ m \in EntryMatrices /\ m \in Matrices
      /\ \A i, j \in Clocks : m[<<i, j>>] = IF i = x /\ j = x THEN b ELSE d[<<i, j>>]
  BY <1>1 DEF EntryMatrices, Matrices
<1>3. t = TightenFrom(m, x, x)
  OBVIOUS
<1> HIDE DEF m
<1>4. PICK tight \in [0 .. Dim -> EntryMatrices] : IsFromLoop(tight, m, x, x)
  BY <1>2, FromLoop, Zenon
<1>5. t = tight[Dim]
  BY <1>1, <1>2, <1>3, <1>4 DEF IsFromLoop
<1>6. d[<<0, 0>>] = LE_ZERO
  BY ClockFacts DEF Good, IsConsistent
<1>7. CASE x = 0
  <2>1. m[<<0, 0>>] = b /\ IsEmpty0(m) /\ IsStopped(m)
    BY <1>2, <1>7, ClockFacts, EntryFacts DEF IsEmpty0, IsStopped
  <2> DEFINE S == {n \in 0 .. Dim : tight[n] = m}
  <2>2. 0 \in S
    BY <1>4, ClockFacts DEF IsFromLoop
  <2>3. ASSUME NEW n \in 0 .. Dim - 1, n \in S PROVE n + 1 \in S
    <3>1. n \in Clocks /\ n + 1 \in 0 .. Dim
      BY ClockFacts
    <3> QED
      BY <1>4, <2>1, <2>3, <3>1 DEF IsFromLoop, FromStep
  <2> HIDE DEF S
  <2>4. \A n \in 0 .. Dim : n \in S
    BY <2>2, <2>3, CountingTo, ClockFacts
  <2> QED
    BY <1>2, <1>5, <2>1, <2>4, ClockFacts DEF S
<1>8. CASE x # 0
  <2> DEFINE P(s) == s \in EntryMatrices /\ s[<<0, 0>>] = LE_ZERO /\ s[<<x, x>>] = b
             S == {n \in 0 .. Dim : tight[n] \in {Thrown, Empty} \/ (n <= x /\ P(tight[n]))}
  <2>1. 0 \in S
    <3>0. 0 <= x /\ 0 \in Clocks
      BY ClockFacts
    <3>1. P(m) /\ 0 <= x
      BY <1>2, <1>6, <1>8, <3>0
    <3> QED
      BY <1>4, <3>1, ClockFacts DEF IsFromLoop
  <2>2. ASSUME NEW n \in 0 .. Dim - 1, n \in S PROVE n + 1 \in S
    <3>1. n \in Clocks /\ n + 1 \in 0 .. Dim
      BY ClockFacts
    <3> DEFINE s == tight[n]
               u == tight[n + 1]
    <3>2. u = FromStep(s, x, x, n)
      BY <1>4, <3>1 DEF IsFromLoop
    <3>3. s \in {Thrown, Empty} \/ (n <= x /\ P(s))
      BY <2>2
    <3> SUFFICES u \in {Thrown, Empty} \/ (n + 1 <= x /\ P(u))
      BY <3>1
    <3> HIDE DEF s, u
    <3>4. CASE s \in {Thrown, Empty}
      <4>1. u = s
        BY <3>2, <3>4, OutcomeFacts DEF FromStep
      <4> QED
        BY <3>4, <4>1
    <3>5. CASE n <= x /\ P(s)
      <4>1. u = TightenOne(s, x, x, n)
        BY <3>2, <3>5 DEF FromStep, IsStopped
      <4>2. CASE n = x
        <5> DEFINE r == TightenRow(s, x, x)
        <5>1. r \in EntryMatrices /\ r[<<x, x>>] <= b
          BY <3>5, RowFacts
        <5>2. u = CheckRow(r, x)
          BY <4>1, <4>2 DEF TightenOne
        <5> HIDE DEF r
        <5>3. r[<<x, x>>] < LE_ZERO
          <6>1. r[<<x, x>>] \in Int /\ b \in Int /\ LE_ZERO \in Int
            BY <5>1, <1>1, ClockFacts, EntryFacts
          <6> QED
            BY <5>1, <6>1
        <5> QED
          BY <5>1, <5>2, <5>3, CheckFacts
      <4>3. CASE n # x
        <5>1. n + 1 <= x
          BY <3>1, <3>5, <4>3, ClockFacts
        <5> DEFINE ixy == Sum(s[<<n, x>>], s[<<x, x>>])
                   c == [s EXCEPT ![<<n, x>>] = ixy]
                   r == TightenRow(c, n, x)
        <5>2. u = s \/ u = CheckRow(r, n)
          BY <4>1, <4>3 DEF TightenOne
        <5>3. ixy \in Entries
          <6>1. s[<<n, x>>] \in Entries /\ s[<<x, x>>] \in Entries
            BY <3>1, <3>5, ClockFacts
          <6> QED
            BY <6>1, SumFacts
        <5> HIDE DEF ixy
        <5>4. /\ c \in EntryMatrices
              /\ c[<<0, 0>>] = LE_ZERO /\ c[<<x, x>>] = b
          BY <1>8, <3>1, <3>5, <4>3, <5>3, ClockFacts DEF EntryMatrices
        <5> HIDE DEF c
        <5>5. /\ r \in EntryMatrices
              /\ \A i, j \in Clocks : i # n => r[<<i, j>>] = c[<<i, j>>]
              /\ \A j \in Clocks : r[<<n, j>>] <= c[<<n, j>>]
          BY <3>1, <5>4, RowFacts
        <5> HIDE DEF r
        <5>6. \/ CheckRow(r, n) \in {Thrown, Empty}
              \/ CheckRow(r, n) = r /\ ~ (r[<<n, n>>] < LE_ZERO)
          BY <3>1, <5>5, CheckFacts
        <5>7. r[<<x, x>>] = b
          BY <4>3, <5>4, <5>5
        <5>8. ASSUME ~ (r[<<n, n>>] < LE_ZERO) PROVE r[<<0, 0>>] = LE_ZERO
          <6>1. CASE n = 0
            <7>1. r[<<0, 0>>] <= LE_ZERO /\ r[<<0, 0>>] \in Int /\ LE_ZERO \in Int
              BY <5>4, <5>5, <6>1, ClockFacts, EntryFacts
            <7> QED
              BY <5>8, <6>1, <7>1
          <6>2. CASE n # 0
            BY <5>4, <5>5, <6>2, ClockFacts
          <6> QED
            BY <6>1, <6>2
        <5> QED
          BY <3>5, <5>1, <5>2, <5>5, <5>6, <5>7, <5>8
      <4> QED
        BY <4>2, <4>3
    <3> QED
      BY <3>3, <3>4, <3>5
  <2> HIDE DEF S
  <2>3. \A n \in 0 .. Dim : n \in S
    BY <2>1, <2>2, CountingTo, ClockFacts
  <2>4. Dim \in 0 .. Dim /\ ~ (Dim <= x)
    BY ClockFacts
  <2> QED
    BY <1>5, <2>3, <2>4 DEF S
<1> QED
  BY <1>7, <1>8

-----------------------------------------------------------------------------
(* The operations. *)

\* A bound that is made has its value, or is out of bounds.
LEMMA MakeFacts ==
  ASSUME NEW cmp \in {LT, LE}, NEW v \in Int
  PROVE  /\ MakeBound(cmp, v) \in Entries
         /\ \/ MakeBound(cmp, v) = OutOfBounds
            \/ Proper(MakeBound(cmp, v)) /\ MakeBound(cmp, v) = 2 * v + cmp
<1>1. cmp \in {0, 1}
  BY DEF LT, LE
<1>2. CASE v \in MIN_VALUE .. MAX_VALUE
  <2>1. MakeBound(cmp, v) = 2 * v + cmp
    BY <1>2 DEF MakeBound
  <2>2. 2 * v + cmp \in 2 * MIN_VALUE .. LT_INFINITY - 1
    BY <1>1, <1>2, BoundFacts
  <2>3. Proper(2 * v + cmp)
    BY <2>2, BoundFacts
  <2> QED
    BY <2>1, <2>3 DEF Proper
<1>3. CASE v \notin MIN_VALUE .. MAX_VALUE
  <2>1. MakeBound(cmp, v) = OutOfBounds
    BY <1>3 DEF MakeBound
  <2> QED
    BY <2>1 DEF Entries
<1> QED
  BY <1>2, <1>3

\* The entries of a zone that is computed with.
LEMMA GoodFacts ==
  ASSUME NEW d, Good(d)
  PROVE  /\ d \in Matrices /\ d \in EntryMatrices
         /\ \A x \in Clocks : d[<<x, x>>] = LE_ZERO
         /\ \A x, y \in Clocks : /\ d[<<x, y>>] \in Bound /\ d[<<x, y>>] \in Entries
                                 /\ d[<<x, y>>] \in Int /\ d[<<x, y>>] # OutOfBounds
<1>1. d \in Matrices /\ IsConsistent(d)
  BY DEF Good
<1>2. d \in EntryMatrices
  BY <1>1 DEF Matrices, EntryMatrices, Entries
<1>3. OutOfBounds \notin Bound
  BY BoundFacts DEF Bound
<1>4. \A x, y \in Clocks : d[<<x, y>>] \in Bound
  BY <1>1 DEF Matrices
<1>5. \A x, y \in Clocks : d[<<x, y>>] \in Entries /\ d[<<x, y>>] \in Int
  BY <1>2, ClockFacts
<1> QED
  BY <1>1, <1>2, <1>3, <1>4, <1>5 DEF IsConsistent

\* constrain tells the zone empty or keeps it in canonical form, and its bounds only
\* decrease.
LEMMA ConstrainOutcome ==
  ASSUME NEW d, Good(d), NEW x \in Clocks, NEW y \in Clocks, NEW cmp \in {LT, LE},
         NEW v \in Int, NEW u, u = Constrain(d, x, y, cmp, v)
  PROVE  /\ IsOutcome(u)
         /\ IsZone(u) => \A i, j \in Clocks : u[<<i, j>>] <= d[<<i, j>>]
<1> DEFINE b == MakeBound(cmp, v)
<1>1. b \in Entries /\ (b = OutOfBounds \/ Proper(b))
  BY MakeFacts
<1>2. CASE b = OutOfBounds
  <2>1. u = Thrown
    BY <1>2 DEF Constrain
  <2> QED
    BY <2>1, OutcomesStopped
<1>3. CASE b # OutOfBounds /\ b >= d[<<x, y>>]
  <2>1. u = d
    BY <1>3 DEF Constrain
  <2>2. \A i, j \in Clocks : d[<<i, j>>] <= d[<<i, j>>]
    <3>1. \A a \in Int : a <= a
      OBVIOUS
    <3> QED
      BY <3>1, GoodFacts
  <2> QED
    BY <2>1, <2>2, OutcomesGood
<1>4. CASE b # OutOfBounds /\ ~ (b >= d[<<x, y>>])
  <2>1. u = TightenFrom([d EXCEPT ![<<x, y>>] = b], x, y)
    BY <1>4 DEF Constrain
  <2>2. Proper(b) /\ b < d[<<x, y>>]
    <3>1. b \in Int /\ d[<<x, y>>] \in Int
      BY <1>1, GoodFacts, EntryFacts
    <3> QED
      BY <1>1, <1>4, <3>1
  <2> HIDE DEF b
  <2>3. CASE x # y
    <3>1. u \in {Thrown, Empty} \/ IsBounded(u, d, x, y, b)
      BY <2>1, <2>2, <2>3, FromFacts
    <3> QED
      BY <3>1, OutcomesStopped, OutcomesGood DEF IsBounded
  <2>4. CASE x = y
    <3>1. b < LE_ZERO
      BY <2>2, <2>4, GoodFacts
    <3>2. u \in {Thrown, Empty} \/ (u \in Matrices /\ IsEmpty0(u))
      BY <2>1, <2>2, <2>4, <3>1, FromSelf
    <3> QED
      BY <3>2, OutcomesStopped DEF IsZone
  <2> QED
    BY <2>3, <2>4
<1> QED
  BY <1>2, <1>3, <1>4

\* Time elapses: no path to an upper bound is left.
LEMMA OpenUpOutcome ==
  ASSUME NEW d, Good(d)
  PROVE  /\ Good(OpenUp(d))
         /\ IsPositive(d) => IsPositive(OpenUp(d))
<1> DEFINE u == OpenUp(d)
<1>1. \A i, j \in Clocks :
        u[<<i, j>>] = IF i # 0 /\ j = 0 THEN LT_INFINITY ELSE d[<<i, j>>]
  BY DEF OpenUp
<1>2. u \in Matrices
  BY GoodFacts, BoundFacts DEF OpenUp, Matrices
<1> HIDE DEF u
<1>3. IsConsistent(u)
  BY <1>1, GoodFacts DEF IsConsistent
<1>4. ASSUME NEW x \in Clocks, NEW z \in Clocks, NEW y \in Clocks PROVE Triangle(u, x, z, y)
  <2>1. Triangle(d, x, z, y)
    BY DEF Good, Tightly
  <2>2. ~ Proper(LT_INFINITY)
    BY DEF Proper
  <2> QED
    BY <1>1, <2>1, <2>2 DEF Triangle
<1>5. IsPositive(d) => IsPositive(u)
  BY <1>1, ClockFacts DEF IsPositive
<1> QED
  BY <1>2, <1>3, <1>4, <1>5 DEF Good, Tightly, u

\* The bound a is b, shifted by v.
IsShift(a, b, v) ==
  IF b = LT_INFINITY THEN a = LT_INFINITY ELSE Proper(a) /\ a = b + 2 * v

\* add() shifts a bound, or is out of bounds.
LEMMA AddShifts ==
  ASSUME NEW b \in Bound, NEW v \in Int, NEW a, a = Add(b, v)
  PROVE  a \in Entries /\ (a # OutOfBounds => IsShift(a, b, v))
<1>1. b \in Int
  BY BoundFacts DEF Bound
<1>2. CASE b = LT_INFINITY
  BY <1>2, BoundFacts DEF Add, IsShift, Entries
<1>3. CASE b # LT_INFINITY
  <2>1. /\ Value(b) \in Int /\ Comparator(b) \in {LT, LE} /\ b = 2 * Value(b) + Comparator(b)
    BY <1>1, Parts DEF LT, LE
  <2>2. a = MakeBound(Comparator(b), Value(b) + v) /\ Value(b) + v \in Int
    BY <1>3, <2>1 DEF Add
  <2>3. /\ a \in Entries
        /\ a = OutOfBounds \/ (Proper(a) /\ a = 2 * (Value(b) + v) + Comparator(b))
    BY <2>1, <2>2, MakeFacts
  <2>4. Comparator(b) \in Int
    BY <2>1 DEF LT, LE
  <2>5. 2 * (Value(b) + v) + Comparator(b) = b + 2 * v
    BY <2>1, <2>4
  <2> QED
    BY <1>3, <2>3, <2>5 DEF IsShift
<1> QED
  BY <1>2, <1>3

\* A sum with a large bound is a shift.
LEMMA SumShifts ==
  ASSUME NEW b \in Bound, NEW v \in Int
  PROVE  /\ Sum(MakeBound(LE, v), b) \in Entries
         /\ Sum(b, MakeBound(LE, v)) \in Entries
         /\ Sum(MakeBound(LE, v), b) # OutOfBounds => IsShift(Sum(MakeBound(LE, v), b), b, v)
         /\ Sum(b, MakeBound(LE, v)) # OutOfBounds => IsShift(Sum(b, MakeBound(LE, v)), b, v)
<1> DEFINE k == MakeBound(LE, v)
<1>1. b \in Int /\ b \in Entries /\ b # OutOfBounds
  BY BoundFacts DEF Bound, Entries
<1>2. k \in Entries /\ (k = OutOfBounds \/ (Proper(k) /\ k = 2 * v + LE))
  BY MakeFacts
<1> HIDE DEF k
<1>3. Sum(k, b) \in Entries /\ Sum(b, k) \in Entries
  BY <1>1, <1>2, SumFacts
<1>4. CASE k = OutOfBounds
  <2>1. Sum(k, b) = OutOfBounds /\ Sum(b, k) = OutOfBounds
    BY <1>1, <1>2, <1>4, SumFacts
  <2> QED
    BY <1>3, <2>1 DEF k
<1>5. CASE Proper(k) /\ b = LT_INFINITY
  <2>1. Sum(k, b) = LT_INFINITY /\ Sum(b, k) = LT_INFINITY
    BY <1>1, <1>2, <1>5, SumFacts, EntryFacts
  <2> QED
    BY <1>3, <1>5, <2>1 DEF k, IsShift
<1>6. CASE Proper(k) /\ b # LT_INFINITY
  <2>1. Proper(b)
    BY <1>1, <1>6, EntryFacts
  <2>2. Plus(k, b) = b + 2 * v /\ Plus(b, k) = b + 2 * v
    <3>1. k = 2 * v + 1
      BY <1>2, <1>6, EntryFacts DEF Proper, LE
    <3>2. Value(k) = v /\ Comparator(k) = 1
      BY <3>1, PartsOf
    <3>3. Value(b) \in Int /\ Comparator(b) \in {0, 1} /\ b = 2 * Value(b) + Comparator(b)
      BY <1>1, Parts
    <3>4. Plus(k, b) = 2 * (v + Value(b)) + 1 * Comparator(b)
      BY <3>2 DEF Plus
    <3>5. Plus(b, k) = 2 * (Value(b) + v) + Comparator(b) * 1
      BY <3>2 DEF Plus
    <3> QED
      BY <3>3, <3>4, <3>5
  <2>3. /\ Sum(k, b) = OutOfBounds \/ (Proper(Sum(k, b)) /\ Sum(k, b) = Plus(k, b))
        /\ Sum(b, k) = OutOfBounds \/ (Proper(Sum(b, k)) /\ Sum(b, k) = Plus(b, k))
    BY <1>1, <1>2, <1>6, <2>1, SumFacts
  <2> QED
    BY <1>3, <1>6, <2>2, <2>3 DEF k, IsShift
<1> QED
  BY <1>2, <1>4, <1>5, <1>6

\* The bound of a path of shifted bounds.
LEMMA PlusShifts ==
  ASSUME NEW a \in Int, NEW b \in Int, NEW v \in Int, NEW w \in Int
  PROVE  Plus(a + 2 * v, b + 2 * w) = Plus(a, b) + 2 * (v + w)
<1>1. /\ Value(a) \in Int /\ Comparator(a) \in {0, 1} /\ a = 2 * Value(a) + Comparator(a)
      /\ Value(b) \in Int /\ Comparator(b) \in {0, 1} /\ b = 2 * Value(b) + Comparator(b)
  BY Parts
<1>2. a + 2 * v = 2 * (Value(a) + v) + Comparator(a) /\ Value(a) + v \in Int
  BY <1>1
<1>3. b + 2 * w = 2 * (Value(b) + w) + Comparator(b) /\ Value(b) + w \in Int
  BY <1>1
<1>4. Value(a + 2 * v) = Value(a) + v /\ Comparator(a + 2 * v) = Comparator(a)
  BY <1>1, <1>2, PartsOf
<1>5. Value(b + 2 * w) = Value(b) + w /\ Comparator(b + 2 * w) = Comparator(b)
  BY <1>1, <1>3, PartsOf
<1>6. Plus(a + 2 * v, b + 2 * w) =
        2 * ((Value(a) + v) + (Value(b) + w)) + Comparator(a) * Comparator(b)
  BY <1>4, <1>5 DEF Plus
<1>7. Plus(a, b) = 2 * (Value(a) + Value(b)) + Comparator(a) * Comparator(b)
  BY DEF Plus
<1>8. Comparator(a) * Comparator(b) \in Int
  BY <1>1
<1> HIDE DEF Plus
<1> QED
  BY <1>1, <1>6, <1>7, <1>8

\* The clocks have the bounds of the clocks w, shifted by s.
LEMMA ShiftedGood ==
  ASSUME NEW d, Good(d), NEW w \in [Clocks -> Clocks], NEW s \in [Clocks -> Int],
         NEW u \in Matrices,
         \A i, j \in Clocks : IsShift(u[<<i, j>>], d[<<w[i], w[j]>>], s[i] - s[j])
  PROVE  /\ Good(u)
         /\ IsPositive(d) /\ w[0] = 0 /\ s[0] = 0 /\ (\A i \in Clocks : s[i] >= 0) => IsPositive(u)
<1>1. \A i, j \in Clocks : d[<<i, j>>] \in Int
  BY GoodFacts
<1>2. IsConsistent(u)
  <2> SUFFICES ASSUME NEW i \in Clocks PROVE u[<<i, i>>] = LE_ZERO
    BY DEF IsConsistent
  <2>1. d[<<w[i], w[i]>>] = LE_ZERO /\ s[i] - s[i] = 0 /\ LE_ZERO # LT_INFINITY
    BY GoodFacts, EntryFacts
  <2>2. u[<<i, i>>] = LE_ZERO + 2 * 0
    BY <2>1 DEF IsShift
  <2> QED
    BY <2>2, EntryFacts
<1>3. ASSUME NEW x \in Clocks, NEW z \in Clocks, NEW y \in Clocks PROVE Triangle(u, x, z, y)
  <2> SUFFICES ASSUME Proper(u[<<x, z>>]), Proper(u[<<z, y>>])
               PROVE  /\ u[<<x, y>>] <= Plus(u[<<x, z>>], u[<<z, y>>])
                      /\ u[<<x, y>>] # LT_INFINITY
    BY DEF Triangle
  <2> DEFINE xz == d[<<w[x], w[z]>>]
             zy == d[<<w[z], w[y]>>]
             xy == d[<<w[x], w[y]>>]
  <2>1. ~ Proper(LT_INFINITY)
    BY DEF Proper
  <2>2. /\ xz # LT_INFINITY /\ u[<<x, z>>] = xz + 2 * (s[x] - s[z])
        /\ zy # LT_INFINITY /\ u[<<z, y>>] = zy + 2 * (s[z] - s[y])
    BY <2>1 DEF IsShift
  <2>3. Proper(xz) /\ Proper(zy)
    BY <2>2, GoodFacts, EntryFacts
  <2>4. xy <= Plus(xz, zy) /\ xy # LT_INFINITY
    BY <2>3 DEF Good, Tightly, Triangle
  <2>5. Proper(u[<<x, y>>]) /\ u[<<x, y>>] = xy + 2 * (s[x] - s[y])
    BY <2>4 DEF IsShift
  <2>6. xz \in Int /\ zy \in Int /\ xy \in Int /\ s[x] \in Int /\ s[y] \in Int /\ s[z] \in Int
    BY <1>1
  <2> HIDE DEF xz, zy, xy
  <2>7. Plus(u[<<x, z>>], u[<<z, y>>]) = Plus(xz, zy) + 2 * ((s[x] - s[z]) + (s[z] - s[y]))
    <3>1. s[x] - s[z] \in Int /\ s[z] - s[y] \in Int
      BY <2>6
    <3> QED
      BY <2>2, <2>6, <3>1, PlusShifts
  <2>8. Plus(xz, zy) \in Int
    BY <2>6, PlusParts
  <2>9. u[<<x, y>>] <= Plus(u[<<x, z>>], u[<<z, y>>])
    BY <2>4, <2>5, <2>6, <2>7, <2>8
  <2> QED
    BY <2>1, <2>5, <2>9
<1>4. ASSUME IsPositive(d), w[0] = 0, s[0] = 0, \A i \in Clocks : s[i] >= 0, NEW x \in Clocks
      PROVE  u[<<0, x>>] <= LE_ZERO
  <2>1. d[<<0, w[x]>>] <= LE_ZERO /\ d[<<0, w[x]>>] \in Int
    BY <1>1, <1>4, ClockFacts DEF IsPositive
  <2>2. d[<<0, w[x]>>] # LT_INFINITY
    BY <2>1, EntryFacts
  <2>3. u[<<0, x>>] = d[<<0, w[x]>>] + 2 * (0 - s[x])
    BY <1>4, <2>2, ClockFacts DEF IsShift
  <2>4. s[x] >= 0 /\ s[x] \in Int
    BY <1>4
  <2> QED
    BY <2>1, <2>3, <2>4, EntryFacts
<1> QED
  BY <1>2, <1>3, <1>4 DEF Good, Tightly, IsPositive

\* What is out of bounds is thrown.
LEMMA OrThrownFacts ==
  ASSUME NEW e \in EntryMatrices, NEW u, u = OrThrown(e)
  PROVE  \/ u = Thrown
         \/ u = e /\ u \in Matrices /\ \A i, j \in Clocks : u[<<i, j>>] # OutOfBounds
<1>1. CASE \E p \in Clocks \X Clocks : e[p] = OutOfBounds
  BY <1>1 DEF OrThrown
<1>2. CASE ~ \E p \in Clocks \X Clocks : e[p] = OutOfBounds
  <2>1. \A p \in Clocks \X Clocks : e[p] \in Bound
    BY <1>2 DEF EntryMatrices, Entries
  <2>2. e \in Matrices
    BY <2>1 DEF EntryMatrices, Matrices
  <2> QED
    BY <1>2, <2>2 DEF OrThrown
<1> QED
  BY <1>1, <1>2

\* The clocks whose bounds x gets, and the shifts.
Source(x, y) == [i \in Clocks |-> IF i = x THEN y ELSE i]
Shift(x, v)  == [i \in Clocks |-> IF i = x THEN v ELSE 0]

\* Each of the functions that reset shifts the bounds, although each has loops of its
\* own.
IsReset(u, d, x, y, v) ==
  /\ u \in Matrices
  /\ \A i, j \in Clocks :
       IsShift(u[<<i, j>>], d[<<Source(x, y)[i], Source(x, y)[j]>>],
               Shift(x, v)[i] - Shift(x, v)[j])

\* Four sorts of bounds.
LEMMA ResetParts ==
  ASSUME NEW d, Good(d), NEW x \in Clocks, NEW y \in Clocks, NEW v \in Nat,
         NEW u \in Matrices,
         \A i \in Clocks : u[<<i, i>>] = d[<<i, i>>],
         \A j \in Clocks : j # x => IsShift(u[<<x, j>>], d[<<y, j>>], v),
         \A i \in Clocks : i # x => IsShift(u[<<i, x>>], d[<<i, y>>], 0 - v),
         \A i, j \in Clocks : i # x /\ j # x => u[<<i, j>>] = d[<<i, j>>]
  PROVE  IsReset(u, d, x, y, v)
<1> DEFINE w == Source(x, y)
           s == Shift(x, v)
<1>1. \A i \in Clocks : w[i] = IF i = x THEN y ELSE i
  BY DEF Source
<1>2. \A i \in Clocks : s[i] = IF i = x THEN v ELSE 0
  BY DEF Shift
<1> HIDE DEF w, s
<1>3. ASSUME NEW i \in Clocks, NEW j \in Clocks
      PROVE  IsShift(u[<<i, j>>], d[<<w[i], w[j]>>], s[i] - s[j])
  <2>1. CASE i = j
    <3>1. /\ s[i] - s[j] = 0 /\ d[<<w[i], w[j]>>] = LE_ZERO
          /\ u[<<i, j>>] = LE_ZERO /\ LE_ZERO + 2 * 0 = LE_ZERO
      BY <1>1, <1>2, <2>1, GoodFacts, EntryFacts
    <3> QED
      BY <3>1, EntryFacts DEF IsShift
  <2>2. CASE i = x /\ j # x
    <3>1. s[i] - s[j] = v /\ w[i] = y /\ w[j] = j
      BY <1>1, <1>2, <2>2
    <3> QED
      BY <2>2, <3>1
  <2>3. CASE i # x /\ j = x
    <3>1. s[i] - s[j] = 0 - v /\ w[i] = i /\ w[j] = y
      BY <1>1, <1>2, <2>3
    <3> QED
      BY <2>3, <3>1
  <2>4. CASE i # x /\ j # x
    <3>1. s[i] - s[j] = 0 /\ w[i] = i /\ w[j] = j /\ u[<<i, j>>] = d[<<i, j>>]
      BY <1>1, <1>2, <2>4
    <3>2. /\ d[<<i, j>>] \in Int /\ d[<<i, j>>] + 2 * 0 = d[<<i, j>>]
          /\ d[<<i, j>>] = LT_INFINITY \/ Proper(d[<<i, j>>])
      BY GoodFacts, EntryFacts
    <3> QED
      BY <3>1, <3>2 DEF IsShift
  <2> QED
    BY <2>1, <2>2, <2>3, <2>4
<1> QED
  BY <1>3 DEF IsReset, w, s

\* reset_to_value
LEMMA ResetToValueFacts ==
  ASSUME NEW d, Good(d), NEW x \in Clocks, NEW v \in Nat,
         NEW u, u = ResetToValue(d, x, v)
  PROVE  u = Thrown \/ IsReset(u, d, x, 0, v)
<1> DEFINE e == [p \in Clocks \X Clocks |->
                   IF p[1] = p[2] THEN d[p]
                   ELSE IF p[1] = x THEN Sum(MakeBound(LE, v), d[<<0, p[2]>>])
                   ELSE IF p[2] = x THEN Sum(d[<<p[1], 0>>], MakeBound(LE, -v))
                   ELSE d[p]]
<1>1. u = OrThrown(e)
  BY DEF ResetToValue
<1>2. \A b \in Bound :
        /\ Sum(MakeBound(LE, v), b) \in Entries
        /\ Sum(b, MakeBound(LE, -v)) \in Entries
        /\ Sum(MakeBound(LE, v), b) # OutOfBounds => IsShift(Sum(MakeBound(LE, v), b), b, v)
        /\ Sum(b, MakeBound(LE, -v)) # OutOfBounds => IsShift(Sum(b, MakeBound(LE, -v)), b, -v)
  BY SumShifts
<1>3. \A i, j \in Clocks : d[<<i, j>>] \in Bound /\ d[<<i, j>>] \in Entries
  BY GoodFacts
<1>4. /\ e \in EntryMatrices
      /\ \A i \in Clocks : e[<<i, i>>] = d[<<i, i>>]
      /\ \A j \in Clocks : j # x => e[<<x, j>>] = Sum(MakeBound(LE, v), d[<<0, j>>])
      /\ \A i \in Clocks : i # x => e[<<i, x>>] = Sum(d[<<i, 0>>], MakeBound(LE, -v))
      /\ \A i, j \in Clocks : i # x /\ j # x => e[<<i, j>>] = d[<<i, j>>]
  <2>1. ASSUME NEW p \in Clocks \X Clocks PROVE e[p] \in Entries
    <3>1. p[1] \in Clocks /\ p[2] \in Clocks /\ p = <<p[1], p[2]>> /\ 0 \in Clocks
      BY ClockFacts
    <3> QED
      BY <1>2, <1>3, <3>1
  <2>2. e \in EntryMatrices
    BY <2>1 DEF EntryMatrices
  <2> QED
    BY <2>2
<1> HIDE DEF e
<1>5. CASE u = e /\ u \in Matrices /\ \A i, j \in Clocks : u[<<i, j>>] # OutOfBounds
  <2>1. \A j \in Clocks : j # x => IsShift(u[<<x, j>>], d[<<0, j>>], v)
    BY <1>2, <1>3, <1>4, <1>5, ClockFacts
  <2>2. \A i \in Clocks : i # x => IsShift(u[<<i, x>>], d[<<i, 0>>], 0 - v)
    <3>1. 0 - v = -v
      OBVIOUS
    <3> QED
      BY <1>2, <1>3, <1>4, <1>5, <3>1, ClockFacts
  <2> QED
    BY <1>4, <1>5, <2>1, <2>2, ClockFacts, ResetParts
<1> QED
  BY <1>1, <1>4, <1>5, OrThrownFacts

\* reset_to_clock
LEMMA ResetToClockFacts ==
  ASSUME NEW d, Good(d), NEW x \in Clocks, NEW y \in Clocks, NEW v \in Nat, v = 0,
         NEW u, u = ResetToClock(d, x, y)
  PROVE  IsReset(u, d, x, y, v)
<1>1. \A i, j \in Clocks : d[<<i, j>>] \in Bound
  BY GoodFacts
<1>2. /\ u \in Matrices
      /\ \A i \in Clocks : u[<<i, i>>] = d[<<i, i>>]
      /\ \A j \in Clocks : j # x => u[<<x, j>>] = d[<<y, j>>]
      /\ \A i \in Clocks : i # x => u[<<i, x>>] = d[<<i, y>>]
      /\ \A i, j \in Clocks : i # x /\ j # x => u[<<i, j>>] = d[<<i, j>>]
  BY <1>1 DEF ResetToClock, Matrices
<1>3. \A i, j \in Clocks : IsShift(d[<<i, j>>], d[<<i, j>>], 0)
  <2> SUFFICES ASSUME NEW i \in Clocks, NEW j \in Clocks
               PROVE  IsShift(d[<<i, j>>], d[<<i, j>>], 0)
    OBVIOUS
  <2>1. /\ d[<<i, j>>] \in Int /\ d[<<i, j>>] + 2 * 0 = d[<<i, j>>]
        /\ d[<<i, j>>] = LT_INFINITY \/ Proper(d[<<i, j>>])
    BY GoodFacts, EntryFacts
  <2> QED
    BY <2>1 DEF IsShift
<1>4. 0 - v = 0
  OBVIOUS
<1> QED
  BY <1>2, <1>3, <1>4, ResetParts

\* reset_to_sum
LEMMA ResetToSumFacts ==
  ASSUME NEW d, Good(d), NEW x \in Clocks, NEW y \in Clocks, NEW v \in Nat,
         NEW u, u = ResetToSum(d, x, y, v)
  PROVE  u = Thrown \/ IsReset(u, d, x, y, v)
<1> DEFINE e == [p \in Clocks \X Clocks |->
                   IF p[1] = p[2] THEN d[p]
                   ELSE IF p[1] = x THEN Add(d[<<y, p[2]>>], v)
                   ELSE IF p[2] = x THEN Add(d[<<p[1], y>>], -v)
                   ELSE d[p]]
<1>1. u = Thrown \/ u = OrThrown(e)
  BY DEF ResetToSum
<1>2. \A b \in Bound :
        /\ Add(b, v) \in Entries /\ Add(b, -v) \in Entries
        /\ Add(b, v) # OutOfBounds => IsShift(Add(b, v), b, v)
        /\ Add(b, -v) # OutOfBounds => IsShift(Add(b, -v), b, -v)
  BY AddShifts
<1>3. \A i, j \in Clocks : d[<<i, j>>] \in Bound /\ d[<<i, j>>] \in Entries
  BY GoodFacts
<1>4. /\ e \in EntryMatrices
      /\ \A i \in Clocks : e[<<i, i>>] = d[<<i, i>>]
      /\ \A j \in Clocks : j # x => e[<<x, j>>] = Add(d[<<y, j>>], v)
      /\ \A i \in Clocks : i # x => e[<<i, x>>] = Add(d[<<i, y>>], -v)
      /\ \A i, j \in Clocks : i # x /\ j # x => e[<<i, j>>] = d[<<i, j>>]
  <2>1. ASSUME NEW p \in Clocks \X Clocks PROVE e[p] \in Entries
    <3>1. p[1] \in Clocks /\ p[2] \in Clocks /\ p = <<p[1], p[2]>>
      OBVIOUS
    <3> QED
      BY <1>2, <1>3, <3>1
  <2>2. e \in EntryMatrices
    BY <2>1 DEF EntryMatrices
  <2> QED
    BY <2>2
<1> HIDE DEF e
<1>5. CASE u = e /\ u \in Matrices /\ \A i, j \in Clocks : u[<<i, j>>] # OutOfBounds
  <2>1. \A j \in Clocks : j # x => IsShift(u[<<x, j>>], d[<<y, j>>], v)
    BY <1>2, <1>3, <1>4, <1>5
  <2>2. \A i \in Clocks : i # x => IsShift(u[<<i, x>>], d[<<i, y>>], 0 - v)
    <3>1. 0 - v = -v
      OBVIOUS
    <3> QED
      BY <1>2, <1>3, <1>4, <1>5, <3>1
  <2> QED
    BY <1>4, <1>5, <2>1, <2>2, ResetParts
<1> QED
  BY <1>1, <1>4, <1>5, OrThrownFacts

\* Shifted bounds are those of a zone.
LEMMA ResetGood ==
  ASSUME NEW d, Good(d), NEW x \in Clocks \ {0}, NEW y \in Clocks, NEW v \in Nat,
         NEW u, IsReset(u, d, x, y, v)
  PROVE  Good(u) /\ (IsPositive(d) => IsPositive(u))
<1> DEFINE w == Source(x, y)
           s == Shift(x, v)
<1>1. w \in [Clocks -> Clocks] /\ w[0] = 0
  BY ClockFacts DEF Source
<1>2. s \in [Clocks -> Int] /\ s[0] = 0 /\ \A i \in Clocks : s[i] >= 0
  BY ClockFacts DEF Shift
<1> HIDE DEF w, s
<1>3. u \in Matrices
      /\ \A i, j \in Clocks : IsShift(u[<<i, j>>], d[<<w[i], w[j]>>], s[i] - s[j])
  BY DEF IsReset, w, s
<1> QED
  BY <1>1, <1>2, <1>3, ShiftedGood

\* reset yields the shifted bounds, or one of them is out of bounds.
LEMMA ResetFacts ==
  ASSUME NEW d, Good(d), NEW x \in Clocks \ {0}, NEW y \in Clocks, NEW v \in Nat,
         NEW u, u = Reset(d, x, y, v)
  PROVE  u = Thrown \/ IsReset(u, d, x, y, v)
BY ResetToValueFacts, ResetToClockFacts, ResetToSumFacts DEF Reset

\* reset keeps the zone in canonical form, and its clocks positive.
LEMMA ResetOutcome ==
  ASSUME NEW d, Good(d), NEW x \in Clocks \ {0}, NEW y \in Clocks, NEW v \in Nat,
         NEW u, u = Reset(d, x, y, v)
  PROVE  IsOutcome(u) /\ (IsZone(u) /\ IsPositive(d) => IsPositive(u))
<1>1. u = Thrown \/ IsReset(u, d, x, y, v)
  BY ResetFacts
<1> QED
  BY <1>1, ResetGood, OutcomesGood, OutcomesStopped

\* The lower bounds that an extrapolation keeps.  Those of clocks are at most 0 if the
\* upper bounds are not negative.
LEMMA RelaxedFacts ==
  ASSUME NEW x \in Clocks, NEW v \in Int
  PROVE  /\ Relaxed(x, v) \in Entries
         /\ v \in Nat \/ v = NoBound => Relaxed(0, v) <= LE_ZERO
<1>1. -v \in Int /\ LT \in {LT, LE} /\ LT = 0
  BY DEF LT
<1>2. /\ MakeBound(LT, -v) \in Entries
      /\ \/ MakeBound(LT, -v) = OutOfBounds
         \/ MakeBound(LT, -v) = 2 * (-v) + LT
  BY <1>1, MakeFacts
<1>3. Relaxed(x, v) \in Entries
  BY <1>2, BoundFacts DEF Relaxed, Entries
<1>4. ASSUME v \in Nat PROVE MakeBound(LT, -v) <= LE_ZERO
  <2>1. 2 * (-v) + LT <= 1
    BY <1>1, <1>4
  <2> QED
    BY <1>2, <2>1, EntryFacts
<1>5. LE_ZERO <= LE_ZERO
  BY EntryFacts
<1> QED
  BY <1>3, <1>4, <1>5 DEF Relaxed

\* The extrapolations, whose bounds are relaxed before they are tightened again.
LEMMA ExtrapolatedOutcome ==
  ASSUME NEW d, Good(d), NEW e \in EntryMatrices, IsConsistent(e),
         NEW u, u = TightenIfModified(d, e)
  PROVE  /\ IsOutcome(u)
         /\ IsZone(u) /\ IsPositive(d) /\ IsPositive(e) => IsPositive(u)
<1>1. CASE e = d
  BY <1>1, OutcomesGood DEF TightenIfModified
<1>2. CASE e # d
  <2>1. u = Tighten(e)
    BY <1>2 DEF TightenIfModified
  <2>2. u \in {Thrown, Empty} \/ IsTightened(u, e, Dim)
    BY <2>1, TightenFacts
  <2>3. CASE IsTightened(u, e, Dim)
    <3>1. Good(u)
      BY <2>3, TightenedIsGood
    <3>2. ASSUME IsPositive(e), NEW x \in Clocks PROVE u[<<0, x>>] <= LE_ZERO
      <4>1. u[<<0, x>>] <= e[<<0, x>>] /\ e[<<0, x>>] <= LE_ZERO
        BY <2>3, <3>2, ClockFacts DEF IsTightened, IsPositive
      <4>2. u[<<0, x>>] \in Int /\ e[<<0, x>>] \in Int /\ LE_ZERO \in Int
        BY <3>1, GoodFacts, ClockFacts, EntryFacts
      <4> QED
        BY <4>1, <4>2
    <3> QED
      BY <3>1, <3>2, OutcomesGood DEF IsPositive
  <2> QED
    BY <2>2, <2>3, OutcomesStopped
<1> QED
  BY <1>1, <1>2

\* extra_lu keeps the zone in canonical form, and its clocks positive for such bounds.
LEMMA ExtraLUOutcome ==
  ASSUME NEW d, Good(d), NEW l \in [Clocks -> Int], NEW ub \in [Clocks -> Int],
         NEW u, u = ExtraLU(d, l, ub)
  PROVE  /\ IsOutcome(u)
         /\ IsZone(u) /\ IsPositive(d) /\ (\A x \in Clocks : ub[x] \in Nat \cup {NoBound})
              => IsPositive(u)
<1> DEFINE e == [p \in Clocks \X Clocks |->
                   LET x == p[1]
                       y == p[2]
                       c == Value(d[p])
                   IN IF x = y \/ d[p] = LT_INFINITY \/ (x = 0 /\ d[p] = LE_ZERO) THEN d[p]
                      ELSE IF x # 0 /\ c > l[x] THEN LT_INFINITY
                      ELSE IF -c > ub[y] THEN Relaxed(x, ub[y])
                      ELSE d[p]]
<1>1. u = TightenIfModified(d, e)
  BY DEF ExtraLU
<1>2. \A i, j \in Clocks :
        /\ i = j => e[<<i, j>>] = d[<<i, j>>]
        /\ e[<<i, j>>] \in {d[<<i, j>>], LT_INFINITY, Relaxed(i, ub[j])}
        /\ i = 0 => e[<<i, j>>] \in {d[<<i, j>>], Relaxed(i, ub[j])}
  OBVIOUS
<1>3. LT_INFINITY \in Entries
  BY BoundFacts DEF Entries
<1>4. e \in EntryMatrices
  <2>1. \A i, j \in Clocks : e[<<i, j>>] \in Entries
    <3> HIDE DEF e
    <3> SUFFICES ASSUME NEW i \in Clocks, NEW j \in Clocks PROVE e[<<i, j>>] \in Entries
      OBVIOUS
    <3>1. Relaxed(i, ub[j]) \in Entries
      BY RelaxedFacts
    <3>2. d[<<i, j>>] \in Entries
      BY GoodFacts
    <3> QED
      BY <1>2, <1>3, <3>1, <3>2
  <2>2. e = [p \in Clocks \X Clocks |-> e[p]]
    OBVIOUS
  <2> HIDE DEF e
  <2>3. \A p \in Clocks \X Clocks : e[p] \in Entries
    BY <2>1
  <2> QED
    BY <2>2, <2>3 DEF EntryMatrices
<1> HIDE DEF e
<1>5. IsConsistent(e)
  BY <1>2, GoodFacts DEF IsConsistent
<1>6. ASSUME IsPositive(d), \A x \in Clocks : ub[x] \in Nat \cup {NoBound} PROVE IsPositive(e)
  <2> SUFFICES ASSUME NEW y \in Clocks PROVE e[<<0, y>>] <= LE_ZERO
    BY DEF IsPositive
  <2>1. Relaxed(0, ub[y]) <= LE_ZERO
    BY <1>6, RelaxedFacts, ClockFacts
  <2>2. d[<<0, y>>] <= LE_ZERO
    BY <1>6 DEF IsPositive
  <2> QED
    BY <1>2, <2>1, <2>2, ClockFacts
<1> QED
  BY <1>1, <1>4, <1>5, <1>6, ExtrapolatedOutcome

\* extra_lu_plus does the same.
LEMMA ExtraLUPlusOutcome ==
  ASSUME NEW d, Good(d), NEW l \in [Clocks -> Int], NEW ub \in [Clocks -> Int],
         NEW u, u = ExtraLUPlus(d, l, ub)
  PROVE  /\ IsOutcome(u)
         /\ IsZone(u) /\ IsPositive(d) /\ (\A x \in Clocks : ub[x] \in Nat \cup {NoBound})
              => IsPositive(u)
<1> DEFINE e == [p \in Clocks \X Clocks |->
                   LET x == p[1]
                       y == p[2]
                   IN IF x = y \/ d[p] = LT_INFINITY THEN d[p]
                      ELSE IF x = 0
                        THEN IF -Value(d[<<0, y>>]) > ub[y] THEN Relaxed(0, ub[y]) ELSE d[p]
                      ELSE IF \/ -Value(d[<<0, x>>]) > l[x]
                              \/ Value(d[p]) > l[x]
                              \/ -Value(d[<<0, y>>]) > ub[y]
                        THEN LT_INFINITY
                      ELSE d[p]]
<1>1. u = TightenIfModified(d, e)
  BY DEF ExtraLUPlus
<1>2. \A i, j \in Clocks :
        /\ i = j => e[<<i, j>>] = d[<<i, j>>]
        /\ e[<<i, j>>] \in {d[<<i, j>>], LT_INFINITY, Relaxed(0, ub[j])}
        /\ i = 0 => e[<<i, j>>] \in {d[<<i, j>>], Relaxed(0, ub[j])}
  OBVIOUS
<1>3. LT_INFINITY \in Entries
  BY BoundFacts DEF Entries
<1>4. e \in EntryMatrices
  <2>1. \A i, j \in Clocks : e[<<i, j>>] \in Entries
    <3> HIDE DEF e
    <3> SUFFICES ASSUME NEW i \in Clocks, NEW j \in Clocks PROVE e[<<i, j>>] \in Entries
      OBVIOUS
    <3>1. Relaxed(0, ub[j]) \in Entries
      BY RelaxedFacts, ClockFacts
    <3>2. d[<<i, j>>] \in Entries
      BY GoodFacts
    <3> QED
      BY <1>2, <1>3, <3>1, <3>2
  <2>2. e = [p \in Clocks \X Clocks |-> e[p]]
    OBVIOUS
  <2> HIDE DEF e
  <2>3. \A p \in Clocks \X Clocks : e[p] \in Entries
    BY <2>1
  <2> QED
    BY <2>2, <2>3 DEF EntryMatrices
<1> HIDE DEF e
<1>5. IsConsistent(e)
  BY <1>2, GoodFacts DEF IsConsistent
<1>6. ASSUME IsPositive(d), \A x \in Clocks : ub[x] \in Nat \cup {NoBound} PROVE IsPositive(e)
  <2> SUFFICES ASSUME NEW y \in Clocks PROVE e[<<0, y>>] <= LE_ZERO
    BY DEF IsPositive
  <2>1. Relaxed(0, ub[y]) <= LE_ZERO
    BY <1>6, RelaxedFacts, ClockFacts
  <2>2. d[<<0, y>>] <= LE_ZERO
    BY <1>6 DEF IsPositive
  <2> QED
    BY <1>2, <2>1, <2>2, ClockFacts
<1> QED
  BY <1>1, <1>4, <1>5, <1>6, ExtrapolatedOutcome

-----------------------------------------------------------------------------
(* The zones. *)

\* The zone where all the clocks are 0.
ZeroIsGood == Good(Zero) /\ IsPositive(Zero)

\* The zone where all the clocks are 0 is one to start from.
LEMMA ZeroFacts == ZeroIsGood
<1>1. \A x, y \in Clocks : Zero[<<x, y>>] = LE_ZERO
  BY DEF Zero
<1>2. Zero \in Matrices
  BY BoundFacts DEF Zero, Matrices
<1>3. LE_ZERO <= LE_ZERO /\ LE_ZERO # LT_INFINITY /\ Plus(LE_ZERO, LE_ZERO) = LE_ZERO
  BY PlusParts, EntryFacts
<1>4. Tightly(Zero)
  BY <1>1, <1>3 DEF Tightly, Triangle
<1> QED
  BY <1>1, <1>2, <1>3, <1>4, ClockFacts DEF ZeroIsGood, Good, IsConsistent, IsPositive

\* The upper bounds of clocks that the code's assertions are right about.
PositiveBounds == \A b \in ClockBounds : \A x \in Clocks : b.u[x] \in Nat \cup {NoBound}

\* The zone is one that the functions may return: canonical if it is not told empty.
Computed ==
  /\ IsOutcome(dbm)
  /\ PositiveBounds => (IsZone(dbm) => IsPositive(dbm))

\* The stored zone is one that was computed with, and what it simulates is its own.
Stored ==
  /\ comparing \in BOOLEAN
  /\ stored # Nothing =>
       /\ Good(stored.zone) /\ IsSampled(stored.zone) /\ stored.bounds \in ClockBounds
       /\ stored.simulated = Simulated(stored.zone, stored.bounds.l, stored.bounds.u)
       /\ PositiveBounds => IsPositive(stored.zone)

ZInv == Computed /\ Stored

\* A zone that is computed with is in canonical form.
LEMMA SampledFacts ==
  ASSUME IsOutcome(dbm), IsSampled(dbm)
  PROVE  Good(dbm) /\ IsZone(dbm)
BY DEF IsSampled, IsOutcome

\* Constraints of guards and invariants.
LEMMA ConstrainStep ==
  ASSUME ZInv, ConstrainZone
  PROVE  Computed'
<1>1. PICK k \in Allowed(Constraints) : dbm' = Constrain(dbm, k.x, k.y, k.cmp, k.c)
  BY DEF ConstrainZone
<1>2. /\ k.x \in Clocks /\ k.y \in Clocks /\ k.cmp \in {LT, LE} /\ k.c \in Int
  BY <1>1, ConstraintsAssumption DEF Allowed
<1>3. Good(dbm) /\ IsZone(dbm)
  BY SampledFacts DEF ZInv, Computed, ConstrainZone
<1>4. /\ IsOutcome(dbm')
      /\ IsZone(dbm') => \A i, j \in Clocks : dbm'[<<i, j>>] <= dbm[<<i, j>>]
  BY <1>1, <1>2, <1>3, ConstrainOutcome
<1>5. ASSUME IsZone(dbm'), IsPositive(dbm) PROVE IsPositive(dbm')
  <2> SUFFICES ASSUME NEW x \in Clocks PROVE dbm'[<<0, x>>] <= LE_ZERO
    BY DEF IsPositive
  <2>1. dbm'[<<0, x>>] <= dbm[<<0, x>>] /\ dbm[<<0, x>>] <= LE_ZERO
    BY <1>4, <1>5, ClockFacts DEF IsPositive
  <2>2. Good(dbm')
    BY <1>4, <1>5 DEF IsOutcome
  <2>3. dbm[<<0, x>>] \in Int
    BY <1>3, GoodFacts, ClockFacts
  <2>4. dbm'[<<0, x>>] \in Int
    BY <2>2, GoodFacts, ClockFacts
  <2> QED
    BY <2>1, <2>3, <2>4, EntryFacts
<1> QED
  BY <1>3, <1>4, <1>5 DEF ZInv, Computed, PositiveBounds

\* Resets.
LEMMA ResetStep ==
  ASSUME ZInv, ResetZone
  PROVE  Computed'
<1>1. PICK r \in Allowed(Resets) : dbm' = Reset(dbm, r.x, r.y, r.c)
  BY DEF ResetZone
<1>2. r.x \in Clocks \ {0} /\ r.y \in Clocks /\ r.c \in Nat
  BY <1>1, ResetsAssumption DEF Allowed
<1>3. Good(dbm) /\ IsZone(dbm)
  BY SampledFacts DEF ZInv, Computed, ResetZone
<1>4. IsOutcome(dbm') /\ (IsZone(dbm') /\ IsPositive(dbm) => IsPositive(dbm'))
  BY <1>1, <1>2, <1>3, ResetOutcome
<1> QED
  BY <1>3, <1>4 DEF ZInv, Computed, PositiveBounds

\* Elapse of time.
LEMMA OpenUpStep ==
  ASSUME ZInv, OpenUpZone
  PROVE  Computed'
<1>1. Good(dbm) /\ IsZone(dbm) /\ dbm' = OpenUp(dbm)
  BY SampledFacts DEF ZInv, Computed, OpenUpZone
<1>2. Good(dbm') /\ (IsPositive(dbm) => IsPositive(dbm'))
  BY <1>1, OpenUpOutcome
<1> QED
  BY <1>1, <1>2, OutcomesGood DEF ZInv, Computed, PositiveBounds

\* Extrapolations.
LEMMA ExtrapolateStep ==
  ASSUME ZInv, ExtrapolateZone
  PROVE  Computed'
<1>1. PICK b \in ClockBounds : dbm' = ExtraLU(dbm, b.l, b.u) \/ dbm' = ExtraLUPlus(dbm, b.l, b.u)
  BY DEF ExtrapolateZone
<1>2. b.l \in [Clocks -> Int] /\ b.u \in [Clocks -> Int]
  BY ClockBoundsAssumption
<1>3. Good(dbm) /\ IsZone(dbm)
  BY SampledFacts DEF ZInv, Computed, ExtrapolateZone
<1>4. /\ IsOutcome(dbm')
      /\ IsZone(dbm') /\ IsPositive(dbm) /\ (\A x \in Clocks : b.u[x] \in Nat \cup {NoBound})
           => IsPositive(dbm')
  BY <1>1, <1>2, <1>3, ExtraLUOutcome, ExtraLUPlusOutcome
<1>5. PositiveBounds => \A x \in Clocks : b.u[x] \in Nat \cup {NoBound}
  BY DEF PositiveBounds
<1>6. PositiveBounds' = PositiveBounds
  BY DEF PositiveBounds
<1> QED
  BY <1>3, <1>4, <1>5, <1>6 DEF ZInv, Computed

\* The invariant holds of the first zone.
LEMMA ZInvInit == Init => ZInv
<1> SUFFICES ASSUME Init PROVE ZInv
  OBVIOUS
<1>1. IsOutcome(dbm) /\ IsPositive(dbm)
  BY ZeroFacts, OutcomesGood DEF Init, ZeroIsGood
<1> QED
  BY <1>1 DEF Init, ZInv, Computed, Stored

\* Operations on the zone leave what is stored alone.
LEMMA StoredUnchanged ==
  ASSUME Stored, UNCHANGED <<comparing, stored>>
  PROVE  Stored'
BY DEF Stored, PositiveBounds

\* Every operation keeps the invariant.
LEMMA ZInvNext == ZInv /\ [Next]_vars => ZInv'
<1> SUFFICES ASSUME ZInv, [Next]_vars PROVE ZInv'
  OBVIOUS
<1>1. CASE ConstrainZone
  BY <1>1, ConstrainStep, StoredUnchanged DEF ConstrainZone, ZInv
<1>2. CASE ResetZone
  BY <1>2, ResetStep, StoredUnchanged DEF ResetZone, ZInv
<1>3. CASE OpenUpZone
  BY <1>3, OpenUpStep, StoredUnchanged DEF OpenUpZone, ZInv
<1>4. CASE ExtrapolateZone
  BY <1>4, ExtrapolateStep, StoredUnchanged DEF ExtrapolateZone, ZInv
<1>5. CASE Store
  <2>1. PICK b \in ClockBounds :
          stored' = [zone |-> dbm, bounds |-> b, simulated |-> Simulated(dbm, b.l, b.u)]
    BY <1>5 DEF Store
  <2>2. Good(dbm) /\ IsZone(dbm) /\ IsSampled(dbm) /\ (PositiveBounds => IsPositive(dbm))
    BY <1>5, SampledFacts DEF Store, ZInv, Computed
  <2>3. /\ stored'.zone = dbm /\ stored'.bounds = b
        /\ stored'.simulated = Simulated(dbm, b.l, b.u)
    BY <2>1
  <2>4. Computed'
    BY <1>5 DEF Store, ZInv, Computed, PositiveBounds
  <2>5. comparing' = comparing /\ PositiveBounds' = PositiveBounds
    BY <1>5 DEF Store, PositiveBounds
  <2>6. /\ Good(stored.zone)' = Good(stored'.zone)
        /\ IsSampled(stored.zone)' = IsSampled(stored'.zone)
        /\ IsPositive(stored.zone)' = IsPositive(stored'.zone)
        /\ Simulated(stored.zone, stored.bounds.l, stored.bounds.u)'
             = Simulated(stored'.zone, stored'.bounds.l, stored'.bounds.u)
    OBVIOUS
  <2>7. Stored'
    BY <2>1, <2>2, <2>3, <2>5, <2>6 DEF ZInv, Stored
  <2> QED
    BY <2>4, <2>7 DEF ZInv
<1>6. CASE UNCHANGED vars
  BY <1>6, StoredUnchanged DEF vars, ZInv, Computed, PositiveBounds
<1> QED
  BY <1>1, <1>2, <1>3, <1>4, <1>5, <1>6 DEF Next

\* The triangles of the invariant are those of the code's assertion.
LEMMA GoodIsTight ==
  ASSUME NEW d, Good(d)
  PROVE  IsConsistent(d) /\ IsTight(d)
<1>1. ASSUME NEW x \in Clocks, NEW y \in Clocks, NEW z \in Clocks,
             LT_INFINITY \notin {d[<<x, z>>], d[<<z, y>>]}
      PROVE  d[<<x, y>>] <= Plus(d[<<x, z>>], d[<<z, y>>])
  <2>1. Proper(d[<<x, z>>]) /\ Proper(d[<<z, y>>])
    BY <1>1, GoodFacts DEF Proper
  <2> QED
    BY <2>1 DEF Good, Tightly, Triangle
<1>2. IsTight(d)
  BY <1>1 DEF IsTight, Plus
<1> QED
  BY <1>2 DEF Good

\* What the invariant is for.
LEMMA ZInvMeans ==
  ASSUME ZInv
  PROVE  /\ TypeOK
         /\ IsZone(dbm) => IsConsistent(dbm) /\ IsTight(dbm)
         /\ PositiveBounds /\ IsZone(dbm) => IsPositive(dbm)
<1>1. TypeOK
  <2>1. stored # Nothing => stored.zone \in Matrices /\ stored.simulated \subseteq Sample
    BY DEF ZInv, Stored, Good, Simulated
  <2> QED
    BY <2>1 DEF ZInv, Computed, Stored, IsOutcome, TypeOK
<1>2. IsZone(dbm) => Good(dbm)
  BY DEF ZInv, Computed, IsOutcome
<1> QED
  BY <1>1, <1>2, GoodIsTight DEF ZInv, Computed

\* What the functions of dbm.cc rely on, whatever the clock bounds.
TightZones == TypeOK /\ (IsZone(dbm) => IsConsistent(dbm) /\ IsTight(dbm))

\* In every order of the operations, for all clock bounds, negative ones included: the
\* bounds of a zone that is not told empty are consistent and tight.
THEOREM TightZonesCorrect == Spec => []TightZones
<1>1. ZInv => TightZones
  BY ZInvMeans DEF TightZones
<1> QED
  BY <1>1, ZInvInit, ZInvNext, PTL DEF Spec

\* The zones are in the form that the assertions of dbm.cc state, when the clocks have no
\* negative bounds: each operation re-establishes what the next one relies on, although
\* it updates only the bounds it must.
THEOREM CanonicalCorrect ==
  ASSUME PositiveBounds
  PROVE  Spec => []Canonical
<1>1. ZInv => Canonical
  BY ZInvMeans DEF Canonical
<1> QED
  BY <1>1, ZInvInit, ZInvNext, PTL DEF Spec

-----------------------------------------------------------------------------
(* Valuations. *)

Values == [Clocks -> Int]

\* v satisfies the bound b of x - y.
Sat(v, x, y, b) == Satisfies(v, x, y, Comparator(b), Value(b))

\* v satisfies the entry b of x and y, if it is the bound of anything.
Fits(v, x, y, b) == b \in {LT_INFINITY, OutOfBounds} \/ Sat(v, x, y, b)

\* v satisfies all the bounds of m.
Admits(v, m) == \A x, y \in Clocks : Fits(v, x, y, m[<<x, y>>])

\* Products with a positive number keep the order.
LEMMA ProductFacts ==
  ASSUME NEW a \in Int, NEW b \in Int, NEW k \in Nat \ {0}
  PROVE  /\ a * k \in Int
         /\ (a + b) * k = a * k + b * k
         /\ a < b => a * k < b * k
<1>1. a * k \in Int /\ (a + b) * k = a * k + b * k
  OBVIOUS
<1>2. ASSUME a < b PROVE a * k < b * k
  <2>1. b - a \in Nat /\ b - a > 0 /\ b = a + (b - a)
    BY <1>2
  <2>2. b * k = a * k + (b - a) * k
    BY <2>1
  <2>3. (b - a) * k > 0
    BY <2>1
  <2>4. a * k \in Int /\ (b - a) * k \in Int
    BY <2>1
  <2> QED
    BY <2>2, <2>3, <2>4
<1> QED
  BY <1>1, <1>2

\* A unit of time has grains.
LEMMA UnitFacts == Unit \in Nat \ {0}
<1>1. \A n \in Nat \ {0} : n * n \in Nat \ {0}
  OBVIOUS
<1> QED
  BY <1>1, DimAssumption DEF Unit

\* What satisfies a bound satisfies a greater one.
LEMMA SatMonotone ==
  ASSUME NEW v \in Values, NEW x \in Clocks, NEW y \in Clocks,
         NEW a \in Int, NEW b \in Int, a <= b, Sat(v, x, y, a)
  PROVE  Sat(v, x, y, b)
<1> DEFINE d == v[x] - v[y]
           ca == Comparator(a)
           cb == Comparator(b)
           va == Value(a)
           vb == Value(b)
           pa == va * Unit
           pb == vb * Unit
<1>1. /\ va \in Int /\ ca \in {0, 1} /\ a = 2 * va + ca
      /\ vb \in Int /\ cb \in {0, 1} /\ b = 2 * vb + cb
  BY Parts
<1>2. d \in Int
  BY DEF Values
<1>3. IF ca = 0 THEN d < pa ELSE d <= pa
  BY DEF Sat, Satisfies, LT
<1>4. pa \in Int /\ pb \in Int /\ (va < vb => pa < pb)
  BY <1>1, UnitFacts, ProductFacts
<1>5. va < vb \/ (va = vb /\ pa = pb /\ ca <= cb)
  BY <1>1
<1> HIDE DEF d, ca, cb, pa, pb
<1>6. IF cb = 0 THEN d < pb ELSE d <= pb
  BY <1>1, <1>2, <1>3, <1>4, <1>5
<1> QED
  BY <1>6 DEF Sat, Satisfies, LT, d, cb, pb

\* What satisfies two bounds satisfies that of the path.
LEMMA SatPlus ==
  ASSUME NEW v \in Values, NEW x \in Clocks, NEW z \in Clocks, NEW y \in Clocks,
         NEW a \in Int, NEW b \in Int, Sat(v, x, z, a), Sat(v, z, y, b)
  PROVE  Sat(v, x, y, Plus(a, b))
<1> DEFINE ca == Comparator(a)
           cb == Comparator(b)
           va == Value(a)
           vb == Value(b)
           pa == va * Unit
           pb == vb * Unit
           q  == (va + vb) * Unit
<1>1. va \in Int /\ ca \in {0, 1} /\ vb \in Int /\ cb \in {0, 1}
  BY Parts
<1>2. v[x] \in Int /\ v[y] \in Int /\ v[z] \in Int
  BY DEF Values
<1>3. /\ IF ca = 0 THEN v[x] - v[z] < pa ELSE v[x] - v[z] <= pa
      /\ IF cb = 0 THEN v[z] - v[y] < pb ELSE v[z] - v[y] <= pb
  BY DEF Sat, Satisfies, LT
<1>4. pa \in Int /\ pb \in Int /\ q = pa + pb
  BY <1>1, UnitFacts, ProductFacts
<1>5. Value(Plus(a, b)) = va + vb /\ Comparator(Plus(a, b)) = ca * cb
  BY PlusParts
<1>6. ca * cb \in {0, 1} /\ (ca * cb = 1 => ca = 1 /\ cb = 1)
  BY <1>1
<1> HIDE DEF ca, cb, va, vb, pa, pb, q
<1>7. IF ca * cb = 0 THEN v[x] - v[y] < q ELSE v[x] - v[y] <= q
  <2>1. v[x] - v[y] = (v[x] - v[z]) + (v[z] - v[y])
    BY <1>2
  <2>2. v[x] - v[z] <= pa /\ v[z] - v[y] <= pb
    BY <1>1, <1>2, <1>3, <1>4
  <2>3. CASE ca * cb = 0
    <3>1. ca = 0 \/ cb = 0
      BY <1>1, <2>3
    <3>2. v[x] - v[z] < pa \/ v[z] - v[y] < pb
      BY <1>3, <3>1
    <3> QED
      BY <1>2, <1>4, <2>1, <2>2, <2>3, <3>2
  <2>4. CASE ca * cb # 0
    BY <1>2, <1>4, <2>1, <2>2, <2>4
  <2> QED
    BY <2>3, <2>4
<1> QED
  BY <1>5, <1>7 DEF Sat, Satisfies, LT, q

\* No value is less than itself.
LEMMA SatSelf ==
  ASSUME NEW v \in Values, NEW x \in Clocks, NEW b \in Int, Sat(v, x, x, b)
  PROVE  LE_ZERO <= b
<1> DEFINE p == Value(b) * Unit
<1>1. Value(b) \in Int /\ Comparator(b) \in {0, 1} /\ b = 2 * Value(b) + Comparator(b)
  BY Parts
<1>2. v[x] - v[x] = 0
  BY DEF Values
<1>3. IF Comparator(b) = 0 THEN 0 < p ELSE 0 <= p
  BY <1>2 DEF Sat, Satisfies, LT
<1>4. Value(b) < 0 => p < 0
  <2>1. Value(b) < 0 => p < 0 * Unit
    BY <1>1, UnitFacts, ProductFacts
  <2> QED
    BY <2>1, UnitFacts
<1>5. Value(b) = 0 => p = 0
  BY UnitFacts
<1>6. p \in Int
  BY <1>1, UnitFacts, ProductFacts
<1> HIDE DEF p
<1>7. Value(b) > 0 \/ (Value(b) = 0 /\ Comparator(b) = 1)
  BY <1>1, <1>3, <1>4, <1>5, <1>6
<1>8. LE_ZERO = 1
  BY BoundFacts
<1> QED
  BY <1>1, <1>7, <1>8

-----------------------------------------------------------------------------
(* Tightening loses no valuation. *)

\* What fits the parts of a path fits the sum of their bounds, if there is one.
LEMMA FitsSum ==
  ASSUME NEW v \in Values, NEW x \in Clocks, NEW z \in Clocks, NEW y \in Clocks,
         NEW a \in Entries, NEW b \in Entries, Fits(v, x, z, a), Fits(v, z, y, b)
  PROVE  Fits(v, x, y, Sum(a, b))
<1>1. a \in Int /\ b \in Int
  BY EntryFacts
<1>2. CASE a \in {LT_INFINITY, OutOfBounds} \/ b \in {LT_INFINITY, OutOfBounds}
  BY <1>2, SumFacts DEF Fits
<1>3. CASE ~ (a \in {LT_INFINITY, OutOfBounds} \/ b \in {LT_INFINITY, OutOfBounds})
  <2>1. Proper(a) /\ Proper(b)
    BY <1>3 DEF Proper
  <2>2. Sat(v, x, y, Plus(a, b))
    BY <1>1, <1>3, SatPlus DEF Fits
  <2>3. Sum(a, b) = OutOfBounds \/ Sum(a, b) = Plus(a, b)
    BY <2>1, SumFacts
  <2> QED
    BY <2>2, <2>3 DEF Fits
<1> QED
  BY <1>2, <1>3

\* What fits the bounds of a matrix fits them after a row has been tightened.
LEMMA RowAdmits ==
  ASSUME NEW v \in Values, NEW m \in EntryMatrices, NEW i \in Clocks, NEW z \in Clocks,
         Admits(v, m)
  PROVE  Admits(v, TightenRow(m, i, z))
<1>1. PICK row \in [0 .. Dim -> EntryMatrices] : IsRowLoop(row, m, i, z)
  BY RowLoop, Zenon
<1> DEFINE S == {n \in 0 .. Dim : Admits(v, row[n])}
<1>2. 0 \in S
  BY <1>1, ClockFacts DEF IsRowLoop
<1>3. ASSUME NEW n \in 0 .. Dim - 1, n \in S PROVE n + 1 \in S
  <2>1. n \in Clocks /\ n \in 0 .. Dim /\ n + 1 \in 0 .. Dim
    BY ClockFacts
  <2>2. row[n] \in EntryMatrices /\ Admits(v, row[n])
    BY <1>3, <2>1
  <2> DEFINE a == row[n][<<i, n>>]
             b == Sum(row[n][<<i, z>>], row[n][<<z, n>>])
  <2>3. a \in Entries /\ Fits(v, i, n, a)
    BY <2>1, <2>2, ClockFacts DEF Admits
  <2>4. b \in Entries /\ Fits(v, i, n, b)
    <3>1. row[n][<<i, z>>] \in Entries /\ row[n][<<z, n>>] \in Entries
      BY <2>1, <2>2, ClockFacts
    <3>2. Fits(v, i, z, row[n][<<i, z>>]) /\ Fits(v, z, n, row[n][<<z, n>>])
      BY <2>1, <2>2 DEF Admits
    <3> QED
      BY <2>1, <3>1, <3>2, FitsSum, SumFacts
  <2>5. row[n + 1] = [row[n] EXCEPT ![<<i, n>>] = Min(a, b)]
    BY <1>1, <2>1 DEF IsRowLoop
  <2> HIDE DEF a, b
  <2>6. Fits(v, i, n, Min(a, b))
    BY <2>3, <2>4 DEF Min
  <2>7. \A x, y \in Clocks :
          row[n + 1][<<x, y>>] = IF x = i /\ y = n THEN Min(a, b) ELSE row[n][<<x, y>>]
    BY <2>1, <2>2, <2>5 DEF EntryMatrices
  <2>8. Admits(v, row[n + 1])
    BY <2>2, <2>6, <2>7 DEF Admits
  <2> QED
    BY <2>1, <2>8
<1> HIDE DEF S
<1>4. \A n \in 0 .. Dim : n \in S
  BY <1>2, <1>3, CountingTo, ClockFacts
<1> QED
  BY <1>1, <1>4, ClockFacts DEF IsRowLoop, S

\* Nothing fits an empty zone, and anything fits what a function that has thrown leaves.
LEMMA OutcomesAdmit ==
  ASSUME NEW v \in Values
  PROVE  Admits(v, Thrown) /\ ~ Admits(v, Empty)
<1>1. \A x, y \in Clocks : Thrown[<<x, y>>] = OutOfBounds
  BY DEF Thrown
<1>2. Empty[<<0, 0>>] = LT_ZERO
  BY ClockFacts DEF Empty
<1>3. ~ Fits(v, 0, 0, LT_ZERO)
  <2>1. LT_ZERO \in Int /\ ~ (LE_ZERO <= LT_ZERO) /\ LT_ZERO \notin {LT_INFINITY, OutOfBounds}
    BY BoundFacts
  <2>2. ~ Sat(v, 0, 0, LT_ZERO)
    BY <2>1, SatSelf, ClockFacts
  <2> QED
    BY <2>1, <2>2 DEF Fits
<1> QED
  BY <1>1, <1>2, <1>3, ClockFacts DEF Admits, Fits

\* A row that something fits does not tell that the zone is empty.
LEMMA CheckAdmits ==
  ASSUME NEW v \in Values, NEW m \in EntryMatrices, NEW i \in Clocks, Admits(v, m)
  PROVE  Admits(v, CheckRow(m, i))
<1>1. CASE \E j \in Clocks : m[<<i, j>>] = OutOfBounds
  <2>1. CheckRow(m, i) = Thrown
    BY <1>1 DEF CheckRow
  <2> QED
    BY <2>1, OutcomesAdmit
<1>2. CASE ~ \E j \in Clocks : m[<<i, j>>] = OutOfBounds
  <2>1. ~ (m[<<i, i>>] < LE_ZERO)
    <3> SUFFICES ASSUME m[<<i, i>>] < LE_ZERO PROVE FALSE
      OBVIOUS
    <3>1. m[<<i, i>>] \in Int /\ m[<<i, i>>] # OutOfBounds
      BY <1>2, ClockFacts
    <3>2. m[<<i, i>>] # LT_INFINITY
      BY <3>1, EntryFacts
    <3>3. Sat(v, i, i, m[<<i, i>>])
      BY <3>1, <3>2 DEF Admits, Fits
    <3>4. LE_ZERO <= m[<<i, i>>]
      BY <3>1, <3>3, SatSelf
    <3> QED
      BY <3>1, <3>4, EntryFacts
  <2>2. CheckRow(m, i) = m
    BY <1>2, <2>1 DEF CheckRow
  <2> QED
    BY <2>2
<1> QED
  BY <1>1, <1>2

\* An iteration of tighten(dbm, dim, x, y) loses nothing.
LEMMA FromStepAdmits ==
  ASSUME NEW v \in Values, NEW t \in EntryMatrices,
         NEW x \in Clocks, NEW y \in Clocks, NEW i \in Clocks, Admits(v, t)
  PROVE  Admits(v, FromStep(t, x, y, i))
<1> DEFINE ixy == Sum(t[<<i, x>>], t[<<x, y>>])
           s == [t EXCEPT ![<<i, y>>] = ixy]
<1>1. ixy \in Entries /\ Fits(v, i, y, ixy)
  <2>1. t[<<i, x>>] \in Entries /\ t[<<x, y>>] \in Entries
    BY ClockFacts
  <2>2. Fits(v, i, x, t[<<i, x>>]) /\ Fits(v, x, y, t[<<x, y>>])
    BY DEF Admits
  <2> QED
    BY <2>1, <2>2, FitsSum, SumFacts
<1> HIDE DEF ixy
<1>2. s \in EntryMatrices /\ Admits(v, s)
  <2>1. \A a, b \in Clocks : s[<<a, b>>] = IF a = i /\ b = y THEN ixy ELSE t[<<a, b>>]
    BY DEF EntryMatrices
  <2>2. s \in EntryMatrices
    BY <1>1 DEF EntryMatrices
  <2> QED
    BY <1>1, <2>1, <2>2 DEF Admits
<1> HIDE DEF s
<1>3. /\ TightenRow(t, x, y) \in EntryMatrices /\ Admits(v, TightenRow(t, x, y))
      /\ TightenRow(s, i, y) \in EntryMatrices /\ Admits(v, TightenRow(s, i, y))
  BY <1>2, RowFacts, RowAdmits
<1>4. /\ Admits(v, CheckRow(TightenRow(t, x, y), x))
      /\ Admits(v, CheckRow(TightenRow(s, i, y), i))
  BY <1>3, CheckAdmits
<1> QED
  BY <1>4 DEF FromStep, TightenOne, s, ixy

\* tighten(dbm, dim, x, y) loses nothing.
LEMMA FromAdmits ==
  ASSUME NEW v \in Values, NEW m \in EntryMatrices, NEW x \in Clocks, NEW y \in Clocks,
         Admits(v, m)
  PROVE  Admits(v, TightenFrom(m, x, y))
<1>1. PICK tight \in [0 .. Dim -> EntryMatrices] : IsFromLoop(tight, m, x, y)
  BY FromLoop, Zenon
<1> DEFINE S == {n \in 0 .. Dim : Admits(v, tight[n])}
<1>2. 0 \in S
  BY <1>1, ClockFacts DEF IsFromLoop
<1>3. ASSUME NEW n \in 0 .. Dim - 1, n \in S PROVE n + 1 \in S
  <2>1. n \in Clocks /\ n \in 0 .. Dim /\ n + 1 \in 0 .. Dim
    BY ClockFacts
  <2>2. tight[n + 1] = FromStep(tight[n], x, y, n)
    BY <1>1, <2>1 DEF IsFromLoop
  <2> QED
    BY <1>3, <2>1, <2>2, FromStepAdmits
<1> HIDE DEF S
<1>4. \A n \in 0 .. Dim : n \in S
  BY <1>2, <1>3, CountingTo, ClockFacts
<1>5. Admits(v, tight[Dim])
  BY <1>4, ClockFacts DEF S
<1>6. m[<<x, y>>] = LT_INFINITY => TightenFrom(m, x, y) = m
  BY DEF TightenFrom
<1> QED
  BY <1>1, <1>5, <1>6 DEF IsFromLoop

\* Tightening through one clock loses nothing.
LEMMA ViaAdmits ==
  ASSUME NEW v \in Values, NEW m \in EntryMatrices, NEW z \in Clocks, Admits(v, m)
  PROVE  Admits(v, TightenVia(m, z))
<1>1. PICK rows \in [0 .. Dim -> EntryMatrices] : IsViaLoop(rows, m, z)
  BY ViaLoop, Zenon
<1> DEFINE S == {n \in 0 .. Dim : Admits(v, rows[n])}
<1>2. 0 \in S
  BY <1>1, ClockFacts DEF IsViaLoop
<1>3. ASSUME NEW n \in 0 .. Dim - 1, n \in S PROVE n + 1 \in S
  <2>1. n \in Clocks /\ n \in 0 .. Dim /\ n + 1 \in 0 .. Dim
    BY ClockFacts
  <2>2. rows[n] \in EntryMatrices /\ Admits(v, rows[n])
    BY <1>3, <2>1
  <2>3. TightenRow(rows[n], n, z) \in EntryMatrices /\ Admits(v, TightenRow(rows[n], n, z))
    BY <2>1, <2>2, RowFacts, RowAdmits
  <2>4. Admits(v, CheckRow(TightenRow(rows[n], n, z), n))
    BY <2>1, <2>3, CheckAdmits
  <2>5. rows[n + 1] = ViaStep(rows[n], n, z)
    BY <1>1, <2>1 DEF IsViaLoop
  <2> QED
    BY <2>1, <2>2, <2>4, <2>5 DEF ViaStep
<1> HIDE DEF S
<1>4. \A n \in 0 .. Dim : n \in S
  BY <1>2, <1>3, CountingTo, ClockFacts
<1> QED
  BY <1>1, <1>4, ClockFacts DEF IsViaLoop, S

\* Tightening through the first clocks loses nothing.
LEMMA ThroughAdmits ==
  ASSUME NEW v \in Values, NEW m \in EntryMatrices, NEW N \in 0 .. Dim,
         Admits(v, m)
  PROVE  Admits(v, TightenThrough(m, N))
<1>1. PICK tight \in [0 .. N -> EntryMatrices] : IsThroughLoop(tight, m, N)
  BY ThroughLoop
<1> DEFINE S == {n \in 0 .. N : Admits(v, tight[n])}
<1>2. 0 \in S
  BY <1>1, ClockFacts DEF IsThroughLoop
<1>3. ASSUME NEW n \in 0 .. N - 1, n \in S PROVE n + 1 \in S
  <2>1. n \in Clocks /\ n \in 0 .. N /\ n + 1 \in 0 .. N
    BY ClockFacts
  <2>2. tight[n + 1] = TightenVia(tight[n], n)
    BY <1>1, <2>1 DEF IsThroughLoop
  <2> QED
    BY <1>3, <2>1, <2>2, ViaAdmits
<1> HIDE DEF S
<1>4. \A n \in 0 .. N : n \in S
  <2>1. N \in Nat
    OBVIOUS
  <2> QED
    BY <1>2, <1>3, <2>1, CountingTo
<1> QED
  BY <1>1, <1>4, ClockFacts DEF IsThroughLoop, S

\* tighten(dbm, dim) loses nothing.
LEMMA TightenAdmits ==
  ASSUME NEW v \in Values, NEW m \in EntryMatrices, Admits(v, m)
  PROVE  Admits(v, Tighten(m))
BY ThroughAdmits, ClockFacts DEF Tighten

\* The valuations of a zone that is computed with fit its bounds.
LEMMA ZoneAdmits ==
  ASSUME NEW d, Good(d), NEW v \in Values
  PROVE  InZone(v, d) <=> Admits(v, d)
<1>1. ~ IsEmpty0(d)
  BY GoodFacts, ClockFacts, EntryFacts DEF IsEmpty0
<1>2. InZone(v, d) <=>
        \A x, y \in Clocks : d[<<x, y>>] = LT_INFINITY \/ Sat(v, x, y, d[<<x, y>>])
  <2>1. ASSUME InZone(v, d), NEW x \in Clocks, NEW y \in Clocks
        PROVE  d[<<x, y>>] = LT_INFINITY \/ Sat(v, x, y, d[<<x, y>>])
    <3>1. <<x, y>> \in Clocks \X Clocks /\ <<x, y>>[1] = x /\ <<x, y>>[2] = y
      OBVIOUS
    <3> QED
      BY <2>1, <3>1 DEF InZone, Sat
  <2>2. ASSUME \A x, y \in Clocks : d[<<x, y>>] = LT_INFINITY \/ Sat(v, x, y, d[<<x, y>>]),
               NEW p \in Clocks \X Clocks
        PROVE  \/ d[p] = LT_INFINITY
               \/ Satisfies(v, p[1], p[2], Comparator(d[p]), Value(d[p]))
    <3>1. p[1] \in Clocks /\ p[2] \in Clocks /\ p = <<p[1], p[2]>>
      OBVIOUS
    <3> QED
      BY <2>2, <3>1 DEF Sat
  <2> QED
    BY <1>1, <2>1, <2>2 DEF InZone
<1>3. \A x, y \in Clocks : d[<<x, y>>] # OutOfBounds
  BY GoodFacts
<1> QED
  BY <1>2, <1>3 DEF Admits, Fits

\* An outcome that something fits is the zone that it is in.
LEMMA AdmittedIsInZone ==
  ASSUME NEW u, IsOutcome(u), u # Thrown, NEW v \in Values, Admits(v, u)
  PROVE  InZone(v, u)
<1>1. u \in Matrices
  BY DEF IsOutcome
<1>2. u[<<0, 0>>] \in Int /\ u[<<0, 0>>] # OutOfBounds /\ LE_ZERO \in Int
  <2>1. u[<<0, 0>>] \in Bound /\ OutOfBounds \notin Bound /\ \A b \in Bound : b \in Int
    BY <1>1, ClockFacts, BoundFacts DEF Matrices, Bound
  <2> QED
    BY <2>1, EntryFacts
<1>3. ~ IsEmpty0(u)
  <2> SUFFICES ASSUME u[<<0, 0>>] < LE_ZERO PROVE FALSE
    BY DEF IsEmpty0
  <2>1. u[<<0, 0>>] # LT_INFINITY
    BY <1>2, EntryFacts
  <2>2. Sat(v, 0, 0, u[<<0, 0>>])
    BY <1>2, <2>1, ClockFacts DEF Admits, Fits
  <2>3. LE_ZERO <= u[<<0, 0>>]
    BY <1>2, <2>2, SatSelf, ClockFacts
  <2> QED
    BY <1>2, <2>3
<1>4. Good(u)
  BY <1>3 DEF IsOutcome, IsZone
<1> QED
  BY <1>4, ZoneAdmits

\* What fits lesser bounds fits the greater ones.
LEMMA AdmitsMonotone ==
  ASSUME NEW v \in Values, NEW d \in EntryMatrices, NEW e \in EntryMatrices,
         \A x, y \in Clocks : d[<<x, y>>] <= e[<<x, y>>] /\ d[<<x, y>>] # OutOfBounds,
         Admits(v, d)
  PROVE  Admits(v, e)
<1> SUFFICES ASSUME NEW x \in Clocks, NEW y \in Clocks PROVE Fits(v, x, y, e[<<x, y>>])
  BY DEF Admits
<1> DEFINE a == d[<<x, y>>]
           b == e[<<x, y>>]
<1>1. /\ a \in Entries /\ b \in Entries /\ a \in Int /\ b \in Int
      /\ a <= b /\ a # OutOfBounds /\ Fits(v, x, y, a)
  BY ClockFacts DEF Admits
<1> HIDE DEF a, b
<1>2. CASE a = LT_INFINITY
  <2>1. b = LT_INFINITY
    BY <1>1, <1>2, EntryFacts
  <2> QED
    BY <2>1 DEF Fits, b
<1>3. CASE a # LT_INFINITY
  <2>1. Sat(v, x, y, b)
    BY <1>1, <1>3, SatMonotone DEF Fits
  <2> QED
    BY <2>1 DEF Fits, b
<1> QED
  BY <1>2, <1>3

\* constrain keeps exactly the valuations that satisfy the constraint.
LEMMA ConstrainValuations ==
  ASSUME NEW d, Good(d), NEW x \in Clocks, NEW y \in Clocks, NEW cmp \in {LT, LE},
         NEW c \in Int, NEW u, u = Constrain(d, x, y, cmp, c), u # Thrown, NEW v \in Values
  PROVE  InZone(v, u) <=> InZone(v, d) /\ Satisfies(v, x, y, cmp, c)
<1> DEFINE b == MakeBound(cmp, c)
<1>1. b \in Entries /\ (b = OutOfBounds \/ (Proper(b) /\ b = 2 * c + cmp))
  BY MakeFacts
<1>2. b # OutOfBounds
  BY DEF Constrain
<1>3. Satisfies(v, x, y, cmp, c) <=> Sat(v, x, y, b)
  <2>1. Value(b) = c /\ Comparator(b) = cmp
    BY <1>1, <1>2, PartsOf DEF LT, LE
  <2> QED
    BY <2>1 DEF Sat
<1>4. u = IF b >= d[<<x, y>>] THEN d ELSE TightenFrom([d EXCEPT ![<<x, y>>] = b], x, y)
  BY <1>2 DEF Constrain
<1> HIDE DEF b
<1>5. /\ b \in Int /\ d[<<x, y>>] \in Int /\ d[<<x, y>>] # OutOfBounds /\ d \in EntryMatrices
      /\ b # LT_INFINITY /\ LT_INFINITY \in Int /\ b < LT_INFINITY
  BY <1>1, <1>2, GoodFacts, EntryFacts
<1>6. CASE b >= d[<<x, y>>]
  <2>1. ASSUME InZone(v, d) PROVE Sat(v, x, y, b)
    <3>1. d[<<x, y>>] # LT_INFINITY
      BY <1>5, <1>6
    <3>2. Sat(v, x, y, d[<<x, y>>])
      BY <1>5, <2>1, <3>1, ZoneAdmits DEF Admits, Fits
    <3> QED
      BY <1>5, <1>6, <3>2, SatMonotone
  <2> QED
    BY <1>3, <1>4, <1>6, <2>1
<1>7. CASE ~ (b >= d[<<x, y>>])
  <2> DEFINE m == [d EXCEPT ![<<x, y>>] = b]
  <2>1. /\ m \in EntryMatrices
        /\ \A i, j \in Clocks : m[<<i, j>>] = IF i = x /\ j = y THEN b ELSE d[<<i, j>>]
    BY <1>1, <1>5 DEF EntryMatrices
  <2>2. u = TightenFrom(m, x, y) /\ Proper(b) /\ b < d[<<x, y>>]
    BY <1>1, <1>2, <1>4, <1>5, <1>7
  <2>3. IsOutcome(u)
    BY ConstrainOutcome
  <2>4. ASSUME InZone(v, d), Sat(v, x, y, b) PROVE InZone(v, u)
    <3> HIDE DEF m
    <3>1. Admits(v, m)
      BY <2>1, <2>4, ZoneAdmits DEF Admits, Fits
    <3>2. Admits(v, u)
      BY <2>1, <2>2, <3>1, FromAdmits
    <3> QED
      BY <2>3, <3>2, AdmittedIsInZone
  <2>5. ASSUME InZone(v, u) PROVE InZone(v, d) /\ Sat(v, x, y, b)
    <3>1. IsZone(u) /\ Good(u)
      BY <2>3, <2>5 DEF InZone, IsZone, IsOutcome
    <3>2. x # y
      <4> SUFFICES ASSUME x = y PROVE FALSE
        OBVIOUS
      <4>1. b < LE_ZERO
        BY <2>2, GoodFacts
      <4>2. u \in {Thrown, Empty} \/ IsEmpty0(u)
        BY <2>2, <4>1, FromSelf
      <4> QED
        BY <3>1, <4>2, OutcomesStopped DEF IsZone
    <3>3. u \notin {Thrown, Empty}
      BY <3>1, OutcomesStopped
    <3>4. u[<<x, y>>] = b /\ \A i, j \in Clocks : u[<<i, j>>] <= d[<<i, j>>]
      <4>1. IsBounded(u, d, x, y, b)
        BY <2>2, <3>2, <3>3, FromFacts
      <4> QED
        BY <4>1 DEF IsBounded
    <3>5. Admits(v, u) /\ u \in EntryMatrices /\ \A i, j \in Clocks : u[<<i, j>>] # OutOfBounds
      BY <2>5, <3>1, ZoneAdmits, GoodFacts
    <3>6. Sat(v, x, y, b)
      BY <1>2, <1>5, <3>4, <3>5 DEF Admits, Fits
    <3>7. Admits(v, d)
      BY <1>5, <3>4, <3>5, AdmitsMonotone
    <3> QED
      BY <3>6, <3>7, ZoneAdmits
  <2> QED
    BY <1>3, <2>4, <2>5
<1> QED
  BY <1>6, <1>7

-----------------------------------------------------------------------------
(* Differences of clocks. *)

\* The difference t of two clocks is within the bound b.
Within(t, b) == IF Comparator(b) = LT THEN t < Value(b) * Unit ELSE t <= Value(b) * Unit

\* A bound is one of a difference.
LEMMA SatIsWithin ==
  ASSUME NEW v, NEW x, NEW y, NEW b
  PROVE  Sat(v, x, y, b) <=> Within(v[x] - v[y], b)
BY DEF Sat, Satisfies, Within

\* A difference and its bound are shifted together.
LEMMA WithinShift ==
  ASSUME NEW t \in Int, NEW b \in Int, NEW k \in Int
  PROVE  Within(t + k * Unit, b + 2 * k) <=> Within(t, b)
<1> DEFINE c == Comparator(b)
           p == Value(b) * Unit
           q == k * Unit
           r == (Value(b) + k) * Unit
<1>1. Value(b) \in Int /\ c \in {0, 1} /\ b = 2 * Value(b) + c
  BY Parts
<1>2. p \in Int /\ q \in Int /\ r = p + q
  BY <1>1, UnitFacts, ProductFacts
<1>3. b + 2 * k = 2 * (Value(b) + k) + c /\ Value(b) + k \in Int
  BY <1>1
<1>4. Value(b + 2 * k) = Value(b) + k /\ Comparator(b + 2 * k) = c
  BY <1>1, <1>3, PartsOf
<1> HIDE DEF c, p, q, r
<1>5. (IF c = LT THEN t + q < r ELSE t + q <= r) <=> (IF c = LT THEN t < p ELSE t <= p)
  BY <1>2
<1> QED
  BY <1>4, <1>5 DEF Within, c, p, q, r

\* The sum of two differences is within the sum of two bounds, told one by one.
LEMMA WithinPlus ==
  ASSUME NEW a \in Int, NEW b \in Int, NEW s \in Int, NEW t \in Int
  PROVE  Within(s + t, Plus(a, b)) <=>
           IF Comparator(a) * Comparator(b) = 0
           THEN s - Value(a) * Unit < Value(b) * Unit - t
           ELSE s - Value(a) * Unit <= Value(b) * Unit - t
<1> DEFINE va == Value(a)
           vb == Value(b)
           c  == Comparator(a) * Comparator(b)
           p  == va * Unit
           q  == vb * Unit
           r  == (va + vb) * Unit
<1>1. va \in Int /\ vb \in Int
  BY Parts
<1>2. Value(Plus(a, b)) = va + vb /\ Comparator(Plus(a, b)) = c
  BY PlusParts
<1>3. p \in Int /\ q \in Int /\ r = p + q
  BY <1>1, UnitFacts, ProductFacts
<1> HIDE DEF va, vb, c, p, q, r
<1>4. (IF c = LT THEN s + t < r ELSE s + t <= r) <=>
        (IF c = 0 THEN s - p < q - t ELSE s - p <= q - t)
  BY <1>3 DEF LT
<1> QED
  BY <1>2, <1>4 DEF Within, va, vb, c, p, q, r

-----------------------------------------------------------------------------
(* Resets. *)

\* v is w after x := y + c.
IsResetOf(v, w, x, y, c) ==
  \A i \in Clocks : v[i] = w[Source(x, y)[i]] + Shift(x, c)[i] * Unit

\* The bounds after the reset say of v what those before say of w.
LEMMA ResetAdmits ==
  ASSUME NEW d, Good(d), NEW x \in Clocks, NEW y \in Clocks, NEW c \in Nat,
         NEW u, IsReset(u, d, x, y, c), NEW v \in Values, NEW w \in Values,
         IsResetOf(v, w, x, y, c)
  PROVE  Admits(v, u) <=>
           \A i, j \in Clocks :
             Fits(w, Source(x, y)[i], Source(x, y)[j], d[<<Source(x, y)[i], Source(x, y)[j]>>])
<1> DEFINE s == Source(x, y)
           k == Shift(x, c)
<1>1. s \in [Clocks -> Clocks] /\ k \in [Clocks -> Int]
  BY DEF Source, Shift
<1>2. \A i \in Clocks : v[i] = w[s[i]] + k[i] * Unit
  BY DEF IsResetOf
<1>3. \A i, j \in Clocks : IsShift(u[<<i, j>>], d[<<s[i], s[j]>>], k[i] - k[j])
  BY DEF IsReset
<1> HIDE DEF s, k
<1>4. ASSUME NEW i \in Clocks, NEW j \in Clocks
      PROVE  Fits(v, i, j, u[<<i, j>>]) <=> Fits(w, s[i], s[j], d[<<s[i], s[j]>>])
  <2> DEFINE a == u[<<i, j>>]
             b == d[<<s[i], s[j]>>]
             t == w[s[i]] - w[s[j]]
             m == k[i] - k[j]
  <2>1. s[i] \in Clocks /\ s[j] \in Clocks /\ k[i] \in Int /\ k[j] \in Int
    BY <1>1
  <2>2. b \in Int /\ b # OutOfBounds /\ (b = LT_INFINITY \/ Proper(b)) /\ LT_INFINITY # OutOfBounds
    BY <2>1, GoodFacts, EntryFacts
  <2>3. t \in Int /\ m \in Int
    BY <2>1 DEF Values
  <2>4. v[i] - v[j] = t + m * Unit
    <3>1. k[i] * Unit \in Int /\ k[j] * Unit \in Int /\ m * Unit = k[i] * Unit - k[j] * Unit
      <4>1. Unit \in Int
        BY UnitFacts
      <4> QED
        BY <2>1, <4>1
    <3>2. w[s[i]] \in Int /\ w[s[j]] \in Int
      BY <2>1 DEF Values
    <3> HIDE DEF m
    <3>3. v[i] = w[s[i]] + k[i] * Unit /\ v[j] = w[s[j]] + k[j] * Unit
      BY <1>2
    <3> QED
      BY <3>1, <3>2, <3>3
  <2>5. IsShift(a, b, m)
    BY <1>3
  <2> HIDE DEF a, b, t, m
  <2>6. CASE b = LT_INFINITY
    BY <2>2, <2>5, <2>6 DEF IsShift, Fits, a, b
  <2>7. CASE b # LT_INFINITY
    <3>1. Proper(a) /\ a = b + 2 * m
      BY <2>5, <2>7 DEF IsShift
    <3>2. a \notin {LT_INFINITY, OutOfBounds} /\ b \notin {LT_INFINITY, OutOfBounds}
      BY <2>2, <2>7, <3>1 DEF Proper
    <3>3. Within(t + m * Unit, a) <=> Within(t, b)
      BY <2>2, <2>3, <3>1, WithinShift
    <3>4. Sat(v, i, j, a) <=> Sat(w, s[i], s[j], b)
      BY <2>4, <3>3, SatIsWithin DEF t
    <3> QED
      BY <3>2, <3>4 DEF Fits, a, b
  <2> QED
    BY <2>6, <2>7
<1> QED
  BY <1>4 DEF Admits, s

-----------------------------------------------------------------------------
(* A clock that has been forgotten: some value of it is left. *)

\* The valuations that are told apart are multiples of a grain.
Grid == [Clocks -> {Dim * n : n \in Nat}]

\* Numbers of the grid that are less are less by 2.
LEMMA GridGap ==
  ASSUME NEW g \in Nat, g >= 2, NEW a \in Int, NEW b \in Int, a * g < b * g
  PROVE  a * g + 2 <= b * g
<1>1. g \in Nat \ {0} /\ b - a \in Int /\ a + 1 \in Int
  OBVIOUS
<1>2. a < b
  <2>1. CASE b < a
    <3>1. b * g < a * g /\ b * g \in Int /\ a * g \in Int
      BY <1>1, <2>1, ProductFacts
    <3> QED
      BY <3>1
  <2>2. CASE a = b
    <3>1. a * g \in Int
      BY <1>1, ProductFacts
    <3> QED
      BY <2>2, <3>1
  <2> QED
    BY <2>1, <2>2
<1>3. (a + 1) * g = a * g + 1 * g /\ a * g \in Int /\ b * g \in Int
  BY <1>1, ProductFacts
<1>4. (a + 1) * g <= b * g
  <2>1. CASE a + 1 = b
    BY <1>3, <2>1
  <2>2. CASE a + 1 < b
    <3>1. (a + 1) * g < b * g
      BY <1>1, <2>2, ProductFacts
    <3> QED
      BY <1>3, <3>1
  <2> QED
    BY <1>2, <2>1, <2>2
<1> QED
  BY <1>3, <1>4

\* The bounds of the clocks are on the grid.
LEMMA GridFacts ==
  ASSUME NEW v \in Grid, NEW b \in Int, NEW i \in Clocks
  PROVE  /\ v \in Values /\ v[i] \in Nat /\ Value(b) * Unit \in Int
         /\ \E k \in Int : v[i] - Value(b) * Unit = k * Dim
         /\ \E k \in Int : v[i] + Value(b) * Unit = k * Dim
<1>1. PICK n \in Nat : v[i] = Dim * n
  BY DEF Grid
<1>2. Dim \in Nat \ {0} /\ Value(b) \in Int
  BY ClockFacts, Parts
<1>3. \A n2 \in Nat : Dim * n2 \in Nat
  BY <1>2
<1>4. v \in Values
  BY <1>3 DEF Grid, Values
<1> DEFINE k == Value(b) * Dim
<1>5. k \in Int
  BY <1>2, ProductFacts
<1>6. Value(b) * Unit = k * Dim
  BY <1>2 DEF Unit
<1> HIDE DEF k
<1>7. v[i] = n * Dim
  BY <1>1, <1>2
<1>8. /\ n * Dim - k * Dim = (n - k) * Dim /\ n * Dim + k * Dim = (n + k) * Dim
      /\ n - k \in Int /\ n + k \in Int /\ k * Dim \in Int
  <2>1. k * Dim \in Int /\ (n + k) * Dim = n * Dim + k * Dim
    BY <1>2, <1>5, ProductFacts
  <2>2. n - k \in Int /\ (n - k) * Dim = n * Dim - k * Dim
    BY <1>2, <1>5
  <2> QED
    BY <2>1, <2>2, <1>5
<1> QED
  BY <1>1, <1>3, <1>4, <1>6, <1>7, <1>8

\* v fits the bounds of d that are not about z.
FitsBut(v, d, z) == \A i, j \in Clocks \ {z} : Fits(v, i, j, d[<<i, j>>])

\* Value n of z fits the bounds of i - z, of z - i.
FitsBelow(v, d, z, n) ==
  \A i \in Clocks \ {z} : d[<<i, z>>] = LT_INFINITY \/ Within(v[i] - n, d[<<i, z>>])
FitsAbove(v, d, z, n) ==
  \A i \in Clocks \ {z} : d[<<z, i>>] = LT_INFINITY \/ Within(n - v[i], d[<<z, i>>])

\* The bounds of i - z and z - j leave room for a value of z: they are the bounds of a
\* path, and v fits the bound of i - j, which is not greater.
LEMMA Room ==
  ASSUME NEW d, Good(d), NEW z \in Clocks, NEW v \in Grid, FitsBut(v, d, z),
         NEW i \in Clocks \ {z}, NEW j \in Clocks \ {z},
         NEW a, a = d[<<i, z>>], NEW b, b = d[<<z, j>>], a # LT_INFINITY, b # LT_INFINITY,
         NEW lo, lo = v[i] - Value(a) * Unit, NEW up, up = v[j] + Value(b) * Unit
  PROVE  /\ a \in Int /\ b \in Int /\ lo \in Int /\ up \in Int
         /\ Comparator(a) \in {0, 1} /\ Comparator(b) \in {0, 1}
         /\ lo + 2 <= up \/ (lo = up /\ Comparator(a) = 1 /\ Comparator(b) = 1)
<1>1. /\ Proper(a) /\ Proper(b) /\ a \in Int /\ b \in Int
      /\ d[<<i, j>>] \in Int /\ d[<<i, j>>] # OutOfBounds
  BY GoodFacts, EntryFacts
<1>2. Comparator(a) \in {0, 1} /\ Comparator(b) \in {0, 1}
  BY <1>1, Parts
<1>3. d[<<i, j>>] <= Plus(a, b) /\ d[<<i, j>>] # LT_INFINITY
  BY <1>1 DEF Good, Tightly, Triangle
<1>4. /\ v \in Values /\ v[i] \in Int /\ v[j] \in Int
      /\ Value(a) * Unit \in Int /\ Value(b) * Unit \in Int
  <2>1. i \in Clocks /\ j \in Clocks
    OBVIOUS
  <2>2. v \in Values /\ v[i] \in Nat /\ Value(a) * Unit \in Int
    BY <1>1, <2>1, GridFacts
  <2>3. v[j] \in Nat /\ Value(b) * Unit \in Int
    BY <1>1, <2>1, GridFacts
  <2> QED
    BY <2>2, <2>3
<1>5. lo \in Int /\ up \in Int
  BY <1>4
<1>6. Sat(v, i, j, Plus(a, b))
  <2>1. Sat(v, i, j, d[<<i, j>>])
    BY <1>1, <1>3 DEF FitsBut, Fits
  <2>2. Plus(a, b) \in Int
    BY <1>1, PlusParts
  <2> QED
    BY <1>1, <1>3, <1>4, <2>1, <2>2, SatMonotone
<1>7. IF Comparator(a) * Comparator(b) = 0 THEN lo < up ELSE lo <= up
  <2> DEFINE t == -v[j]
  <2>1. t \in Int /\ v[i] - v[j] = v[i] + t /\ Value(b) * Unit - t = up
    BY <1>4
  <2>2. Within(v[i] + t, Plus(a, b))
    BY <1>6, <2>1, SatIsWithin
  <2> HIDE DEF t
  <2>3. IF Comparator(a) * Comparator(b) = 0
        THEN v[i] - Value(a) * Unit < Value(b) * Unit - t
        ELSE v[i] - Value(a) * Unit <= Value(b) * Unit - t
    BY <1>1, <1>4, <2>1, <2>2, WithinPlus
  <2> QED
    BY <2>1, <2>3
<1>8. lo < up => lo + 2 <= up
  <2>1. PICK m \in Int : lo = m * Dim
    BY <1>1, GridFacts
  <2>2. PICK n \in Int : up = n * Dim
    BY <1>1, GridFacts
  <2>3. Dim \in Nat /\ Dim >= 2
    BY ClockFacts
  <2> QED
    BY <2>1, <2>2, <2>3, GridGap
<1>9. Comparator(a) * Comparator(b) # 0 => Comparator(a) = 1 /\ Comparator(b) = 1
  BY <1>2
<1>10. lo <= up
  BY <1>5, <1>7
<1> QED
  BY <1>1, <1>2, <1>5, <1>7, <1>8, <1>9, <1>10

\* k is less than n, strictly if the bound b is.
IsBelow(k, b, n) == IF Comparator(b) = 0 THEN k < n ELSE k <= n

\* The bounds of differences with a value of z, as bounds of the value.
LEMMA WithinValue ==
  ASSUME NEW v \in Grid, NEW i \in Clocks, NEW b \in Int, NEW n \in Int
  PROVE  /\ v[i] - Value(b) * Unit \in Int /\ v[i] + Value(b) * Unit \in Int
         /\ Within(v[i] - n, b) <=> IsBelow(v[i] - Value(b) * Unit, b, n)
         /\ Within(n - v[i], b) <=> IsBelow(n, b, v[i] + Value(b) * Unit)
<1> DEFINE p == Value(b) * Unit
<1>1. v[i] \in Int /\ p \in Int
  BY GridFacts
<1> HIDE DEF p
<1>2. /\ v[i] - n < p <=> v[i] - p < n
      /\ v[i] - n <= p <=> v[i] - p <= n
      /\ n - v[i] < p <=> n < v[i] + p
      /\ n - v[i] <= p <=> n <= v[i] + p
  BY <1>1
<1>3. v[i] - p \in Int /\ v[i] + p \in Int
  BY <1>1
<1> QED
  BY <1>2, <1>3 DEF Within, IsBelow, LT, p

\* The least value of z that its lower bounds leave is one that its upper bounds leave.
LEMMA Extends ==
  ASSUME NEW d, Good(d), NEW z \in Clocks, NEW v \in Grid, FitsBut(v, d, z),
         NEW N \in Nat, FitsBelow(v, d, z, N),
         \/ FitsAbove(v, d, z, 0)
         \/ \E i \in Clocks \ {z} : /\ d[<<i, z>>] # LT_INFINITY
                                    /\ v[i] - Value(d[<<i, z>>]) * Unit >= 0
  PROVE  \E n \in 0 .. N : FitsBelow(v, d, z, n) /\ FitsAbove(v, d, z, n)
<1> DEFINE T == {n \in Nat : FitsBelow(v, d, z, n)}
<1>1. N \in T /\ T \in SUBSET Nat
  OBVIOUS
<1>2. PICK n \in T : \A k \in T : n <= k
  BY <1>1, Least
<1>3. n \in 0 .. N /\ FitsBelow(v, d, z, n)
  BY <1>1, <1>2
<1>4. n = 0 \/ (n - 1 \in Nat /\ ~ FitsBelow(v, d, z, n - 1))
  BY <1>2
<1> HIDE DEF T
<1>5. ASSUME NEW j \in Clocks \ {z}, d[<<z, j>>] # LT_INFINITY
      PROVE  Within(n - v[j], d[<<z, j>>])
  <2> DEFINE b == d[<<z, j>>]
             up == v[j] + Value(b) * Unit
  <2>1. b \in Int /\ up \in Int /\ Comparator(b) \in {0, 1}
    <3>1. b \in Int
      BY GoodFacts
    <3> QED
      BY <3>1, WithinValue, Parts
  <2>2. SUFFICES IsBelow(n, b, up)
    <3>1. n \in Int
      BY <1>3
    <3> QED
      BY <2>1, <3>1, WithinValue
  <2>3. CASE FitsAbove(v, d, z, 0) /\ n = 0
    <3>1. Within(0 - v[j], b)
      BY <1>5, <2>3 DEF FitsAbove
    <3> QED
      <4>1. 0 \in Int /\ j \in Clocks
        OBVIOUS
      <4> QED
        BY <2>1, <2>3, <3>1, <4>1, WithinValue
  <2>4. ASSUME NEW i \in Clocks \ {z}, d[<<i, z>>] # LT_INFINITY,
               \/ v[i] - Value(d[<<i, z>>]) * Unit >= 0 /\ n = 0
               \/ n - 1 \in Nat /\ ~ Within(v[i] - (n - 1), d[<<i, z>>])
        PROVE  IsBelow(n, b, up)
    <3> DEFINE a == d[<<i, z>>]
               lo == v[i] - Value(a) * Unit
    <3>1. /\ a \in Int /\ lo \in Int /\ Comparator(a) \in {0, 1}
          /\ lo + 2 <= up \/ (lo = up /\ Comparator(a) = 1 /\ Comparator(b) = 1)
      BY <1>5, <2>4, Room
    <3>2. Within(v[i] - n, a)
      BY <1>3, <2>4 DEF FitsBelow
    <3>3. IsBelow(lo, a, n)
      <4>1. n \in Int /\ i \in Clocks
        BY <1>3
      <4> QED
        BY <3>1, <3>2, <4>1, WithinValue
    <3>4. \/ lo >= 0 /\ n = 0
          \/ n - 1 \in Nat /\ ~ IsBelow(lo, a, n - 1)
      <4>1. n - 1 \in Int /\ i \in Clocks
        BY <1>3
      <4> QED
        BY <2>4, <3>1, <4>1, WithinValue
    <3> HIDE DEF a, lo, up, b
    <3> QED
      BY <1>3, <2>1, <3>1, <3>3, <3>4 DEF IsBelow
  <2>5. CASE n = 0 /\ ~ FitsAbove(v, d, z, 0)
    <3>1. PICK i \in Clocks \ {z} : /\ d[<<i, z>>] # LT_INFINITY
                                    /\ v[i] - Value(d[<<i, z>>]) * Unit >= 0
      BY <2>5
    <3> QED
      BY <2>4, <2>5, <3>1
  <2>6. CASE n # 0
    <3>1. PICK i \in Clocks \ {z} :
            ~ (d[<<i, z>>] = LT_INFINITY \/ Within(v[i] - (n - 1), d[<<i, z>>]))
      BY <1>4, <2>6 DEF FitsBelow
    <3> QED
      BY <1>4, <2>4, <2>6, <3>1
  <2> QED
    BY <2>3, <2>5, <2>6
<1>6. FitsAbove(v, d, z, n)
  BY <1>5 DEF FitsAbove
<1> QED
  BY <1>3, <1>6

-----------------------------------------------------------------------------
(* Resets and delays, exactly. *)

\* The sampled valuations are on the grid, and within the horizon.
LEMMA SampleFacts ==
  ASSUME NEW v \in Sample
  PROVE  /\ v \in Grid /\ v \in Values /\ v[0] = 0
         /\ Horizon \in Nat /\ Horizon * Unit \in Nat /\ Limit * Unit \in Nat
         /\ \A i \in Clocks : v[i] \in 0 .. Horizon * Unit
<1>1. Dim \in Nat \ {0} /\ Limit \in Nat
  BY ClockFacts, LimitAssumption
<1>2. Horizon \in Nat
  <2>1. \A a, b \in Nat : a * b + 1 \in Nat
    OBVIOUS
  <2> QED
    BY <1>1, <2>1 DEF Horizon
<1>3. \A a, b \in Nat : a * b \in Nat
  OBVIOUS
<1>4. Unit \in Nat /\ Horizon * Unit \in Nat /\ Limit * Unit \in Nat
  BY <1>1, <1>2, <1>3, UnitFacts
<1>5. v \in Grid /\ v \in Values /\ v[0] = 0
  <2>1. v \in [Clocks -> {Dim * n : n \in 0 .. Horizon * Dim}] /\ v[0] = 0
    BY DEF Sample
  <2>2. {Dim * n : n \in 0 .. Horizon * Dim} \subseteq {Dim * n : n \in Nat}
    OBVIOUS
  <2>3. v \in Grid
    BY <2>1, <2>2 DEF Grid
  <2>4. \A n \in Nat : Dim * n \in Int
    BY <1>1
  <2>5. v \in Values
    BY <2>3, <2>4 DEF Grid, Values
  <2> QED
    BY <2>1, <2>3, <2>5
<1>6. ASSUME NEW i \in Clocks PROVE v[i] \in 0 .. Horizon * Unit
  <2>1. PICK n \in 0 .. Horizon * Dim : v[i] = Dim * n
    BY DEF Sample
  <2> DEFINE h == Horizon * Dim
  <2>2. h \in Nat
    BY <1>1, <1>2, <1>3
  <2>3. h * Dim = Horizon * Unit
    BY <1>1, <1>2 DEF Unit
  <2> HIDE DEF h
  <2>4. n \in Nat /\ n <= h
    BY <2>1, <2>2 DEF h
  <2>5. n * Dim <= h * Dim /\ n * Dim \in Nat
    <3>1. n < h => n * Dim < h * Dim
      BY <1>1, <2>2, <2>4, ProductFacts
    <3>2. n = h => n * Dim = h * Dim
      OBVIOUS
    <3>3. n * Dim \in Nat /\ h * Dim \in Nat
      BY <1>1, <1>3, <2>2, <2>4
    <3> QED
      BY <2>2, <2>4, <3>1, <3>2, <3>3
  <2>6. v[i] = n * Dim
    BY <1>1, <2>1
  <2> QED
    BY <1>4, <2>3, <2>5, <2>6
<1> QED
  BY <1>2, <1>4, <1>5, <1>6

\* A value of z that fits the bounds of a zone makes a valuation of the zone.
LEMMA Extended ==
  ASSUME NEW d, Good(d), NEW z \in Clocks, NEW v \in Values, NEW w \in Values, NEW n \in Int,
         FitsBut(v, d, z), FitsBelow(v, d, z, n), FitsAbove(v, d, z, n),
         \A i, j \in Clocks :
           w[i] - w[j] = IF i = z THEN (IF j = z THEN 0 ELSE n - v[j])
                         ELSE IF j = z THEN v[i] - n ELSE v[i] - v[j]
  PROVE  InZone(w, d)
<1>1. ASSUME NEW i \in Clocks, NEW j \in Clocks PROVE Fits(w, i, j, d[<<i, j>>])
  <2>1. CASE i = z /\ j = z
    <3>1. d[<<z, z>>] = LE_ZERO
      BY GoodFacts
    <3>2. Value(LE_ZERO) = 0 /\ Comparator(LE_ZERO) = 1 /\ 0 * Unit = 0
      BY EntryFacts, UnitFacts DEF Value, Comparator
    <3>3. Within(0, LE_ZERO)
      BY <3>2 DEF Within, LT
    <3>4. w[i] - w[j] = 0
      BY <2>1
    <3>5. Sat(w, i, j, d[<<i, j>>])
      BY <2>1, <3>1, <3>3, <3>4, SatIsWithin
    <3> QED
      BY <3>5 DEF Fits
  <2>2. CASE i = z /\ j # z
    <3>1. d[<<i, j>>] = LT_INFINITY \/ Within(n - v[j], d[<<i, j>>])
      BY <2>2 DEF FitsAbove
    <3>2. w[i] - w[j] = n - v[j]
      BY <2>2
    <3> QED
      BY <3>1, <3>2, SatIsWithin DEF Fits
  <2>3. CASE i # z /\ j = z
    <3>1. d[<<i, j>>] = LT_INFINITY \/ Within(v[i] - n, d[<<i, j>>])
      BY <2>3 DEF FitsBelow
    <3>2. w[i] - w[j] = v[i] - n
      BY <2>3
    <3> QED
      BY <3>1, <3>2, SatIsWithin DEF Fits
  <2>4. CASE i # z /\ j # z
    <3>1. Fits(v, i, j, d[<<i, j>>])
      BY <2>4 DEF FitsBut
    <3>2. w[i] - w[j] = v[i] - v[j]
      BY <2>4
    <3> QED
      BY <3>1, <3>2, SatIsWithin DEF Fits
  <2> QED
    BY <2>1, <2>2, <2>3, <2>4
<1> QED
  BY <1>1, ZoneAdmits DEF Admits

\* A clock has had a value before the reset: what is left of the zone without it, within
\* the range that is searched.
LEMMA Unreset ==
  ASSUME NEW d, Good(d), IsPositive(d), IsSampled(d), NEW x \in Clocks \ {0},
         NEW v \in Sample, FitsBut(v, d, x)
  PROVE  \E n \in Grains : InZone([v EXCEPT ![x] = n], d)
<1> DEFINE N == (Horizon + Limit) * Unit + Dim
<1>1. /\ v \in Grid /\ v \in Values /\ v[0] = 0
      /\ Horizon \in Nat /\ Horizon * Unit \in Nat /\ Limit * Unit \in Nat
      /\ \A i \in Clocks : v[i] \in 0 .. Horizon * Unit
  BY SampleFacts
<1>2. N \in Nat /\ N = Horizon * Unit + Limit * Unit + Dim /\ Dim \in Nat \ {0}
  BY <1>1, ClockFacts, LimitAssumption, UnitFacts, ProductFacts
<1> HIDE DEF N
<1>3. ASSUME NEW i \in Clocks \ {x}, d[<<i, x>>] # LT_INFINITY PROVE Within(v[i] - N, d[<<i, x>>])
  <2> DEFINE b == d[<<i, x>>]
             p == Value(b) * Unit
  <2>1. b \in Int
    BY GoodFacts
  <2>2. Value(b) \in - Limit .. Limit
    BY <1>3 DEF IsSampled
  <2>3. p \in Int /\ p >= - (Limit * Unit)
    <3>1. Value(b) \in Int /\ Limit \in Int /\ Value(b) + Limit \in Nat
      BY <2>2, LimitAssumption
    <3>2. p \in Int /\ Limit * Unit \in Int /\ (Value(b) + Limit) * Unit = p + Limit * Unit
      BY <3>1, UnitFacts, ProductFacts
    <3>3. (Value(b) + Limit) * Unit \in Nat
      <4>1. \A a, c \in Nat : a * c \in Nat
        OBVIOUS
      <4> QED
        BY <3>1, <4>1, UnitFacts
    <3> QED
      BY <3>2, <3>3
  <2>4. v[i] \in 0 .. Horizon * Unit
    BY <1>1
  <2> HIDE DEF p, b
  <2>5. v[i] - N < p
    BY <1>1, <1>2, <2>3, <2>4
  <2>6. v[i] - N \in Int
    BY <1>2, <2>4
  <2> QED
    BY <2>3, <2>5, <2>6 DEF Within, p, b
<1>4. FitsBelow(v, d, x, N)
  BY <1>3 DEF FitsBelow
<1>5. /\ 0 \in Clocks \ {x} /\ d[<<0, x>>] # LT_INFINITY
      /\ v[0] - Value(d[<<0, x>>]) * Unit >= 0
  <2>1. 0 \in Clocks \ {x} /\ d[<<0, x>>] \in Int /\ d[<<0, x>>] <= 1
    BY GoodFacts, ClockFacts, EntryFacts DEF IsPositive
  <2>2. Value(d[<<0, x>>]) \in Int /\ 0 - Value(d[<<0, x>>]) \in Nat
    <3> DEFINE b == d[<<0, x>>]
               a == Value(b)
               c == Comparator(b)
    <3>1. a \in Int /\ c \in {0, 1} /\ b = 2 * a + c /\ b \in Int /\ b <= 1
      BY <2>1, Parts
    <3> HIDE DEF a, b, c
    <3>2. a \in Int /\ 0 - a \in Nat
      BY <3>1
    <3> QED
      BY <3>2 DEF a, b
  <2>3. Value(d[<<0, x>>]) * Unit <= 0 /\ Value(d[<<0, x>>]) * Unit \in Int
    <3> DEFINE a == Value(d[<<0, x>>])
    <3>1. a < 0 => a * Unit < 0 * Unit
      BY <2>2, UnitFacts, ProductFacts
    <3>2. 0 * Unit = 0 /\ a * Unit \in Int
      BY <2>2, UnitFacts, ProductFacts
    <3>3. a \in Int /\ (a < 0 \/ a = 0)
      BY <2>2
    <3> HIDE DEF a
    <3> QED
      BY <3>1, <3>2, <3>3 DEF a
  <2> QED
    BY <1>1, <2>1, <2>3, EntryFacts
<1>6. PICK n \in 0 .. N : FitsBelow(v, d, x, n) /\ FitsAbove(v, d, x, n)
  BY <1>1, <1>2, <1>4, <1>5, Extends
<1> DEFINE w == [v EXCEPT ![x] = n]
<1>7. n \in Int /\ n \in Grains
  BY <1>2, <1>6 DEF Grains, N
<1>8. w \in Values /\ \A i \in Clocks : w[i] = IF i = x THEN n ELSE v[i]
  BY <1>1, <1>7 DEF Values
<1> HIDE DEF w
<1>9. \A i, j \in Clocks :
        w[i] - w[j] = IF i = x THEN (IF j = x THEN 0 ELSE n - v[j])
                      ELSE IF j = x THEN v[i] - n ELSE v[i] - v[j]
  BY <1>7, <1>8
<1>10. InZone(w, d)
  BY <1>1, <1>6, <1>7, <1>8, <1>9, Extended
<1> QED
  BY <1>7, <1>10 DEF w

\* reset computes exactly the valuations after x := y + c.
LEMMA ResetValuations ==
  ASSUME NEW d, Good(d), IsPositive(d), IsSampled(d), NEW x \in Clocks \ {0}, NEW y \in Clocks,
         NEW c \in Nat, NEW u, u = Reset(d, x, y, c), u # Thrown, NEW v \in Sample
  PROVE  InZone(v, u) <=> InReset(v, d, x, y, c)
<1> DEFINE s == Source(x, y)
           k == Shift(x, c)
           q == c * Unit
<1>1. IsReset(u, d, x, y, c) /\ Good(u)
  BY ResetFacts, ResetGood
<1>2. v \in Values /\ q \in Int /\ 0 * Unit = 0 /\ \A i \in Clocks : v[i] \in Int
  BY SampleFacts, UnitFacts, ProductFacts DEF Values
<1>3. \A i \in Clocks : /\ s[i] = IF i = x THEN y ELSE i
                        /\ k[i] * Unit = IF i = x THEN q ELSE 0
  BY <1>2 DEF Source, Shift
<1>4. InZone(v, u) <=> Admits(v, u)
  BY <1>1, <1>2, ZoneAdmits
<1> HIDE DEF q
<1>5. CASE y = x
  <2> DEFINE w == [v EXCEPT ![x] = @ - c * Unit]
  <2>1. w \in Values /\ \A i \in Clocks : w[i] = IF i = x THEN v[i] - q ELSE v[i]
    BY <1>2 DEF Values, q
  <2> HIDE DEF w, s, k
  <2>2. \A i \in Clocks : s[i] = i
    BY <1>3, <1>5
  <2>3. IsResetOf(v, w, x, y, c)
    <3>1. \A i \in Clocks : v[i] = w[s[i]] + k[i] * Unit
      BY <1>2, <1>3, <2>1, <2>2
    <3> QED
      BY <3>1 DEF IsResetOf, s, k
  <2>4. Admits(v, u) <=> \A i, j \in Clocks : Fits(w, s[i], s[j], d[<<s[i], s[j]>>])
    BY <1>1, <1>2, <2>1, <2>3, ResetAdmits DEF s
  <2>5. Admits(v, u) <=> Admits(w, d)
    BY <2>2, <2>4 DEF Admits
  <2> QED
    BY <1>4, <1>5, <2>1, <2>5, ZoneAdmits DEF InReset, w
<1>6. CASE y # x
  <2>1. ASSUME NEW n \in Grains, InZone([v EXCEPT ![x] = n], d), v[x] = v[y] + q
        PROVE  Admits(v, u)
    <3> DEFINE w == [v EXCEPT ![x] = n]
    <3>1. n \in Int
      BY DEF Grains
    <3>2. w \in Values /\ \A i \in Clocks : w[i] = IF i = x THEN n ELSE v[i]
      BY <1>2, <3>1 DEF Values
    <3> HIDE DEF w, s, k
    <3>3. IsResetOf(v, w, x, y, c)
      <4>1. \A i \in Clocks : v[i] = w[s[i]] + k[i] * Unit
        BY <1>2, <1>3, <1>6, <2>1, <3>2
      <4> QED
        BY <4>1 DEF IsResetOf, s, k
    <3>4. Admits(w, d)
      BY <2>1, <3>2, ZoneAdmits DEF w
    <3>5. \A i \in Clocks : s[i] \in Clocks
      BY <1>3
    <3>6. \A i, j \in Clocks : Fits(w, s[i], s[j], d[<<s[i], s[j]>>])
      BY <3>4, <3>5 DEF Admits
    <3> QED
      BY <1>1, <1>2, <3>2, <3>3, <3>6, ResetAdmits DEF s
  <2>2. ASSUME Admits(v, u)
        PROVE  v[x] = v[y] + q /\ \E n \in Grains : InZone([v EXCEPT ![x] = n], d)
    <3>1. \A i, j \in Clocks : IsShift(u[<<i, j>>], d[<<s[i], s[j]>>], k[i] - k[j])
      BY <1>1 DEF IsReset
    <3>2. \A i \in Clocks : k[i] = IF i = x THEN c ELSE 0
      BY DEF Shift
    <3> HIDE DEF s, k
    <3>3. FitsBut(v, d, x)
      <4> SUFFICES ASSUME NEW i \in Clocks \ {x}, NEW j \in Clocks \ {x}
                   PROVE  Fits(v, i, j, d[<<i, j>>])
        BY DEF FitsBut
      <4>1. IsShift(u[<<i, j>>], d[<<i, j>>], 0)
        BY <1>3, <3>1, <3>2
      <4>2. u[<<i, j>>] = d[<<i, j>>]
        BY <4>1, GoodFacts DEF IsShift
      <4> QED
        BY <2>2, <4>2 DEF Admits
    <3>4. \E n \in Grains : InZone([v EXCEPT ![x] = n], d)
      BY <3>3, Unreset
    <3>5. /\ Within(v[x] - v[y], LE_ZERO + 2 * c)
          /\ Within(v[y] - v[x], LE_ZERO + 2 * (0 - c))
      <4>1. d[<<y, y>>] = LE_ZERO /\ LE_ZERO # LT_INFINITY
        BY GoodFacts, EntryFacts
      <4>2. /\ IsShift(u[<<x, y>>], LE_ZERO, c - 0)
            /\ IsShift(u[<<y, x>>], LE_ZERO, 0 - c)
        BY <1>3, <1>6, <3>1, <3>2, <4>1
      <4>3. /\ Proper(u[<<x, y>>]) /\ u[<<x, y>>] = LE_ZERO + 2 * c
            /\ Proper(u[<<y, x>>]) /\ u[<<y, x>>] = LE_ZERO + 2 * (0 - c)
        <5>1. c - 0 = c
          OBVIOUS
        <5> QED
          BY <4>1, <4>2, <5>1 DEF IsShift
      <4>4. Sat(v, x, y, u[<<x, y>>]) /\ Sat(v, y, x, u[<<y, x>>])
        BY <2>2, <4>3 DEF Admits, Fits, Proper
      <4> QED
        BY <4>3, <4>4, SatIsWithin
    <3>6. v[x] = v[y] + q
      <4> DEFINE t == v[x] - v[y] - q
                 r == v[y] - v[x] + q
      <4>1. (0 - c) * Unit = 0 - q /\ c \in Int /\ 0 - c \in Int
        BY UnitFacts DEF q
      <4>2. /\ t \in Int /\ v[x] - v[y] = t + c * Unit
            /\ r \in Int /\ v[y] - v[x] = r + (0 - c) * Unit
        BY <1>2, <4>1 DEF q
      <4> HIDE DEF t, r
      <4>3. Within(t, LE_ZERO) /\ Within(r, LE_ZERO)
        BY <3>5, <4>1, <4>2, EntryFacts, WithinShift
      <4>4. Value(LE_ZERO) = 0 /\ Comparator(LE_ZERO) = 1 /\ 0 * Unit = 0
        BY EntryFacts, UnitFacts DEF Value, Comparator
      <4>5. t <= 0 /\ r <= 0
        BY <4>3, <4>4 DEF Within, LT
      <4> QED
        BY <1>2, <4>5 DEF t, r
    <3> QED
      BY <3>4, <3>6
  <2> QED
    BY <1>4, <1>6, <2>1, <2>2 DEF InReset, q
<1> QED
  BY <1>5, <1>6

\* open_up computes exactly the valuations after a delay, of any length up to the horizon.
LEMMA DelayValuations ==
  ASSUME NEW d, Good(d), IsPositive(d), NEW v \in Sample
  PROVE  InZone(v, OpenUp(d)) <=> InElapse(v, d)
<1> DEFINE u == OpenUp(d)
           w(n) == [x \in Clocks |-> IF x = 0 THEN 0 ELSE v[x] - n]
<1>1. /\ Good(u)
      /\ \A i, j \in Clocks :
           u[<<i, j>>] = IF i # 0 /\ j = 0 THEN LT_INFINITY ELSE d[<<i, j>>]
  BY OpenUpOutcome DEF OpenUp
<1>2. /\ v \in Grid /\ v \in Values /\ v[0] = 0 /\ 0 \in Clocks
      /\ Horizon * Unit \in Nat
      /\ \A i \in Clocks : v[i] \in 0 .. Horizon * Unit
  BY SampleFacts, ClockFacts
<1> HIDE DEF u
<1>3. InZone(v, u) <=> Admits(v, u)
  BY <1>1, <1>2, ZoneAdmits
<1>4. ASSUME NEW n \in Int
      PROVE  w(n) \in Values /\ \A i \in Clocks : w(n)[i] = IF i = 0 THEN 0 ELSE v[i] - n
  BY <1>2 DEF Values
<1>5. ASSUME NEW n \in 0 .. Horizon * Unit, InZone(w(n), d) PROVE Admits(v, u)
  <2>1. n \in Nat
    BY <1>2
  <2>2. w(n) \in Values /\ \A i \in Clocks : w(n)[i] = IF i = 0 THEN 0 ELSE v[i] - n
    BY <1>4, <2>1
  <2>3. Admits(w(n), d)
    BY <1>5, <2>2, ZoneAdmits
  <2> SUFFICES ASSUME NEW i \in Clocks, NEW j \in Clocks PROVE Fits(v, i, j, u[<<i, j>>])
    BY DEF Admits
  <2>4. CASE i # 0 /\ j = 0
    BY <1>1, <2>4 DEF Fits
  <2>5. CASE ~ (i # 0 /\ j = 0)
    <3> DEFINE b == d[<<i, j>>]
               t == w(n)[i] - w(n)[j]
    <3>1. b \in Int /\ u[<<i, j>>] = b /\ Fits(w(n), i, j, b)
      BY <1>1, <2>3, <2>5, GoodFacts DEF Admits
    <3>2. v[i] - v[j] <= t /\ t \in Int /\ v[i] - v[j] \in Int
      BY <1>2, <2>1, <2>2, <2>5
    <3>3. Within(t, b) => Within(v[i] - v[j], b)
      <4>1. Value(b) * Unit \in Int
        BY <1>2, <3>1, GridFacts
      <4> HIDE DEF t, b
      <4> QED
        BY <3>2, <4>1 DEF Within
    <3>4. Sat(w(n), i, j, b) => Sat(v, i, j, b)
      BY <3>3, SatIsWithin
    <3> QED
      BY <3>1, <3>4 DEF Fits
  <2> QED
    BY <2>4, <2>5
<1>6. ASSUME Admits(v, u) PROVE \E n \in 0 .. Horizon * Unit : InZone(w(n), d)
  <2>1. FitsBut(v, d, 0)
    BY <1>1, <1>6 DEF Admits, FitsBut
  <2>2. FitsAbove(v, d, 0, 0)
    <3> SUFFICES ASSUME NEW i \in Clocks \ {0}
                 PROVE  d[<<0, i>>] = LT_INFINITY \/ Within(0 - v[i], d[<<0, i>>])
      BY DEF FitsAbove
    <3>1. Fits(v, 0, i, d[<<0, i>>]) /\ d[<<0, i>>] # OutOfBounds
      BY <1>1, <1>2, <1>6, GoodFacts DEF Admits
    <3> QED
      BY <1>2, <3>1, SatIsWithin DEF Fits
  <2>3. FitsBelow(v, d, 0, Horizon * Unit)
    <3> SUFFICES ASSUME NEW i \in Clocks \ {0}, d[<<i, 0>>] # LT_INFINITY
                 PROVE  Within(v[i] - Horizon * Unit, d[<<i, 0>>])
      BY DEF FitsBelow
    <3> DEFINE b == d[<<i, 0>>]
    <3>1. b \in Int /\ LE_ZERO <= b
      <4>1. Proper(b) /\ b \in Int
        <5>1. b \in Entries /\ b # OutOfBounds /\ b # LT_INFINITY
          BY <1>2, GoodFacts
        <5> QED
          BY <5>1, EntryFacts
      <4>2. /\ d[<<0, i>>] \in Int /\ d[<<0, i>>] <= LE_ZERO /\ d[<<0, 0>>] = LE_ZERO
            /\ Proper(d[<<0, i>>]) /\ LE_ZERO \in Int
        <5>1. d[<<0, i>>] \in Int /\ d[<<0, i>>] \in Entries /\ d[<<0, i>>] # OutOfBounds
          BY <1>2, GoodFacts
        <5>2. d[<<0, i>>] <= LE_ZERO
          BY DEF IsPositive
        <5> QED
          BY <1>2, <5>1, <5>2, GoodFacts, EntryFacts
      <4>3. LE_ZERO <= Plus(d[<<0, i>>], b)
        BY <1>2, <4>1, <4>2 DEF Good, Tightly, Triangle
      <4>4. Plus(d[<<0, i>>], b) <= Plus(LE_ZERO, b) /\ Plus(LE_ZERO, b) = b
        <5>1. b <= b
          BY <4>1
        <5> QED
          BY <4>1, <4>2, <5>1, PlusMonotone, PlusParts
      <4>5. Plus(d[<<0, i>>], b) \in Int
        BY <4>1, <4>2, PlusParts
      <4> QED
        BY <4>1, <4>2, <4>3, <4>4, <4>5
    <3>2. v[i] - Horizon * Unit \in Int /\ v[i] - Horizon * Unit <= 0
      BY <1>2
    <3>3. Within(0, b)
      <4>1. Value(LE_ZERO) = 0 /\ Comparator(LE_ZERO) = 1 /\ 0 * Unit = 0
        BY EntryFacts, UnitFacts DEF Value, Comparator
      <4>2. v[0] - v[0] = 0
        BY <1>2
      <4>3. Within(v[0] - v[0], LE_ZERO)
        BY <4>1, <4>2 DEF Within, LT
      <4>4. Sat(v, 0, 0, LE_ZERO)
        BY <4>3, SatIsWithin
      <4>5. Sat(v, 0, 0, b)
        BY <1>2, <3>1, <4>4, SatMonotone, EntryFacts
      <4> QED
        BY <4>2, <4>5, SatIsWithin
    <3>4. Value(b) * Unit \in Int
      BY <1>2, <3>1, GridFacts
    <3> DEFINE t == v[i] - Horizon * Unit
    <3> HIDE DEF b, t
    <3>5. Within(t, b)
      BY <3>2, <3>3, <3>4 DEF Within, t
    <3> QED
      BY <3>5 DEF b, t
  <2>4. PICK n \in 0 .. Horizon * Unit : FitsBelow(v, d, 0, n) /\ FitsAbove(v, d, 0, n)
    BY <1>2, <2>1, <2>2, <2>3, Extends
  <2>5. n \in Int
    OBVIOUS
  <2>6. w(n) \in Values /\ \A i \in Clocks : w(n)[i] = IF i = 0 THEN 0 ELSE v[i] - n
    BY <1>4, <2>5
  <2> DEFINE z == w(n)
  <2> HIDE DEF z
  <2>7. \A i, j \in Clocks :
          z[i] - z[j] = IF i = 0 THEN (IF j = 0 THEN 0 ELSE n - v[j])
                        ELSE IF j = 0 THEN v[i] - n ELSE v[i] - v[j]
    BY <1>2, <2>5, <2>6 DEF z
  <2>8. InZone(z, d)
    BY <1>2, <2>1, <2>4, <2>5, <2>6, <2>7, Extended DEF z
  <2> QED
    BY <2>8 DEF z
<1> QED
  BY <1>3, <1>5, <1>6 DEF InElapse, u

-----------------------------------------------------------------------------
(* Extrapolations and comparisons. *)

\* A bound that is relaxed loses no valuation, whose clocks are not negative.
LEMMA RelaxedFits ==
  ASSUME NEW v \in Values, v[0] = 0, NEW x \in Clocks, NEW y \in Clocks, v[y] >= 0,
         NEW k \in Int, NEW b \in Int, -Value(b) > k, Fits(v, x, y, b), b # OutOfBounds
  PROVE  b # LT_INFINITY => Fits(v, x, y, Relaxed(x, k))
<1> SUFFICES ASSUME b # LT_INFINITY PROVE Fits(v, x, y, Relaxed(x, k))
  OBVIOUS
<1>1. Sat(v, x, y, b)
  BY DEF Fits
<1>2. CASE k # NoBound
  <2>1. -k \in Int /\ LT \in {LT, LE} /\ LT = 0
    BY DEF LT
  <2>2. MakeBound(LT, -k) = OutOfBounds \/ MakeBound(LT, -k) = 2 * (-k) + 0
    BY <2>1, MakeFacts
  <2>3. 2 * (-k) + 0 \in Int /\ b <= 2 * (-k) + 0
    <3>1. Value(b) \in Int /\ Comparator(b) \in {0, 1} /\ b = 2 * Value(b) + Comparator(b)
      BY Parts
    <3>2. Value(b) + 1 <= -k
      BY <3>1
    <3> QED
      BY <2>1, <3>1, <3>2
  <2>4. Sat(v, x, y, 2 * (-k) + 0)
    BY <1>1, <2>3, SatMonotone
  <2>5. Relaxed(x, k) = MakeBound(LT, -k)
    BY <1>2 DEF Relaxed
  <2> QED
    BY <2>2, <2>4, <2>5 DEF Fits
<1>3. CASE k = NoBound /\ x # 0
  BY <1>3 DEF Relaxed, Fits
<1>4. CASE k = NoBound /\ x = 0
  <2>1. Value(LE_ZERO) = 0 /\ Comparator(LE_ZERO) = 1 /\ 0 * Unit = 0
    BY EntryFacts, UnitFacts DEF Value, Comparator
  <2>2. v[x] - v[y] <= 0
    BY <1>4 DEF Values
  <2>3. Sat(v, x, y, LE_ZERO)
    BY <2>1, <2>2, SatIsWithin DEF Within, LT
  <2> QED
    BY <1>4, <2>3 DEF Relaxed, Fits
<1> QED
  BY <1>2, <1>3, <1>4

\* Tightening what has been relaxed loses no valuation.
LEMMA ExtrapolatedAdmits ==
  ASSUME NEW d, Good(d), NEW e \in EntryMatrices, NEW v \in Values, Admits(v, d),
         \A i, j \in Clocks : Fits(v, i, j, e[<<i, j>>])
  PROVE  Admits(v, TightenIfModified(d, e))
<1>1. Admits(v, e)
  BY DEF Admits
<1>2. Admits(v, Tighten(e))
  BY <1>1, TightenAdmits
<1> QED
  BY <1>2 DEF TightenIfModified

\* extra_lu loses no valuation, and invents no emptiness.
LEMMA ExtraLUKeeps ==
  ASSUME NEW d, Good(d), NEW l \in [Clocks -> Int], NEW ub \in [Clocks -> Int],
         NEW u, u = ExtraLU(d, l, ub), u # Thrown, NEW v \in Values,
         v[0] = 0, \A i \in Clocks : v[i] >= 0, InZone(v, d)
  PROVE  InZone(v, u)
<1> DEFINE e == [p \in Clocks \X Clocks |->
                   LET x == p[1]
                       y == p[2]
                       c == Value(d[p])
                   IN IF x = y \/ d[p] = LT_INFINITY \/ (x = 0 /\ d[p] = LE_ZERO) THEN d[p]
                      ELSE IF x # 0 /\ c > l[x] THEN LT_INFINITY
                      ELSE IF -c > ub[y] THEN Relaxed(x, ub[y])
                      ELSE d[p]]
<1>1. u = TightenIfModified(d, e)
  BY DEF ExtraLU
<1>2. ASSUME NEW i \in Clocks, NEW j \in Clocks
      PROVE  \/ e[<<i, j>>] = d[<<i, j>>]
             \/ e[<<i, j>>] = LT_INFINITY
             \/ /\ e[<<i, j>>] = Relaxed(i, ub[j])
                /\ -Value(d[<<i, j>>]) > ub[j] /\ d[<<i, j>>] # LT_INFINITY
  OBVIOUS
<1>3. e = [p \in Clocks \X Clocks |-> e[p]]
  OBVIOUS
<1> HIDE DEF e
<1>4. Admits(v, d)
  BY ZoneAdmits
<1>5. ASSUME NEW i \in Clocks, NEW j \in Clocks
      PROVE  e[<<i, j>>] \in Entries /\ Fits(v, i, j, e[<<i, j>>])
  <2> DEFINE b == d[<<i, j>>]
  <2>1. b \in Entries /\ b \in Int /\ b # OutOfBounds /\ Fits(v, i, j, b)
    BY <1>4, GoodFacts DEF Admits
  <2>2. LT_INFINITY \in Entries /\ Fits(v, i, j, LT_INFINITY)
    BY BoundFacts DEF Entries, Fits
  <2>3. ub[j] \in Int /\ Relaxed(i, ub[j]) \in Entries
    BY RelaxedFacts
  <2>4. -Value(b) > ub[j] /\ b # LT_INFINITY => Fits(v, i, j, Relaxed(i, ub[j]))
    BY <2>1, <2>3, RelaxedFits
  <2> QED
    BY <1>2, <2>1, <2>2, <2>3, <2>4
<1>6. e \in EntryMatrices
  <2>1. \A p \in Clocks \X Clocks : e[p] \in Entries
    BY <1>5
  <2> QED
    BY <1>3, <2>1 DEF EntryMatrices
<1>7. Admits(v, u)
  BY <1>1, <1>4, <1>5, <1>6, ExtrapolatedAdmits
<1>8. IsOutcome(u)
  BY ExtraLUOutcome
<1> QED
  BY <1>7, <1>8, AdmittedIsInZone

\* extra_lu_plus does not either.
LEMMA ExtraLUPlusKeeps ==
  ASSUME NEW d, Good(d), NEW l \in [Clocks -> Int], NEW ub \in [Clocks -> Int],
         NEW u, u = ExtraLUPlus(d, l, ub), u # Thrown, NEW v \in Values,
         v[0] = 0, \A i \in Clocks : v[i] >= 0, InZone(v, d)
  PROVE  InZone(v, u)
<1> DEFINE e == [p \in Clocks \X Clocks |->
                   LET x == p[1]
                       y == p[2]
                   IN IF x = y \/ d[p] = LT_INFINITY THEN d[p]
                      ELSE IF x = 0
                        THEN IF -Value(d[<<0, y>>]) > ub[y] THEN Relaxed(0, ub[y]) ELSE d[p]
                      ELSE IF \/ -Value(d[<<0, x>>]) > l[x]
                              \/ Value(d[p]) > l[x]
                              \/ -Value(d[<<0, y>>]) > ub[y]
                        THEN LT_INFINITY
                      ELSE d[p]]
<1>1. u = TightenIfModified(d, e)
  BY DEF ExtraLUPlus
<1>2. ASSUME NEW i \in Clocks, NEW j \in Clocks
      PROVE  \/ e[<<i, j>>] = d[<<i, j>>]
             \/ e[<<i, j>>] = LT_INFINITY
             \/ /\ i = 0 /\ e[<<i, j>>] = Relaxed(i, ub[j])
                /\ -Value(d[<<i, j>>]) > ub[j] /\ d[<<i, j>>] # LT_INFINITY
  OBVIOUS
<1>3. e = [p \in Clocks \X Clocks |-> e[p]]
  OBVIOUS
<1> HIDE DEF e
<1>4. Admits(v, d)
  BY ZoneAdmits
<1>5. ASSUME NEW i \in Clocks, NEW j \in Clocks
      PROVE  e[<<i, j>>] \in Entries /\ Fits(v, i, j, e[<<i, j>>])
  <2> DEFINE b == d[<<i, j>>]
  <2>1. b \in Entries /\ b \in Int /\ b # OutOfBounds /\ Fits(v, i, j, b)
    BY <1>4, GoodFacts DEF Admits
  <2>2. LT_INFINITY \in Entries /\ Fits(v, i, j, LT_INFINITY)
    BY BoundFacts DEF Entries, Fits
  <2>3. ub[j] \in Int /\ Relaxed(i, ub[j]) \in Entries
    BY RelaxedFacts
  <2>4. -Value(b) > ub[j] /\ b # LT_INFINITY => Fits(v, i, j, Relaxed(i, ub[j]))
    BY <2>1, <2>3, RelaxedFits
  <2> QED
    BY <1>2, <2>1, <2>2, <2>3, <2>4
<1>6. e \in EntryMatrices
  <2>1. \A p \in Clocks \X Clocks : e[p] \in Entries
    BY <1>5
  <2> QED
    BY <1>3, <2>1 DEF EntryMatrices
<1>7. Admits(v, u)
  BY <1>1, <1>4, <1>5, <1>6, ExtrapolatedAdmits
<1>8. IsOutcome(u)
  BY ExtraLUPlusOutcome
<1> QED
  BY <1>7, <1>8, AdmittedIsInZone

-----------------------------------------------------------------------------
(* What the zones stand for. *)

\* The constraints of guards and invariants are applied exactly to a zone that is
\* computed with.
LEMMA ConstrainIsExact ==
  ASSUME Good(dbm)
  PROVE  ConstrainExact
<1> SUFFICES ASSUME NEW k \in Constraints, NEW m, m = Constrain(dbm, k.x, k.y, k.cmp, k.c),
                    m # Thrown, NEW v \in Sample
             PROVE  InZone(v, m) <=> InZone(v, dbm) /\ Satisfies(v, k.x, k.y, k.cmp, k.c)
  BY DEF ConstrainExact
<1>1. k.x \in Clocks /\ k.y \in Clocks /\ k.cmp \in {LT, LE} /\ k.c \in Int
  BY ConstraintsAssumption
<1>2. v \in Values
  BY SampleFacts
<1> QED
  BY <1>1, <1>2, ConstrainValuations

\* The operations of a step of the semantics compute sets of clock valuations exactly, for
\* every number of clocks, every width of the bounds and every size of the sample, when
\* the clocks have no negative bounds: what is reached is in the zone, and what is in the
\* zone is reached.
THEOREM OperationsExactCorrect ==
  ASSUME PositiveBounds
  PROVE  Spec => []OperationsExact
<1>1. ASSUME ZInv, Unstored PROVE ConstrainExact /\ ResetExact /\ OpenUpExact
  <2>1. Good(dbm) /\ IsZone(dbm) /\ IsPositive(dbm) /\ IsSampled(dbm)
    BY <1>1, SampledFacts DEF ZInv, Computed, Unstored
  <2>2. ConstrainExact
    BY <2>1, ConstrainIsExact
  <2>3. ResetExact
    <3> SUFFICES ASSUME NEW r \in Resets, NEW m, m = Reset(dbm, r.x, r.y, r.c),
                        m # Thrown, NEW v \in Sample
                 PROVE  InZone(v, m) <=> InReset(v, dbm, r.x, r.y, r.c)
      BY DEF ResetExact
    <3>1. r.x \in Clocks \ {0} /\ r.y \in Clocks /\ r.c \in Nat
      BY ResetsAssumption
    <3> QED
      BY <2>1, <3>1, ResetValuations
  <2>4. OpenUpExact
    BY <2>1, DelayValuations DEF OpenUpExact
  <2> QED
    BY <2>2, <2>3, <2>4
<1>2. ZInv => OperationsExact
  BY <1>1 DEF OperationsExact
<1> QED
  BY <1>2, ZInvInit, ZInvNext, PTL DEF Spec

\* No operation loses a run, negative clock bounds included: an extrapolation keeps the
\* valuations of the zone, a constraint those that satisfy it, and neither tells a zone
\* empty that has one; and what covers a zone, bound by bound, includes it.
NothingLost ==
  /\ Unstored => ConstrainExact
  /\ Unstored =>
       \A b \in ClockBounds : \A m \in {ExtraLU(dbm, b.l, b.u), ExtraLUPlus(dbm, b.l, b.u)} :
         m # Thrown => \A v \in Sample : InZone(v, dbm) => InZone(v, m)
  /\ IsSampled(dbm) /\ stored # Nothing /\ IsLe(dbm, stored.zone) =>
       \A v \in Sample : InZone(v, dbm) => InZone(v, stored.zone)

\* A zone that is covered, bound by bound, is included.
LEMMA CoveredIsIncluded ==
  ASSUME NEW d, Good(d), NEW e \in Matrices, IsLe(d, e), NEW v \in Values, InZone(v, d)
  PROVE  InZone(v, e)
<1>1. \A x, y \in Clocks : d[<<x, y>>] <= e[<<x, y>>]
  BY DEF IsLe
<1>2. /\ d \in EntryMatrices /\ e \in EntryMatrices
      /\ \A x, y \in Clocks : d[<<x, y>>] # OutOfBounds
  BY GoodFacts DEF Matrices, EntryMatrices, Entries
<1>3. Admits(v, e)
  BY <1>1, <1>2, ZoneAdmits, AdmitsMonotone
<1>4. \A x, y \in Clocks : e[<<x, y>>] # OutOfBounds
  <2>1. OutOfBounds \notin Bound
    BY BoundFacts DEF Bound
  <2> QED
    BY <2>1 DEF Matrices
<1>5. ~ IsEmpty0(e)
  <2>1. d[<<0, 0>>] = LE_ZERO /\ e[<<0, 0>>] \in Int /\ LE_ZERO <= e[<<0, 0>>]
    BY <1>1, <1>2, GoodFacts, ClockFacts
  <2> QED
    BY <2>1, EntryFacts DEF IsEmpty0
<1>6. ASSUME NEW p \in Clocks \X Clocks
      PROVE  \/ e[p] = LT_INFINITY
             \/ Satisfies(v, p[1], p[2], Comparator(e[p]), Value(e[p]))
  <2>1. p[1] \in Clocks /\ p[2] \in Clocks /\ p = <<p[1], p[2]>>
    OBVIOUS
  <2>2. Fits(v, p[1], p[2], e[p]) /\ e[p] # OutOfBounds
    BY <1>3, <1>4, <2>1 DEF Admits
  <2> QED
    BY <2>2 DEF Fits, Sat
<1> QED
  BY <1>5, <1>6 DEF InZone

\* Whatever the clock bounds, negative ones included, no valuation is lost.
THEOREM NothingLostCorrect == Spec => []NothingLost
<1>1. ASSUME ZInv, IsSampled(dbm)
      PROVE  Good(dbm) /\ IsZone(dbm)
  BY <1>1, SampledFacts DEF ZInv, Computed
<1>2. ASSUME ZInv, Unstored PROVE ConstrainExact
  BY <1>1, <1>2, ConstrainIsExact DEF Unstored
<1>3. ASSUME ZInv, Unstored, NEW b \in ClockBounds,
             NEW m \in {ExtraLU(dbm, b.l, b.u), ExtraLUPlus(dbm, b.l, b.u)}, m # Thrown,
             NEW v \in Sample, InZone(v, dbm)
      PROVE  InZone(v, m)
  <2>1. Good(dbm)
    BY <1>1, <1>3 DEF Unstored
  <2>2. b.l \in [Clocks -> Int] /\ b.u \in [Clocks -> Int]
    BY ClockBoundsAssumption
  <2>3. CASE m = ExtraLU(dbm, b.l, b.u)
    BY <1>3, <2>1, <2>2, <2>3, ExtraLUKeeps, SampleFacts
  <2>4. CASE m = ExtraLUPlus(dbm, b.l, b.u)
    BY <1>3, <2>1, <2>2, <2>4, ExtraLUPlusKeeps, SampleFacts
  <2> QED
    BY <1>3, <2>3, <2>4
<1>4. ASSUME ZInv, IsSampled(dbm), stored # Nothing, IsLe(dbm, stored.zone),
             NEW v \in Sample, InZone(v, dbm)
      PROVE  InZone(v, stored.zone)
  <2>1. Good(dbm) /\ stored.zone \in Matrices
    BY <1>1, <1>4 DEF ZInv, Stored, Good
  <2>2. v \in Values
    BY SampleFacts
  <2> QED
    BY <1>4, <2>1, <2>2, CoveredIsIncluded
<1>5. ZInv => NothingLost
  BY <1>2, <1>3, <1>4 DEF NothingLost
<1> QED
  BY <1>5, ZInvInit, ZInvNext, PTL DEF Spec

-----------------------------------------------------------------------------
(* The least valuation that satisfies tight bounds, and lower bounds of the clocks. *)

\* The bounds M of the pairs of clocks in F are those of the paths.
IsTightOn(F, M) ==
  /\ M \in [Clocks \X Clocks -> Int]
  /\ \A x \in Clocks : <<x, x>> \in F /\ M[<<x, x>>] = LE_ZERO
  /\ \A x, z, y \in Clocks : <<x, z>> \in F /\ <<z, y>> \in F =>
       <<x, y>> \in F /\ M[<<x, y>>] <= Plus(M[<<x, z>>], M[<<z, y>>])

\* The bounds p of 0 - x are those of the paths, too.
IsTightFrom(p, F, M) ==
  /\ p \in [Clocks -> Int] /\ p[0] = LE_ZERO
  /\ \A x, y \in Clocks : <<x, y>> \in F => p[y] <= Plus(p[x], M[<<x, y>>])

\* The difference t of two clocks, Dim to the unit, is within the bound b.
Meets(t, b) == IF Comparator(b) = 0 THEN t < Dim * Value(b) ELSE t <= Dim * Value(b)

\* The clocks that keep x from its bound: it is at theirs, and a strict bound further.
Pushing(p, F, M, x) ==
  {z \in Clocks \ {0} : /\ <<z, x>> \in F /\ Comparator(M[<<z, x>>]) = 0
                         /\ Value(p[x]) = Value(p[z]) + Value(M[<<z, x>>])}

\* A bound that is at most that of a path: in its parts.
LEMMA BoundOfPath ==
  ASSUME NEW a \in Int, NEW b \in Int, NEW c \in Int, c <= Plus(a, b)
  PROVE  /\ Value(c) <= Value(a) + Value(b)
         /\ Value(c) = Value(a) + Value(b) =>
              /\ Comparator(a) = 0 \/ Comparator(b) = 0 => Comparator(c) = 0
              /\ Comparator(c) <= Comparator(a) /\ Comparator(c) <= Comparator(b)
<1>1. /\ Value(a) \in Int /\ Comparator(a) \in {0, 1}
      /\ Value(b) \in Int /\ Comparator(b) \in {0, 1}
      /\ Value(c) \in Int /\ Comparator(c) \in {0, 1} /\ c = 2 * Value(c) + Comparator(c)
  BY Parts
<1>2. Comparator(a) * Comparator(b) \in {0, 1}
  BY <1>1
<1>3. 2 * Value(c) + Comparator(c)
        <= 2 * (Value(a) + Value(b)) + Comparator(a) * Comparator(b)
  BY <1>1 DEF Plus
<1>4. Value(c) <= Value(a) + Value(b)
  BY <1>1, <1>2, <1>3
<1>5. Value(c) = Value(a) + Value(b) => Comparator(c) <= Comparator(a) * Comparator(b)
  BY <1>1, <1>2, <1>3
<1>6. /\ Comparator(a) = 0 \/ Comparator(b) = 0 => Comparator(a) * Comparator(b) = 0
      /\ Comparator(a) * Comparator(b) <= Comparator(a)
      /\ Comparator(a) * Comparator(b) <= Comparator(b)
  BY <1>1
<1> QED
  BY <1>1, <1>2, <1>4, <1>5, <1>6

\* A clock that is pushed has a strict bound, and pushes those at its bound.
LEMMA PushingFacts ==
  ASSUME NEW F, NEW M, IsTightOn(F, M), NEW p, IsTightFrom(p, F, M), NEW x \in Clocks
  PROVE  /\ Pushing(p, F, M, x) \subseteq Clocks \ {0, x}
         /\ Pushing(p, F, M, x) # {} => Comparator(p[x]) = 0
         /\ \A y \in Clocks :
              <<x, y>> \in F /\ Value(p[y]) = Value(p[x]) + Value(M[<<x, y>>]) =>
                Pushing(p, F, M, x) \subseteq Pushing(p, F, M, y)
<1>1. /\ \A z \in Clocks : p[z] \in Int
      /\ \A y, z \in Clocks : M[<<y, z>>] \in Int
  BY DEF IsTightOn, IsTightFrom
<1>2. Comparator(M[<<x, x>>]) # 0
  BY EntryFacts DEF IsTightOn, Comparator
<1>3. ASSUME NEW z \in Pushing(p, F, M, x) PROVE Comparator(p[x]) = 0
  <2>1. z \in Clocks /\ p[x] <= Plus(p[z], M[<<z, x>>])
    BY DEF Pushing, IsTightFrom
  <2> QED
    BY <1>1, <2>1, BoundOfPath DEF Pushing
<1>4. ASSUME NEW y \in Clocks, <<x, y>> \in F, Value(p[y]) = Value(p[x]) + Value(M[<<x, y>>]),
             NEW z \in Pushing(p, F, M, x)
      PROVE  z \in Pushing(p, F, M, y)
  <2>1. /\ z \in Clocks \ {0} /\ <<z, x>> \in F /\ Comparator(M[<<z, x>>]) = 0
        /\ Value(p[x]) = Value(p[z]) + Value(M[<<z, x>>])
    BY DEF Pushing
  <2>2. <<z, y>> \in F /\ M[<<z, y>>] <= Plus(M[<<z, x>>], M[<<x, y>>])
    BY <1>4, <2>1 DEF IsTightOn
  <2>3. p[y] <= Plus(p[z], M[<<z, y>>])
    BY <2>1, <2>2 DEF IsTightFrom
  <2>4. /\ Value(M[<<z, y>>]) <= Value(M[<<z, x>>]) + Value(M[<<x, y>>])
        /\ Value(M[<<z, y>>]) = Value(M[<<z, x>>]) + Value(M[<<x, y>>])
             => Comparator(M[<<z, y>>]) = 0
    BY <1>1, <2>1, <2>2, BoundOfPath
  <2>5. Value(p[y]) <= Value(p[z]) + Value(M[<<z, y>>])
    BY <1>1, <2>1, <2>3, BoundOfPath
  <2>6. /\ Value(M[<<z, y>>]) \in Int /\ Value(M[<<z, x>>]) \in Int /\ Value(M[<<x, y>>]) \in Int
        /\ Value(p[x]) \in Int /\ Value(p[y]) \in Int /\ Value(p[z]) \in Int
    BY <1>1, <2>1, Parts
  <2>7. Value(M[<<z, y>>]) = Value(M[<<z, x>>]) + Value(M[<<x, y>>])
    <3>1. \A a, b, c, d, e, f \in Int :
            b = a + f /\ a = c + e /\ b <= c + d /\ d <= e + f => d = e + f
      OBVIOUS
    <3> QED
      BY <1>4, <2>1, <2>4, <2>5, <2>6, <3>1
  <2>8. Value(p[y]) = Value(p[z]) + Value(M[<<z, y>>])
    BY <1>4, <2>1, <2>6, <2>7
  <2> QED
    BY <2>1, <2>2, <2>4, <2>7, <2>8 DEF Pushing
<1> QED
  BY <1>2, <1>3, <1>4 DEF Pushing

\* There is a valuation: each clock at its lower bound, or as many grains above it as
\* strict bounds lead there, which are fewer than a unit.
LEMMA Corner ==
  ASSUME NEW F, NEW M, IsTightOn(F, M), NEW p, IsTightFrom(p, F, M)
  PROVE  \E k \in [Clocks -> 0 .. Dim - 1] :
           /\ \A x \in Clocks : k[x] = 0 <=> Comparator(p[x]) = 1
           /\ \A x, y \in Clocks : <<x, y>> \in F =>
                Meets((k[x] - Dim * Value(p[x])) - (k[y] - Dim * Value(p[y])), M[<<x, y>>])
<1> DEFINE N(x) == Cardinality(Pushing(p, F, M, x))
           k == [x \in Clocks |-> N(x) + 1 - Comparator(p[x])]
<1>1. /\ \A x \in Clocks : p[x] \in Int /\ Value(p[x]) \in Int /\ Comparator(p[x]) \in {0, 1}
      /\ \A x, y \in Clocks : /\ M[<<x, y>>] \in Int /\ Value(M[<<x, y>>]) \in Int
                              /\ Comparator(M[<<x, y>>]) \in {0, 1}
      /\ Dim \in Nat \ {0} /\ 0 \in Clocks
  BY Parts, ClockFacts DEF IsTightOn, IsTightFrom
<1>2. IsFiniteSet(Clocks) /\ Cardinality(Clocks) = Dim
  BY ClockFacts, FS_Interval
<1>3. ASSUME NEW x \in Clocks
      PROVE  /\ IsFiniteSet(Pushing(p, F, M, x)) /\ N(x) \in Nat
             /\ Comparator(p[x]) = 1 => N(x) = 0
             /\ Comparator(p[x]) = 0 => N(x) + 1 <= Dim - 1
  <2>1. Pushing(p, F, M, x) \subseteq Clocks \ {0, x}
    BY PushingFacts
  <2>2. IsFiniteSet(Pushing(p, F, M, x)) /\ N(x) \in Nat
    <3>1. Pushing(p, F, M, x) \subseteq Clocks
      BY <2>1
    <3> QED
      BY <1>2, <3>1, FS_Subset, FS_CardinalityType
  <2>3. Comparator(p[x]) = 1 => N(x) = 0
    BY PushingFacts, FS_EmptySet
  <2>4. ASSUME Comparator(p[x]) = 0 PROVE N(x) + 1 <= Dim - 1
    <3>1. x # 0
      BY <2>4, EntryFacts DEF IsTightFrom, Comparator
    <3>2. /\ IsFiniteSet(Clocks \ {0}) /\ Cardinality(Clocks \ {0}) = Dim - 1
      BY <1>1, <1>2, FS_RemoveElement
    <3>3. /\ IsFiniteSet((Clocks \ {0}) \ {x})
          /\ Cardinality((Clocks \ {0}) \ {x}) = Dim - 2
      <4> DEFINE S == Clocks \ {0}
      <4>1. x \in S /\ IsFiniteSet(S) /\ Cardinality(S) = Dim - 1
        BY <3>1, <3>2
      <4> HIDE DEF S
      <4>2. IsFiniteSet(S \ {x}) /\ Cardinality(S \ {x}) = Cardinality(S) - 1
        BY <4>1, FS_RemoveElement
      <4> QED
        BY <1>1, <4>1, <4>2 DEF S
    <3>4. Pushing(p, F, M, x) \subseteq (Clocks \ {0}) \ {x}
      BY <2>1
    <3>5. N(x) <= Dim - 2
      BY <3>3, <3>4, FS_Subset
    <3> QED
      BY <1>1, <2>2, <3>5
  <2> QED
    BY <2>2, <2>3, <2>4
<1>4. ASSUME NEW x \in Clocks, NEW y \in Clocks, <<x, y>> \in F,
             Value(p[y]) = Value(p[x]) + Value(M[<<x, y>>])
      PROVE  /\ k[x] <= k[y]
             /\ Comparator(M[<<x, y>>]) = 0 => k[x] + 1 <= k[y]
  <2>1. Pushing(p, F, M, x) \subseteq Pushing(p, F, M, y)
    BY <1>4, PushingFacts
  <2>2. N(x) <= N(y)
    BY <1>3, <2>1, FS_Subset
  <2>3. p[y] <= Plus(p[x], M[<<x, y>>])
    BY <1>4 DEF IsTightFrom
  <2>4. /\ Comparator(p[y]) <= Comparator(p[x])
        /\ Comparator(M[<<x, y>>]) = 0 => Comparator(p[y]) = 0
    BY <1>1, <1>4, <2>3, BoundOfPath
  <2>5. k[x] = N(x) + 1 - Comparator(p[x]) /\ k[y] = N(y) + 1 - Comparator(p[y])
    OBVIOUS
  <2> HIDE DEF k
  <2>6. ASSUME Comparator(M[<<x, y>>]) = 0 PROVE k[x] + 1 <= k[y]
    <3>1. CASE x = 0
      <4>1. Comparator(p[x]) = 1
        BY <3>1, EntryFacts DEF IsTightFrom, Comparator
      <4> QED
        BY <1>1, <1>3, <2>2, <2>4, <2>5, <2>6, <4>1
    <3>2. CASE x # 0
      <4>1. x \in Pushing(p, F, M, y) /\ x \notin Pushing(p, F, M, x)
        BY <1>4, <2>6, <3>2, PushingFacts DEF Pushing
      <4>2. N(x) # N(y)
        BY <1>3, <2>1, <4>1, FS_Subset
      <4>3. N(x) \in Nat /\ N(y) \in Nat
        BY <1>3
      <4>4. N(x) + 1 <= N(y)
        BY <2>2, <4>2, <4>3
      <4> QED
        BY <1>1, <2>4, <2>5, <4>3, <4>4
    <3> QED
      BY <3>1, <3>2
  <2>7. N(x) \in Nat /\ N(y) \in Nat
    BY <1>3
  <2>8. k[x] <= k[y]
    BY <1>1, <2>2, <2>4, <2>5, <2>7
  <2> QED
    BY <2>6, <2>8
<1>5. ASSUME NEW x \in Clocks
      PROVE  k[x] \in 0 .. Dim - 1 /\ (k[x] = 0 <=> Comparator(p[x]) = 1)
  <2>1. k[x] = N(x) + 1 - Comparator(p[x])
    OBVIOUS
  <2> HIDE DEF k
  <2> QED
    BY <1>1, <1>3, <2>1
<1>6. k \in [Clocks -> 0 .. Dim - 1]
  BY <1>5
<1> HIDE DEF k
<1>7. ASSUME NEW x \in Clocks, NEW y \in Clocks, <<x, y>> \in F
      PROVE  Meets((k[x] - Dim * Value(p[x])) - (k[y] - Dim * Value(p[y])), M[<<x, y>>])
  <2> DEFINE a == Value(p[x])
             b == Value(p[y])
             c == Value(M[<<x, y>>])
             d == (k[x] - Dim * a) - (k[y] - Dim * b)
  <2>1. a \in Int /\ b \in Int /\ c \in Int /\ Comparator(M[<<x, y>>]) \in {0, 1}
    BY <1>1
  <2>2. k[x] \in 0 .. Dim - 1 /\ k[y] \in 0 .. Dim - 1
    BY <1>5
  <2>3. b <= a + c
    <3>1. p[y] <= Plus(p[x], M[<<x, y>>])
      BY <1>7 DEF IsTightFrom
    <3> QED
      BY <1>1, <3>1, BoundOfPath
  <2>4. /\ Dim * a \in Int /\ Dim * b \in Int /\ Dim * c \in Int
        /\ b = a + c => Dim * b = Dim * a + Dim * c
        /\ b <= a + c - 1 => Dim * b <= Dim * a + Dim * c - Dim
    <3>1. /\ a * Dim \in Int /\ b * Dim \in Int /\ c * Dim \in Int
          /\ (a + c) * Dim = a * Dim + c * Dim
      BY <1>1, <2>1, ProductFacts
    <3>2. b < a + c - 1 => b * Dim < (a + c - 1) * Dim
      BY <1>1, <2>1, ProductFacts
    <3>3. (a + c - 1) * Dim = a * Dim + c * Dim - Dim
      BY <1>1, <2>1
    <3>4. Dim * a = a * Dim /\ Dim * b = b * Dim /\ Dim * c = c * Dim
      BY <1>1, <2>1
    <3> HIDE DEF a, b, c
    <3>5. CASE b = a + c - 1
      BY <1>1, <2>1, <3>1, <3>3, <3>4, <3>5
    <3>6. CASE b # a + c - 1
      BY <1>1, <2>1, <3>1, <3>2, <3>3, <3>4, <3>6
    <3> QED
      BY <3>5, <3>6
  <2>5. b = a + c => k[x] <= k[y] /\ (Comparator(M[<<x, y>>]) = 0 => k[x] + 1 <= k[y])
    BY <1>4, <1>7
  <2> HIDE DEF a, b, c
  <2>6. IF Comparator(M[<<x, y>>]) = 0 THEN d < Dim * c ELSE d <= Dim * c
    <3>1. CASE b = a + c
      BY <1>1, <2>1, <2>2, <2>4, <2>5, <3>1
    <3>2. CASE b # a + c
      <4>1. b <= a + c - 1
        BY <2>1, <2>3, <3>2
      <4> QED
        BY <1>1, <2>1, <2>2, <2>4, <4>1
    <3> QED
      BY <3>1, <3>2
  <2> QED
    BY <2>6 DEF Meets, a, b, c
<1> QED
  BY <1>5, <1>6, <1>7

\* Products with a positive number tell the order.
LEMMA ProductOrder ==
  ASSUME NEW a \in Int, NEW b \in Int, NEW k \in Nat \ {0}
  PROVE  /\ a * k \in Int /\ b * k \in Int
         /\ a < b <=> a * k < b * k
         /\ a <= b <=> a * k <= b * k
<1>1. a * k \in Int /\ b * k \in Int
  BY ProductFacts
<1>2. /\ a < b => a * k < b * k
      /\ b < a => b * k < a * k
      /\ a = b => a * k = b * k
  BY ProductFacts
<1> QED
  BY <1>1, <1>2

\* Integers that are bounded have a least one.
LEMMA LeastOf ==
  ASSUME NEW S \in SUBSET Int, S # {}, NEW b \in Int, \A s \in S : b <= s
  PROVE  \E m \in S : \A s \in S : m <= s
<1> DEFINE T == {s - b : s \in S}
<1>1. \A s \in S : s \in Int /\ s - b \in Nat
  OBVIOUS
<1>2. T \in SUBSET Nat
  BY <1>1
<1>3. PICK s0 \in S : TRUE
  OBVIOUS
<1>4. s0 - b \in T
  BY <1>3
<1>5. PICK n \in T : \A k \in T : n <= k
  BY <1>2, <1>4, Least
<1>6. PICK m \in S : n = m - b
  BY <1>5
<1>7. ASSUME NEW s \in S PROVE m <= s
  <2>1. s - b \in T
    OBVIOUS
  <2>2. m - b <= s - b
    BY <1>5, <1>6, <2>1
  <2> QED
    BY <1>1, <1>6, <2>2
<1> QED
  BY <1>6, <1>7

\* p are the bounds of the paths that start with those of r.
IsRowOfPaths(p, r, F, M) ==
  /\ \A x, y \in Clocks : <<y, x>> \in F => p[x] <= Plus(r[y], M[<<y, x>>])
  /\ \A x \in Clocks : \E y \in Clocks : <<y, x>> \in F /\ p[x] = Plus(r[y], M[<<y, x>>])
  /\ \A x, y \in Clocks : <<x, y>> \in F => p[y] <= Plus(p[x], M[<<x, y>>])

\* Bounds r of 0 - y for every y give bounds of the paths, through one of them.
LEMMA RowOfPaths ==
  ASSUME NEW F, NEW M, IsTightOn(F, M), NEW r \in [Clocks -> Int], NEW b \in Int,
         \A x, y \in Clocks : <<y, x>> \in F => b <= Plus(r[y], M[<<y, x>>])
  PROVE  \E p \in [Clocks -> Int] : IsRowOfPaths(p, r, F, M)
<1> DEFINE S(x) == {Plus(r[y], M[<<y, x>>]) : y \in {z \in Clocks : <<z, x>> \in F}}
           Is(m, x) == m \in S(x) /\ \A s \in S(x) : m <= s
           p == [x \in Clocks |-> CHOOSE m \in Int : Is(m, x)]
<1>1. \A x, y \in Clocks : M[<<x, y>>] \in Int /\ r[y] \in Int /\ Plus(r[y], M[<<y, x>>]) \in Int
  BY PlusParts DEF IsTightOn
<1>2. ASSUME NEW x \in Clocks PROVE \E m \in Int : Is(m, x)
  <2>1. S(x) \in SUBSET Int
    BY <1>1
  <2>2. Plus(r[x], M[<<x, x>>]) \in S(x)
    BY DEF IsTightOn
  <2>3. \A s \in S(x) : b <= s
    OBVIOUS
  <2> HIDE DEF S
  <2>4. \E m \in S(x) : \A s \in S(x) : m <= s
    BY <2>1, <2>2, <2>3, LeastOf
  <2> QED
    BY <2>1, <2>4
<1>3. ASSUME NEW x \in Clocks PROVE p[x] \in Int /\ Is(p[x], x)
  <2> HIDE DEF Is
  <2> QED
    BY <1>2
<1>4. p \in [Clocks -> Int]
  <2> DEFINE q(x) == CHOOSE m \in Int : Is(m, x)
  <2>1. p = [x \in Clocks |-> q(x)]
    OBVIOUS
  <2>2. \A x \in Clocks : q(x) \in Int
    BY <1>3
  <2> HIDE DEF p, q
  <2> QED
    BY <2>1, <2>2
<1> HIDE DEF p
<1>5. \A x, y \in Clocks : <<y, x>> \in F => p[x] <= Plus(r[y], M[<<y, x>>])
  BY <1>3
<1>6. \A x \in Clocks : \E y \in Clocks : <<y, x>> \in F /\ p[x] = Plus(r[y], M[<<y, x>>])
  BY <1>3
<1>7. ASSUME NEW x \in Clocks, NEW y \in Clocks, <<x, y>> \in F
      PROVE  p[y] <= Plus(p[x], M[<<x, y>>])
  <2>1. PICK z \in Clocks : <<z, x>> \in F /\ p[x] = Plus(r[z], M[<<z, x>>])
    BY <1>6
  <2>2. <<z, y>> \in F /\ M[<<z, y>>] <= Plus(M[<<z, x>>], M[<<x, y>>])
    BY <1>7, <2>1 DEF IsTightOn
  <2>3. Plus(M[<<z, x>>], M[<<x, y>>]) \in Int
    BY <1>1, PlusParts
  <2>4. r[z] <= r[z]
    BY <1>1
  <2>5. Plus(r[z], M[<<z, y>>]) <= Plus(r[z], Plus(M[<<z, x>>], M[<<x, y>>]))
    BY <1>1, <2>2, <2>3, <2>4, PlusMonotone
  <2>6. Plus(r[z], Plus(M[<<z, x>>], M[<<x, y>>])) = Plus(p[x], M[<<x, y>>])
    <3>1. r[z] \in Int /\ M[<<z, x>>] \in Int /\ M[<<x, y>>] \in Int
      BY <1>1
    <3>2. Plus(Plus(r[z], M[<<z, x>>]), M[<<x, y>>]) = Plus(r[z], Plus(M[<<z, x>>], M[<<x, y>>]))
      BY <3>1, PlusAssociates
    <3> QED
      BY <2>1, <3>2
  <2>7. p[y] <= Plus(r[z], M[<<z, y>>])
    BY <1>5, <2>2
  <2>8. p[y] \in Int /\ Plus(p[x], M[<<x, y>>]) \in Int /\ Plus(r[z], M[<<z, y>>]) \in Int
    BY <1>1, <1>3, PlusParts
  <2> QED
    BY <2>5, <2>6, <2>7, <2>8
<1> QED
  BY <1>4, <1>5, <1>6, <1>7 DEF IsRowOfPaths

\* The pairs of clocks that have a bound, and the bounds in Dim-ths of a unit.
Finite(d) == {q \in Clocks \X Clocks : d[q] # LT_INFINITY}
Scaled(b) == 2 * (Value(b) * Dim) + Comparator(b)
ScaledBounds(d) == [q \in Clocks \X Clocks |-> Scaled(d[q])]

\* Scaled bounds, in their parts.
LEMMA ScaledFacts ==
  ASSUME NEW a \in Int
  PROVE  /\ Scaled(a) \in Int /\ Value(Scaled(a)) = Value(a) * Dim
         /\ Value(a) * Dim \in Int
         /\ Comparator(Scaled(a)) = Comparator(a)
         /\ Value(Scaled(a)) * Dim = Value(a) * Unit
         /\ Dim * Value(Scaled(a)) = Value(a) * Unit
<1>1. Value(a) \in Int /\ Comparator(a) \in {0, 1} /\ Dim \in Nat \ {0}
  BY Parts, ClockFacts
<1>2. Value(a) * Dim \in Int
  BY <1>1, ProductFacts
<1>3. /\ Scaled(a) \in Int /\ Value(Scaled(a)) = Value(a) * Dim
      /\ Comparator(Scaled(a)) = Comparator(a)
  BY <1>1, <1>2, PartsOf DEF Scaled
<1>4. (Value(a) * Dim) * Dim = Value(a) * Unit /\ Dim * (Value(a) * Dim) = Value(a) * Unit
  <2> DEFINE k == Value(a) * Dim
  <2>1. Value(a) * Unit = k * Dim
    BY <1>1 DEF Unit
  <2> HIDE DEF k
  <2>2. Dim * k = k * Dim
    BY <1>1, <1>2 DEF k
  <2> QED
    BY <2>1, <2>2 DEF k
<1> QED
  BY <1>2, <1>3, <1>4

\* The scaled bounds are in the order of the bounds, and so are those of paths.
LEMMA ScaledOrder ==
  ASSUME NEW a \in Int, NEW b \in Int, NEW c \in Int
  PROVE  /\ a <= LE_ZERO => Scaled(a) <= LE_ZERO
         /\ c <= Plus(a, b) => Scaled(c) <= Plus(Scaled(a), Scaled(b))
<1>1. ASSUME NEW e \in Int, NEW f \in Int, e <= f PROVE Scaled(e) <= Scaled(f)
  <2>1. /\ Value(e) \in Int /\ Comparator(e) \in {0, 1} /\ e = 2 * Value(e) + Comparator(e)
        /\ Value(f) \in Int /\ Comparator(f) \in {0, 1} /\ f = 2 * Value(f) + Comparator(f)
    BY Parts
  <2>2. /\ Value(e) * Dim \in Int /\ Value(f) * Dim \in Int
        /\ Value(e) < Value(f) => Value(e) * Dim < Value(f) * Dim
    BY <2>1, ProductFacts, ClockFacts
  <2>3. Value(e) < Value(f) \/ (Value(e) = Value(f) /\ Comparator(e) <= Comparator(f))
    <3>1. \A m, n \in Int : \A p, q \in {0, 1} :
            2 * m + p <= 2 * n + q => m < n \/ (m = n /\ p <= q)
      OBVIOUS
    <3>2. 2 * Value(e) + Comparator(e) <= 2 * Value(f) + Comparator(f)
      BY <1>1, <2>1
    <3> QED
      BY <2>1, <3>1, <3>2
  <2> QED
    BY <2>1, <2>2, <2>3 DEF Scaled
<1>2. Scaled(LE_ZERO) = LE_ZERO
  <2>1. Value(LE_ZERO) = 0 /\ Comparator(LE_ZERO) = 1 /\ LE_ZERO = 1
    BY EntryFacts DEF Value, Comparator
  <2>2. 0 * Dim = 0
    BY ClockFacts
  <2> QED
    BY <2>1, <2>2 DEF Scaled
<1>3. Scaled(Plus(a, b)) = Plus(Scaled(a), Scaled(b))
  <2>1. Value(a) \in Int /\ Value(b) \in Int
    BY Parts
  <2>2. (Value(a) + Value(b)) * Dim = Value(a) * Dim + Value(b) * Dim
    BY <2>1, ProductFacts, ClockFacts
  <2>3. /\ Value(Scaled(a)) = Value(a) * Dim /\ Comparator(Scaled(a)) = Comparator(a)
        /\ Value(Scaled(b)) = Value(b) * Dim /\ Comparator(Scaled(b)) = Comparator(b)
    BY ScaledFacts
  <2>4. /\ Value(Plus(a, b)) = Value(a) + Value(b)
        /\ Comparator(Plus(a, b)) = Comparator(a) * Comparator(b)
    BY PlusParts
  <2>5. Scaled(Plus(a, b)) = 2 * ((Value(a) + Value(b)) * Dim) + Comparator(a) * Comparator(b)
    BY <2>4 DEF Scaled
  <2>6. Plus(Scaled(a), Scaled(b))
          = 2 * (Value(a) * Dim + Value(b) * Dim) + Comparator(a) * Comparator(b)
    BY <2>3 DEF Plus
  <2> QED
    BY <2>2, <2>5, <2>6
<1>4. Plus(a, b) \in Int /\ LE_ZERO \in Int
  BY PlusParts, EntryFacts
<1> QED
  BY <1>1, <1>2, <1>3, <1>4

\* The bounds of a zone that is computed with are tight, scaled or not.
LEMMA ScaledTight ==
  ASSUME NEW d, Good(d)
  PROVE  IsTightOn(Finite(d), ScaledBounds(d)) /\ IsTightOn(Finite(d), d)
<1>1. /\ \A x \in Clocks : d[<<x, x>>] = LE_ZERO
      /\ \A x, y \in Clocks : /\ d[<<x, y>>] \in Entries /\ d[<<x, y>>] \in Int
                              /\ d[<<x, y>>] # OutOfBounds
      /\ d \in EntryMatrices
  BY GoodFacts
<1>2. ASSUME NEW x \in Clocks, NEW z \in Clocks, NEW y \in Clocks,
             <<x, z>> \in Finite(d), <<z, y>> \in Finite(d)
      PROVE  <<x, y>> \in Finite(d) /\ d[<<x, y>>] <= Plus(d[<<x, z>>], d[<<z, y>>])
  <2>1. Proper(d[<<x, z>>]) /\ Proper(d[<<z, y>>])
    BY <1>1, <1>2 DEF Finite, Proper
  <2> QED
    BY <2>1 DEF Good, Tightly, Triangle, Finite
<1>3. \A x \in Clocks : <<x, x>> \in Finite(d)
  <2>1. LE_ZERO # LT_INFINITY
    BY EntryFacts
  <2> QED
    BY <1>1, <2>1 DEF Finite
<1>4. d \in [Clocks \X Clocks -> Int]
  <2>1. \A b \in Entries : b \in Int
    BY EntryFacts
  <2> QED
    BY <1>1, <2>1 DEF EntryMatrices
<1>5. IsTightOn(Finite(d), d)
  BY <1>1, <1>2, <1>3, <1>4 DEF IsTightOn
<1>6. Scaled(LE_ZERO) = LE_ZERO
  <2>1. Value(LE_ZERO) = 0 /\ Comparator(LE_ZERO) = 1 /\ LE_ZERO = 1
    BY EntryFacts DEF Value, Comparator
  <2>2. 0 * Dim = 0
    BY ClockFacts
  <2> QED
    BY <2>1, <2>2 DEF Scaled
<1>7. \A x, y \in Clocks : ScaledBounds(d)[<<x, y>>] = Scaled(d[<<x, y>>])
  BY DEF ScaledBounds
<1>8. ScaledBounds(d) \in [Clocks \X Clocks -> Int]
  <2>1. \A q \in Clocks \X Clocks : Scaled(d[q]) \in Int
    BY <1>4, ScaledFacts
  <2> QED
    BY <2>1 DEF ScaledBounds
<1>9. ASSUME NEW x \in Clocks, NEW z \in Clocks, NEW y \in Clocks,
             <<x, z>> \in Finite(d), <<z, y>> \in Finite(d)
      PROVE  ScaledBounds(d)[<<x, y>>]
               <= Plus(ScaledBounds(d)[<<x, z>>], ScaledBounds(d)[<<z, y>>])
  BY <1>1, <1>2, <1>7, <1>9, ScaledOrder
<1>10. IsTightOn(Finite(d), ScaledBounds(d))
  BY <1>1, <1>2, <1>3, <1>6, <1>7, <1>8, <1>9 DEF IsTightOn
<1> QED
  BY <1>5, <1>10

\* Some valuation of d may simulate v: for a clock x that is compared from above, the
\* lower bound that a clock y of the valuation has leaves room for that of x.
IsSimulable(v, d, l, u) ==
  \A x, y \in Clocks : v[x] <= u[x] * Unit /\ d[<<y, x>>] # LT_INFINITY =>
    Sat(v, y, x, d[<<y, x>>]) \/ l[y] * Unit - v[x] < Value(d[<<y, x>>]) * Unit

\* The lower bound that clock y of a valuation has that simulates one where it is n
\* Dim-ths of a unit: n, or more than k.
Simulating(n, k) == IF n <= k THEN 2 * (-n) + 1 ELSE 2 * (-k)

\* It is no more than n.
LEMMA SimulatingFacts ==
  ASSUME NEW n \in Int, NEW k \in Int, NEW r, r = Simulating(n, k)
  PROVE  /\ r \in Int /\ Value(r) \in Int /\ Value(r) >= -n
         /\ n <= k => Value(r) = -n /\ Comparator(r) = 1
         /\ ~ (n <= k) => Value(r) = -k /\ Comparator(r) = 0
<1>1. -n \in Int /\ -k \in Int /\ 2 * (-k) + 0 = 2 * (-k)
  OBVIOUS
<1>2. n <= k => r = 2 * (-n) + 1
  BY DEF Simulating
<1>3. ~ (n <= k) => r = 2 * (-k) + 0
  BY <1>1 DEF Simulating
<1>4. n <= k => Value(r) = -n /\ Comparator(r) = 1
  BY <1>1, <1>2, PartsOf
<1>5. ~ (n <= k) => Value(r) = -k /\ Comparator(r) = 0
  BY <1>1, <1>3, PartsOf
<1>6. r \in Int
  BY <1>1, <1>2, <1>3
<1> QED
  BY <1>1, <1>4, <1>5, <1>6

\* A difference of multiples of a grain, scaled down.
LEMMA ScaledWithin ==
  ASSUME NEW n \in Int, NEW k \in Int, NEW b \in Int
  PROVE  /\ Within(n * Dim - k * Dim, b) <=>
              IF Comparator(b) = 0 THEN n - k < Value(b) * Dim ELSE n - k <= Value(b) * Dim
         /\ n * Dim - k * Dim < Value(b) * Unit <=> n - k < Value(b) * Dim
<1>1. Dim \in Nat \ {0} /\ n - k \in Int
  BY ClockFacts
<1>2. Value(b) * Dim \in Int /\ (Value(b) * Dim) * Dim = Value(b) * Unit
  <2>1. Value(b) * Dim \in Int /\ Value(Scaled(b)) = Value(b) * Dim
    BY ScaledFacts
  <2>2. Value(Scaled(b)) * Dim = Value(b) * Unit
    BY ScaledFacts
  <2> QED
    BY <2>1, <2>2
<1>3. n * Dim - k * Dim = (n - k) * Dim
  BY <1>1
<1> DEFINE p == Value(b) * Dim
           m == n - k
<1>4. (m < p <=> m * Dim < p * Dim) /\ (m <= p <=> m * Dim <= p * Dim)
  BY <1>1, <1>2, ProductOrder
<1> HIDE DEF p, m
<1>5. /\ m * Dim < p * Dim <=> n * Dim - k * Dim < Value(b) * Unit
      /\ m * Dim <= p * Dim <=> n * Dim - k * Dim <= Value(b) * Unit
  BY <1>2, <1>3 DEF p, m
<1> QED
  BY <1>4, <1>5 DEF Within, LT, p, m

\* The bounds of the paths leave clock x where v has it, or below.
LEMMA SimulatingPath ==
  ASSUME NEW a \in Int, NEW b \in Int, NEW n \in Int, NEW k \in Int, NEW j \in Int,
         Within(n * Dim - j * Dim, b) \/ k * Dim - j * Dim < Value(b) * Unit,
         a = Plus(Simulating(n, k), Scaled(b))
  PROVE  2 * (-j) + 1 <= a
<1> DEFINE r == Simulating(n, k)
           s == Value(b) * Dim
           c == Comparator(b)
<1>1. /\ r \in Int /\ Value(r) \in Int
      /\ n <= k => Value(r) = -n /\ Comparator(r) = 1
      /\ ~ (n <= k) => Value(r) = -k /\ Comparator(r) = 0
  BY SimulatingFacts
<1>2. Scaled(b) \in Int /\ Value(Scaled(b)) = s /\ Comparator(Scaled(b)) = c /\ s \in Int
  BY ScaledFacts
<1>3. c \in {0, 1}
  BY Parts
<1>4. a = 2 * (Value(r) + s) + Comparator(r) * c
  BY <1>2 DEF Plus
<1>5. (IF c = 0 THEN n - j < s ELSE n - j <= s) \/ k - j < s
  BY ScaledWithin
<1> HIDE DEF r, s, c
<1>6. CASE n <= k
  <2>1. a = 2 * (s - n) + c
    BY <1>1, <1>2, <1>3, <1>4, <1>6
  <2> QED
    BY <1>2, <1>3, <1>5, <1>6, <2>1
<1>7. CASE ~ (n <= k)
  <2>1. a = 2 * (s - k)
    BY <1>1, <1>2, <1>3, <1>4, <1>7
  <2> QED
    BY <1>2, <1>3, <1>5, <1>7, <2>1
<1> QED
  BY <1>6, <1>7

\* A clock at the corner for the bound p of 0 - x, in grains.
LEMMA CornerClock ==
  ASSUME NEW p \in Int, NEW e \in 0 .. Dim - 1, e = 0 <=> Comparator(p) = 1,
         NEW w, w = e - Dim * Value(p), NEW n \in Int
  PROVE  /\ w \in Int
         /\ p <= 2 * (-n) + 1 => n * Dim <= w
         /\ p <= 2 * (-n) => n * Dim < w
         /\ 2 * (-n) + 1 <= p => w <= n * Dim
<1> DEFINE a == Value(p)
           c == Comparator(p)
           q == Dim * a
<1>1. a \in Int /\ c \in {0, 1} /\ p = 2 * a + c /\ Dim \in Nat \ {0}
  BY Parts, ClockFacts
<1>2. q = a * Dim /\ q \in Int /\ n * Dim \in Int
  <2>1. a * Dim \in Int /\ n * Dim \in Int
    BY <1>1, ProductFacts
  <2>2. Dim * a = a * Dim
    BY <1>1
  <2> QED
    BY <2>1, <2>2
<1>3. /\ a < -n => a * Dim + Dim <= -(n * Dim)
      /\ a = -n => a * Dim = -(n * Dim)
      /\ a > -n => a * Dim >= -(n * Dim) + Dim
  <2>1. -n \in Int /\ (-n) * Dim = -(n * Dim)
    BY <1>1, <1>2
  <2>2. a + 1 \in Int /\ (a + 1) * Dim = a * Dim + Dim
    BY <1>1
  <2>3. -n + 1 \in Int /\ (-n + 1) * Dim = -(n * Dim) + Dim
    BY <1>1, <1>2
  <2>4. a + 1 <= -n => (a + 1) * Dim <= (-n) * Dim
    BY <1>1, <2>1, <2>2, ProductOrder
  <2>5. -n + 1 <= a => (-n + 1) * Dim <= a * Dim
    BY <1>1, <2>3, ProductOrder
  <2>6. a < -n => a + 1 <= -n
    BY <1>1
  <2>7. a > -n => -n + 1 <= a
    BY <1>1
  <2> QED
    BY <2>1, <2>2, <2>3, <2>4, <2>5, <2>6, <2>7
<1> HIDE DEF a, c, q
<1>4. w = e - q /\ e \in 0 .. Dim - 1 /\ (e = 0 <=> c = 1)
  BY DEF a, c, q
<1>5. p <= 2 * (-n) + 1 => a <= -n
  BY <1>1
<1>6. p <= 2 * (-n) => a < -n \/ (a = -n /\ c = 0)
  BY <1>1
<1>7. 2 * (-n) + 1 <= p => a > -n \/ (a = -n /\ c = 1)
  BY <1>1
<1>8. p <= 2 * (-n) + 1 => n * Dim <= w
  BY <1>1, <1>2, <1>3, <1>4, <1>5
<1>9. p <= 2 * (-n) => n * Dim < w
  BY <1>1, <1>2, <1>3, <1>4, <1>6
<1>10. 2 * (-n) + 1 <= p => w <= n * Dim
  BY <1>1, <1>2, <1>3, <1>4, <1>7
<1> QED
  BY <1>1, <1>2, <1>4, <1>8, <1>9, <1>10

\* The clocks of a sampled valuation, in Dim-ths of a unit.
LEMMA SampleCounts ==
  ASSUME NEW v \in Sample
  PROVE  \E n \in [Clocks -> 0 .. Horizon * Dim] :
           n[0] = 0 /\ \A x \in Clocks : v[x] = n[x] * Dim
<1> DEFINE N == 0 .. Horizon * Dim
           n == [x \in Clocks |-> CHOOSE k \in N : v[x] = Dim * k]
<1>1. ASSUME NEW x \in Clocks PROVE \E k \in N : v[x] = Dim * k
  BY DEF Sample
<1>2. \A x \in Clocks : n[x] \in N /\ v[x] = Dim * n[x]
  BY <1>1
<1>3. n \in [Clocks -> N]
  <2> DEFINE q(x) == CHOOSE k \in N : v[x] = Dim * k
  <2>1. n = [x \in Clocks |-> q(x)]
    OBVIOUS
  <2>2. \A x \in Clocks : q(x) \in N
    BY <1>1
  <2> HIDE DEF n, q, N
  <2> QED
    BY <2>1, <2>2
<1> HIDE DEF n
<1>4. \A x \in Clocks : n[x] \in Int
  BY <1>2
<1>5. Dim \in Nat \ {0} /\ 0 \in Clocks
  BY ClockFacts
<1>6. \A x \in Clocks : v[x] = n[x] * Dim
  BY <1>2, <1>4, <1>5
<1>7. n[0] = 0
  <2>1. v[0] = 0 /\ n[0] \in Nat /\ n[0] * Dim = 0
    BY <1>2, <1>5, <1>6 DEF Sample
  <2>2. n[0] > 0 => n[0] * Dim > 0 * Dim
    <3>1. n[0] \in Int /\ 0 \in Int
      BY <2>1
    <3>2. 0 < n[0] => 0 * Dim < n[0] * Dim
      BY <1>5, <3>1, ProductFacts
    <3>3. 0 * Dim \in Int /\ n[0] * Dim \in Int
      BY <1>5, <3>1, ProductFacts
    <3> QED
      BY <3>1, <3>2, <3>3
  <2>3. 0 * Dim = 0
    BY <1>5
  <2> QED
    BY <2>1, <2>2, <2>3
<1> QED
  BY <1>3, <1>6, <1>7

\* The values of the sample's bounds, and of the valuations.
LEMMA HorizonFacts ==
  /\ Horizon \in Nat /\ Limit \in Nat
  /\ Horizon * Dim \in Nat /\ Limit * Dim \in Nat
  /\ (Horizon + Limit) * Unit \in Nat
  /\ (Horizon * Dim + Limit * Dim) * Dim = (Horizon + Limit) * Unit
  /\ Dim \in Nat \ {0} /\ 0 \in Clocks
<1>1. Dim \in Nat \ {0} /\ Limit \in Nat /\ 0 \in Clocks
  BY ClockFacts, LimitAssumption
<1>2. Horizon \in Nat
  <2>1. \A a, b \in Nat : a * b + 1 \in Nat
    OBVIOUS
  <2> QED
    BY <1>1, <2>1 DEF Horizon
<1>3. \A a, b \in Nat : a * b \in Nat
  OBVIOUS
<1>4. Horizon * Dim \in Nat /\ Limit * Dim \in Nat /\ (Horizon + Limit) * Unit \in Nat
  BY <1>1, <1>2, <1>3, UnitFacts
<1>5. Horizon + Limit \in Nat /\ Horizon * Dim + Limit * Dim = (Horizon + Limit) * Dim
  BY <1>1, <1>2
<1> DEFINE h == Horizon + Limit
           k == h * Dim
<1>6. h * Unit = k * Dim
  BY <1>1, <1>5 DEF Unit
<1> QED
  BY <1>1, <1>2, <1>4, <1>5, <1>6

\* A bound that is not positive has no positive value.
LEMMA NotPositive ==
  ASSUME NEW a \in Int, a <= LE_ZERO
  PROVE  Value(a) <= 0 /\ (a = LE_ZERO => Value(a) = 0 /\ Comparator(a) = 1)
<1>1. /\ Value(a) \in Int /\ Comparator(a) \in {0, 1} /\ a = 2 * Value(a) + Comparator(a)
      /\ LE_ZERO = 1
  BY Parts, EntryFacts
<1> QED
  BY <1>1

\* A sampled valuation that may be simulated is, by a valuation with the least values.
LEMMA Simulator ==
  ASSUME NEW d, Good(d), IsPositive(d), IsSampled(d), NEW v \in Sample,
         NEW l \in [Clocks -> Int], NEW u \in [Clocks -> Int], l[0] = 0, u[0] = 0,
         IsSimulable(v, d, l, u)
  PROVE  \E w \in Valuations : InZone(w, d) /\ Simulates(w, v, l, u)
<1>1. PICK n \in [Clocks -> 0 .. Horizon * Dim] :
        n[0] = 0 /\ \A x \in Clocks : v[x] = n[x] * Dim
  BY SampleCounts
<1> DEFINE F == Finite(d)
           M == ScaledBounds(d)
           r == [y \in Clocks |-> Simulating(n[y], l[y] * Dim)]
           H == Horizon * Dim
           L == Limit * Dim
<1>2. /\ Dim \in Nat \ {0} /\ 0 \in Clocks /\ H \in Nat /\ L \in Nat
      /\ \A x \in Clocks : n[x] \in 0 .. H /\ n[x] \in Int
  BY HorizonFacts
<1>3. ASSUME NEW y \in Clocks
      PROVE  /\ l[y] * Dim \in Int /\ u[y] * Dim \in Int
             /\ l[y] * Unit = (l[y] * Dim) * Dim /\ u[y] * Unit = (u[y] * Dim) * Dim
             /\ v[y] <= l[y] * Unit <=> n[y] <= l[y] * Dim
             /\ v[y] <= u[y] * Unit <=> n[y] <= u[y] * Dim
  <2>1. l[y] \in Int /\ u[y] \in Int /\ l[y] * Dim \in Int /\ u[y] * Dim \in Int
    BY <1>2, ProductFacts
  <2>2. l[y] * Unit = (l[y] * Dim) * Dim /\ u[y] * Unit = (u[y] * Dim) * Dim
    <3> DEFINE a == l[y] * Dim
               b == u[y] * Dim
    <3>1. l[y] * Unit = a * Dim /\ u[y] * Unit = b * Dim
      BY <1>2, <2>1 DEF Unit
    <3> QED
      BY <3>1
  <2> QED
    BY <1>1, <1>2, <2>1, <2>2, ProductOrder
<1>4. IsTightOn(F, M) /\ \A x, y \in Clocks : M[<<x, y>>] = Scaled(d[<<x, y>>])
  BY ScaledTight DEF ScaledBounds
<1>5. \A x, y \in Clocks : d[<<x, y>>] \in Int /\ M[<<x, y>>] \in Int
  BY <1>4, GoodFacts DEF IsTightOn
<1>6. r \in [Clocks -> Int] /\ \A y \in Clocks : r[y] = Simulating(n[y], l[y] * Dim)
  BY <1>2, <1>3, SimulatingFacts
<1> HIDE DEF F, M, r, H, L
<1>7. ASSUME NEW x \in Clocks, NEW y \in Clocks, <<y, x>> \in F
      PROVE  /\ Plus(r[y], M[<<y, x>>]) \in Int
             /\ Value(Plus(r[y], M[<<y, x>>])) >= - (H + L)
             /\ 2 * (- (H + L)) <= Plus(r[y], M[<<y, x>>])
  <2>1. Value(r[y]) \in Int /\ Value(r[y]) >= -n[y] /\ r[y] \in Int
    <3>1. n[y] \in Int /\ l[y] * Dim \in Int /\ r[y] = Simulating(n[y], l[y] * Dim)
      BY <1>2, <1>3, <1>6
    <3> QED
      BY <3>1, SimulatingFacts
  <2>2. Value(d[<<y, x>>]) \in - Limit .. Limit
    BY <1>7 DEF IsSampled, F, Finite
  <2>3. Value(M[<<y, x>>]) = Value(d[<<y, x>>]) * Dim /\ Value(d[<<y, x>>]) * Dim \in Int
    BY <1>4, <1>5, ScaledFacts
  <2>4. Value(M[<<y, x>>]) >= - L
    <3>1. - Limit \in Int /\ Value(d[<<y, x>>]) \in Int /\ - Limit <= Value(d[<<y, x>>])
      BY <2>2, LimitAssumption
    <3>2. (- Limit) * Dim <= Value(d[<<y, x>>]) * Dim
      BY <1>2, <3>1, ProductOrder
    <3>3. (- Limit) * Dim = - L
      BY <1>2, LimitAssumption DEF L
    <3> QED
      BY <2>3, <3>2, <3>3
  <2>5. /\ Plus(r[y], M[<<y, x>>]) \in Int
        /\ Value(Plus(r[y], M[<<y, x>>])) = Value(r[y]) + Value(M[<<y, x>>])
    BY <1>5, <2>1, PlusParts
  <2>6. Value(Plus(r[y], M[<<y, x>>])) >= - (H + L)
    BY <1>2, <2>1, <2>3, <2>4, <2>5
  <2>7. LET a == Plus(r[y], M[<<y, x>>])
        IN Comparator(a) \in {0, 1} /\ a = 2 * Value(a) + Comparator(a) /\ Value(a) \in Int
    BY <2>5, Parts
  <2> QED
    BY <1>2, <2>5, <2>6, <2>7
<1>8. PICK p \in [Clocks -> Int] : IsRowOfPaths(p, r, F, M)
  <2> DEFINE b == 2 * (- (H + L))
  <2>1. b \in Int
    BY <1>2
  <2>2. \A x, y \in Clocks : <<y, x>> \in F => b <= Plus(r[y], M[<<y, x>>])
    BY <1>7
  <2>3. IsTightOn(F, M) /\ r \in [Clocks -> Int]
    BY <1>4, <1>6
  <2> HIDE DEF b
  <2> QED
    BY <2>1, <2>2, <2>3, RowOfPaths
<1>9. ASSUME NEW x \in Clocks, n[x] <= u[x] * Dim PROVE 2 * (-n[x]) + 1 <= p[x]
  <2>1. PICK y \in Clocks : <<y, x>> \in F /\ p[x] = Plus(r[y], M[<<y, x>>])
    BY <1>8 DEF IsRowOfPaths
  <2> DEFINE b == d[<<y, x>>]
             k == l[y] * Dim
  <2>2. v[x] <= u[x] * Unit /\ b # LT_INFINITY /\ b \in Int /\ k \in Int
    BY <1>3, <1>5, <1>9, <2>1 DEF F, Finite
  <2>3. Sat(v, y, x, b) \/ l[y] * Unit - v[x] < Value(b) * Unit
    BY <2>2 DEF IsSimulable
  <2>4. Within(n[y] * Dim - n[x] * Dim, b) \/ k * Dim - n[x] * Dim < Value(b) * Unit
    BY <1>1, <1>3, <2>3, SatIsWithin
  <2>5. p[x] = Plus(Simulating(n[y], k), Scaled(b))
    BY <1>4, <1>6, <2>1
  <2> HIDE DEF b, k
  <2> QED
    BY <1>2, <2>2, <2>4, <2>5, SimulatingPath
<1>10. ASSUME NEW x \in Clocks
       PROVE  /\ p[x] \in Int /\ p[x] <= r[x] /\ r[x] \in Int /\ p[x] <= LE_ZERO
              /\ - (H + L) <= Value(p[x])
  <2>1. p[x] <= Plus(r[x], M[<<x, x>>]) /\ M[<<x, x>>] = LE_ZERO
    BY <1>4, <1>8 DEF IsRowOfPaths, IsTightOn
  <2>2. p[x] <= r[x]
    BY <1>6, <2>1, PlusParts
  <2>3. r[0] = LE_ZERO
    <3>1. 0 * Dim = 0 /\ n[0] = 0 /\ l[0] = 0 /\ 0 <= 0
      BY <1>1, <1>2
    <3> QED
      BY <1>2, <1>6, <3>1, EntryFacts DEF Simulating
  <2>4. d[<<0, x>>] <= LE_ZERO /\ <<0, x>> \in F
    <3>1. d[<<0, x>>] <= LE_ZERO
      BY DEF IsPositive
    <3>2. d[<<0, x>>] # LT_INFINITY
      BY <1>2, <1>5, <3>1, EntryFacts
    <3> QED
      BY <1>2, <3>1, <3>2 DEF F, Finite
  <2>5. M[<<0, x>>] <= LE_ZERO
    <3>1. 0 \in Clocks /\ d[<<0, x>>] \in Int
      BY <1>2, <1>5
    <3>2. Scaled(d[<<0, x>>]) <= LE_ZERO
      BY <2>4, <3>1, ScaledOrder
    <3> QED
      BY <1>2, <1>4, <3>2
  <2>6. p[x] <= Plus(LE_ZERO, M[<<0, x>>])
    BY <1>2, <1>8, <2>3, <2>4 DEF IsRowOfPaths
  <2>7. Plus(LE_ZERO, M[<<0, x>>]) = M[<<0, x>>] /\ M[<<0, x>>] \in Int /\ LE_ZERO \in Int
    BY <1>2, <1>5, PlusParts, EntryFacts
  <2>8. - (H + L) <= Value(p[x])
    <3>1. PICK y \in Clocks : <<y, x>> \in F /\ p[x] = Plus(r[y], M[<<y, x>>])
      BY <1>8 DEF IsRowOfPaths
    <3> QED
      BY <1>7, <3>1
  <2> QED
    BY <1>6, <2>2, <2>5, <2>6, <2>7, <2>8
<1>11. p[0] = LE_ZERO
  <2>1. 0 * Dim = 0
    BY <1>2
  <2>2. 2 * (-n[0]) + 1 <= p[0]
    BY <1>1, <1>2, <1>9, <2>1
  <2> QED
    BY <1>1, <1>2, <1>10, <2>2, EntryFacts
<1>12. IsTightFrom(p, F, M)
  BY <1>8, <1>11 DEF IsRowOfPaths, IsTightFrom
<1>13. PICK k \in [Clocks -> 0 .. Dim - 1] :
         /\ \A x \in Clocks : k[x] = 0 <=> Comparator(p[x]) = 1
         /\ \A x, y \in Clocks : <<x, y>> \in F =>
              Meets((k[x] - Dim * Value(p[x])) - (k[y] - Dim * Value(p[y])), M[<<x, y>>])
  BY <1>4, <1>12, Corner
<1> DEFINE w == [x \in Clocks |-> k[x] - Dim * Value(p[x])]
<1>14. \A x \in Clocks : w[x] = k[x] - Dim * Value(p[x]) /\ k[x] \in 0 .. Dim - 1
  OBVIOUS
<1>15. w = [x \in Clocks |-> w[x]]
  OBVIOUS
<1> HIDE DEF w
<1>16. ASSUME NEW x \in Clocks
       PROVE  /\ w[x] \in Int /\ w[x] \in Grains
              /\ w[x] < v[x] => l[x] * Unit < w[x]
              /\ w[x] > v[x] => u[x] * Unit < v[x]
  <2>1. \A j \in Int : /\ w[x] \in Int
                       /\ p[x] <= 2 * (-j) + 1 => j * Dim <= w[x]
                       /\ p[x] <= 2 * (-j) => j * Dim < w[x]
                       /\ 2 * (-j) + 1 <= p[x] => w[x] <= j * Dim
    BY <1>10, <1>13, <1>14, CornerClock
  <2>2. n[x] \in Int /\ l[x] * Dim \in Int /\ u[x] * Dim \in Int /\ w[x] \in Int
        /\ v[x] = n[x] * Dim /\ n[x] * Dim \in Int /\ l[x] * Unit \in Int /\ u[x] * Unit \in Int
    <3>1. l[x] \in Int /\ u[x] \in Int
      OBVIOUS
    <3> QED
      BY <1>1, <1>2, <1>3, <2>1, <3>1, ProductFacts, UnitFacts
  <2>3. 0 <= w[x]
    <3>1. 2 * (-0) + 1 = LE_ZERO /\ 0 * Dim = 0
      BY <1>2, EntryFacts
    <3> QED
      BY <1>10, <2>1, <3>1
  <2>4. w[x] <= (Horizon + Limit) * Unit + Dim
    <3>1. Value(p[x]) \in Int /\ - (H + L) \in Int
      BY <1>2, <1>10, Parts
    <3>2. (- (H + L)) * Dim <= Value(p[x]) * Dim /\ Value(p[x]) * Dim \in Int
      BY <1>2, <1>10, <3>1, ProductOrder
    <3>3. (- (H + L)) * Dim = - ((H + L) * Dim)
      BY <1>2
    <3>4. (H + L) * Dim = (Horizon + Limit) * Unit /\ (Horizon + Limit) * Unit \in Nat
      BY HorizonFacts DEF H, L
    <3>5. Dim * Value(p[x]) = Value(p[x]) * Dim
      BY <1>2, <3>1
    <3> QED
      BY <1>2, <1>14, <3>2, <3>3, <3>4, <3>5
  <2>5. w[x] \in Grains
    BY <2>2, <2>3, <2>4 DEF Grains
  <2>6. ASSUME w[x] < v[x] PROVE l[x] * Unit < w[x]
    <3>1. ~ (n[x] <= l[x] * Dim)
      <4> SUFFICES ASSUME n[x] <= l[x] * Dim PROVE FALSE
        OBVIOUS
      <4>1. r[x] = 2 * (-n[x]) + 1
        BY <1>6 DEF Simulating
      <4>2. n[x] * Dim <= w[x]
        BY <1>10, <2>1, <2>2, <4>1
      <4> QED
        BY <2>2, <2>6, <4>2
    <3>2. r[x] = 2 * (-(l[x] * Dim))
      BY <1>6, <3>1 DEF Simulating
    <3>3. (l[x] * Dim) * Dim < w[x]
      BY <1>10, <2>1, <2>2, <3>2
    <3> QED
      BY <1>3, <3>3
  <2>7. ASSUME w[x] > v[x] PROVE u[x] * Unit < v[x]
    <3>1. ~ (n[x] <= u[x] * Dim)
      <4> SUFFICES ASSUME n[x] <= u[x] * Dim PROVE FALSE
        OBVIOUS
      <4>1. w[x] <= n[x] * Dim
        BY <1>9, <2>1, <2>2
      <4> QED
        BY <2>2, <2>7, <4>1
    <3>2. ~ (v[x] <= u[x] * Unit)
      BY <1>3, <3>1
    <3> QED
      BY <2>2, <3>2
  <2> QED
    BY <2>2, <2>5, <2>6, <2>7
<1>17. w \in Valuations /\ w \in Values
  <2>1. w[0] = 0
    <3>1. Value(p[0]) = 0 /\ k[0] = 0
      BY <1>2, <1>11, <1>13, EntryFacts, NotPositive
    <3>2. w[0] = k[0] - Dim * Value(p[0])
      BY <1>2, <1>14
    <3> QED
      BY <1>2, <3>1, <3>2
  <2> QED
    BY <1>15, <1>16, <2>1 DEF Valuations, Values
<1>18. InZone(w, d)
  <2>1. ASSUME NEW x \in Clocks, NEW y \in Clocks, d[<<x, y>>] # LT_INFINITY
        PROVE  Sat(w, x, y, d[<<x, y>>])
    <3>1. <<x, y>> \in F
      BY <2>1 DEF F, Finite
    <3>2. Meets(w[x] - w[y], Scaled(d[<<x, y>>]))
      BY <1>4, <1>13, <1>14, <3>1
    <3>3. /\ Comparator(Scaled(d[<<x, y>>])) = Comparator(d[<<x, y>>])
          /\ Dim * Value(Scaled(d[<<x, y>>])) = Value(d[<<x, y>>]) * Unit
      BY <1>5, ScaledFacts
    <3>4. Within(w[x] - w[y], d[<<x, y>>])
      BY <3>2, <3>3 DEF Within, Meets, LT
    <3> QED
      BY <3>4, SatIsWithin
  <2> QED
    BY <1>17, <2>1, ZoneAdmits DEF Admits, Fits
<1> QED
  BY <1>16, <1>17, <1>18 DEF Simulates

\* What is in an extrapolated zone fits the bounds that have been relaxed.
LEMMA ExtrapolatedFits ==
  ASSUME NEW d, Good(d), NEW e \in EntryMatrices, IsConsistent(e),
         NEW u, u = TightenIfModified(d, e), u # Thrown, NEW v \in Values, InZone(v, u)
  PROVE  \A i, j \in Clocks : e[<<i, j>>] # OutOfBounds /\ Fits(v, i, j, e[<<i, j>>])
<1>1. Good(u) /\ \A i, j \in Clocks : u[<<i, j>>] <= e[<<i, j>>]
  <2>1. CASE e = d
    <3>1. \A i, j \in Clocks : d[<<i, j>>] \in Int
      BY GoodFacts
    <3>2. \A b \in Int : b <= b
      OBVIOUS
    <3> QED
      BY <2>1, <3>1, <3>2 DEF TightenIfModified
  <2>2. CASE e # d
    <3>1. u = Tighten(e)
      BY <2>2 DEF TightenIfModified
    <3>2. u # Empty
      BY OutcomeFacts DEF InZone
    <3>3. IsTightened(u, e, Dim)
      BY <3>1, <3>2, TightenFacts
    <3> QED
      BY <3>3, TightenedIsGood DEF IsTightened
  <2> QED
    BY <2>1, <2>2
<1>2. /\ u \in EntryMatrices
      /\ \A i, j \in Clocks : u[<<i, j>>] \in Entries /\ u[<<i, j>>] # OutOfBounds
  BY <1>1, GoodFacts
<1>3. Admits(v, e)
  BY <1>1, <1>2, ZoneAdmits, AdmitsMonotone
<1>4. ASSUME NEW i \in Clocks, NEW j \in Clocks PROVE e[<<i, j>>] # OutOfBounds
  <2>1. /\ u[<<i, j>>] \in Int /\ u[<<i, j>>] <= e[<<i, j>>] /\ OutOfBounds < u[<<i, j>>]
        /\ OutOfBounds \in Int
    <3>1. \A b \in Entries : b # OutOfBounds => OutOfBounds < b /\ b \in Int
      BY EntryFacts
    <3> QED
      BY <1>1, <1>2, <3>1, EntryFacts
  <2> QED
    BY <2>1
<1> QED
  BY <1>3, <1>4 DEF Admits

\* No valuation whose clock x is compared from above with its value fits a lower bound
\* of x that has been relaxed.
LEMMA RelaxedTells ==
  ASSUME NEW v \in Values, NEW x \in Clocks, NEW y \in Clocks, v[x] >= 0, v[y] >= 0,
         NEW k \in Int, v[x] <= k * Unit,
         Relaxed(y, k) # OutOfBounds, Fits(v, y, x, Relaxed(y, k))
  PROVE  FALSE
<1> DEFINE q == k * Unit
<1>1. q \in Int /\ v[x] \in Int /\ v[y] \in Int
  BY UnitFacts, ProductFacts DEF Values
<1>2. k # NoBound
  <2>1. NoBound < 0 /\ NoBound \in Int
    BY BoundFacts DEF NoBound
  <2>2. k < 0 => q < 0 * Unit
    BY UnitFacts, ProductFacts
  <2>3. 0 * Unit = 0
    BY UnitFacts
  <2> HIDE DEF q
  <2>4. ~ (q < 0)
    BY <1>1 DEF q
  <2> QED
    BY <2>1, <2>2, <2>3, <2>4
<1>3. Relaxed(y, k) = 2 * (-k) + 0
  <2>1. -k \in Int /\ LT \in {LT, LE} /\ LT = 0
    BY DEF LT
  <2>2. MakeBound(LT, -k) = OutOfBounds \/ MakeBound(LT, -k) = 2 * (-k) + 0
    BY <2>1, MakeFacts
  <2> QED
    BY <1>2, <2>2 DEF Relaxed
<1>4. Relaxed(y, k) # LT_INFINITY
  <2>1. -k \in Int /\ LT \in {LT, LE}
    OBVIOUS
  <2>2. Proper(MakeBound(LT, -k)) \/ MakeBound(LT, -k) = OutOfBounds
    BY <2>1, MakeFacts
  <2> QED
    BY <1>2, <2>2, EntryFacts DEF Relaxed
<1>5. Sat(v, y, x, 2 * (-k) + 0)
  BY <1>3, <1>4 DEF Fits
<1>6. Value(2 * (-k) + 0) = -k /\ Comparator(2 * (-k) + 0) = 0 /\ (-k) * Unit = -q
  <2>1. -k \in Int
    OBVIOUS
  <2>2. (-k) * Unit = -q
    BY UnitFacts
  <2> QED
    BY <2>1, <2>2, PartsOf
<1> HIDE DEF q
<1>7. v[y] - v[x] < -q
  BY <1>5, <1>6, SatIsWithin DEF Within, LT
<1> QED
  BY <1>1, <1>7 DEF q

\* The order of the values of bounds is that of their products.
LEMMA ProductPlus ==
  ASSUME NEW a \in Int, NEW b \in Int, NEW c \in Int, a + b < c
  PROVE  /\ a * Unit \in Int /\ b * Unit \in Int /\ c * Unit \in Int
         /\ a * Unit + b * Unit < c * Unit
<1>1. Unit \in Nat \ {0} /\ a + b \in Int
  BY UnitFacts
<1>2. (a + b) * Unit = a * Unit + b * Unit /\ (a + b) * Unit < c * Unit
  BY <1>1, ProductFacts
<1> QED
  BY <1>1, <1>2, ProductFacts

\* A valuation that fits a zone's lower bounds and its bounds of differences, but those
\* that extrapolations may drop, may be simulated.
LEMMA SimulableBounds ==
  ASSUME NEW d, Good(d), IsPositive(d), NEW v \in Sample,
         NEW l \in [Clocks -> Int], NEW u \in [Clocks -> Int],
         \A x \in Clocks : v[x] <= u[x] * Unit =>
           /\ Sat(v, 0, x, d[<<0, x>>])
           /\ \A y \in Clocks \ {0} : y # x /\ d[<<y, x>>] # LT_INFINITY =>
                \/ Sat(v, y, x, d[<<y, x>>])
                \/ Value(d[<<y, x>>]) > l[y]
                \/ -Value(d[<<0, y>>]) > l[y]
  PROVE  IsSimulable(v, d, l, u)
<1> SUFFICES ASSUME NEW x \in Clocks, NEW y \in Clocks, v[x] <= u[x] * Unit,
                    d[<<y, x>>] # LT_INFINITY,
                    ~ Sat(v, y, x, d[<<y, x>>])
             PROVE  l[y] * Unit - v[x] < Value(d[<<y, x>>]) * Unit
  BY DEF IsSimulable
<1>1. /\ v \in Values /\ v[0] = 0 /\ v[x] \in Int /\ v[x] >= 0 /\ 0 \in Clocks
      /\ d[<<y, x>>] \in Int /\ d[<<0, x>>] \in Int /\ d[<<0, y>>] \in Int
  <2>1. 0 \in Clocks /\ v \in Values /\ v[0] = 0 /\ \A i \in Clocks : v[i] >= 0
    <3>1. v \in Values /\ v[0] = 0 /\ \A i \in Clocks : v[i] >= 0
      BY SampleFacts
    <3> QED
      BY <3>1, ClockFacts
  <2>2. \A i, j \in Clocks : d[<<i, j>>] \in Int
    BY GoodFacts
  <2> QED
    BY <2>1, <2>2 DEF Values
<1>2. Sat(v, 0, x, d[<<0, x>>])
  OBVIOUS
<1>3. y # x
  <2> SUFFICES ASSUME y = x PROVE Sat(v, y, x, d[<<y, x>>])
    OBVIOUS
  <2>1. d[<<y, x>>] = LE_ZERO /\ v[y] - v[x] = 0
    BY <1>1, GoodFacts
  <2>2. Value(LE_ZERO) = 0 /\ Comparator(LE_ZERO) = 1 /\ 0 * Unit = 0
    BY EntryFacts, UnitFacts DEF Value, Comparator
  <2> QED
    BY <2>1, <2>2, SatIsWithin DEF Within, LT
<1>4. y # 0
  BY <1>2
<1> DEFINE b == Value(d[<<y, x>>])
           a == Value(d[<<0, x>>])
           c == Value(d[<<0, y>>])
<1>5. a \in Int /\ b \in Int /\ c \in Int /\ l[y] \in Int
  BY <1>1, Parts
<1>6. b > l[y] \/ -c > l[y]
  BY <1>3, <1>4
<1>7. 0 - v[x] <= a * Unit
  <2>1. Within(v[0] - v[x], d[<<0, x>>])
    BY <1>2, SatIsWithin
  <2>2. a * Unit \in Int
    BY <1>5, UnitFacts, ProductFacts
  <2> HIDE DEF a
  <2> QED
    BY <1>1, <2>1, <2>2 DEF Within, a
<1>8. a <= c + b
  <2>1. /\ <<0, y>> \in Finite(d) /\ <<y, x>> \in Finite(d)
    <3>1. d[<<0, y>>] <= LE_ZERO
      BY DEF IsPositive
    <3>2. d[<<0, y>>] # LT_INFINITY
      BY <1>1, <3>1, EntryFacts
    <3> QED
      BY <1>1, <3>2 DEF Finite
  <2>2. d[<<0, x>>] <= Plus(d[<<0, y>>], d[<<y, x>>])
    BY <1>1, <2>1, ScaledTight DEF IsTightOn
  <2> QED
    BY <1>1, <2>2, BoundOfPath
<1> HIDE DEF a, b, c
<1>9. CASE b > l[y]
  <2>1. l[y] + 0 < b
    BY <1>5, <1>9
  <2>2. l[y] * Unit \in Int /\ b * Unit \in Int /\ l[y] * Unit + 0 * Unit < b * Unit
    BY <1>5, <2>1, ProductPlus
  <2>3. 0 * Unit = 0
    BY UnitFacts
  <2> QED
    BY <1>1, <2>2, <2>3 DEF b
<1>10. CASE -c > l[y]
  <2>1. l[y] + a < b
    BY <1>5, <1>8, <1>10
  <2>2. /\ l[y] * Unit \in Int /\ a * Unit \in Int /\ b * Unit \in Int
        /\ l[y] * Unit + a * Unit < b * Unit
    BY <1>5, <2>1, ProductPlus
  <2> QED
    BY <1>1, <1>7, <2>2 DEF b
<1> QED
  BY <1>6, <1>9, <1>10

\* What extra_lu adds is simulated by what was there.
LEMMA ExtraLUSimulable ==
  ASSUME NEW d, Good(d), IsPositive(d), NEW l \in [Clocks -> Int], NEW ub \in [Clocks -> Int],
         NEW u, u = ExtraLU(d, l, ub), u # Thrown, NEW v \in Sample, InZone(v, u)
  PROVE  IsSimulable(v, d, l, ub)
<1> DEFINE e == [p \in Clocks \X Clocks |->
                   LET x == p[1]
                       y == p[2]
                       c == Value(d[p])
                   IN IF x = y \/ d[p] = LT_INFINITY \/ (x = 0 /\ d[p] = LE_ZERO) THEN d[p]
                      ELSE IF x # 0 /\ c > l[x] THEN LT_INFINITY
                      ELSE IF -c > ub[y] THEN Relaxed(x, ub[y])
                      ELSE d[p]]
<1>1. u = TightenIfModified(d, e)
  BY DEF ExtraLU
<1>2. ASSUME NEW i \in Clocks, NEW j \in Clocks
      PROVE  /\ i = j => e[<<i, j>>] = d[<<i, j>>]
             /\ \/ e[<<i, j>>] = d[<<i, j>>]
                \/ /\ i # 0 /\ Value(d[<<i, j>>]) > l[i]
                   /\ e[<<i, j>>] = LT_INFINITY
                \/ e[<<i, j>>] = Relaxed(i, ub[j])
  OBVIOUS
<1>3. e = [p \in Clocks \X Clocks |-> e[p]]
  OBVIOUS
<1> HIDE DEF e
<1>4. e \in EntryMatrices
  <2>1. \A i, j \in Clocks : e[<<i, j>>] \in Entries
    <3> SUFFICES ASSUME NEW i \in Clocks, NEW j \in Clocks PROVE e[<<i, j>>] \in Entries
      OBVIOUS
    <3>1. Relaxed(i, ub[j]) \in Entries
      BY RelaxedFacts
    <3>2. d[<<i, j>>] \in Entries /\ LT_INFINITY \in Entries
      BY GoodFacts, BoundFacts DEF Entries
    <3> QED
      BY <1>2, <3>1, <3>2
  <2>2. \A p \in Clocks \X Clocks : e[p] \in Entries
    BY <2>1
  <2> QED
    BY <1>3, <2>2 DEF EntryMatrices
<1>5. IsConsistent(e)
  BY <1>2, GoodFacts DEF IsConsistent
<1>6. /\ v \in Values /\ 0 \in Clocks
      /\ \A i \in Clocks : v[i] >= 0
      /\ \A i, j \in Clocks : d[<<i, j>>] \in Int /\ d[<<i, j>>] # OutOfBounds
  BY SampleFacts, ClockFacts, GoodFacts
<1>7. \A i, j \in Clocks : e[<<i, j>>] # OutOfBounds /\ Fits(v, i, j, e[<<i, j>>])
  BY <1>1, <1>4, <1>5, <1>6, ExtrapolatedFits
<1>8. ASSUME NEW x \in Clocks, NEW y \in Clocks, v[x] <= ub[x] * Unit,
             d[<<y, x>>] # LT_INFINITY, y = 0 \/ ~ (Value(d[<<y, x>>]) > l[y])
      PROVE  Sat(v, y, x, d[<<y, x>>])
  <2>1. CASE e[<<y, x>>] = d[<<y, x>>]
    BY <1>6, <1>7, <1>8, <2>1 DEF Fits
  <2>2. CASE e[<<y, x>>] = Relaxed(y, ub[x])
    <3>1. ub[x] \in Int /\ Relaxed(y, ub[x]) # OutOfBounds /\ Fits(v, y, x, Relaxed(y, ub[x]))
      BY <1>7, <2>2
    <3>2. FALSE
      BY <1>6, <1>8, <3>1, RelaxedTells
    <3> QED
      BY <3>2
  <2> QED
    BY <1>2, <1>8, <2>1, <2>2
<1>9. ASSUME NEW x \in Clocks, v[x] <= ub[x] * Unit
      PROVE  Sat(v, 0, x, d[<<0, x>>])
  <2>1. d[<<0, x>>] <= LE_ZERO
    BY DEF IsPositive
  <2>2. d[<<0, x>>] # LT_INFINITY
    BY <1>6, <2>1, EntryFacts
  <2> QED
    BY <1>6, <1>8, <1>9, <2>2
<1> QED
  BY <1>8, <1>9, SimulableBounds

\* What extra_lu_plus adds is simulated, too.
LEMMA ExtraLUPlusSimulable ==
  ASSUME NEW d, Good(d), IsPositive(d), NEW l \in [Clocks -> Int], NEW ub \in [Clocks -> Int],
         NEW u, u = ExtraLUPlus(d, l, ub), u # Thrown, NEW v \in Sample, InZone(v, u),
         ub[0] = 0
  PROVE  IsSimulable(v, d, l, ub)
<1> DEFINE e == [p \in Clocks \X Clocks |->
                   LET x == p[1]
                       y == p[2]
                   IN IF x = y \/ d[p] = LT_INFINITY THEN d[p]
                      ELSE IF x = 0
                        THEN IF -Value(d[<<0, y>>]) > ub[y] THEN Relaxed(0, ub[y]) ELSE d[p]
                      ELSE IF \/ -Value(d[<<0, x>>]) > l[x]
                              \/ Value(d[p]) > l[x]
                              \/ -Value(d[<<0, y>>]) > ub[y]
                        THEN LT_INFINITY
                      ELSE d[p]]
<1>1. u = TightenIfModified(d, e)
  BY DEF ExtraLUPlus
<1>2. ASSUME NEW i \in Clocks, NEW j \in Clocks
      PROVE  /\ i = j => e[<<i, j>>] = d[<<i, j>>]
             /\ i = 0 => \/ e[<<i, j>>] = d[<<i, j>>] /\ ~ (-Value(d[<<0, j>>]) > ub[j])
                         \/ e[<<i, j>>] = Relaxed(0, ub[j])
                         \/ j = 0 \/ d[<<i, j>>] = LT_INFINITY
             /\ i # 0 => \/ e[<<i, j>>] = d[<<i, j>>]
                         \/ /\ e[<<i, j>>] = LT_INFINITY
                            /\ \/ -Value(d[<<0, i>>]) > l[i]
                               \/ Value(d[<<i, j>>]) > l[i]
                               \/ -Value(d[<<0, j>>]) > ub[j]
             /\ e[<<i, j>>] \in {d[<<i, j>>], LT_INFINITY, Relaxed(0, ub[j])}
  OBVIOUS
<1>3. e = [p \in Clocks \X Clocks |-> e[p]]
  OBVIOUS
<1> HIDE DEF e
<1>4. e \in EntryMatrices
  <2>1. \A i, j \in Clocks : e[<<i, j>>] \in Entries
    <3> SUFFICES ASSUME NEW i \in Clocks, NEW j \in Clocks PROVE e[<<i, j>>] \in Entries
      OBVIOUS
    <3>1. Relaxed(0, ub[j]) \in Entries
      BY RelaxedFacts, ClockFacts
    <3>2. d[<<i, j>>] \in Entries /\ LT_INFINITY \in Entries
      BY GoodFacts, BoundFacts DEF Entries
    <3> QED
      BY <1>2, <3>1, <3>2
  <2>2. \A p \in Clocks \X Clocks : e[p] \in Entries
    BY <2>1
  <2> QED
    BY <1>3, <2>2 DEF EntryMatrices
<1>5. IsConsistent(e)
  BY <1>2, GoodFacts DEF IsConsistent
<1>6. /\ v \in Values /\ 0 \in Clocks
      /\ \A i \in Clocks : v[i] >= 0
      /\ \A i, j \in Clocks : d[<<i, j>>] \in Int /\ d[<<i, j>>] # OutOfBounds
      /\ d[<<0, 0>>] = LE_ZERO
  BY SampleFacts, ClockFacts, GoodFacts
<1>7. \A i, j \in Clocks : e[<<i, j>>] # OutOfBounds /\ Fits(v, i, j, e[<<i, j>>])
  BY <1>1, <1>4, <1>5, <1>6, ExtrapolatedFits
<1>8. ASSUME NEW x \in Clocks, v[x] <= ub[x] * Unit
      PROVE  Sat(v, 0, x, d[<<0, x>>]) /\ (x = 0 \/ ~ (-Value(d[<<0, x>>]) > ub[x]))
  <2>1. d[<<0, x>>] # LT_INFINITY
    <3>1. d[<<0, x>>] <= LE_ZERO
      BY DEF IsPositive
    <3> QED
      BY <1>6, <3>1, EntryFacts
  <2>2. e[<<0, x>>] = d[<<0, x>>] => Sat(v, 0, x, d[<<0, x>>])
    BY <1>6, <1>7, <2>1 DEF Fits
  <2>3. e[<<0, x>>] # Relaxed(0, ub[x])
    <3> SUFFICES ASSUME e[<<0, x>>] = Relaxed(0, ub[x]) PROVE FALSE
      OBVIOUS
    <3>1. /\ ub[x] \in Int /\ Relaxed(0, ub[x]) # OutOfBounds
          /\ Fits(v, 0, x, Relaxed(0, ub[x]))
      BY <1>6, <1>7
    <3> QED
      BY <1>6, <1>8, <3>1, RelaxedTells
  <2> QED
    BY <1>2, <1>6, <2>1, <2>2, <2>3
<1>9. ASSUME NEW x \in Clocks, v[x] <= ub[x] * Unit, NEW y \in Clocks \ {0}, y # x,
             d[<<y, x>>] # LT_INFINITY
      PROVE  \/ Sat(v, y, x, d[<<y, x>>])
             \/ Value(d[<<y, x>>]) > l[y]
             \/ -Value(d[<<0, y>>]) > l[y]
  <2>1. CASE e[<<y, x>>] = d[<<y, x>>]
    BY <1>6, <1>7, <1>9, <2>1 DEF Fits
  <2>2. CASE x # 0 /\ e[<<y, x>>] # d[<<y, x>>]
    BY <1>2, <1>8, <1>9, <2>2
  <2>3. CASE x = 0 /\ e[<<y, x>>] # d[<<y, x>>]
    <3>1. -Value(d[<<0, 0>>]) = 0 /\ ub[0] = 0
      BY <1>6, EntryFacts, NotPositive
    <3> QED
      BY <1>2, <1>9, <2>3, <3>1
  <2> QED
    BY <2>1, <2>2, <2>3
<1> QED
  BY <1>8, <1>9, SimulableBounds

\* A valuation that may be simulated is in aLU of the zone.
LEMMA SimulableIsSimulated ==
  ASSUME NEW d, Good(d), IsPositive(d), IsSampled(d), NEW v \in Sample,
         NEW b \in ClockBounds, IsSimulable(v, d, b.l, b.u)
  PROVE  v \in Simulated(d, b.l, b.u)
<1>1. b.l \in [Clocks -> Int] /\ b.u \in [Clocks -> Int] /\ b.l[0] = 0 /\ b.u[0] = 0
  BY ClockBoundsAssumption
<1>2. PICK w \in Valuations : InZone(w, d) /\ Simulates(w, v, b.l, b.u)
  BY <1>1, Simulator
<1> QED
  BY <1>2 DEF Simulated

\* The extrapolations are sound for every number of clocks, width of the bounds and size of
\* the sample, when the clocks have no negative bounds: they lose no valuation, and a
\* valuation that they add is simulated by one that was there.
THEOREM ExtrapolationCorrect ==
  ASSUME PositiveBounds
  PROVE  Spec => []ExtrapolationSound
<1>1. ASSUME ZInv, Unstored, NEW b \in ClockBounds,
             NEW m \in {ExtraLU(dbm, b.l, b.u), ExtraLUPlus(dbm, b.l, b.u)}, m # Thrown,
             NEW v \in Sample
      PROVE  /\ InZone(v, dbm) => InZone(v, m)
             /\ InZone(v, m) => v \in Simulated(dbm, b.l, b.u)
  <2>1. Good(dbm) /\ IsPositive(dbm) /\ IsSampled(dbm)
    BY <1>1, SampledFacts DEF ZInv, Computed, Unstored
  <2>2. b.l \in [Clocks -> Int] /\ b.u \in [Clocks -> Int] /\ b.u[0] = 0
    BY ClockBoundsAssumption
  <2>3. CASE m = ExtraLU(dbm, b.l, b.u)
    <3>1. InZone(v, dbm) => InZone(v, m)
      BY <1>1, <2>1, <2>2, <2>3, ExtraLUKeeps, SampleFacts
    <3>2. InZone(v, m) => IsSimulable(v, dbm, b.l, b.u)
      BY <1>1, <2>1, <2>2, <2>3, ExtraLUSimulable
    <3> QED
      BY <2>1, <3>1, <3>2, SimulableIsSimulated
  <2>4. CASE m = ExtraLUPlus(dbm, b.l, b.u)
    <3>1. InZone(v, dbm) => InZone(v, m)
      BY <1>1, <2>1, <2>2, <2>4, ExtraLUPlusKeeps, SampleFacts
    <3>2. InZone(v, m) => IsSimulable(v, dbm, b.l, b.u)
      BY <1>1, <2>1, <2>2, <2>4, ExtraLUPlusSimulable
    <3> QED
      BY <2>1, <3>1, <3>2, SimulableIsSimulated
  <2> QED
    BY <1>1, <2>3, <2>4
<1>2. ZInv => ExtrapolationSound
  BY <1>1 DEF ExtrapolationSound
<1> QED
  BY <1>2, ZInvInit, ZInvNext, PTL DEF Spec

\* The clock bounds that bounds can be made from, or that stand for none.
IsClockBounds(l, u) ==
  /\ l \in [Clocks -> Int] /\ u \in [Clocks -> Int] /\ l[0] = 0 /\ u[0] = 0
  /\ \A x \in Clocks : /\ l[x] \in 0 .. -MIN_VALUE \/ l[x] = NoBound
                       /\ u[x] \in 0 .. -MIN_VALUE \/ u[x] = NoBound

\* Clock bounds, as bounds of 0 - x.
LEMMA ClockBound ==
  ASSUME NEW k \in Int, k \in 0 .. -MIN_VALUE \/ k = NoBound
  PROVE  /\ 0 # NoBound
         /\ k # NoBound => /\ MakeBound(LE, -k) = 2 * (-k) + 1 /\ Proper(MakeBound(LE, -k))
                           /\ MakeBound(LT, -k) = 2 * (-k) + 0 /\ Proper(MakeBound(LT, -k))
                           /\ k \in Nat
         /\ k = NoBound => k < 0 /\ k * Unit < 0 /\ k * Unit \in Int
<1>1. NoBound < 0 /\ NoBound \in Int /\ MIN_VALUE \in Int
  BY BoundFacts DEF NoBound
<1>2. ASSUME k # NoBound
      PROVE  /\ MakeBound(LE, -k) = 2 * (-k) + 1 /\ Proper(MakeBound(LE, -k))
             /\ MakeBound(LT, -k) = 2 * (-k) + 0 /\ Proper(MakeBound(LT, -k)) /\ k \in Nat
  <2>1. -k \in MIN_VALUE .. MAX_VALUE /\ k \in Nat
    BY <1>1, <1>2, BoundFacts
  <2>2. MakeBound(LE, -k) = 2 * (-k) + 1 /\ MakeBound(LT, -k) = 2 * (-k) + 0
    BY <2>1 DEF MakeBound, LT, LE
  <2>3. 2 * (-k) + 1 # OutOfBounds /\ 2 * (-k) + 0 # OutOfBounds
    BY <2>1, BoundFacts
  <2>4. -k \in Int /\ LE \in {LT, LE} /\ LT \in {LT, LE}
    OBVIOUS
  <2> QED
    BY <2>1, <2>2, <2>3, <2>4, MakeFacts
<1>3. ASSUME k = NoBound PROVE k < 0 /\ k * Unit < 0 /\ k * Unit \in Int
  <2>1. k * Unit < 0 * Unit /\ k * Unit \in Int
    BY <1>1, <1>3, UnitFacts, ProductFacts
  <2>2. 0 * Unit = 0
    BY UnitFacts
  <2> QED
    BY <1>1, <1>3, <2>1, <2>2
<1> QED
  BY <1>1, <1>2, <1>3

\* A strict bound of 0 - x, with a value k.
LEMMA SatStrict ==
  ASSUME NEW v \in Values, v[0] = 0, NEW x \in Clocks, NEW k \in Int, Sat(v, 0, x, 2 * k + 0)
  PROVE  0 - v[x] < k * Unit
<1>1. Value(2 * k + 0) = k /\ Comparator(2 * k + 0) = 0
  BY PartsOf
<1>2. Within(v[0] - v[x], 2 * k + 0)
  BY SatIsWithin
<1> QED
  BY <1>1, <1>2 DEF Within, LT

\* A valuation has no value below the bounds of its zone.
LEMMA SatBelow ==
  ASSUME NEW v \in Values, NEW x \in Clocks, NEW y \in Clocks, NEW b \in Int, Sat(v, x, y, b)
  PROVE  v[x] - v[y] <= Value(b) * Unit /\ Value(b) * Unit \in Int
<1>1. Within(v[x] - v[y], b)
  BY SatIsWithin
<1>2. Value(b) \in Int /\ Value(b) * Unit \in Int
  BY Parts, UnitFacts, ProductFacts
<1>3. v[x] - v[y] \in Int
  BY DEF Values
<1> QED
  BY <1>1, <1>2, <1>3 DEF Within

\* What is_alu_le accepts may be simulated.
LEMMA AluIsSimulable ==
  ASSUME NEW d, Good(d), NEW m, Good(m), IsPositive(d), IsPositive(m),
         NEW l, NEW u, IsClockBounds(l, u), IsAluLe(d, m, l, u), NEW v \in Sample, InZone(v, d)
  PROVE  IsSimulable(v, m, l, u)
<1>1. v \in Values /\ v[0] = 0 /\ 0 \in Clocks /\ \A i \in Clocks : v[i] \in Int /\ v[i] >= 0
  <2>1. v \in Values /\ v[0] = 0 /\ \A i \in Clocks : v[i] >= 0
    BY SampleFacts
  <2> QED
    BY <2>1, ClockFacts DEF Values
<1>2. \A i, j \in Clocks : /\ d[<<i, j>>] \in Entries /\ d[<<i, j>>] \in Int
                           /\ m[<<i, j>>] \in Entries /\ m[<<i, j>>] \in Int
                           /\ d[<<i, j>>] # OutOfBounds /\ m[<<i, j>>] # OutOfBounds
  BY GoodFacts
<1>3. \A i, j \in Clocks : d[<<i, j>>] # LT_INFINITY => Sat(v, i, j, d[<<i, j>>])
  BY <1>1, <1>2, ZoneAdmits DEF Admits, Fits
<1>4. \A i \in Clocks : d[<<0, i>>] # LT_INFINITY /\ m[<<0, i>>] # LT_INFINITY
  <2> SUFFICES ASSUME NEW i \in Clocks PROVE d[<<0, i>>] # LT_INFINITY /\ m[<<0, i>>] # LT_INFINITY
    OBVIOUS
  <2>1. d[<<0, i>>] <= LE_ZERO /\ m[<<0, i>>] <= LE_ZERO
    BY DEF IsPositive
  <2> QED
    BY <1>1, <1>2, <2>1, EntryFacts
<1>5. \A i \in Clocks : l[i] \in Int /\ u[i] \in Int
  BY DEF IsClockBounds
<1>6. ASSUME NEW x \in Clocks, NEW y \in Clocks, v[x] <= u[x] * Unit, l[y] # NoBound,
             m[<<y, x>>] # LT_INFINITY, ~ Sat(v, y, x, m[<<y, x>>])
      PROVE  l[y] * Unit - v[x] < Value(m[<<y, x>>]) * Unit
  <2>1. x # y
    <3> SUFFICES ASSUME y = x PROVE Sat(v, y, x, m[<<y, x>>])
      BY <1>6
    <3>1. m[<<y, x>>] = LE_ZERO /\ v[y] - v[x] = 0
      BY <1>1, GoodFacts
    <3>2. Value(LE_ZERO) = 0 /\ Comparator(LE_ZERO) = 1 /\ 0 * Unit = 0
      BY EntryFacts, UnitFacts DEF Value, Comparator
    <3> QED
      BY <3>1, <3>2, SatIsWithin DEF Within, LT
  <2>2. u[x] # NoBound /\ MakeBound(LE, -u[x]) = 2 * (-u[x]) + 1
    <3>1. ~ (u[x] * Unit < 0)
      BY <1>1, <1>5, <1>6, UnitFacts, ProductFacts
    <3> QED
      BY <1>5, <3>1, ClockBound DEF IsClockBounds
  <2>3. d[<<0, x>>] >= MakeBound(LE, -u[x])
    <3> SUFFICES ASSUME d[<<0, x>>] < 2 * (-u[x]) + 1 PROVE FALSE
      BY <1>1, <1>2, <1>5, <2>2
    <3>1. -u[x] \in Int /\ 2 * (-u[x]) + 0 \in Int /\ d[<<0, x>>] <= 2 * (-u[x]) + 0
      BY <1>1, <1>2, <1>5
    <3>2. Sat(v, 0, x, 2 * (-u[x]) + 0)
      BY <1>1, <1>2, <1>3, <1>4, <3>1, SatMonotone
    <3>3. 0 - v[x] < (-u[x]) * Unit
      BY <1>1, <3>1, <3>2, SatStrict
    <3>4. (-u[x]) * Unit = -(u[x] * Unit) /\ u[x] * Unit \in Int
      BY <1>5, UnitFacts, ProductFacts
    <3> QED
      BY <1>1, <1>6, <3>3, <3>4
  <2>4. m[<<y, x>>] < d[<<y, x>>]
    <3> SUFFICES ASSUME d[<<y, x>>] <= m[<<y, x>>] PROVE Sat(v, y, x, m[<<y, x>>])
      BY <1>2, <1>6
    <3>1. d[<<y, x>>] # LT_INFINITY
      BY <1>2, <1>6, EntryFacts
    <3> QED
      BY <1>1, <1>2, <1>3, <3>1, SatMonotone
  <2> DEFINE b == m[<<y, x>>]
             r == MakeBound(LT, -l[y])
             s == Sum(b, r)
  <2>5. r = 2 * (-l[y]) + 0 /\ Proper(r) /\ Proper(b) /\ b \in Entries /\ r \in Entries
    <3>1. r = 2 * (-l[y]) + 0 /\ Proper(r)
      BY <1>5, <1>6, ClockBound DEF IsClockBounds
    <3>2. Proper(b) /\ b \in Entries
      BY <1>2, <1>6 DEF Proper
    <3> QED
      BY <3>1, <3>2 DEF Proper
  <2>6. ~ (s < d[<<0, x>>])
    BY <1>6, <2>1, <2>2, <2>3, <2>4 DEF IsAluLe
  <2>7. s \in Entries /\ (s = OutOfBounds \/ s = Plus(b, r))
    BY <2>5, SumFacts
  <2>8. s # OutOfBounds /\ d[<<0, x>>] <= s
    <3>1. OutOfBounds < d[<<0, x>>]
      BY <1>1, <1>2, <1>4, EntryFacts
    <3>2. s \in Int /\ d[<<0, x>>] \in Int
      BY <1>1, <1>2, <2>7, EntryFacts
    <3> QED
      BY <2>6, <3>1, <3>2
  <2>9. s = 2 * (Value(b) - l[y]) + 0 /\ Value(b) - l[y] \in Int /\ Value(b) \in Int
    <3>1. Value(r) = -l[y] /\ Comparator(r) = 0 /\ -l[y] \in Int
      <4>1. -l[y] \in Int
        BY <1>5
      <4> QED
        BY <2>5, <4>1, PartsOf
    <3>2. Value(b) \in Int /\ Comparator(b) \in {0, 1}
      BY <1>2, Parts
    <3>3. s = 2 * (Value(b) + Value(r)) + Comparator(b) * Comparator(r)
      BY <2>7, <2>8 DEF Plus
    <3> HIDE DEF b, r, s
    <3> QED
      BY <1>5, <3>1, <3>2, <3>3
  <2>10. Sat(v, 0, x, 2 * (Value(b) - l[y]) + 0)
    <3>1. s \in Int
      BY <2>7, EntryFacts
    <3> QED
      BY <1>1, <1>2, <1>3, <1>4, <2>8, <2>9, <3>1, SatMonotone
  <2> HIDE DEF b, r, s
  <2>11. 0 - v[x] < (Value(b) - l[y]) * Unit
    BY <1>1, <2>9, <2>10, SatStrict
  <2>12. /\ (Value(b) - l[y]) * Unit = Value(b) * Unit - l[y] * Unit
         /\ Value(b) * Unit \in Int /\ l[y] * Unit \in Int
    <3>1. l[y] \in Int /\ Value(b) \in Int /\ Unit \in Nat \ {0}
      BY <1>5, <2>9, UnitFacts
    <3> QED
      BY <3>1, ProductFacts
  <2> QED
    BY <1>1, <2>11, <2>12 DEF b
<1>7. ASSUME NEW x \in Clocks, NEW y \in Clocks, v[x] <= u[x] * Unit, l[y] = NoBound,
             m[<<y, x>>] # LT_INFINITY
      PROVE  l[y] * Unit - v[x] < Value(m[<<y, x>>]) * Unit
  <2> DEFINE a == Value(m[<<0, x>>])
             b == Value(m[<<y, x>>])
             c == Value(m[<<0, y>>])
  <2>1. a \in Int /\ b \in Int /\ c \in Int
    BY <1>1, <1>2, Parts
  <2>2. 0 - v[x] <= a * Unit
    <3>1. CASE Sat(v, 0, x, m[<<0, x>>])
      BY <1>1, <1>2, <3>1, SatBelow
    <3>2. CASE ~ Sat(v, 0, x, m[<<0, x>>])
      <4>1. l[0] = 0 /\ 0 # NoBound /\ 0 * Unit = 0
        BY ClockBound, UnitFacts DEF IsClockBounds
      <4>2. l[0] * Unit - v[x] < a * Unit
        BY <1>1, <1>4, <1>6, <1>7, <3>2, <4>1
      <4>3. a * Unit \in Int
        BY <2>1, UnitFacts, ProductFacts
      <4> HIDE DEF a
      <4> QED
        BY <1>1, <4>1, <4>2, <4>3
    <3> QED
      BY <3>1, <3>2
  <2>3. a <= c + b /\ c <= 0
    <3>1. <<0, y>> \in Finite(m) /\ <<y, x>> \in Finite(m)
      BY <1>1, <1>4, <1>7 DEF Finite
    <3>2. m[<<0, x>>] <= Plus(m[<<0, y>>], m[<<y, x>>])
      BY <1>1, <3>1, ScaledTight DEF IsTightOn
    <3>3. a <= c + b
      BY <1>1, <1>2, <3>2, BoundOfPath
    <3>4. m[<<0, y>>] <= LE_ZERO /\ m[<<0, y>>] \in Int
      BY <1>1, <1>2 DEF IsPositive
    <3>5. c <= 0
      BY <3>4, NotPositive
    <3> QED
      BY <3>3, <3>5
  <2> HIDE DEF a, b, c
  <2>4. a * Unit <= b * Unit /\ a * Unit \in Int /\ b * Unit \in Int
    <3>1. a <= b
      BY <2>1, <2>3
    <3> QED
      BY <2>1, <3>1, UnitFacts, ProductOrder
  <2>5. l[y] * Unit < 0 /\ l[y] * Unit \in Int
    BY <1>5, <1>7, ClockBound
  <2> QED
    BY <1>1, <2>2, <2>4, <2>5 DEF b
<1> QED
  BY <1>6, <1>7 DEF IsSimulable

-----------------------------------------------------------------------------
(* Valuations that tell zones apart. *)

\* The bound of i - j on the path through x and y, when e is a bound of x - y.
HasDetour(i, j, d, x, y) == <<i, x>> \in Finite(d) /\ <<y, j>> \in Finite(d)
Detour(i, j, d, x, y, e) == Plus(Plus(d[<<i, x>>], e), d[<<y, j>>])

\* The pairs of clocks that have a bound then, and their bounds.
Restricted(d, x, y) ==
  {q \in Clocks \X Clocks : q \in Finite(d) \/ HasDetour(q[1], q[2], d, x, y)}
RestrictedBounds(d, x, y, e) ==
  [q \in Clocks \X Clocks |->
    IF ~ HasDetour(q[1], q[2], d, x, y) THEN d[q]
    ELSE IF q \notin Finite(d) THEN Detour(q[1], q[2], d, x, y, e)
    ELSE Min(d[q], Detour(q[1], q[2], d, x, y, e))]

\* e makes no negative cycle.
IsClosing(d, x, y, e) == <<y, x>> \in Finite(d) => LE_ZERO <= Plus(d[<<y, x>>], e)

\* A restricted bound is one of the zone or that of a detour, the least.
LEMMA RestrictedFacts ==
  ASSUME NEW d, Good(d), NEW x \in Clocks, NEW y \in Clocks, NEW e \in Int,
         NEW i \in Clocks, NEW j \in Clocks, NEW b, b = RestrictedBounds(d, x, y, e)[<<i, j>>]
  PROVE  /\ b \in Int /\ d[<<i, j>>] \in Int /\ Detour(i, j, d, x, y, e) \in Int
         /\ <<i, j>> \in Finite(d) => <<i, j>> \in Restricted(d, x, y) /\ b <= d[<<i, j>>]
         /\ HasDetour(i, j, d, x, y) =>
              <<i, j>> \in Restricted(d, x, y) /\ b <= Detour(i, j, d, x, y, e)
         /\ <<i, j>> \in Restricted(d, x, y) =>
              \/ <<i, j>> \in Finite(d) /\ b = d[<<i, j>>]
              \/ HasDetour(i, j, d, x, y) /\ b = Detour(i, j, d, x, y, e)
<1> DEFINE a == d[<<i, j>>]
           t == Detour(i, j, d, x, y, e)
<1>1. a \in Int /\ d[<<i, x>>] \in Int /\ d[<<y, j>>] \in Int
  BY GoodFacts
<1>2. t \in Int
  BY <1>1, PlusParts DEF Detour
<1>3. b = IF ~ HasDetour(i, j, d, x, y) THEN a
          ELSE IF <<i, j>> \notin Finite(d) THEN t ELSE Min(a, t)
  BY DEF RestrictedBounds
<1>4. <<i, j>> \in Restricted(d, x, y) <=> <<i, j>> \in Finite(d) \/ HasDetour(i, j, d, x, y)
  BY DEF Restricted
<1> HIDE DEF a, t
<1>5. Min(a, t) \in {a, t} /\ Min(a, t) <= a /\ Min(a, t) <= t
  BY <1>1, <1>2, MinFacts DEF a
<1>6. b \in Int
  BY <1>1, <1>2, <1>3, <1>5 DEF a
<1>7. <<i, j>> \in Finite(d) => b <= a
  BY <1>1, <1>3, <1>5 DEF a
<1>8. HasDetour(i, j, d, x, y) => b <= t
  BY <1>2, <1>3, <1>5
<1>9. /\ <<i, j>> \in Restricted(d, x, y) =>
              \/ <<i, j>> \in Finite(d) /\ b = a
              \/ HasDetour(i, j, d, x, y) /\ b = t
  BY <1>3, <1>4, <1>5
<1> QED
  BY <1>1, <1>2, <1>4, <1>6, <1>7, <1>8, <1>9 DEF a, t

\* Paths through bounds that are tight.
LEMMA PathFacts ==
  ASSUME NEW a \in Int, NEW b \in Int, NEW c \in Int, NEW e \in Int, NEW f \in Int
  PROVE  /\ a <= Plus(b, c) => Plus(Plus(a, e), f) <= Plus(b, Plus(Plus(c, e), f))
         /\ a <= Plus(b, c) => Plus(Plus(f, e), a) <= Plus(Plus(Plus(f, e), b), c)
<1>1. /\ Plus(b, c) \in Int /\ Plus(a, e) \in Int /\ Plus(c, e) \in Int /\ Plus(f, e) \in Int
      /\ Plus(Plus(b, c), e) \in Int /\ Plus(Plus(f, e), b) \in Int
  BY PlusParts
<1>2. e <= e /\ f <= f /\ Plus(f, e) <= Plus(f, e)
  BY <1>1
<1>3. ASSUME a <= Plus(b, c) PROVE Plus(Plus(a, e), f) <= Plus(b, Plus(Plus(c, e), f))
  <2>1. Plus(a, e) <= Plus(Plus(b, c), e)
    BY <1>1, <1>2, <1>3, PlusMonotone
  <2>2. Plus(Plus(a, e), f) <= Plus(Plus(Plus(b, c), e), f)
    BY <1>1, <1>2, <2>1, PlusMonotone
  <2>3. Plus(Plus(b, c), e) = Plus(b, Plus(c, e))
    BY PlusAssociates
  <2>4. Plus(Plus(b, Plus(c, e)), f) = Plus(b, Plus(Plus(c, e), f))
    BY <1>1, PlusAssociates
  <2> QED
    BY <2>2, <2>3, <2>4
<1>4. ASSUME a <= Plus(b, c) PROVE Plus(Plus(f, e), a) <= Plus(Plus(Plus(f, e), b), c)
  <2>1. Plus(Plus(f, e), a) <= Plus(Plus(f, e), Plus(b, c))
    BY <1>1, <1>2, <1>4, PlusMonotone
  <2>2. Plus(Plus(f, e), Plus(b, c)) = Plus(Plus(Plus(f, e), b), c)
    BY <1>1, PlusAssociates
  <2> QED
    BY <2>1, <2>2
<1> QED
  BY <1>3, <1>4

\* A cycle that is not negative may be left out.
LEMMA CycleFacts ==
  ASSUME NEW a \in Int, NEW b \in Int, NEW c \in Int, NEW e \in Int, NEW f \in Int, NEW g \in Int,
         g <= Plus(b, c), LE_ZERO <= Plus(g, e)
  PROVE  Plus(Plus(a, e), f) <= Plus(Plus(Plus(a, e), b), Plus(Plus(c, e), f))
<1> DEFINE p == Plus(a, e)
           k == Plus(b, Plus(c, e))
<1>1. /\ p \in Int /\ Plus(b, c) \in Int /\ Plus(c, e) \in Int /\ k \in Int /\ Plus(g, e) \in Int
      /\ Plus(Plus(b, c), e) \in Int /\ LE_ZERO \in Int
  BY PlusParts, EntryFacts
<1>2. e <= e /\ f <= f /\ p <= p
  BY <1>1
<1>3. LE_ZERO <= k
  <2>1. Plus(g, e) <= Plus(Plus(b, c), e)
    BY <1>1, <1>2, PlusMonotone
  <2>2. Plus(Plus(b, c), e) = k
    BY PlusAssociates
  <2> QED
    BY <1>1, <2>1, <2>2
<1> HIDE DEF p, k
<1>4. Plus(p, LE_ZERO) <= Plus(p, k)
  BY <1>1, <1>2, <1>3, PlusMonotone
<1>5. Plus(p, LE_ZERO) = p /\ Plus(p, k) \in Int
  BY <1>1, PlusParts
<1>6. Plus(p, f) <= Plus(Plus(p, k), f)
  BY <1>1, <1>2, <1>4, <1>5, PlusMonotone
<1>7. Plus(p, k) = Plus(Plus(p, b), Plus(c, e))
  BY <1>1, PlusAssociates DEF k
<1>8. Plus(Plus(Plus(p, b), Plus(c, e)), f) = Plus(Plus(p, b), Plus(Plus(c, e), f))
  <2>1. Plus(p, b) \in Int
    BY <1>1, PlusParts
  <2> QED
    BY <1>1, <2>1, PlusAssociates
<1> QED
  BY <1>6, <1>7, <1>8 DEF p

\* The restricted bounds are those of the paths.
LEMMA RestrictedTight ==
  ASSUME NEW d, Good(d), NEW x \in Clocks, NEW y \in Clocks, NEW e \in Int,
         IsClosing(d, x, y, e)
  PROVE  IsTightOn(Restricted(d, x, y), RestrictedBounds(d, x, y, e))
<1> DEFINE D == Finite(d)
           F == Restricted(d, x, y)
           M == RestrictedBounds(d, x, y, e)
           T(i, j) == Detour(i, j, d, x, y, e)
           Has(i, j) == HasDetour(i, j, d, x, y)
<1>1. IsTightOn(D, d)
  BY ScaledTight
<1>2. ASSUME NEW i \in Clocks, NEW j \in Clocks
      PROVE  /\ M[<<i, j>>] \in Int /\ d[<<i, j>>] \in Int /\ T(i, j) \in Int
             /\ <<i, j>> \in D => <<i, j>> \in F /\ M[<<i, j>>] <= d[<<i, j>>]
             /\ Has(i, j) => <<i, j>> \in F /\ M[<<i, j>>] <= T(i, j)
             /\ <<i, j>> \in F => \/ <<i, j>> \in D /\ M[<<i, j>>] = d[<<i, j>>]
                                  \/ Has(i, j) /\ M[<<i, j>>] = T(i, j)
  <2> DEFINE b == RestrictedBounds(d, x, y, e)[<<i, j>>]
             t == Detour(i, j, d, x, y, e)
  <2>1. /\ b \in Int /\ d[<<i, j>>] \in Int /\ t \in Int
        /\ <<i, j>> \in Finite(d) => <<i, j>> \in Restricted(d, x, y) /\ b <= d[<<i, j>>]
        /\ HasDetour(i, j, d, x, y) => <<i, j>> \in Restricted(d, x, y) /\ b <= t
        /\ <<i, j>> \in Restricted(d, x, y) =>
             \/ <<i, j>> \in Finite(d) /\ b = d[<<i, j>>]
             \/ HasDetour(i, j, d, x, y) /\ b = t
    BY RestrictedFacts
  <2> QED
    BY <2>1
<1>3. M \in [Clocks \X Clocks -> Int]
  <2>1. M = [q \in Clocks \X Clocks |-> M[q]]
    BY DEF RestrictedBounds
  <2>2. \A q \in Clocks \X Clocks : M[q] \in Int
    BY <1>2
  <2> HIDE DEF M
  <2> QED
    BY <2>1, <2>2
<1>4. \A i, j \in Clocks : /\ Has(i, j) <=> <<i, x>> \in D /\ <<y, j>> \in D
                           /\ T(i, j) = Plus(Plus(d[<<i, x>>], e), d[<<y, j>>])
                           /\ d[<<i, j>>] \in Int /\ T(i, j) \in Int /\ M[<<i, j>>] \in Int
  BY <1>2 DEF HasDetour, Detour
<1>5. \A i, k, j \in Clocks : <<i, k>> \in D /\ <<k, j>> \in D =>
        <<i, j>> \in D /\ d[<<i, j>>] <= Plus(d[<<i, k>>], d[<<k, j>>])
  BY <1>1 DEF IsTightOn
<1> HIDE DEF D, F, M, T, Has
<1>6. ASSUME NEW i \in Clocks PROVE <<i, i>> \in F /\ M[<<i, i>>] = LE_ZERO
  <2>1. <<i, i>> \in D /\ d[<<i, i>>] = LE_ZERO
    BY <1>1 DEF IsTightOn
  <2>2. ASSUME Has(i, i) PROVE LE_ZERO <= T(i, i)
    <3> DEFINE a == d[<<i, x>>]
               b == d[<<y, i>>]
    <3>1. a \in Int /\ b \in Int /\ d[<<y, x>>] \in Int /\ T(i, i) = Plus(Plus(a, e), b)
      BY <1>4
    <3>2. <<y, x>> \in D /\ d[<<y, x>>] <= Plus(b, a)
      BY <1>4, <1>5, <2>2
    <3> HIDE DEF a, b
    <3>3. LE_ZERO <= Plus(d[<<y, x>>], e)
      BY <3>2 DEF IsClosing, D
    <3>4. Plus(d[<<y, x>>], e) <= Plus(Plus(b, a), e)
      <4>1. e <= e /\ Plus(b, a) \in Int
        BY <3>1, PlusParts
      <4> QED
        BY <3>1, <3>2, <4>1, PlusMonotone
    <3>5. Plus(Plus(b, a), e) = Plus(Plus(a, e), b)
      <4>1. Plus(Plus(b, a), e) = Plus(b, Plus(a, e)) /\ Plus(a, e) \in Int
        BY <3>1, PlusAssociates, PlusParts
      <4> QED
        BY <3>1, <4>1, PlusParts
    <3>6. Plus(d[<<y, x>>], e) \in Int /\ Plus(Plus(a, e), b) \in Int /\ LE_ZERO \in Int
      BY <1>4, <3>1, PlusParts, EntryFacts
    <3> QED
      BY <3>1, <3>3, <3>4, <3>5, <3>6
  <2>3. <<i, i>> \in F /\ M[<<i, i>>] <= LE_ZERO
    BY <1>2, <2>1
  <2>4. M[<<i, i>>] = LE_ZERO \/ LE_ZERO <= M[<<i, i>>]
    BY <1>2, <2>1, <2>2, <2>3
  <2> QED
    BY <1>2, <2>3, <2>4, EntryFacts
<1>7. ASSUME NEW i \in Clocks, NEW k \in Clocks, NEW j \in Clocks,
             <<i, k>> \in F, <<k, j>> \in F
      PROVE  <<i, j>> \in F /\ M[<<i, j>>] <= Plus(M[<<i, k>>], M[<<k, j>>])
  <2>1. Plus(M[<<i, k>>], M[<<k, j>>]) \in Int /\ M[<<i, j>>] \in Int
    BY <1>4, PlusParts
  <2>2. CASE /\ <<i, k>> \in D /\ M[<<i, k>>] = d[<<i, k>>]
             /\ <<k, j>> \in D /\ M[<<k, j>>] = d[<<k, j>>]
    <3>1. <<i, j>> \in D /\ d[<<i, j>>] <= Plus(d[<<i, k>>], d[<<k, j>>])
      BY <1>5, <2>2
    <3>2. <<i, j>> \in F /\ M[<<i, j>>] <= d[<<i, j>>] /\ d[<<i, j>>] \in Int
      BY <1>2, <3>1
    <3> QED
      BY <2>1, <2>2, <3>1, <3>2
  <2>3. CASE /\ <<i, k>> \in D /\ M[<<i, k>>] = d[<<i, k>>]
             /\ Has(k, j) /\ M[<<k, j>>] = T(k, j)
    <3>1. /\ <<i, x>> \in D /\ d[<<i, x>>] <= Plus(d[<<i, k>>], d[<<k, x>>])
          /\ Has(i, j)
      BY <1>4, <1>5, <2>3
    <3>2. <<i, j>> \in F /\ M[<<i, j>>] <= T(i, j) /\ T(i, j) \in Int
      BY <1>2, <3>1
    <3>3. T(i, j) <= Plus(d[<<i, k>>], T(k, j))
      <4>1. /\ d[<<i, x>>] \in Int /\ d[<<i, k>>] \in Int /\ d[<<k, x>>] \in Int
            /\ d[<<y, j>>] \in Int
        BY <1>4
      <4>2. Plus(Plus(d[<<i, x>>], e), d[<<y, j>>])
              <= Plus(d[<<i, k>>], Plus(Plus(d[<<k, x>>], e), d[<<y, j>>]))
        BY <3>1, <4>1, PathFacts
      <4> QED
        BY <1>4, <4>2
    <3> QED
      BY <2>1, <2>3, <3>2, <3>3
  <2>4. CASE /\ Has(i, k) /\ M[<<i, k>>] = T(i, k)
             /\ <<k, j>> \in D /\ M[<<k, j>>] = d[<<k, j>>]
    <3>1. /\ <<y, j>> \in D /\ d[<<y, j>>] <= Plus(d[<<y, k>>], d[<<k, j>>])
          /\ Has(i, j)
      BY <1>4, <1>5, <2>4
    <3>2. <<i, j>> \in F /\ M[<<i, j>>] <= T(i, j) /\ T(i, j) \in Int
      BY <1>2, <3>1
    <3>3. T(i, j) <= Plus(T(i, k), d[<<k, j>>])
      <4>1. /\ d[<<i, x>>] \in Int /\ d[<<y, k>>] \in Int /\ d[<<k, j>>] \in Int
            /\ d[<<y, j>>] \in Int
        BY <1>4
      <4>2. Plus(Plus(d[<<i, x>>], e), d[<<y, j>>])
              <= Plus(Plus(Plus(d[<<i, x>>], e), d[<<y, k>>]), d[<<k, j>>])
        BY <3>1, <4>1, PathFacts
      <4> QED
        BY <1>4, <4>2
    <3> QED
      BY <2>1, <2>4, <3>2, <3>3
  <2>5. CASE /\ Has(i, k) /\ M[<<i, k>>] = T(i, k)
             /\ Has(k, j) /\ M[<<k, j>>] = T(k, j)
    <3>1. /\ <<y, x>> \in D /\ d[<<y, x>>] <= Plus(d[<<y, k>>], d[<<k, x>>])
          /\ Has(i, j)
      BY <1>4, <1>5, <2>5
    <3>2. <<i, j>> \in F /\ M[<<i, j>>] <= T(i, j) /\ T(i, j) \in Int
      BY <1>2, <3>1
    <3>3. T(i, j) <= Plus(T(i, k), T(k, j))
      <4>1. /\ d[<<i, x>>] \in Int /\ d[<<y, k>>] \in Int /\ d[<<k, x>>] \in Int
            /\ d[<<y, j>>] \in Int /\ d[<<y, x>>] \in Int
        BY <1>4
      <4>2. LE_ZERO <= Plus(d[<<y, x>>], e)
        BY <3>1 DEF IsClosing, D
      <4>3. Plus(Plus(d[<<i, x>>], e), d[<<y, j>>])
              <= Plus(Plus(Plus(d[<<i, x>>], e), d[<<y, k>>]),
                      Plus(Plus(d[<<k, x>>], e), d[<<y, j>>]))
        BY <3>1, <4>1, <4>2, CycleFacts
      <4> QED
        BY <1>4, <4>3
    <3> QED
      BY <2>1, <2>5, <3>2, <3>3
  <2> QED
    BY <1>2, <1>7, <2>2, <2>3, <2>4, <2>5
<1> QED
  BY <1>3, <1>6, <1>7 DEF IsTightOn, F, M

\* The bounds of 0 - z are within the horizon, whether or not a detour gives them: the
\* clocks of a path are distinct.
LEMMA DetourValue ==
  ASSUME NEW d, Good(d), IsPositive(d), IsSampled(d), NEW x \in Clocks, NEW y \in Clocks, x # y,
         NEW e \in Int, - Limit <= Value(e), IsClosing(d, x, y, e), NEW z \in Clocks
  PROVE  LET b == RestrictedBounds(d, x, y, e)[<<0, z>>]
         IN b \in Int /\ - ((Dim - 1) * Limit) <= Value(b)
<1> DEFINE b == RestrictedBounds(d, x, y, e)[<<0, z>>]
           K == (Dim - 1) * Limit
<1>1. /\ 0 \in Clocks /\ Dim \in Nat \ {0} /\ Limit \in Nat /\ Clocks = 0 .. Dim - 1
      /\ \A i, j \in Clocks : d[<<i, j>>] \in Int /\ Value(d[<<i, j>>]) \in Int
      /\ \A i \in Clocks : Value(d[<<i, i>>]) = 0
  <2>1. \A i, j \in Clocks : d[<<i, j>>] \in Int /\ d[<<i, i>>] = LE_ZERO
    BY GoodFacts
  <2>2. Value(LE_ZERO) = 0
    BY EntryFacts, NotPositive
  <2> QED
    BY <2>1, <2>2, Parts, ClockFacts, LimitAssumption
<1>2. \A i, j \in Clocks : <<i, j>> \in Finite(d) => - Limit <= Value(d[<<i, j>>])
  <2> SUFFICES ASSUME NEW i \in Clocks, NEW j \in Clocks, <<i, j>> \in Finite(d)
               PROVE  - Limit <= Value(d[<<i, j>>])
    OBVIOUS
  <2>1. Value(d[<<i, j>>]) \in - Limit .. Limit
    BY DEF Finite, IsSampled
  <2> QED
    BY <1>1, <2>1
<1>3. \A i \in Clocks : <<0, i>> \in Finite(d)
  <2> SUFFICES ASSUME NEW i \in Clocks PROVE <<0, i>> \in Finite(d)
    OBVIOUS
  <2>1. d[<<0, i>>] <= LE_ZERO
    BY DEF IsPositive
  <2>2. d[<<0, i>>] # LT_INFINITY
    BY <1>1, <2>1, EntryFacts
  <2> QED
    BY <1>1, <2>2 DEF Finite
<1>4. /\ K \in Nat
      /\ Dim >= 2 => Limit <= K
      /\ Dim >= 3 => 2 * Limit <= K
      /\ Dim >= 4 => 3 * Limit <= K
  <2>1. \A n \in Nat : n <= Dim - 1 => n * Limit \in Nat /\ n * Limit <= K
    <3> SUFFICES ASSUME NEW n \in Nat, n <= Dim - 1
                 PROVE  n * Limit \in Nat /\ n * Limit <= K
      OBVIOUS
    <3> DEFINE k == Dim - 1 - n
    <3>1. k \in Nat /\ Dim - 1 = n + k
      BY <1>1
    <3>2. \A a, c \in Nat : a * c \in Nat
      OBVIOUS
    <3>3. n * Limit \in Nat /\ k * Limit \in Nat
      BY <1>1, <3>1, <3>2
    <3> HIDE DEF k
    <3>4. (n + k) * Limit = n * Limit + k * Limit
      BY <1>1, <3>1
    <3> QED
      BY <3>1, <3>3, <3>4
  <2>2. /\ 0 \in Nat /\ 0 <= Dim - 1
        /\ Dim >= 2 => 1 <= Dim - 1
        /\ Dim >= 3 => 2 <= Dim - 1
        /\ Dim >= 4 => 3 <= Dim - 1
    BY <1>1
  <2>3. Dim - 1 \in Nat /\ \A a, c \in Nat : a * c \in Nat
    BY <1>1
  <2>4. K \in Nat /\ 1 * Limit = Limit
    BY <1>1, <2>3
  <2> HIDE DEF K
  <2> QED
    BY <2>1, <2>2, <2>4
<1>5. /\ b \in Int
      /\ \/ b = d[<<0, z>>]
         \/ <<y, z>> \in Finite(d) /\ b = Detour(0, z, d, x, y, e)
      /\ b <= d[<<0, z>>]
  <2>1. <<0, z>> \in Finite(d)
    BY <1>3
  <2> HIDE DEF b
  <2>2. /\ b \in Int /\ <<0, z>> \in Restricted(d, x, y) /\ b <= d[<<0, z>>]
        /\ b = d[<<0, z>>] \/ (HasDetour(0, z, d, x, y) /\ b = Detour(0, z, d, x, y, e))
    <3>1. 0 \in Clocks /\ b = RestrictedBounds(d, x, y, e)[<<0, z>>]
      BY <1>1 DEF b
    <3> QED
      BY <2>1, <3>1, RestrictedFacts
  <2> QED
    BY <2>2 DEF HasDetour
<1>6. x # 0 \/ y # 0
  OBVIOUS
<1> DEFINE p == Value(d[<<0, x>>])
           q == Value(e)
           r == Value(d[<<y, z>>])
<1>7. Value(Detour(0, z, d, x, y, e)) = p + q + r /\ p \in Int /\ q \in Int /\ r \in Int
  <2>1. d[<<0, x>>] \in Int /\ d[<<y, z>>] \in Int
    BY <1>1
  <2>2. Value(Plus(d[<<0, x>>], e)) = p + q /\ Plus(d[<<0, x>>], e) \in Int
    BY <2>1, PlusParts
  <2>3. Value(Plus(Plus(d[<<0, x>>], e), d[<<y, z>>])) = Value(Plus(d[<<0, x>>], e)) + r
    BY <2>1, <2>2, PlusParts
  <2>4. p \in Int /\ q \in Int /\ r \in Int
    BY <2>1, Parts
  <2> HIDE DEF p, q, r
  <2> QED
    BY <2>2, <2>3, <2>4 DEF Detour
<1>8. /\ - Limit <= p /\ (x = 0 => p = 0)
      /\ <<y, z>> \in Finite(d) => - Limit <= r
      /\ y = z => r = 0
      /\ - Limit <= q
      /\ y = 0 => 0 <= p + q
  <2>1. ASSUME y = 0 PROVE 0 <= p + q
    <3>1. LE_ZERO <= Plus(d[<<0, x>>], e)
      BY <1>3, <2>1 DEF IsClosing
    <3>2. /\ Plus(d[<<0, x>>], e) \in Int /\ Value(Plus(d[<<0, x>>], e)) = p + q
          /\ LE_ZERO = 1
      BY <1>1, PlusParts, EntryFacts
    <3>3. \A a \in Int : 1 <= a => 0 <= Value(a)
      BY DEF Value
    <3> QED
      BY <3>1, <3>2, <3>3
  <2> QED
    BY <1>1, <1>2, <1>3, <2>1
<1>9. - Limit <= Value(d[<<0, z>>]) /\ Value(d[<<0, z>>]) \in Int
  BY <1>1, <1>2, <1>3
<1>10. z = x => b = d[<<0, z>>]
  <2> SUFFICES ASSUME z = x, b # d[<<0, z>>] PROVE FALSE
    OBVIOUS
  <2>1. <<y, x>> \in Finite(d) /\ b = Plus(Plus(d[<<0, x>>], e), d[<<y, x>>])
    BY <1>5 DEF Detour
  <2>2. LE_ZERO <= Plus(d[<<y, x>>], e)
    BY <2>1 DEF IsClosing
  <2> DEFINE a == d[<<0, x>>]
             c == d[<<y, x>>]
  <2>3. a \in Int /\ c \in Int /\ Plus(e, c) \in Int /\ Plus(c, e) = Plus(e, c) /\ LE_ZERO \in Int
    BY <1>1, PlusParts, EntryFacts
  <2>4. b = Plus(a, Plus(e, c))
    <3>1. b = Plus(Plus(a, e), c)
      BY <2>1
    <3> HIDE DEF a, b, c
    <3> QED
      BY <2>3, <3>1, PlusAssociates
  <2> HIDE DEF a, c, b
  <2>5. Plus(a, LE_ZERO) <= Plus(a, Plus(e, c))
    <3>1. a <= a /\ LE_ZERO <= Plus(e, c)
      BY <2>2, <2>3 DEF c
    <3> QED
      BY <2>3, <3>1, PlusMonotone
  <2>6. a <= b
    BY <2>3, <2>4, <2>5, PlusParts
  <2> QED
    BY <1>5, <2>3, <2>6 DEF a
<1>11. z = 0 => b = d[<<0, z>>]
  <2> SUFFICES ASSUME z = 0 PROVE b = d[<<0, z>>]
    OBVIOUS
  <2>1. b = LE_ZERO
    BY <1>1, RestrictedTight DEF IsTightOn
  <2> QED
    BY <1>1, <2>1, GoodFacts
<1> HIDE DEF b, K, p, q, r
<1>12. - K <= Value(b)
  <2>1. Dim >= 2
    BY <1>1, <1>6
  <2>2. CASE b = d[<<0, z>>]
    BY <1>1, <1>4, <1>9, <2>1, <2>2
  <2>3. CASE /\ <<y, z>> \in Finite(d) /\ b = Detour(0, z, d, x, y, e)
             /\ z # 0 /\ z # x
    <3>1. Value(b) = p + q + r
      BY <1>7, <2>3
    <3>2. Dim >= 3 \/ (x = 0 /\ y = z)
      BY <1>1, <2>3
    <3>3. CASE x = 0 /\ y = z
      BY <1>1, <1>4, <1>7, <1>8, <2>1, <3>1, <3>3
    <3>4. CASE Dim >= 3 /\ (x = 0 \/ y = z)
      BY <1>1, <1>4, <1>7, <1>8, <2>3, <3>1, <3>4
    <3>5. CASE y = 0
      BY <1>1, <1>4, <1>7, <1>8, <2>1, <2>3, <3>1, <3>5
    <3>6. CASE x # 0 /\ y # 0 /\ y # z
      <4>1. Dim >= 4
        BY <1>1, <2>3, <3>6
      <4> QED
        BY <1>1, <1>4, <1>7, <1>8, <2>3, <3>1, <4>1
    <3> QED
      BY <3>2, <3>3, <3>4, <3>5, <3>6
  <2> QED
    BY <1>5, <1>10, <1>11, <2>2, <2>3
<1> QED
  BY <1>5, <1>12 DEF b, K

\* A zone has a sampled valuation that satisfies a bound e of x - y that makes no negative
\* cycle, where clock x has its least value in the zone.
LEMMA Witness ==
  ASSUME NEW d, Good(d), IsPositive(d), IsSampled(d), NEW x \in Clocks, NEW y \in Clocks, x # y,
         NEW e \in Int, - Limit <= Value(e), IsClosing(d, x, y, e)
  PROVE  \E v \in Sample :
           /\ InZone(v, d) /\ Sat(v, x, y, e)
           /\ \A n \in Int : 2 * (-n) + 1 <= d[<<0, x>>] => v[x] <= n * Unit
<1> DEFINE F == Restricted(d, x, y)
           M == RestrictedBounds(d, x, y, e)
           K == (Dim - 1) * Limit
           p == [z \in Clocks |-> M[<<0, z>>]]
<1>1. /\ 0 \in Clocks /\ Dim \in Nat \ {0} /\ K \in Nat
      /\ \A i, j \in Clocks : d[<<i, j>>] \in Int /\ d[<<i, j>>] # OutOfBounds
      /\ \A i \in Clocks : d[<<i, i>>] = LE_ZERO
  <2>1. \A i, j \in Clocks : d[<<i, j>>] \in Int /\ d[<<i, i>>] = LE_ZERO
                             /\ d[<<i, j>>] # OutOfBounds
    BY GoodFacts
  <2>2. Dim - 1 \in Nat /\ Limit \in Nat /\ \A a, c \in Nat : a * c \in Nat
    BY ClockFacts, LimitAssumption
  <2> QED
    BY <2>1, <2>2, ClockFacts
<1>2. IsTightOn(F, M)
  BY RestrictedTight
<1>3. \A i, j \in Clocks :
        LET b == M[<<i, j>>]
        IN /\ b \in Int
           /\ <<i, j>> \in Finite(d) => <<i, j>> \in F /\ b <= d[<<i, j>>]
           /\ HasDetour(i, j, d, x, y) => <<i, j>> \in F /\ b <= Detour(i, j, d, x, y, e)
           /\ <<i, j>> \in F =>
                \/ <<i, j>> \in Finite(d) /\ b = d[<<i, j>>]
                \/ HasDetour(i, j, d, x, y) /\ b = Detour(i, j, d, x, y, e)
  BY RestrictedFacts
<1>4. \A z \in Clocks : p[z] = M[<<0, z>>] /\ p[z] \in Int /\ - K <= Value(p[z])
  BY DetourValue
<1>5. p \in [Clocks -> Int]
  BY <1>1, <1>3
<1>6. \A z \in Clocks : <<0, z>> \in Finite(d) /\ <<0, z>> \in F /\ p[z] <= d[<<0, z>>]
                        /\ d[<<0, z>>] <= LE_ZERO
  <2> SUFFICES ASSUME NEW z \in Clocks
               PROVE  <<0, z>> \in Finite(d) /\ <<0, z>> \in F /\ p[z] <= d[<<0, z>>]
                      /\ d[<<0, z>>] <= LE_ZERO
    OBVIOUS
  <2>1. d[<<0, z>>] <= LE_ZERO
    BY DEF IsPositive
  <2>2. d[<<0, z>>] # LT_INFINITY
    BY <1>1, <2>1, EntryFacts
  <2>3. <<0, z>> \in Finite(d)
    BY <1>1, <2>2 DEF Finite
  <2> QED
    BY <1>1, <1>3, <1>4, <2>1, <2>3
<1>7. d[<<0, x>>] <= p[x]
  <2>1. ASSUME HasDetour(0, x, d, x, y), p[x] = Detour(0, x, d, x, y, e)
        PROVE  d[<<0, x>>] <= p[x]
    <3> DEFINE a == d[<<0, x>>]
               c == d[<<y, x>>]
    <3>1. LE_ZERO <= Plus(c, e)
      BY <2>1 DEF IsClosing, HasDetour
    <3>2. /\ a \in Int /\ c \in Int /\ Plus(e, c) \in Int /\ Plus(c, e) = Plus(e, c)
          /\ LE_ZERO \in Int
      BY <1>1, PlusParts, EntryFacts
    <3>3. p[x] = Plus(Plus(a, e), c)
      BY <2>1 DEF Detour
    <3> HIDE DEF a, c, p
    <3>4. p[x] = Plus(a, Plus(e, c))
      BY <3>2, <3>3, PlusAssociates
    <3>5. Plus(a, LE_ZERO) <= Plus(a, Plus(e, c))
      <4>1. a <= a
        BY <3>2
      <4> QED
        BY <3>1, <3>2, <4>1, PlusMonotone
    <3>6. Plus(a, LE_ZERO) = a
      BY <3>2, PlusParts
    <3> QED
      BY <3>4, <3>5, <3>6 DEF a
  <2>2. p[x] = d[<<0, x>>] => d[<<0, x>>] <= p[x]
    <3>1. d[<<0, x>>] \in Int
      BY <1>1
    <3> QED
      BY <3>1
  <2> HIDE DEF p, F, M
  <2> QED
    BY <1>1, <1>3, <1>4, <1>6, <2>1, <2>2
<1>8. IsTightFrom(p, F, M)
  <2>1. p[0] = LE_ZERO
    BY <1>1, <1>2 DEF IsTightOn
  <2>2. ASSUME NEW i \in Clocks, NEW j \in Clocks, <<i, j>> \in F
        PROVE  p[j] <= Plus(p[i], M[<<i, j>>])
    BY <1>1, <1>2, <1>6, <2>2 DEF IsTightOn
  <2> QED
    BY <1>5, <2>1, <2>2 DEF IsTightFrom
<1> HIDE DEF F, M, p, K
<1>9. PICK k \in [Clocks -> 0 .. Dim - 1] :
        /\ \A i \in Clocks : k[i] = 0 <=> Comparator(p[i]) = 1
        /\ \A i, j \in Clocks : <<i, j>> \in F =>
             Meets((k[i] - Dim * Value(p[i])) - (k[j] - Dim * Value(p[j])), M[<<i, j>>])
  BY <1>2, <1>8, Corner
<1> DEFINE w == [z \in Clocks |-> k[z] - Dim * Value(p[z])]
           v == [z \in Clocks |-> Dim * w[z]]
<1>10. \A z \in Clocks : /\ w[z] = k[z] - Dim * Value(p[z]) /\ k[z] \in 0 .. Dim - 1
                         /\ v[z] = Dim * w[z]
  OBVIOUS
<1>11. v = [z \in Clocks |-> v[z]]
  OBVIOUS
<1> HIDE DEF w, v
<1>12. ASSUME NEW z \in Clocks
       PROVE  /\ w[z] \in Int /\ v[z] = w[z] * Dim /\ v[z] \in Int
              /\ w[z] \in 0 .. Horizon * Dim
              /\ \A n \in Int : 2 * (-n) + 1 <= p[z] => w[z] <= n * Dim
  <2>1. ASSUME NEW n \in Int
        PROVE  /\ w[z] \in Int
               /\ p[z] <= 2 * (-n) + 1 => n * Dim <= w[z]
               /\ 2 * (-n) + 1 <= p[z] => w[z] <= n * Dim
    <3>1. /\ p[z] \in Int /\ k[z] \in 0 .. Dim - 1
          /\ k[z] = 0 <=> Comparator(p[z]) = 1
          /\ w[z] = k[z] - Dim * Value(p[z])
      BY <1>4, <1>9, <1>10
    <3> QED
      BY <3>1, CornerClock
  <2>2. w[z] \in Int /\ v[z] = w[z] * Dim /\ v[z] \in Int
    <3>1. w[z] \in Int
      BY <2>1
    <3> QED
      BY <1>1, <1>10, <3>1, ProductFacts
  <2>3. 0 <= w[z]
    <3>1. 2 * (-0) + 1 = LE_ZERO /\ 0 * Dim = 0 /\ LE_ZERO \in Int
      BY <1>1, EntryFacts
    <3>2. p[z] \in Int /\ d[<<0, z>>] \in Int
      BY <1>1, <1>4
    <3>3. p[z] <= d[<<0, z>>] /\ d[<<0, z>>] <= LE_ZERO
      BY <1>6
    <3>4. p[z] <= LE_ZERO
      BY <3>1, <3>2, <3>3
    <3>5. 0 \in Int /\ 2 * (-0) + 1 = 1 /\ LE_ZERO = 1
      BY DEF LE_ZERO, LE
    <3>6. 0 * Dim <= w[z]
      BY <2>1, <3>4, <3>1
    <3> QED
      BY <3>1, <3>6
  <2>4. w[z] <= Horizon * Dim /\ Horizon * Dim \in Nat
    <3>1. Value(p[z]) \in Int /\ - K \in Int /\ - K <= Value(p[z])
      <4>1. p[z] \in Int /\ - K <= Value(p[z])
        BY <1>4
      <4>2. Value(p[z]) \in Int
        BY <4>1, Parts
      <4> QED
        BY <1>1, <4>1, <4>2
    <3>2. (- K) * Dim <= Value(p[z]) * Dim /\ Value(p[z]) * Dim \in Int
      BY <1>1, <3>1, ProductOrder
    <3>3. (- K) * Dim = - (K * Dim) /\ K * Dim \in Int
      BY <1>1
    <3>4. Dim * Value(p[z]) = Value(p[z]) * Dim
      BY <1>1, <3>1
    <3>5. Horizon * Dim = K * Dim + Dim
      <4>1. Horizon = K + 1
        BY DEF Horizon, K
      <4> QED
        BY <1>1, <4>1
    <3> QED
      BY <1>1, <1>10, <3>2, <3>3, <3>4, <3>5, HorizonFacts
  <2> QED
    BY <2>1, <2>2, <2>3, <2>4
<1>13. v \in Sample /\ v \in Values
  <2>1. v[0] = 0
    <3>1. p[0] = LE_ZERO
      BY <1>8 DEF IsTightFrom
    <3>2. Value(p[0]) = 0 /\ k[0] = 0
      BY <1>1, <1>9, <3>1, EntryFacts, NotPositive
    <3>3. w[0] = k[0] - Dim * Value(p[0]) /\ v[0] = Dim * w[0]
      BY <1>1, <1>10
    <3> QED
      BY <1>1, <3>2, <3>3
  <2>2. \A z \in Clocks : v[z] \in {Dim * n : n \in 0 .. Horizon * Dim}
    BY <1>10, <1>12
  <2> QED
    BY <1>11, <1>12, <2>1, <2>2 DEF Sample, Values
<1>14. ASSUME NEW i \in Clocks, NEW j \in Clocks, <<i, j>> \in F
       PROVE  Sat(v, i, j, M[<<i, j>>])
  <2> DEFINE b == M[<<i, j>>]
  <2>1. b \in Int
    BY <1>3
  <2>2. Meets(w[i] - w[j], b)
    BY <1>9, <1>10, <1>14
  <2> HIDE DEF b
  <2>3. Dim * Value(b) = Value(b) * Dim
    <3>1. Value(b) \in Int
      BY <2>1, Parts
    <3> QED
      BY <1>1, <3>1
  <2>4. Within(w[i] * Dim - w[j] * Dim, b)
    BY <1>12, <2>1, <2>2, <2>3, ScaledWithin DEF Meets
  <2> QED
    BY <1>12, <2>4, SatIsWithin DEF b
<1>15. InZone(v, d)
  <2>1. ASSUME NEW i \in Clocks, NEW j \in Clocks, d[<<i, j>>] # LT_INFINITY
        PROVE  Sat(v, i, j, d[<<i, j>>])
    <3>1. <<i, j>> \in Finite(d)
      BY <2>1 DEF Finite
    <3>2. <<i, j>> \in F /\ M[<<i, j>>] <= d[<<i, j>>] /\ M[<<i, j>>] \in Int
      BY <1>3, <3>1
    <3> QED
      BY <1>1, <1>13, <1>14, <3>2, SatMonotone
  <2> QED
    BY <1>13, <2>1, ZoneAdmits DEF Admits, Fits
<1>16. Sat(v, x, y, e)
  <2>1. HasDetour(x, y, d, x, y)
    <3>1. LE_ZERO # LT_INFINITY
      BY EntryFacts
    <3> QED
      BY <1>1, <3>1 DEF HasDetour, Finite
  <2>2. Detour(x, y, d, x, y, e) = e
    BY <1>1, PlusParts DEF Detour
  <2>3. <<x, y>> \in F /\ M[<<x, y>>] <= e /\ M[<<x, y>>] \in Int
    BY <1>3, <2>1, <2>2
  <2> QED
    BY <1>13, <1>14, <2>3, SatMonotone
<1>17. ASSUME NEW n \in Int, 2 * (-n) + 1 <= d[<<0, x>>] PROVE v[x] <= n * Unit
  <2>1. 2 * (-n) + 1 <= p[x]
    BY <1>1, <1>4, <1>7, <1>17
  <2>2. w[x] <= n * Dim /\ w[x] \in Int /\ v[x] = w[x] * Dim
    BY <1>12, <2>1
  <2> DEFINE a == n * Dim
  <2>3. a \in Int
    BY <1>1, ProductFacts
  <2>4. n * Unit = a * Dim
    BY <1>1, <2>3 DEF Unit
  <2> HIDE DEF a
  <2>5. w[x] * Dim <= a * Dim
    BY <1>1, <2>2, <2>3, ProductOrder DEF a
  <2> QED
    BY <2>2, <2>4, <2>5
<1> QED
  BY <1>13, <1>15, <1>16, <1>17

\* The negation of a bound is one of the opposite difference, and it makes no negative
\* cycle with a greater bound.
LEMMA NegationFacts ==
  ASSUME NEW b \in Int, NEW v \in Values, NEW x \in Clocks, NEW y \in Clocks
  PROVE  /\ 1 - b \in Int /\ Value(1 - b) = - Value(b)
         /\ Sat(v, x, y, 1 - b) => ~ Sat(v, y, x, b)
         /\ \A a \in Int : b < a => LE_ZERO <= Plus(a, 1 - b)
<1>1. Value(b) \in Int /\ Comparator(b) \in {0, 1} /\ b = 2 * Value(b) + Comparator(b)
  BY Parts
<1>2. 1 - b = 2 * (- Value(b)) + (1 - Comparator(b)) /\ - Value(b) \in Int
      /\ 1 - Comparator(b) \in {0, 1} /\ 1 - b \in Int
  BY <1>1
<1>3. Value(1 - b) = - Value(b) /\ Comparator(1 - b) = 1 - Comparator(b)
  BY <1>2, PartsOf
<1>4. ASSUME Sat(v, x, y, 1 - b), Sat(v, y, x, b) PROVE FALSE
  <2> DEFINE k == Value(b) * Unit
             t == v[x] - v[y]
  <2>1. k \in Int /\ (- Value(b)) * Unit = - k
    BY <1>1, UnitFacts, ProductFacts
  <2>2. t \in Int /\ v[y] - v[x] = - t
    BY DEF Values
  <2>3. Within(t, 1 - b) /\ Within(- t, b)
    BY <1>4, <2>2, SatIsWithin
  <2> HIDE DEF k, t
  <2>4. IF Comparator(b) = 0 THEN - t < k /\ t <= - k ELSE - t <= k /\ t < - k
    BY <1>1, <1>3, <2>1, <2>3 DEF Within, LT, k
  <2> QED
    BY <2>1, <2>2, <2>4
<1>5. ASSUME NEW a \in Int, b < a PROVE LE_ZERO <= Plus(a, 1 - b)
  <2>1. Value(a) \in Int /\ Comparator(a) \in {0, 1} /\ a = 2 * Value(a) + Comparator(a)
    BY Parts
  <2>2. Plus(a, 1 - b)
          = 2 * (Value(a) - Value(b)) + Comparator(a) * (1 - Comparator(b))
    BY <1>1, <1>3, <2>1 DEF Plus
  <2>3. Value(a) > Value(b) \/ (Value(a) = Value(b) /\ Comparator(a) = 1 /\ Comparator(b) = 0)
    BY <1>1, <1>5, <2>1
  <2>4. Comparator(a) * (1 - Comparator(b)) \in {0, 1}
    BY <1>1, <2>1
  <2> QED
    BY <1>1, <2>1, <2>2, <2>3, <2>4, EntryFacts
<1> QED
  BY <1>2, <1>3, <1>4, <1>5

\* A zone that has a greater bound than another one has a sampled valuation that is not in
\* the other one, where clock x has its least value in the zone.
LEMMA Separated ==
  ASSUME NEW d, Good(d), IsPositive(d), IsSampled(d), NEW m, Good(m), IsSampled(m),
         NEW x \in Clocks, NEW y \in Clocks, x # y, m[<<y, x>>] < d[<<y, x>>]
  PROVE  \E v \in Sample :
           /\ InZone(v, d) /\ ~ Sat(v, y, x, m[<<y, x>>]) /\ ~ InZone(v, m)
           /\ \A n \in Int : 2 * (-n) + 1 <= d[<<0, x>>] => v[x] <= n * Unit
<1> DEFINE b == m[<<y, x>>]
<1>1. d[<<y, x>>] \in Int /\ b \in Int /\ b # LT_INFINITY
  <2>1. d[<<y, x>>] \in Entries /\ b \in Int
    BY GoodFacts
  <2> QED
    BY <2>1, EntryFacts
<1>2. Value(b) \in - Limit .. Limit
  BY <1>1 DEF IsSampled
<1>3. 1 - b \in Int /\ Value(1 - b) = - Value(b)
  BY <1>1 DEF Value
<1>4. IsClosing(d, x, y, 1 - b)
  <2>1. LE_ZERO <= Plus(d[<<y, x>>], 1 - b)
    <3>1. [i \in Clocks |-> 0] \in Values
      BY DEF Values
    <3> QED
      BY <1>1, <3>1, NegationFacts
  <2> QED
    BY <2>1 DEF IsClosing
<1>5. - Limit <= Value(1 - b)
  BY <1>2, <1>3, LimitAssumption
<1> HIDE DEF b
<1>6. PICK v \in Sample :
        /\ InZone(v, d) /\ Sat(v, x, y, 1 - b)
        /\ \A n \in Int : 2 * (-n) + 1 <= d[<<0, x>>] => v[x] <= n * Unit
  BY <1>3, <1>4, <1>5, Witness
<1>7. v \in Values
  BY SampleFacts
<1>8. ~ Sat(v, y, x, b)
  BY <1>1, <1>6, <1>7, NegationFacts
<1>9. ~ InZone(v, m)
  BY <1>1, <1>7, <1>8, ZoneAdmits, GoodFacts DEF Admits, Fits, b
<1> QED
  BY <1>6, <1>8, <1>9 DEF b

\* The comparison bound by bound decides the inclusion of zones.
LEMMA InclusionDecided ==
  ASSUME NEW d, Good(d), IsPositive(d), IsSampled(d), NEW m, Good(m), IsSampled(m)
  PROVE  IsLe(d, m) <=> \A v \in Sample : InZone(v, d) => InZone(v, m)
<1>1. ASSUME IsLe(d, m), NEW v \in Sample, InZone(v, d) PROVE InZone(v, m)
  BY <1>1, SampleFacts, GoodFacts, CoveredIsIncluded
<1>2. ASSUME ~ IsLe(d, m) PROVE \E v \in Sample : InZone(v, d) /\ ~ InZone(v, m)
  <2>1. PICK p \in Clocks \X Clocks : ~ (d[p] <= m[p])
    BY <1>2 DEF IsLe
  <2>2. PICK y \in Clocks, x \in Clocks : p = <<y, x>>
    OBVIOUS
  <2>3. d[<<y, x>>] \in Int /\ m[<<y, x>>] \in Int
    BY GoodFacts
  <2>4. m[<<y, x>>] < d[<<y, x>>]
    BY <2>1, <2>2, <2>3
  <2>5. x # y
    <3>1. d[<<x, x>>] = m[<<x, x>>]
      BY GoodFacts
    <3> QED
      BY <2>3, <2>4, <3>1
  <2> QED
    BY <2>4, <2>5, Separated
<1> QED
  BY <1>1, <1>2

\* is_alu_le decides whether the valuations of a zone are simulated by those of another one.
LEMMA AluInclusionDecided ==
  ASSUME NEW d, Good(d), IsPositive(d), IsSampled(d), NEW m, Good(m), IsPositive(m), IsSampled(m),
         NEW b \in ClockBounds, IsClockBounds(b.l, b.u)
  PROVE  IsAluLe(d, m, b.l, b.u) <=>
           \A v \in Sample : InZone(v, d) => v \in Simulated(m, b.l, b.u)
<1> DEFINE l == b.l
           u == b.u
<1>1. ASSUME IsAluLe(d, m, l, u), NEW v \in Sample, InZone(v, d)
      PROVE  v \in Simulated(m, l, u)
  BY <1>1, AluIsSimulable, SimulableIsSimulated
<1>2. ASSUME ~ IsAluLe(d, m, l, u)
      PROVE  \E v \in Sample : InZone(v, d) /\ v \notin Simulated(m, l, u)
  <2>1. PICK x \in Clocks, y \in Clocks :
          /\ x # y /\ u[x] # NoBound /\ l[y] # NoBound
          /\ d[<<0, x>>] >= MakeBound(LE, -u[x])
          /\ m[<<y, x>>] < d[<<y, x>>]
          /\ Sum(m[<<y, x>>], MakeBound(LT, -l[y])) < d[<<0, x>>]
    BY <1>2 DEF IsAluLe
  <2> DEFINE c == m[<<y, x>>]
             r == MakeBound(LT, -l[y])
             s == Sum(c, r)
             a == d[<<0, x>>]
  <2>2. l[y] \in Int /\ u[x] \in Int /\ (l[y] \in 0 .. -MIN_VALUE \/ l[y] = NoBound)
        /\ (u[x] \in 0 .. -MIN_VALUE \/ u[x] = NoBound)
    BY DEF IsClockBounds
  <2>3. MakeBound(LE, -u[x]) = 2 * (-u[x]) + 1
    BY <2>1, <2>2, ClockBound
  <2>4. r = 2 * (-l[y]) + 0 /\ Proper(r) /\ l[y] \in Nat /\ r \in Entries
    BY <2>1, <2>2, ClockBound DEF Proper
  <2>5. 0 \in Clocks /\ a \in Int /\ a \in Entries /\ c \in Int /\ c \in Entries
        /\ c # OutOfBounds /\ d[<<y, x>>] \in Entries
    BY GoodFacts, ClockFacts
  <2>6. Proper(c)
    BY <2>1, <2>5, EntryFacts
  <2>7. 2 * (Value(c) - l[y]) + 1 <= a /\ Value(c) \in Int
    <3>1. /\ Value(r) = -l[y] /\ Comparator(r) = 0 /\ Value(c) \in Int /\ Comparator(c) \in {0, 1}
          /\ -l[y] \in Int
      <4>1. -l[y] \in Int
        BY <2>2
      <4> QED
        BY <2>4, <2>5, <4>1, PartsOf, Parts
    <3> DEFINE t == Value(c) - l[y]
    <3>2. t \in Int /\ Comparator(c) * Comparator(r) = 0 /\ Value(c) + Value(r) = t
      BY <2>2, <3>1
    <3>3. s = MakeBound(0, t)
      <4>1. OutOfBounds \notin {c, r} /\ LT_INFINITY \notin {c, r}
        BY <2>4, <2>6 DEF Proper
      <4> QED
        BY <3>2, <4>1 DEF Sum
    <3>4. s < a
      BY <2>1
    <3>5. t = Value(c) - l[y] /\ l[y] \in Nat
      BY <2>4
    <3> HIDE DEF s, c, r, a, t
    <3>6. CASE t \in MIN_VALUE .. MAX_VALUE
      <4>1. s = 2 * t + 0
        BY <3>3, <3>6 DEF MakeBound
      <4>2. 2 * t + 1 <= a
        BY <2>5, <3>2, <3>4, <4>1
      <4> QED
        BY <3>1, <3>5, <4>2
    <3>7. CASE t \notin MIN_VALUE .. MAX_VALUE
      <4>1. t <= MAX_VALUE
        <5>1. c <= LT_INFINITY - 1 /\ c \in Int
          <6>1. c < LT_INFINITY /\ LT_INFINITY \in Int
            BY <2>6, EntryFacts
          <6> QED
            BY <2>5, <6>1
        <5>2. c = 2 * Value(c) + Comparator(c)
          BY <2>5, Parts
        <5>3. Value(c) <= MAX_VALUE
          BY <3>1, <5>1, <5>2, BoundFacts
        <5>4. MAX_VALUE \in Int
          BY BoundFacts
        <5> QED
          BY <3>1, <3>5, <5>3, <5>4
      <4>2. t < MIN_VALUE
        BY <3>2, <3>7, <4>1, BoundFacts
      <4>3. OutOfBounds <= a
        BY <2>5, EntryFacts
      <4>4. 2 * t + 1 <= a
        BY <2>5, <3>2, <4>2, <4>3, BoundFacts
      <4> QED
        BY <3>1, <3>5, <4>4
    <3> QED
      BY <3>6, <3>7
  <2>8. PICK v \in Sample :
          /\ InZone(v, d) /\ ~ Sat(v, y, x, c) /\ ~ InZone(v, m)
          /\ \A n \in Int : 2 * (-n) + 1 <= a => v[x] <= n * Unit
    BY <2>1, Separated
  <2>9. v[x] <= u[x] * Unit
    BY <2>1, <2>2, <2>3, <2>8
  <2> DEFINE n == l[y] - Value(c)
  <2>10. n \in Int /\ 2 * (-n) + 1 <= a
    <3>1. n \in Int /\ -n = Value(c) - l[y]
      BY <2>2, <2>7
    <3> HIDE DEF n, a, c
    <3> QED
      BY <2>7, <3>1
  <2>11. v[x] <= n * Unit
    BY <2>8, <2>10
  <2>12. v \in Values /\ v[x] \in Int /\ v[y] \in Int
    BY SampleFacts DEF Values
  <2>13. ASSUME NEW w \in Valuations, InZone(w, m), Simulates(w, v, l, u) PROVE FALSE
    <3>1. w \in Values /\ w[x] \in Int /\ w[y] \in Int
      BY DEF Valuations, Values, Grains
    <3>2. w[x] <= v[x]
      <4>1. w[x] > v[x] => u[x] * Unit < v[x]
        BY <2>13 DEF Simulates
      <4>2. u[x] * Unit \in Int
        BY <2>2, UnitFacts, ProductFacts
      <4> QED
        BY <2>9, <2>12, <3>1, <4>1, <4>2
    <3>3. Sat(w, y, x, c)
      BY <2>6, <2>13, <3>1, ZoneAdmits DEF Admits, Fits, Proper
    <3>4. ~ Within(v[y] - v[x], c) /\ Within(w[y] - w[x], c)
      BY <2>8, <3>3, SatIsWithin
    <3>5. Value(c) * Unit \in Int /\ w[y] - w[x] <= Value(c) * Unit
      BY <2>5, <3>1, <3>3, SatBelow
    <3>6. w[y] < v[y]
      <4> DEFINE k == Value(c) * Unit
      <4>1. k \in Int /\ (IF Comparator(c) = LT THEN ~ (v[y] - v[x] < k) /\ w[y] - w[x] < k
                          ELSE ~ (v[y] - v[x] <= k) /\ w[y] - w[x] <= k)
        BY <3>4, <3>5 DEF Within
      <4> HIDE DEF k
      <4> QED
        BY <2>12, <3>1, <3>2, <4>1
    <3>7. l[y] * Unit < w[y]
      BY <2>13, <3>6 DEF Simulates
    <3>8. l[y] * Unit \in Int /\ n * Unit = l[y] * Unit - Value(c) * Unit
      <4>1. Unit \in Nat \ {0} /\ l[y] \in Int /\ Value(c) \in Int
        BY <2>2, <2>7, UnitFacts
      <4> HIDE DEF c
      <4> QED
        BY <4>1, ProductFacts
    <3> HIDE DEF n
    <3> QED
      BY <2>11, <2>12, <3>1, <3>2, <3>5, <3>7, <3>8
  <2>14. v \notin Simulated(m, l, u)
    BY <2>8, <2>13 DEF Simulated
  <2> QED
    BY <2>8, <2>14
<1> QED
  BY <1>1, <1>2

\* The clock bounds that difference bounds can be made from, as the code must: db() throws
\* for the others.
RepresentableBounds ==
  \A b \in ClockBounds : \A x \in Clocks :
    /\ b.l[x] \in 0 .. -MIN_VALUE \/ b.l[x] = NoBound
    /\ b.u[x] \in 0 .. -MIN_VALUE \/ b.u[x] = NoBound

\* They are not negative.
LEMMA RepresentableFacts ==
  ASSUME RepresentableBounds
  PROVE  PositiveBounds /\ \A b \in ClockBounds : IsClockBounds(b.l, b.u)
<1>1. \A b \in ClockBounds : /\ b.l \in [Clocks -> Int] /\ b.u \in [Clocks -> Int]
                             /\ b.l[0] = 0 /\ b.u[0] = 0
  BY ClockBoundsAssumption
<1>2. 0 .. -MIN_VALUE \subseteq Nat
  BY BoundFacts
<1> QED
  BY <1>1, <1>2 DEF RepresentableBounds, PositiveBounds, IsClockBounds

\* The covering predicates decide what covreach takes them for, for every number of clocks,
\* width of the bounds and size of the sample: a zone is less or equal bound by bound when
\* it is included, and is_alu_le accepts it when all its valuations are simulated, and
\* only then.
THEOREM ComparisonsCorrect ==
  ASSUME RepresentableBounds
  PROVE  Spec => []ComparisonsExact
<1>1. ASSUME ZInv, IsSampled(dbm), stored # Nothing
      PROVE  InclusionExact /\ AluInclusionExact
  <2>1. Good(dbm) /\ IsPositive(dbm)
    BY <1>1, SampledFacts, RepresentableFacts DEF ZInv, Computed
  <2>2. /\ Good(stored.zone) /\ IsSampled(stored.zone) /\ IsPositive(stored.zone)
        /\ stored.bounds \in ClockBounds /\ IsClockBounds(stored.bounds.l, stored.bounds.u)
        /\ stored.simulated = Simulated(stored.zone, stored.bounds.l, stored.bounds.u)
    BY <1>1, RepresentableFacts DEF ZInv, Stored
  <2>3. InclusionExact
    BY <1>1, <2>1, <2>2, InclusionDecided DEF InclusionExact
  <2>4. AluInclusionExact
    BY <1>1, <2>1, <2>2, AluInclusionDecided DEF AluInclusionExact
  <2> QED
    BY <2>3, <2>4
<1>2. ZInv => ComparisonsExact
  BY <1>1 DEF ComparisonsExact
<1> QED
  BY <1>2, ZInvInit, ZInvNext, PTL DEF Spec
-----------------------------------------------------------------------------
(* Synchronization of the reference clocks: tightening through them is enough. *)

\* Clocks 0 to RefCount - 1 are reference clocks.
RefCountBounds == RefCount \in 1 .. Dim

\* The bounds that say that the reference clocks have the same value.
Equated(m) ==
  [p \in Clocks \X Clocks |->
     IF p[1] \in References /\ p[2] \in References \cap {p[1] - 1, p[1] + 1}
     THEN Min(m[p], LE_ZERO) ELSE m[p]]

\* No bound is out of bounds.
NoneOut(m) == \A x, y \in Clocks : m[<<x, y>>] # OutOfBounds

\* The bound t of x - z is that of e, or no less than that of a path through a reference
\* clock, where e is followed in the end, or at the start.
EndsIn(t, e, x, z) ==
  \/ t[<<x, z>>] = e[<<x, z>>]
  \/ \E s \in References : /\ Proper(t[<<x, s>>]) /\ Proper(e[<<s, z>>])
                           /\ Plus(t[<<x, s>>], e[<<s, z>>]) <= t[<<x, z>>]

StartsIn(t, e, z, y) ==
  \/ t[<<z, y>>] = e[<<z, y>>]
  \/ \E s \in References : /\ Proper(e[<<z, s>>]) /\ Proper(t[<<s, y>>])
                           /\ Plus(e[<<z, s>>], t[<<s, y>>]) <= t[<<z, y>>]

\* The paths that change the bounds of the other clocks go through reference clocks.
ThroughReferences(t, e) ==
  \A x \in Clocks : \A z \in Clocks \ References : EndsIn(t, e, x, z) /\ StartsIn(t, e, z, x)

\* The reference clocks are clocks.
LEMMA ReferenceFacts ==
  ASSUME RefCountBounds
  PROVE  /\ References \subseteq Clocks /\ RefCount \in Nat /\ RefCount \in 0 .. Dim
         /\ 0 \in References
         /\ \A r \in Clocks : r < RefCount <=> r \in References
BY DimAssumption DEF RefCountBounds, References, Clocks

\* Turn k of the loop over the reference clocks: a bound that becomes less is that of a
\* path through k.
LEMMA ViaReference ==
  ASSUME RefCountBounds, NEW e \in EntryMatrices, NEW t \in EntryMatrices, IsConsistent(t),
         NoneOut(e), NoneOut(t), ThroughReferences(t, e), NEW k \in References,
         NEW u, IsVia(u, t, k, Dim)
  PROVE  NoneOut(u) /\ ThroughReferences(u, e)
<1>1. k \in Clocks /\ References \subseteq Clocks
  BY ReferenceFacts
<1>2. /\ IsRelaxed(u, t, Column(t, k), k)
      /\ \A x, y \in Clocks : u[<<x, y>>] = OutOfBounds => t[<<x, y>>] = OutOfBounds
  BY <1>1, ViaRelaxed
<1>3. \A x \in Clocks : Column(t, k)[x] = t[<<x, k>>]
  BY DEF Column
<1>4. NoneOut(u)
  BY <1>2 DEF NoneOut
<1>5. u \in EntryMatrices
  BY DEF IsVia
<1>6. ASSUME NEW x \in Clocks, NEW y \in Clocks
      PROVE  /\ t[<<x, y>>] \in Int /\ u[<<x, y>>] \in Int /\ e[<<x, y>>] \in Int
             /\ u[<<x, y>>] <= t[<<x, y>>]
             /\ Proper(t[<<x, y>>]) => Proper(u[<<x, y>>])
             /\ Proper(t[<<x, k>>]) /\ Proper(t[<<k, y>>]) =>
                  u[<<x, y>>] <= Plus(t[<<x, k>>], t[<<k, y>>]) /\ Proper(u[<<x, y>>])
             /\ \/ u[<<x, y>>] = t[<<x, y>>]
                \/ /\ Proper(t[<<x, k>>]) /\ Proper(t[<<k, y>>])
                   /\ u[<<x, y>>] = Plus(t[<<x, k>>], t[<<k, y>>])
  <2>1. /\ t[<<x, y>>] \in Entries /\ u[<<x, y>>] \in Entries /\ e[<<x, y>>] \in Entries
        /\ t[<<x, y>>] \in Int /\ u[<<x, y>>] \in Int /\ e[<<x, y>>] \in Int
        /\ u[<<x, y>>] # OutOfBounds
    BY <1>4, <1>5, ClockFacts DEF NoneOut
  <2>2. /\ u[<<x, y>>] <= t[<<x, y>>]
        /\ Proper(t[<<x, k>>]) /\ Proper(t[<<k, y>>]) =>
             u[<<x, y>>] <= Plus(t[<<x, k>>], t[<<k, y>>]) /\ u[<<x, y>>] # LT_INFINITY
        /\ \/ u[<<x, y>>] = t[<<x, y>>]
           \/ /\ Proper(t[<<x, k>>]) /\ Proper(t[<<k, y>>])
              /\ u[<<x, y>>] = Plus(t[<<x, k>>], t[<<k, y>>])
    BY <1>2, <1>3 DEF IsRelaxed
  <2>3. Proper(t[<<x, y>>]) => u[<<x, y>>] # LT_INFINITY
    BY <2>1, <2>2, EntryFacts
  <2> QED
    BY <2>1, <2>2, <2>3, EntryFacts
<1>7. ASSUME NEW x \in Clocks, NEW z \in Clocks \ References PROVE EndsIn(u, e, x, z)
  <2>1. EndsIn(t, e, x, z) /\ EndsIn(t, e, k, z)
    BY <1>1 DEF ThroughReferences
  <2>2. CASE u[<<x, z>>] = t[<<x, z>>]
    <3>1. CASE t[<<x, z>>] = e[<<x, z>>]
      BY <2>2, <3>1 DEF EndsIn
    <3>2. CASE t[<<x, z>>] # e[<<x, z>>]
      <4>1. PICK s \in References : /\ Proper(t[<<x, s>>]) /\ Proper(e[<<s, z>>])
                                    /\ Plus(t[<<x, s>>], e[<<s, z>>]) <= t[<<x, z>>]
        BY <2>1, <3>2 DEF EndsIn
      <4>2. s \in Clocks
        BY <1>1
      <4>3. Proper(u[<<x, s>>]) /\ u[<<x, s>>] <= t[<<x, s>>]
        BY <1>6, <4>1, <4>2
      <4>4. Plus(u[<<x, s>>], e[<<s, z>>]) <= Plus(t[<<x, s>>], e[<<s, z>>])
        <5>1. u[<<x, s>>] \in Int /\ t[<<x, s>>] \in Int /\ e[<<s, z>>] \in Int
          BY <1>6, <4>2
        <5>2. e[<<s, z>>] <= e[<<s, z>>]
          BY <5>1
        <5> QED
          BY <4>3, <5>1, <5>2, PlusMonotone
      <4>5. /\ Plus(u[<<x, s>>], e[<<s, z>>]) \in Int /\ Plus(t[<<x, s>>], e[<<s, z>>]) \in Int
            /\ t[<<x, z>>] \in Int
        BY <1>6, <4>2, PlusParts
      <4>6. Plus(u[<<x, s>>], e[<<s, z>>]) <= u[<<x, z>>]
        BY <2>2, <4>1, <4>4, <4>5
      <4> QED
        BY <4>1, <4>3, <4>6 DEF EndsIn
    <3> QED
      BY <3>1, <3>2
  <2>3. CASE u[<<x, z>>] # t[<<x, z>>]
    <3>1. /\ Proper(t[<<x, k>>]) /\ Proper(t[<<k, z>>])
          /\ u[<<x, z>>] = Plus(t[<<x, k>>], t[<<k, z>>])
      BY <1>6, <2>3
    <3> DEFINE a == t[<<x, k>>]
               b == t[<<k, z>>]
    <3>2. a \in Int /\ b \in Int /\ u[<<x, k>>] \in Int /\ u[<<x, k>>] <= a /\ Proper(u[<<x, k>>])
      BY <1>1, <1>6, <3>1
    <3>3. CASE b = e[<<k, z>>]
      <4>1. b <= b
        BY <3>2
      <4>2. Plus(u[<<x, k>>], e[<<k, z>>]) <= u[<<x, z>>]
        BY <3>1, <3>2, <3>3, <4>1, PlusMonotone
      <4> QED
        BY <3>1, <3>2, <3>3, <4>2 DEF EndsIn
    <3>4. CASE b # e[<<k, z>>]
      <4>1. PICK s \in References : /\ Proper(t[<<k, s>>]) /\ Proper(e[<<s, z>>])
                                    /\ Plus(t[<<k, s>>], e[<<s, z>>]) <= b
        BY <2>1, <3>4 DEF EndsIn
      <4> DEFINE c == t[<<k, s>>]
                 f == e[<<s, z>>]
                 g == u[<<x, s>>]
      <4>2. /\ c \in Int /\ f \in Int /\ g \in Int
            /\ g <= Plus(a, c) /\ Proper(g)
        BY <1>1, <1>6, <3>1, <4>1
      <4>3. u[<<x, z>>] = Plus(a, b)
        BY <3>1
      <4>4. Proper(f) /\ Plus(c, f) <= b
        BY <4>1
      <4> HIDE DEF a, b, c, f, g
      <4>5. Plus(g, f) <= Plus(Plus(a, c), f)
        <5>1. Plus(a, c) \in Int /\ f <= f
          BY <3>2, <4>2, PlusParts
        <5> QED
          BY <4>2, <5>1, PlusMonotone
      <4>6. Plus(Plus(a, c), f) = Plus(a, Plus(c, f))
        BY <3>2, <4>2, PlusAssociates
      <4>7. Plus(a, Plus(c, f)) <= Plus(a, b)
        <5>1. Plus(c, f) \in Int
          BY <4>2, PlusParts
        <5>2. a <= a
          BY <3>2
        <5> QED
          BY <3>2, <4>4, <5>1, <5>2, PlusMonotone
      <4>8. Plus(g, f) \in Int /\ Plus(a, Plus(c, f)) \in Int /\ Plus(a, b) \in Int
        <5>1. Plus(c, f) \in Int
          BY <4>2, PlusParts
        <5> QED
          BY <3>2, <4>2, <5>1, PlusParts
      <4>9. Plus(g, f) <= u[<<x, z>>]
        BY <4>3, <4>5, <4>6, <4>7, <4>8
      <4> QED
        BY <4>2, <4>4, <4>9 DEF EndsIn, f, g
    <3> QED
      BY <3>3, <3>4
  <2> QED
    BY <2>2, <2>3
<1>8. ASSUME NEW y \in Clocks, NEW z \in Clocks \ References PROVE StartsIn(u, e, z, y)
  <2>1. StartsIn(t, e, z, y) /\ StartsIn(t, e, z, k)
    BY <1>1 DEF ThroughReferences
  <2>2. CASE u[<<z, y>>] = t[<<z, y>>]
    <3>1. CASE t[<<z, y>>] = e[<<z, y>>]
      BY <2>2, <3>1 DEF StartsIn
    <3>2. CASE t[<<z, y>>] # e[<<z, y>>]
      <4>1. PICK s \in References : /\ Proper(e[<<z, s>>]) /\ Proper(t[<<s, y>>])
                                    /\ Plus(e[<<z, s>>], t[<<s, y>>]) <= t[<<z, y>>]
        BY <2>1, <3>2 DEF StartsIn
      <4>2. s \in Clocks
        BY <1>1
      <4>3. Proper(u[<<s, y>>]) /\ u[<<s, y>>] <= t[<<s, y>>]
        BY <1>6, <4>1, <4>2
      <4>4. Plus(e[<<z, s>>], u[<<s, y>>]) <= Plus(e[<<z, s>>], t[<<s, y>>])
        <5>1. u[<<s, y>>] \in Int /\ t[<<s, y>>] \in Int /\ e[<<z, s>>] \in Int
          BY <1>6, <4>2
        <5>2. e[<<z, s>>] <= e[<<z, s>>]
          BY <5>1
        <5> QED
          BY <4>3, <5>1, <5>2, PlusMonotone
      <4>5. /\ Plus(e[<<z, s>>], u[<<s, y>>]) \in Int /\ Plus(e[<<z, s>>], t[<<s, y>>]) \in Int
            /\ t[<<z, y>>] \in Int
        BY <1>6, <4>2, PlusParts
      <4>6. Plus(e[<<z, s>>], u[<<s, y>>]) <= u[<<z, y>>]
        BY <2>2, <4>1, <4>4, <4>5
      <4> QED
        BY <4>1, <4>3, <4>6 DEF StartsIn
    <3> QED
      BY <3>1, <3>2
  <2>3. CASE u[<<z, y>>] # t[<<z, y>>]
    <3>1. /\ Proper(t[<<z, k>>]) /\ Proper(t[<<k, y>>])
          /\ u[<<z, y>>] = Plus(t[<<z, k>>], t[<<k, y>>])
      BY <1>6, <2>3
    <3> DEFINE a == t[<<k, y>>]
               b == t[<<z, k>>]
    <3>2. a \in Int /\ b \in Int /\ u[<<k, y>>] \in Int /\ u[<<k, y>>] <= a /\ Proper(u[<<k, y>>])
      BY <1>1, <1>6, <3>1
    <3>3. CASE b = e[<<z, k>>]
      <4>1. b <= b
        BY <3>2
      <4>2. Plus(e[<<z, k>>], u[<<k, y>>]) <= u[<<z, y>>]
        BY <3>1, <3>2, <3>3, <4>1, PlusMonotone
      <4> QED
        BY <3>1, <3>2, <3>3, <4>2 DEF StartsIn
    <3>4. CASE b # e[<<z, k>>]
      <4>1. PICK s \in References : /\ Proper(e[<<z, s>>]) /\ Proper(t[<<s, k>>])
                                    /\ Plus(e[<<z, s>>], t[<<s, k>>]) <= b
        BY <2>1, <3>4 DEF StartsIn
      <4> DEFINE c == t[<<s, k>>]
                 f == e[<<z, s>>]
                 g == u[<<s, y>>]
      <4>2. /\ c \in Int /\ f \in Int /\ g \in Int
            /\ g <= Plus(c, a) /\ Proper(g)
        BY <1>1, <1>6, <3>1, <4>1
      <4>3. u[<<z, y>>] = Plus(b, a)
        BY <3>1
      <4>4. Proper(f) /\ Plus(f, c) <= b
        BY <4>1
      <4> HIDE DEF a, b, c, f, g
      <4>5. Plus(f, g) <= Plus(f, Plus(c, a))
        <5>1. Plus(c, a) \in Int /\ f <= f
          BY <3>2, <4>2, PlusParts
        <5> QED
          BY <4>2, <5>1, PlusMonotone
      <4>6. Plus(Plus(f, c), a) = Plus(f, Plus(c, a))
        BY <3>2, <4>2, PlusAssociates
      <4>7. Plus(Plus(f, c), a) <= Plus(b, a)
        <5>1. Plus(f, c) \in Int /\ a <= a
          BY <3>2, <4>2, PlusParts
        <5> QED
          BY <3>2, <4>4, <5>1, PlusMonotone
      <4>8. Plus(f, g) \in Int /\ Plus(Plus(f, c), a) \in Int /\ Plus(b, a) \in Int
        <5>1. Plus(f, c) \in Int
          BY <4>2, PlusParts
        <5> QED
          BY <3>2, <4>2, <5>1, PlusParts
      <4>9. Plus(f, g) <= u[<<z, y>>]
        BY <4>3, <4>5, <4>6, <4>7, <4>8
      <4> QED
        BY <4>2, <4>4, <4>9 DEF StartsIn, f, g
    <3> QED
      BY <3>3, <3>4
  <2> QED
    BY <2>2, <2>3
<1> QED
  BY <1>4, <1>7, <1>8 DEF ThroughReferences

\* In the end, a path through another clock has a reference clock on it, or was tight.
LEMMA SynchronizedTriangle ==
  ASSUME RefCountBounds, NEW m, Good(m), NEW e \in EntryMatrices, NEW u \in EntryMatrices,
         NoneOut(u), ThroughReferences(u, e),
         \A x, y \in Clocks : u[<<x, y>>] <= e[<<x, y>>] /\ e[<<x, y>>] <= m[<<x, y>>],
         \A x \in Clocks : \A z \in Clocks \ References :
           e[<<x, z>>] = m[<<x, z>>] /\ e[<<z, x>>] = m[<<z, x>>],
         \A x, y \in Clocks : \A s \in References : Triangle(u, x, s, y),
         NEW x \in Clocks, NEW z \in Clocks \ References, NEW y \in Clocks
  PROVE  Triangle(u, x, z, y)
<1>1. References \subseteq Clocks
  BY ReferenceFacts
<1>2. ASSUME NEW i \in Clocks, NEW j \in Clocks
      PROVE  /\ u[<<i, j>>] \in Int /\ e[<<i, j>>] \in Int /\ m[<<i, j>>] \in Int
             /\ u[<<i, j>>] <= m[<<i, j>>]
             /\ m[<<i, j>>] # LT_INFINITY => Proper(u[<<i, j>>])
  <2>1. /\ u[<<i, j>>] \in Entries /\ u[<<i, j>>] # OutOfBounds
        /\ u[<<i, j>>] \in Int /\ e[<<i, j>>] \in Int
        /\ m[<<i, j>>] \in Int /\ m[<<i, j>>] \in Entries
    BY GoodFacts, ClockFacts DEF NoneOut
  <2>2. u[<<i, j>>] <= e[<<i, j>>] /\ e[<<i, j>>] <= m[<<i, j>>]
    OBVIOUS
  <2>3. u[<<i, j>>] <= m[<<i, j>>]
    BY <2>1, <2>2
  <2> QED
    BY <2>1, <2>3, EntryFacts
<1>3. ASSUME NEW s \in Clocks, Proper(e[<<s, z>>]), Proper(u[<<z, y>>])
      PROVE  u[<<s, y>>] <= Plus(e[<<s, z>>], u[<<z, y>>]) /\ Proper(u[<<s, y>>])
  <2>1. e[<<s, z>>] = m[<<s, z>>] /\ StartsIn(u, e, z, y)
    BY DEF ThroughReferences
  <2>2. CASE u[<<z, y>>] = e[<<z, y>>]
    <3>1. e[<<z, y>>] = m[<<z, y>>] /\ Triangle(m, s, z, y)
      BY DEF Good, Tightly
    <3>2. m[<<s, y>>] <= Plus(e[<<s, z>>], u[<<z, y>>]) /\ m[<<s, y>>] # LT_INFINITY
      BY <1>3, <2>1, <2>2, <3>1 DEF Triangle
    <3>3. /\ u[<<s, y>>] \in Int /\ m[<<s, y>>] \in Int /\ u[<<s, y>>] <= m[<<s, y>>]
          /\ Proper(u[<<s, y>>]) /\ e[<<s, z>>] \in Int /\ u[<<z, y>>] \in Int
      BY <1>2, <3>2
    <3>4. Plus(e[<<s, z>>], u[<<z, y>>]) \in Int
      BY <3>3, PlusParts
    <3> QED
      BY <3>2, <3>3, <3>4
  <2>3. CASE u[<<z, y>>] # e[<<z, y>>]
    <3>1. PICK r \in References : /\ Proper(e[<<z, r>>]) /\ Proper(u[<<r, y>>])
                                  /\ Plus(e[<<z, r>>], u[<<r, y>>]) <= u[<<z, y>>]
      BY <2>1, <2>3 DEF StartsIn
    <3>2. r \in Clocks /\ e[<<z, r>>] = m[<<z, r>>] /\ Triangle(m, s, z, r)
          /\ Triangle(u, s, r, y)
      BY <1>1 DEF Good, Tightly
    <3> DEFINE a == e[<<s, z>>]
               b == e[<<z, r>>]
               c == u[<<r, y>>]
               f == u[<<s, r>>]
               g == u[<<z, y>>]
               h == u[<<s, y>>]
    <3>3. m[<<s, r>>] <= Plus(a, b) /\ m[<<s, r>>] # LT_INFINITY
      BY <1>3, <2>1, <3>1, <3>2 DEF Triangle
    <3>4. /\ a \in Int /\ b \in Int /\ c \in Int /\ f \in Int /\ g \in Int /\ h \in Int
          /\ m[<<s, r>>] \in Int /\ f <= m[<<s, r>>] /\ Proper(f)
      BY <1>2, <3>2, <3>3
    <3>5. h <= Plus(f, c) /\ h # LT_INFINITY
      BY <3>1, <3>2, <3>4 DEF Triangle
    <3>6. Proper(h)
      <4>1. h \in Entries /\ h # OutOfBounds
        BY ClockFacts DEF NoneOut
      <4> QED
        BY <3>5, <4>1, EntryFacts
    <3>7. Plus(b, c) <= g
      BY <3>1
    <3> HIDE DEF a, b, c, f, g, h
    <3>8. Plus(a, b) \in Int /\ Plus(b, c) \in Int /\ Plus(f, c) \in Int /\ Plus(a, g) \in Int
      BY <3>4, PlusParts
    <3>9. Plus(f, c) <= Plus(Plus(a, b), c)
      <4>1. f <= Plus(a, b) /\ c <= c
        BY <3>3, <3>4, <3>8
      <4> QED
        BY <3>4, <3>8, <4>1, PlusMonotone
    <3>10. Plus(Plus(a, b), c) = Plus(a, Plus(b, c))
      BY <3>4, PlusAssociates
    <3>11. Plus(a, Plus(b, c)) <= Plus(a, g)
      <4>1. a <= a
        BY <3>4
      <4> QED
        BY <3>4, <3>7, <3>8, <4>1, PlusMonotone
    <3>12. Plus(a, Plus(b, c)) \in Int
      BY <3>4, <3>8, PlusParts
    <3>13. h <= Plus(a, g)
      BY <3>4, <3>5, <3>8, <3>9, <3>10, <3>11, <3>12
    <3> QED
      BY <3>6, <3>13 DEF a, g, h
  <2> QED
    BY <2>2, <2>3
<1>4. SUFFICES ASSUME Proper(u[<<x, z>>]), Proper(u[<<z, y>>])
               PROVE  u[<<x, y>>] <= Plus(u[<<x, z>>], u[<<z, y>>]) /\ u[<<x, y>>] # LT_INFINITY
  BY DEF Triangle
<1>5. EndsIn(u, e, x, z)
  BY DEF ThroughReferences
<1>6. CASE u[<<x, z>>] = e[<<x, z>>]
  <2>1. Proper(e[<<x, z>>])
    BY <1>4, <1>6
  <2>2. /\ u[<<x, y>>] <= Plus(e[<<x, z>>], u[<<z, y>>])
        /\ Proper(u[<<x, y>>])
    BY <1>3, <1>4, <2>1
  <2>3. u[<<x, y>>] # LT_INFINITY
    BY <2>2 DEF Proper
  <2> QED
    BY <1>6, <2>2, <2>3
<1>7. CASE u[<<x, z>>] # e[<<x, z>>]
  <2>1. PICK s \in References : /\ Proper(u[<<x, s>>]) /\ Proper(e[<<s, z>>])
                                /\ Plus(u[<<x, s>>], e[<<s, z>>]) <= u[<<x, z>>]
    BY <1>5, <1>7 DEF EndsIn
  <2> DEFINE a == u[<<x, s>>]
             b == e[<<s, z>>]
             c == u[<<z, y>>]
             f == u[<<s, y>>]
             g == u[<<x, z>>]
             h == u[<<x, y>>]
  <2>2. s \in Clocks /\ Triangle(u, x, s, y)
    BY <1>1
  <2>3. f <= Plus(b, c) /\ Proper(f)
    BY <1>3, <1>4, <2>1, <2>2
  <2>4. h <= Plus(a, f) /\ h # LT_INFINITY
    BY <2>1, <2>2, <2>3 DEF Triangle
  <2>5. a \in Int /\ b \in Int /\ c \in Int /\ f \in Int /\ g \in Int /\ h \in Int
    BY <1>2, <2>2
  <2>6. Plus(a, b) <= g
    BY <2>1
  <2> HIDE DEF a, b, c, f, g, h
  <2>7. Plus(a, b) \in Int /\ Plus(b, c) \in Int /\ Plus(a, f) \in Int /\ Plus(g, c) \in Int
    BY <2>5, PlusParts
  <2>8. Plus(a, f) <= Plus(a, Plus(b, c))
    <3>1. a <= a
      BY <2>5
    <3> QED
      BY <2>3, <2>5, <2>7, <3>1, PlusMonotone
  <2>9. Plus(Plus(a, b), c) = Plus(a, Plus(b, c))
    BY <2>5, PlusAssociates
  <2>10. Plus(Plus(a, b), c) <= Plus(g, c)
    <3>1. c <= c
      BY <2>5
    <3> QED
      BY <2>5, <2>6, <2>7, <3>1, PlusMonotone
  <2>11. Plus(a, Plus(b, c)) \in Int
    BY <2>5, <2>7, PlusParts
  <2>12. h <= Plus(g, c)
    BY <2>4, <2>5, <2>7, <2>8, <2>9, <2>10, <2>11
  <2> QED
    BY <2>4, <2>12 DEF c, g, h
<1> QED
  BY <1>6, <1>7

\* The bounds that synchronization starts from.
LEMMA EquatedFacts ==
  ASSUME RefCountBounds, NEW m, Good(m)
  PROVE  LET e == Equated(m)
         IN /\ e \in EntryMatrices /\ IsConsistent(e) /\ NoneOut(e)
            /\ \A x, y \in Clocks :
                 /\ e[<<x, y>>] <= m[<<x, y>>]
                 /\ e[<<x, y>>] = IF x \in References /\ y \in References \cap {x - 1, x + 1}
                                  THEN Min(m[<<x, y>>], LE_ZERO) ELSE m[<<x, y>>]
<1> DEFINE e == Equated(m)
<1>1. ASSUME NEW x \in Clocks, NEW y \in Clocks
      PROVE  /\ e[<<x, y>>] = IF x \in References /\ y \in References \cap {x - 1, x + 1}
                              THEN Min(m[<<x, y>>], LE_ZERO) ELSE m[<<x, y>>]
             /\ e[<<x, y>>] \in Entries /\ e[<<x, y>>] # OutOfBounds
             /\ e[<<x, y>>] <= m[<<x, y>>]
             /\ x = y => e[<<x, y>>] = m[<<x, y>>]
  <2>1. e[<<x, y>>] = IF x \in References /\ y \in References \cap {x - 1, x + 1}
                      THEN Min(m[<<x, y>>], LE_ZERO) ELSE m[<<x, y>>]
    BY DEF Equated
  <2>2. /\ m[<<x, y>>] \in Entries /\ m[<<x, y>>] # OutOfBounds /\ m[<<x, y>>] \in Int
        /\ LE_ZERO \in Entries /\ LE_ZERO # OutOfBounds /\ LE_ZERO \in Int
    BY GoodFacts, EntryFacts
  <2>3. /\ Min(m[<<x, y>>], LE_ZERO) \in {m[<<x, y>>], LE_ZERO}
        /\ Min(m[<<x, y>>], LE_ZERO) <= m[<<x, y>>] /\ m[<<x, y>>] <= m[<<x, y>>]
    BY <2>2, MinFacts
  <2>4. x = y => y \notin {x - 1, x + 1}
    BY ClockFacts
  <2> HIDE DEF e
  <2> QED
    BY <2>1, <2>2, <2>3, <2>4
<1>2. e \in EntryMatrices
  <2>1. e = [p \in Clocks \X Clocks |-> e[p]]
    BY DEF Equated
  <2> HIDE DEF e
  <2>2. \A p \in Clocks \X Clocks : e[p] \in Entries
    BY <1>1
  <2> QED
    BY <2>1, <2>2 DEF EntryMatrices
<1> HIDE DEF e
<1>3. IsConsistent(e)
  BY <1>1, GoodFacts DEF IsConsistent
<1> QED
  BY <1>1, <1>2, <1>3 DEF NoneOut, e

\* synchronize stops, or the bounds are those of the paths, all of them, although it
\* tightens through the reference clocks only.
LEMMA SynchronizeOutcome ==
  ASSUME RefCountBounds, NEW m, Good(m)
  PROVE  \/ Synchronize(m) \in {Thrown, Empty}
         \/ /\ Good(Synchronize(m))
            /\ \A x, y \in Clocks : Synchronize(m)[<<x, y>>] <= Equated(m)[<<x, y>>]
<1> DEFINE e == Equated(m)
<1>1. /\ e \in EntryMatrices /\ IsConsistent(e) /\ NoneOut(e)
      /\ \A x, y \in Clocks :
           /\ e[<<x, y>>] <= m[<<x, y>>]
           /\ e[<<x, y>>] = IF x \in References /\ y \in References \cap {x - 1, x + 1}
                            THEN Min(m[<<x, y>>], LE_ZERO) ELSE m[<<x, y>>]
  BY EquatedFacts
<1>2. Synchronize(m) = TightenThrough(e, RefCount)
  BY DEF Synchronize, Equated
<1> HIDE DEF e
<1>3. PICK tight \in [0 .. RefCount -> EntryMatrices] : IsThroughLoop(tight, e, RefCount)
  BY <1>1, ReferenceFacts, ThroughLoop
<1> DEFINE Kept(t, n) == IsTightened(t, e, n) /\ NoneOut(t) /\ ThroughReferences(t, e)
           S == {n \in 0 .. RefCount : tight[n] \in {Thrown, Empty} \/ Kept(tight[n], n)}
<1>4. 0 \in S
  <2>1. \A k \in Clocks : ~ (k < 0)
    BY ClockFacts
  <2>2. \A x, y \in Clocks : e[<<x, y>>] <= e[<<x, y>>]
    <3>1. \A b \in Int : b <= b
      OBVIOUS
    <3> QED
      BY <1>1, <3>1, ClockFacts
  <2>3. IsTightened(e, e, 0)
    BY <1>1, <2>1, <2>2 DEF IsTightened, TightBefore
  <2>4. ThroughReferences(e, e)
    BY DEF ThroughReferences, EndsIn, StartsIn
  <2>5. 0 \in 0 .. RefCount
    BY ReferenceFacts
  <2> QED
    BY <1>1, <1>3, <2>3, <2>4, <2>5 DEF IsThroughLoop
<1>5. ASSUME NEW n \in 0 .. RefCount - 1, n \in S PROVE n + 1 \in S
  <2>1. n \in Clocks /\ n + 1 \in 0 .. RefCount /\ n \in References
    BY ReferenceFacts DEF References
  <2>2. tight[n + 1] = TightenVia(tight[n], n)
    BY <1>3, <2>1 DEF IsThroughLoop
  <2>3. CASE tight[n] \in {Thrown, Empty}
    <3>1. tight[n + 1] = tight[n]
      BY <2>1, <2>2, <2>3, ViaStopped
    <3> QED
      BY <2>1, <2>3, <3>1
  <2>4. CASE Kept(tight[n], n)
    <3> DEFINE t == tight[n]
               u == tight[n + 1]
    <3>1. t \in EntryMatrices /\ IsConsistent(t)
      BY <2>4 DEF IsTightened
    <3>2. u \in {Thrown, Empty} \/ (IsVia(u, t, n, Dim) /\ IsTightened(u, e, n + 1))
      <4>1. u \in {Thrown, Empty} \/ IsVia(u, t, n, Dim)
        BY <2>1, <2>2, <3>1, ViaFacts
      <4>2. u \in {Thrown, Empty} \/ IsTightened(u, e, n + 1)
        BY <1>1, <2>1, <2>2, <2>4, ViaTightens
      <4> QED
        BY <4>1, <4>2
    <3>3. ASSUME IsVia(u, t, n, Dim), IsTightened(u, e, n + 1)
          PROVE  NoneOut(u) /\ ThroughReferences(u, e)
      BY <1>1, <2>1, <2>4, <3>1, <3>3, ViaReference
    <3> QED
      BY <2>1, <3>2, <3>3
  <2> QED
    BY <1>5, <2>3, <2>4
<1> HIDE DEF S
<1>6. \A n \in 0 .. RefCount : n \in S
  <2>1. RefCount \in Nat
    BY ReferenceFacts
  <2> QED
    BY <1>4, <1>5, <2>1, CountingTo
<1> DEFINE u == Synchronize(m)
<1>7. u \in {Thrown, Empty} \/ Kept(u, RefCount)
  <2>1. RefCount \in S /\ tight[RefCount] = u
    BY <1>2, <1>3, <1>6, ReferenceFacts DEF IsThroughLoop
  <2> QED
    BY <2>1 DEF S
<1> HIDE DEF u
<1>8. ASSUME Kept(u, RefCount)
      PROVE  Good(u) /\ \A x, y \in Clocks : u[<<x, y>>] <= e[<<x, y>>]
  <2>1. /\ u \in EntryMatrices /\ IsConsistent(u) /\ NoneOut(u) /\ ThroughReferences(u, e)
        /\ \A x, y \in Clocks : u[<<x, y>>] <= e[<<x, y>>]
        /\ \A x, k, y \in Clocks : k < RefCount => Triangle(u, x, k, y)
    BY <1>8 DEF IsTightened, TightBefore
  <2>2. \A x, y \in Clocks : \A s \in References : Triangle(u, x, s, y)
    BY <2>1, ReferenceFacts
  <2>3. \A x \in Clocks : \A z \in Clocks \ References :
          e[<<x, z>>] = m[<<x, z>>] /\ e[<<z, x>>] = m[<<z, x>>]
    BY <1>1
  <2>4. \A x, y \in Clocks : \A z \in Clocks \ References : Triangle(u, x, z, y)
    BY <1>1, <2>1, <2>2, <2>3, SynchronizedTriangle
  <2>5. Tightly(u)
    BY <2>2, <2>4 DEF Tightly
  <2>6. u \in Matrices
    <3>1. \A x, y \in Clocks : u[<<x, y>>] \in Entries /\ u[<<x, y>>] # OutOfBounds
      BY <2>1, ClockFacts DEF NoneOut
    <3> QED
      BY <2>1, <3>1 DEF EntryMatrices, Matrices, Entries
  <2> QED
    BY <2>1, <2>5, <2>6 DEF Good
<1> QED
  BY <1>7, <1>8 DEF u, e


\* What fits the bounds that synchronization starts from is what fits those of the zone, when
\* the reference clocks have the same value.
LEMMA EquatedAdmits ==
  ASSUME RefCountBounds, NEW m, Good(m), NEW v \in Values
  PROVE  Admits(v, Equated(m)) <=>
           Admits(v, m) /\ \A r \in References \ {RefCount - 1} : v[r] = v[r + 1]
<1> DEFINE e == Equated(m)
<1>1. /\ e \in EntryMatrices /\ NoneOut(e)
      /\ \A x, y \in Clocks :
           /\ e[<<x, y>>] <= m[<<x, y>>]
           /\ e[<<x, y>>] = IF x \in References /\ y \in References \cap {x - 1, x + 1}
                            THEN Min(m[<<x, y>>], LE_ZERO) ELSE m[<<x, y>>]
  BY EquatedFacts
<1> HIDE DEF e
<1>2. m \in EntryMatrices
  BY GoodFacts
<1>3. \A x, y \in Clocks : v[x] \in Int /\ (Sat(v, x, y, LE_ZERO) <=> v[x] <= v[y])
  <2>1. Value(LE_ZERO) = 0 /\ Comparator(LE_ZERO) = LE /\ LE # LT /\ 0 * Unit = 0
    BY EntryFacts, UnitFacts DEF LE_ZERO, LE, LT, Value, Comparator
  <2>2. \A x \in Clocks : v[x] \in Int
    BY DEF Values
  <2> QED
    BY <2>1, <2>2 DEF Sat, Satisfies
<1>4. ASSUME Admits(v, e), NEW r \in References \ {RefCount - 1} PROVE v[r] = v[r + 1]
  <2>1. /\ r \in References /\ r + 1 \in References /\ r \in Clocks /\ r + 1 \in Clocks
        /\ r \in {(r + 1) - 1, (r + 1) + 1} /\ r + 1 \in {r - 1, r + 1}
    BY ReferenceFacts, ClockFacts DEF References
  <2>2. ASSUME NEW x \in Clocks, NEW y \in Clocks, x \in References,
               y \in References \cap {x - 1, x + 1}
        PROVE  v[x] <= v[y]
    <3>1. e[<<x, y>>] = Min(m[<<x, y>>], LE_ZERO)
      BY <1>1, <2>2
    <3>2. /\ m[<<x, y>>] \in Int /\ e[<<x, y>>] \in Entries /\ e[<<x, y>>] \in Int
          /\ LE_ZERO \in Entries /\ LE_ZERO \in Int /\ LE_ZERO < LT_INFINITY
          /\ LT_INFINITY \in Int
      BY <1>1, GoodFacts, EntryFacts, ClockFacts
    <3>3. e[<<x, y>>] <= LE_ZERO
      BY <3>1, <3>2, MinFacts
    <3>4. e[<<x, y>>] \notin {LT_INFINITY, OutOfBounds}
      BY <1>1, <3>2, <3>3 DEF NoneOut
    <3>5. Sat(v, x, y, e[<<x, y>>])
      BY <1>4, <3>4 DEF Admits, Fits
    <3>6. Sat(v, x, y, LE_ZERO)
      BY <3>2, <3>3, <3>4, <3>5, SatMonotone, EntryFacts
    <3> QED
      BY <1>3, <3>6
  <2>3. v[r] <= v[r + 1] /\ v[r + 1] <= v[r]
    BY <2>1, <2>2
  <2> QED
    BY <1>3, <2>1, <2>3
<1>5. Admits(v, e) => Admits(v, m)
  BY <1>1, <1>2, AdmitsMonotone DEF NoneOut
<1>6. ASSUME Admits(v, m), \A r \in References \ {RefCount - 1} : v[r] = v[r + 1],
             NEW x \in Clocks, NEW y \in Clocks
      PROVE  Fits(v, x, y, e[<<x, y>>])
  <2>1. Fits(v, x, y, m[<<x, y>>])
    BY <1>6 DEF Admits
  <2>2. CASE x \in References /\ y \in References \cap {x - 1, x + 1}
    <3>1. v[x] = v[y]
      <4>1. x \in 0 .. RefCount - 1 /\ y \in 0 .. RefCount - 1 /\ (y = x + 1 \/ x = y + 1)
            /\ RefCount \in Nat
        BY <2>2, ReferenceFacts DEF References
      <4>2. CASE y = x + 1
        BY <1>6, <4>1, <4>2 DEF References
      <4>3. CASE x = y + 1
        BY <1>6, <4>1, <4>3 DEF References
      <4> QED
        BY <4>1, <4>2, <4>3
    <3>2. Sat(v, x, y, LE_ZERO)
      BY <1>3, <3>1
    <3>3. e[<<x, y>>] \in {m[<<x, y>>], LE_ZERO}
      BY <1>1, <2>2 DEF Min
    <3> QED
      BY <2>1, <3>2, <3>3 DEF Fits
  <2>3. CASE ~ (x \in References /\ y \in References \cap {x - 1, x + 1})
    BY <1>1, <2>1, <2>3
  <2> QED
    BY <2>2, <2>3
<1> QED
  BY <1>4, <1>5, <1>6 DEF Admits, e

\* Reference clocks of a zone that is tight, no more than 0 apart in both directions, are
\* equal.
LEMMA NoneApart ==
  ASSUME NEW a \in Int, NEW b \in Int, a <= LE_ZERO, b <= LE_ZERO, LE_ZERO <= Plus(a, b)
  PROVE  a = LE_ZERO
<1>1. /\ Value(a) \in Int /\ Comparator(a) \in {0, 1} /\ a = 2 * Value(a) + Comparator(a)
      /\ Value(b) \in Int /\ Comparator(b) \in {0, 1} /\ b = 2 * Value(b) + Comparator(b)
  BY Parts
<1> DEFINE va == Value(a)
           ca == Comparator(a)
           vb == Value(b)
           cb == Comparator(b)
<1>2. Plus(a, b) = 2 * (va + vb) + ca * cb
  BY DEF Plus
<1>3. ca * cb \in {0, 1} /\ (ca = 0 => ca * cb = 0)
  <2> HIDE DEF ca, cb
  <2>1. ca \in {0, 1} /\ cb \in {0, 1}
    BY <1>1 DEF ca, cb
  <2>2. (ca = 0 \/ ca = 1) /\ (cb = 0 \/ cb = 1)
    BY <2>1
  <2>3. 0 * cb = 0 /\ 1 * cb = cb
    BY <2>1
  <2> QED
    BY <2>2, <2>3
<1>4. LE_ZERO = 1
  BY DEF LE_ZERO, LE
<1> DEFINE q == ca * cb
<1>5. /\ va \in Int /\ ca \in {0, 1} /\ a = 2 * va + ca
      /\ vb \in Int /\ cb \in {0, 1} /\ b = 2 * vb + cb
      /\ q \in {0, 1} /\ (ca = 0 => q = 0) /\ 1 <= 2 * (va + vb) + q /\ a <= 1 /\ b <= 1
  BY <1>1, <1>2, <1>3, <1>4
<1> HIDE DEF va, ca, vb, cb, q
<1> QED
  BY <1>4, <1>5

\* synchronize: unless a bound is out of bounds, it leaves the empty zone or a zone that can
\* be computed with, tight as its assertions say, although it tightens through the reference
\* clocks only; and the valuations are those of the offset zone that give the same value to
\* all the reference clocks.  This is for every number of processes and of clocks.
THEOREM SynchronizeCorrect ==
  ASSUME RefCountBounds, NEW m, Good(m), Synchronize(m) # Thrown
  PROVE  LET sync == Synchronize(m)
         IN /\ sync = Empty \/ ( /\ Good(sync) /\ IsConsistent(sync) /\ IsTight(sync)
                                 /\ IsSynchronized(sync) )
            /\ \A v \in Values :
                 InZone(v, sync) <=>
                   InZone(v, m) /\ \A r \in References \ {RefCount - 1} : v[r] = v[r + 1]
<1> DEFINE e == Equated(m)
           u == Synchronize(m)
<1>1. /\ e \in EntryMatrices /\ IsConsistent(e) /\ NoneOut(e)
      /\ \A x, y \in Clocks :
           /\ e[<<x, y>>] <= m[<<x, y>>]
           /\ e[<<x, y>>] = IF x \in References /\ y \in References \cap {x - 1, x + 1}
                            THEN Min(m[<<x, y>>], LE_ZERO) ELSE m[<<x, y>>]
  BY EquatedFacts
<1>2. u = TightenThrough(e, RefCount)
  BY DEF Synchronize, Equated
<1>3. u = Empty \/ (Good(u) /\ \A x, y \in Clocks : u[<<x, y>>] <= e[<<x, y>>])
  BY SynchronizeOutcome
<1> HIDE DEF e, u
<1>4. IsOutcome(u) /\ u # Thrown
  BY <1>3, OutcomesStopped, GoodFacts DEF IsOutcome, Good, u
<1>5. ASSUME Good(u), \A x, y \in Clocks : u[<<x, y>>] <= e[<<x, y>>] PROVE IsSynchronized(u)
  <2> SUFFICES ASSUME NEW r \in References \ {RefCount - 1}
               PROVE  u[<<r, r + 1>>] = LE_ZERO /\ u[<<r + 1, r>>] = LE_ZERO
    BY DEF IsSynchronized
  <2>1. /\ r \in References /\ r + 1 \in References /\ r \in Clocks /\ r + 1 \in Clocks
        /\ r \in {(r + 1) - 1, (r + 1) + 1} /\ r + 1 \in {r - 1, r + 1}
    BY ReferenceFacts, ClockFacts DEF References
  <2>2. ASSUME NEW x \in Clocks, NEW y \in Clocks, x \in References,
               y \in References \cap {x - 1, x + 1}
        PROVE  u[<<x, y>>] \in Int /\ u[<<x, y>>] <= LE_ZERO /\ Proper(u[<<x, y>>])
    <3>1. u[<<x, y>>] <= e[<<x, y>>] /\ e[<<x, y>>] = Min(m[<<x, y>>], LE_ZERO)
      BY <1>1, <1>5, <2>2
    <3>2. /\ m[<<x, y>>] \in Int /\ u[<<x, y>>] \in Int /\ u[<<x, y>>] \in Entries
          /\ u[<<x, y>>] # OutOfBounds
      BY <1>5, GoodFacts
    <3>3. LE_ZERO \in Int /\ LE_ZERO < LT_INFINITY /\ LT_INFINITY \in Int
      BY EntryFacts
    <3>4. e[<<x, y>>] \in Int /\ e[<<x, y>>] <= LE_ZERO
      BY <3>1, <3>2, <3>3, MinFacts
    <3> QED
      BY <3>1, <3>2, <3>3, <3>4 DEF Proper
  <2>3. ASSUME NEW x \in Clocks, NEW y \in Clocks, x \in References, y \in References,
               x \in {y - 1, y + 1}, y \in {x - 1, x + 1}
        PROVE  u[<<x, y>>] = LE_ZERO
    <3>1. /\ u[<<x, y>>] \in Int /\ u[<<x, y>>] <= LE_ZERO /\ Proper(u[<<x, y>>])
          /\ u[<<y, x>>] \in Int /\ u[<<y, x>>] <= LE_ZERO /\ Proper(u[<<y, x>>])
      BY <2>2, <2>3
    <3>2. Triangle(u, x, y, x) /\ u[<<x, x>>] = LE_ZERO
      BY <1>5 DEF Good, Tightly, IsConsistent
    <3>3. LE_ZERO <= Plus(u[<<x, y>>], u[<<y, x>>])
      BY <3>1, <3>2 DEF Triangle
    <3> QED
      BY <3>1, <3>3, NoneApart
  <2> QED
    BY <2>1, <2>3
<1>6. ASSUME NEW v \in Values
      PROVE  InZone(v, u) <=>
               InZone(v, m) /\ \A r \in References \ {RefCount - 1} : v[r] = v[r + 1]
  <2>1. InZone(v, m) <=> Admits(v, m)
    BY ZoneAdmits
  <2>2. Admits(v, e) <=> Admits(v, m) /\ \A r \in References \ {RefCount - 1} : v[r] = v[r + 1]
    BY EquatedAdmits DEF e
  <2>3. ASSUME Admits(v, e) PROVE InZone(v, u)
    <3>1. Admits(v, u)
      BY <1>1, <1>2, <2>3, ReferenceFacts, ThroughAdmits
    <3> QED
      BY <1>4, <3>1, AdmittedIsInZone
  <2>4. ASSUME InZone(v, u) PROVE Admits(v, e)
    <3>1. u # Empty
      <4>1. IsEmpty0(Empty)
        BY ClockFacts DEF IsEmpty0, Empty, LT_ZERO, LE_ZERO, LT, LE
      <4> QED
        BY <2>4, <4>1 DEF InZone
    <3>2. Good(u) /\ \A x, y \in Clocks : u[<<x, y>>] <= e[<<x, y>>]
      BY <1>3, <3>1
    <3>3. Admits(v, u)
      BY <2>4, <3>2, ZoneAdmits
    <3>4. u \in EntryMatrices /\ \A x, y \in Clocks : u[<<x, y>>] # OutOfBounds
      BY <3>2, GoodFacts
    <3> QED
      BY <1>1, <3>2, <3>3, <3>4, AdmitsMonotone
  <2> QED
    BY <2>1, <2>2, <2>3, <2>4
<1> QED
  BY <1>3, <1>5, <1>6, GoodIsTight DEF u
-----------------------------------------------------------------------------
(* The steps of the asynchronous semantics. *)

\* The reference clocks of the clocks: a reference clock is its own.
RefMaps == {f \in [Clocks -> References] : \A r \in References : f[r] = r}

\* What the functions of the semantics are given: constraints, and resets that have been
\* translated, to the reference clocks.
DbmConstraints == [x : Clocks, y : Clocks, cmp : {LT, LE}, c : Int]
OffsetResets(refmap) == {r \in [x : Clocks, y : Clocks, c : {0}] : r.y = refmap[r.x]}

SatisfiesAll(v, constraints) ==
  \A i \in 1 .. Len(constraints) :
    LET k == constraints[i] IN Satisfies(v, k.x, k.y, k.cmp, k.c)

Outcomes == {u \in Matrices \cup {Thrown} : IsOutcome(u)}

\* An outcome is a zone to compute with, or tells that there is nothing to compute.
LEMMA OutcomesCases ==
  ASSUME NEW u \in Outcomes
  PROVE  /\ IsOutcome(u)
         /\ IsEmpty0(u) \/ (Good(u) /\ IsZone(u) /\ u # Thrown)
<1>1. IsOutcome(u)
  BY DEF Outcomes
<1>2. IsEmpty0(Thrown)
  <2>1. Thrown[<<0, 0>>] = OutOfBounds
    BY ClockFacts DEF Thrown
  <2> QED
    BY <2>1, EntryFacts DEF IsEmpty0
<1> QED
  BY <1>1, <1>2 DEF IsOutcome, IsZone

\* The loop of details::constrain.
IsConstrainLoop(zones, m, constraints) ==
  /\ ConstrainAll(m, constraints) = zones[Len(constraints)] /\ zones[0] = m
  /\ \A n \in 0 .. Len(constraints) - 1 :
       zones[n + 1] = IF IsEmpty0(zones[n]) THEN zones[n]
                      ELSE Constrain(zones[n], constraints[n + 1].x, constraints[n + 1].y,
                                     constraints[n + 1].cmp, constraints[n + 1].c)

\* The matrices of the loop, up to the result.
LEMMA ConstrainLoop ==
  ASSUME NEW m \in Outcomes, NEW constraints \in Seq(DbmConstraints)
  PROVE  \E zones \in [0 .. Len(constraints) -> Outcomes] :
           IsConstrainLoop(zones, m, constraints)
<1> DEFINE N == Len(constraints)
           G(n, z) == IF IsEmpty0(z) THEN z
                      ELSE Constrain(z, constraints[n].x, constraints[n].y,
                                     constraints[n].cmp, constraints[n].c)
           F == [p \in Nat \X Outcomes |-> IF p[1] < N THEN G(p[1] + 1, p[2]) ELSE p[2]]
           zones[n \in 0 .. N] == IF n = 0 THEN m ELSE G(n, zones[n - 1])
<1>1. ConstrainAll(m, constraints) = zones[N]
  BY DEF ConstrainAll
<1>2. N \in Nat /\ \A n \in 1 .. N : constraints[n] \in DbmConstraints
  OBVIOUS
<1>3. m \in Outcomes
  OBVIOUS
<1>4. ASSUME NEW n \in 1 .. N, NEW z \in Outcomes PROVE G(n, z) \in Outcomes
  <2>1. CASE IsEmpty0(z)
    BY <2>1
  <2>2. CASE ~ IsEmpty0(z)
    <3>1. Good(z)
      BY <2>2, OutcomesCases
    <3>2. /\ constraints[n].x \in Clocks /\ constraints[n].y \in Clocks
          /\ constraints[n].cmp \in {LT, LE} /\ constraints[n].c \in Int
      BY <1>2 DEF DbmConstraints
    <3>3. IsOutcome(G(n, z))
      BY <2>2, <3>1, <3>2, ConstrainOutcome
    <3> QED
      BY <3>3 DEF Outcomes, IsOutcome
  <2> QED
    BY <2>1, <2>2
<1> HIDE DEF G
<1>5. F \in [Nat \X Outcomes -> Outcomes]
  <2>1. ASSUME NEW p \in Nat \X Outcomes
        PROVE  (IF p[1] < N THEN G(p[1] + 1, p[2]) ELSE p[2]) \in Outcomes
    <3>1. p[1] \in Nat /\ p[2] \in Outcomes
      OBVIOUS
    <3>2. p[1] < N => p[1] + 1 \in 1 .. N
      BY <1>2, <3>1
    <3> QED
      BY <1>4, <3>1, <3>2
  <2> QED
    BY <2>1
<1>6. PICK f \in [0 .. N -> Outcomes] : IsLoop(f, F, m, N)
  <2> HIDE DEF F
  <2> QED
    BY <1>2, <1>3, <1>5, Loop, Zenon
<1>7. f = [n \in 0 .. N |-> IF n = 0 THEN m ELSE G(n, f[n - 1])]
  <2>1. ASSUME NEW n \in 0 .. N, n # 0 PROVE F[<<n - 1, f[n - 1]>>] = G(n, f[n - 1])
    <3>1. n - 1 \in Nat /\ n - 1 \in 0 .. N /\ n - 1 < N /\ (n - 1) + 1 = n
      BY <1>2, <2>1
    <3>2. <<n - 1, f[n - 1]>> \in Nat \X Outcomes
      BY <1>6, <3>1
    <3> QED
      BY <3>1, <3>2
  <2> HIDE DEF F
  <2> QED
    BY <1>6, <2>1 DEF IsLoop
<1>8. zones = [n \in 0 .. N |-> IF n = 0 THEN m ELSE G(n, zones[n - 1])]
  BY <1>7, Zenon DEF zones
<1> HIDE DEF zones, F
<1>9. zones[0] = m /\ \A n \in 0 .. N - 1 : zones[n + 1] = G(n + 1, zones[n])
  <2>1. \A n \in 0 .. N - 1 : n + 1 \in 0 .. N /\ n + 1 # 0 /\ (n + 1) - 1 = n
    BY <1>2
  <2>2. 0 \in 0 .. N
    BY <1>2
  <2> QED
    BY <1>8, <2>1, <2>2
<1>10. \A n \in 0 .. N : zones[n] \in Outcomes
  <2> DEFINE S == {n \in 0 .. N : zones[n] \in Outcomes}
  <2>1. 0 \in S
    BY <1>2, <1>3, <1>9
  <2>2. \A n \in 0 .. N - 1 : n \in S => n + 1 \in S
    <3> SUFFICES ASSUME NEW n \in 0 .. N - 1, n \in S PROVE n + 1 \in S
      OBVIOUS
    <3>1. n + 1 \in 0 .. N /\ n + 1 \in 1 .. N
      BY <1>2
    <3> QED
      BY <1>4, <1>9, <3>1
  <2> HIDE DEF S
  <2>3. \A n \in 0 .. N : n \in S
    BY <1>2, <2>1, <2>2, CountingTo
  <2> QED
    BY <2>3 DEF S
<1>11. zones \in [0 .. N -> Outcomes]
  BY <1>8, <1>10
<1> QED
  BY <1>1, <1>9, <1>11 DEF IsConstrainLoop, G

\* details::constrain keeps exactly the valuations that satisfy all the constraints, and its
\* bounds only decrease.
LEMMA ConstrainAllFacts ==
  ASSUME NEW m \in Outcomes, NEW constraints \in Seq(DbmConstraints),
         NEW u, u = ConstrainAll(m, constraints)
  PROVE  /\ u \in Outcomes
         /\ IsZone(u) => \A i, j \in Clocks : u[<<i, j>>] <= m[<<i, j>>]
         /\ u # Thrown => \A v \in Values :
                            InZone(v, u) <=> InZone(v, m) /\ SatisfiesAll(v, constraints)
<1> DEFINE N == Len(constraints)
<1>1. N \in Nat /\ \A n \in 1 .. N : constraints[n] \in DbmConstraints
  OBVIOUS
<1>2. PICK zones \in [0 .. N -> Outcomes] : IsConstrainLoop(zones, m, constraints)
  BY ConstrainLoop
<1> DEFINE Holds(v, i) == Satisfies(v, constraints[i].x, constraints[i].y, constraints[i].cmp,
                                    constraints[i].c)
           Kept(z, n) ==
             /\ IsZone(z) => \A i, j \in Clocks : z[<<i, j>>] <= m[<<i, j>>]
             /\ z # Thrown => \A v \in Values :
                                InZone(v, z) <=> InZone(v, m) /\ \A i \in 1 .. n : Holds(v, i)
           S == {n \in 0 .. N : Kept(zones[n], n)}
<1>3. 0 \in S
  <2>1. zones[0] = m /\ 0 \in 0 .. N /\ 1 .. 0 = {}
    BY <1>1, <1>2 DEF IsConstrainLoop
  <2>2. IsZone(m) => \A i, j \in Clocks : m[<<i, j>>] <= m[<<i, j>>]
    <3>1. \A b \in Int : b <= b
      OBVIOUS
    <3>2. IsZone(m) => Good(m)
      BY OutcomesCases DEF IsOutcome
    <3> QED
      BY <3>1, <3>2, GoodFacts
  <2> HIDE DEF Holds
  <2> QED
    BY <2>1, <2>2
<1>4. ASSUME NEW n \in 0 .. N - 1, n \in S PROVE n + 1 \in S
  <2> DEFINE z == zones[n]
             t == zones[n + 1]
             k == constraints[n + 1]
  <2>1. n \in 0 .. N /\ n + 1 \in 0 .. N /\ n + 1 \in 1 .. N /\ Kept(z, n)
        /\ 1 .. n + 1 = (1 .. n) \cup {n + 1}
    BY <1>1, <1>4
  <2>2. t = IF IsEmpty0(z) THEN z ELSE Constrain(z, k.x, k.y, k.cmp, k.c)
    BY <1>2 DEF IsConstrainLoop
  <2>3. z \in Outcomes
    BY <1>2, <2>1
  <2>4. CASE IsEmpty0(z)
    <3>1. t = z /\ ~ IsZone(z) /\ \A v : ~ InZone(v, z)
      BY <2>2, <2>4 DEF IsZone, InZone
    <3> HIDE DEF Holds
    <3> QED
      BY <2>1, <3>1
  <2>5. CASE ~ IsEmpty0(z)
    <3>1. Good(z) /\ IsZone(z) /\ z # Thrown
      BY <2>3, <2>5, OutcomesCases
    <3>2. t = Constrain(z, k.x, k.y, k.cmp, k.c)
      BY <2>2, <2>5
    <3>3. k.x \in Clocks /\ k.y \in Clocks /\ k.cmp \in {LT, LE} /\ k.c \in Int
      BY <1>1, <2>1 DEF DbmConstraints
    <3> HIDE DEF k, t, z
    <3>4. IsOutcome(t) /\ (IsZone(t) => \A i, j \in Clocks : t[<<i, j>>] <= z[<<i, j>>])
      BY <3>1, <3>2, <3>3, ConstrainOutcome
    <3>5. ASSUME IsZone(t), NEW i \in Clocks, NEW j \in Clocks
          PROVE  t[<<i, j>>] <= m[<<i, j>>]
      <4>1. Good(t)
        BY <3>4, <3>5 DEF IsOutcome
      <4>2. t[<<i, j>>] \in Int /\ z[<<i, j>>] \in Int /\ m[<<i, j>>] \in Int
        <5>1. m \in EntryMatrices
          BY OutcomeFacts DEF Outcomes, Matrices, EntryMatrices, Entries
        <5> QED
          BY <3>1, <4>1, <5>1, GoodFacts, ClockFacts
      <4>3. t[<<i, j>>] <= z[<<i, j>>] /\ z[<<i, j>>] <= m[<<i, j>>]
        BY <2>1, <3>1, <3>4, <3>5
      <4> QED
        BY <4>2, <4>3
    <3>6. ASSUME t # Thrown, NEW v \in Values
          PROVE  InZone(v, t) <=> InZone(v, m) /\ \A i \in 1 .. n + 1 : Holds(v, i)
      <4>1. InZone(v, t) <=> InZone(v, z) /\ Satisfies(v, k.x, k.y, k.cmp, k.c)
        BY <3>1, <3>2, <3>3, <3>6, ConstrainValuations
      <4>2. Holds(v, n + 1) <=> Satisfies(v, k.x, k.y, k.cmp, k.c)
        BY DEF k
      <4>3. InZone(v, z) <=> InZone(v, m) /\ \A i \in 1 .. n : Holds(v, i)
        BY <2>1, <3>1
      <4> HIDE DEF Holds
      <4> QED
        BY <2>1, <4>1, <4>2, <4>3
    <3>7. Kept(t, n + 1)
      BY <3>5, <3>6
    <3> HIDE DEF Kept
    <3> QED
      BY <2>1, <3>7 DEF t
  <2> QED
    BY <2>4, <2>5
<1> HIDE DEF S
<1>5. N \in S
  <2>1. \A n \in 0 .. N : n \in S
    BY <1>1, <1>3, <1>4, CountingTo
  <2> QED
    BY <1>1, <2>1
<1>6. zones[N] = u /\ u \in Outcomes
  BY <1>1, <1>2 DEF IsConstrainLoop
<1> QED
  BY <1>5, <1>6 DEF S, SatisfiesAll

\* Time elapses in each process: the zone stays in canonical form.
LEMMA AsynchronousOpenUpOutcome ==
  ASSUME RefCountBounds, NEW d, Good(d)
  PROVE  Good(AsynchronousOpenUp(d))
<1> DEFINE u == AsynchronousOpenUp(d)
<1>1. \A i, j \in Clocks :
        u[<<i, j>>] = IF i # j /\ j \in References THEN LT_INFINITY ELSE d[<<i, j>>]
  BY DEF AsynchronousOpenUp
<1>2. u \in Matrices
  BY GoodFacts, BoundFacts DEF AsynchronousOpenUp, Matrices
<1> HIDE DEF u
<1>3. IsConsistent(u)
  BY <1>1, GoodFacts DEF IsConsistent
<1>4. ASSUME NEW x \in Clocks, NEW z \in Clocks, NEW y \in Clocks PROVE Triangle(u, x, z, y)
  <2> SUFFICES ASSUME Proper(u[<<x, z>>]), Proper(u[<<z, y>>])
               PROVE  u[<<x, y>>] <= Plus(u[<<x, z>>], u[<<z, y>>]) /\ u[<<x, y>>] # LT_INFINITY
    BY DEF Triangle
  <2>1. Triangle(d, x, z, y)
    BY DEF Good, Tightly
  <2>2. ~ Proper(LT_INFINITY)
    BY DEF Proper
  <2>3. u[<<x, z>>] = d[<<x, z>>] /\ u[<<z, y>>] = d[<<z, y>>]
    BY <1>1, <2>2
  <2>4. x # y /\ y \in References => FALSE
    BY <1>1, <2>2
  <2>5. u[<<x, y>>] = d[<<x, y>>]
    BY <1>1, <2>4
  <2> QED
    BY <2>1, <2>3, <2>5 DEF Triangle
<1> QED
  BY <1>2, <1>3, <1>4 DEF Good, Tightly, u

\* The valuation v after the first n resets.
ResetBy(v, resets, n, refmap) ==
  [x \in Clocks |-> IF \E i \in 1 .. n : resets[i].x = x THEN v[refmap[x]] ELSE v[x]]

\* The offset zones that the semantics computes with.
OffsetZones(refmap) == {z \in Matrices : Good(z) /\ IsPositiveOffset(z, refmap)}

\* A clock is reset to its reference clock.
LEMMA ResetToReferenceFacts ==
  ASSUME RefCountBounds, NEW refmap \in RefMaps, NEW z \in OffsetZones(refmap),
         NEW x \in Clocks
  PROVE  LET u == ResetToReference(z, x, refmap)
         IN /\ u \in OffsetZones(refmap)
            /\ \A v \in Values : Admits(v, z) => Admits([v EXCEPT ![x] = v[refmap[x]]], u)
<1> DEFINE u == ResetToReference(z, x, refmap)
           y == refmap[x]
<1>1. Good(z) /\ IsPositiveOffset(z, refmap)
  BY DEF OffsetZones
<1>2. /\ refmap \in [Clocks -> References] /\ \A r \in References : refmap[r] = r
      /\ References \subseteq Clocks /\ 0 \in References
  BY ReferenceFacts DEF RefMaps
<1>3. CASE y = x
  <2>1. u = z
    BY <1>3 DEF ResetToReference
  <2>2. \A v \in Values : [v EXCEPT ![x] = v[y]] = v
    BY <1>3 DEF Values
  <2> QED
    BY <2>1, <2>2
<1>4. CASE y # x
  <2>1. u = ResetToClock(z, x, y) /\ y \in Clocks /\ x \in Clocks \ {0} /\ x \notin References
    BY <1>2, <1>4 DEF ResetToReference
  <2>2. IsReset(u, z, x, y, 0)
    BY <1>1, <2>1, ResetToClockFacts
  <2>3. Good(u)
    BY <1>1, <2>1, <2>2, ResetGood
  <2>4. IsPositiveOffset(u, refmap)
    <3> SUFFICES ASSUME NEW i \in OffsetVariables PROVE u[<<refmap[i], i>>] <= LE_ZERO
      BY DEF IsPositiveOffset
    <3>1. /\ i \in Clocks /\ refmap[i] \in Clocks /\ refmap[i] \in References
          /\ z[<<refmap[i], i>>] <= LE_ZERO
      <4>1. i \in Clocks
        BY ReferenceFacts, ClockFacts DEF OffsetVariables
      <4> QED
        BY <1>1, <1>2, <4>1 DEF IsPositiveOffset
    <3>2. CASE i = x
      <4>1. u[<<y, x>>] = z[<<y, y>>]
        BY <1>4, <2>1 DEF ResetToClock
      <4> QED
        BY <1>1, <2>1, <3>2, <4>1, GoodFacts, EntryFacts
    <3>3. CASE i # x
      <4>1. u[<<refmap[i], i>>] = z[<<refmap[i], i>>]
        BY <2>1, <3>1, <3>3 DEF ResetToClock
      <4> QED
        BY <3>1, <4>1
    <3> QED
      BY <3>2, <3>3
  <2>5. ASSUME NEW v \in Values, Admits(v, z) PROVE Admits([v EXCEPT ![x] = v[y]], u)
    <3> DEFINE w == [v EXCEPT ![x] = v[y]]
    <3>1. w \in Values /\ 0 * Unit = 0 /\ \A i \in Clocks : v[i] \in Int
      BY <2>1, UnitFacts DEF Values
    <3>2. IsResetOf(w, v, x, y, 0)
      BY <2>1, <3>1 DEF IsResetOf, Source, Shift, Values
    <3>3. \A i, j \in Clocks :
            Fits(v, Source(x, y)[i], Source(x, y)[j], z[<<Source(x, y)[i], Source(x, y)[j]>>])
      <4>1. \A i \in Clocks : Source(x, y)[i] \in Clocks
        BY <2>1 DEF Source
      <4> QED
        BY <2>5, <4>1 DEF Admits
    <3> HIDE DEF w
    <3>4. Admits(w, u)
      BY <1>1, <2>1, <2>2, <3>1, <3>2, <3>3, ResetAdmits
    <3> QED
      BY <3>4 DEF w
  <2>6. u \in OffsetZones(refmap)
    BY <2>3, <2>4 DEF OffsetZones, Good
  <2> QED
    BY <2>5, <2>6
<1> QED
  BY <1>3, <1>4

\* The loop of details::reset, for resets to the reference clocks.
LEMMA OffsetResetFacts ==
  ASSUME RefCountBounds, NEW refmap \in RefMaps, NEW m \in OffsetZones(refmap),
         NEW resets \in Seq(OffsetResets(refmap)), NEW u, u = OffsetResetAll(m, resets, refmap)
  PROVE  /\ u \in OffsetZones(refmap)
         /\ \A v \in Values :
              Admits(v, m) => Admits(ResetBy(v, resets, Len(resets), refmap), u)
<1> DEFINE N == Len(resets)
           Zones == OffsetZones(refmap)
           G(n, z) == IF resets[n].y # refmap[resets[n].x] \/ resets[n].c # 0 THEN Thrown
                      ELSE ResetToReference(z, resets[n].x, refmap)
           F == [p \in Nat \X Zones |-> IF p[1] < N THEN G(p[1] + 1, p[2]) ELSE p[2]]
           zones[n \in 0 .. N] == IF n = 0 THEN m ELSE G(n, zones[n - 1])
<1>1. u = zones[N]
  BY DEF OffsetResetAll
<1>2. N \in Nat /\ \A n \in 1 .. N : resets[n] \in OffsetResets(refmap)
  OBVIOUS
<1>3. ASSUME NEW n \in 1 .. N, NEW z \in Zones
      PROVE  /\ G(n, z) \in Zones
             /\ \A v \in Values :
                  Admits(v, z) =>
                    Admits([v EXCEPT ![resets[n].x] = v[refmap[resets[n].x]]], G(n, z))
  <2>1. /\ resets[n].x \in Clocks /\ resets[n].y = refmap[resets[n].x] /\ resets[n].c = 0
    BY <1>2 DEF OffsetResets
  <2>2. G(n, z) = ResetToReference(z, resets[n].x, refmap)
    BY <2>1
  <2> HIDE DEF G
  <2> QED
    BY <2>1, <2>2, ResetToReferenceFacts
<1> HIDE DEF G
<1>4. F \in [Nat \X Zones -> Zones]
  <2>1. ASSUME NEW p \in Nat \X Zones
        PROVE  (IF p[1] < N THEN G(p[1] + 1, p[2]) ELSE p[2]) \in Zones
    <3>1. p[1] \in Nat /\ p[2] \in Zones
      OBVIOUS
    <3>2. p[1] < N => p[1] + 1 \in 1 .. N
      BY <1>2, <3>1
    <3> QED
      BY <1>3, <3>1, <3>2
  <2> QED
    BY <2>1
<1>5. PICK f \in [0 .. N -> Zones] : IsLoop(f, F, m, N)
  <2> HIDE DEF F, Zones
  <2>1. m \in Zones
    BY DEF Zones
  <2> QED
    BY <1>2, <1>4, <2>1, Loop, Zenon
<1>6. f = [n \in 0 .. N |-> IF n = 0 THEN m ELSE G(n, f[n - 1])]
  <2>1. ASSUME NEW n \in 0 .. N, n # 0 PROVE F[<<n - 1, f[n - 1]>>] = G(n, f[n - 1])
    <3>1. n - 1 \in Nat /\ n - 1 \in 0 .. N /\ n - 1 < N /\ (n - 1) + 1 = n
      BY <1>2, <2>1
    <3>2. <<n - 1, f[n - 1]>> \in Nat \X Zones
      BY <1>5, <3>1
    <3> QED
      BY <3>1, <3>2
  <2> HIDE DEF F
  <2> QED
    BY <1>5, <2>1 DEF IsLoop
<1>7. zones = [n \in 0 .. N |-> IF n = 0 THEN m ELSE G(n, zones[n - 1])]
  BY <1>6, Zenon DEF zones
<1> HIDE DEF zones, F
<1>8. zones[0] = m /\ \A n \in 0 .. N - 1 : zones[n + 1] = G(n + 1, zones[n])
  <2>1. \A n \in 0 .. N - 1 : n + 1 \in 0 .. N /\ n + 1 # 0 /\ (n + 1) - 1 = n
    BY <1>2
  <2>2. 0 \in 0 .. N
    BY <1>2
  <2> QED
    BY <1>7, <2>1, <2>2
<1> DEFINE Kept(z, n) == /\ z \in Zones
                         /\ \A v \in Values :
                              Admits(v, m) => Admits(ResetBy(v, resets, n, refmap), z)
           S == {n \in 0 .. N : Kept(zones[n], n)}
<1>9. 0 \in S
  <2>1. \A v \in Values : ResetBy(v, resets, 0, refmap) = v
    BY DEF ResetBy, Values
  <2>2. 0 \in 0 .. N
    BY <1>2
  <2> QED
    BY <1>8, <2>1, <2>2
<1>10. ASSUME NEW n \in 0 .. N - 1, n \in S PROVE n + 1 \in S
  <2>1. /\ n + 1 \in 0 .. N /\ n + 1 \in 1 .. N /\ Kept(zones[n], n)
        /\ 1 .. n + 1 = (1 .. n) \cup {n + 1}
    BY <1>2, <1>10
  <2>2. zones[n + 1] = G(n + 1, zones[n])
    BY <1>8
  <2> DEFINE x == resets[n + 1].x
  <2>3. x \in Clocks /\ refmap \in [Clocks -> References] /\ References \subseteq Clocks
        /\ \A r \in References : refmap[r] = r
    BY <1>2, <2>1, ReferenceFacts DEF OffsetResets, RefMaps
  <2>4. zones[n + 1] \in Zones
    BY <1>3, <2>1, <2>2
  <2>5. ASSUME NEW v \in Values, Admits(v, m)
        PROVE  Admits(ResetBy(v, resets, n + 1, refmap), zones[n + 1])
    <3> DEFINE w == ResetBy(v, resets, n, refmap)
    <3>1. w \in Values
      BY <2>3 DEF ResetBy, Values
    <3>2. Admits([w EXCEPT ![x] = w[refmap[x]]], zones[n + 1])
      BY <1>3, <2>1, <2>2, <2>5, <3>1
    <3>3. w[refmap[x]] = v[refmap[x]]
      <4>1. refmap[x] \in Clocks /\ refmap[refmap[x]] = refmap[x]
        BY <2>3
      <4> QED
        BY <4>1 DEF ResetBy
    <3>4. ResetBy(v, resets, n + 1, refmap) = [w EXCEPT ![x] = v[refmap[x]]]
      <4>1. ResetBy(v, resets, n + 1, refmap) =
              [i \in Clocks |-> IF i = x THEN v[refmap[x]] ELSE w[i]]
        <5>1. \A i \in Clocks : (\E k \in 1 .. n + 1 : resets[k].x = i) <=>
                                 i = x \/ \E k \in 1 .. n : resets[k].x = i
          BY <2>1
        <5> HIDE DEF x
        <5> QED
          BY <5>1 DEF ResetBy
      <4>2. [w EXCEPT ![x] = v[refmap[x]]] =
              [i \in Clocks |-> IF i = x THEN v[refmap[x]] ELSE w[i]]
        BY <3>1 DEF Values
      <4> QED
        BY <4>1, <4>2
    <3> QED
      BY <3>2, <3>3, <3>4
  <2> HIDE DEF Zones, x
  <2> QED
    BY <2>1, <2>4, <2>5
<1> HIDE DEF S
<1>11. N \in S
  <2>1. \A n \in 0 .. N : n \in S
    BY <1>2, <1>9, <1>10, CountingTo
  <2> QED
    BY <1>2, <2>1
<1> QED
  BY <1>1, <1>11 DEF S

\* What a function of the semantics may return: the offset variables stay positive.
OffsetOutcomes(refmap) == {u \in Outcomes : IsZone(u) => IsPositiveOffset(u, refmap)}

\* Constraints leave an outcome.
LEMMA ConstrainOffset ==
  ASSUME RefCountBounds, NEW refmap \in RefMaps, NEW m \in OffsetOutcomes(refmap),
         NEW constraints \in Seq(DbmConstraints), NEW u, u = ConstrainAll(m, constraints)
  PROVE  u \in OffsetOutcomes(refmap)
<1>1. m \in Outcomes /\ (IsZone(m) => IsPositiveOffset(m, refmap))
  BY DEF OffsetOutcomes
<1>2. u \in Outcomes /\ (IsZone(u) => \A i, j \in Clocks : u[<<i, j>>] <= m[<<i, j>>])
  BY <1>1, ConstrainAllFacts
<1>3. ASSUME IsZone(u) PROVE IsPositiveOffset(u, refmap)
  <2>1. Good(u)
    BY <1>2, <1>3, OutcomesCases DEF IsOutcome
  <2>2. IsZone(m)
    <3> SUFFICES ASSUME IsEmpty0(m) PROVE FALSE
      BY <1>1, OutcomesCases
    <3>1. m \in EntryMatrices
      BY <1>1, OutcomeFacts DEF Outcomes, Matrices, EntryMatrices, Entries
    <3>2. m[<<0, 0>>] < LE_ZERO /\ m[<<0, 0>>] \in Int /\ u[<<0, 0>>] <= m[<<0, 0>>]
      BY <1>2, <1>3, <3>1, ClockFacts DEF IsEmpty0
    <3>3. u[<<0, 0>>] = LE_ZERO /\ LE_ZERO \in Int
      BY <2>1, GoodFacts, ClockFacts, EntryFacts
    <3> QED
      BY <3>2, <3>3
  <2>3. Good(m)
    BY <1>1, <2>2, OutcomesCases DEF IsOutcome
  <2> SUFFICES ASSUME NEW x \in OffsetVariables PROVE u[<<refmap[x], x>>] <= LE_ZERO
    BY DEF IsPositiveOffset
  <2>4. x \in Clocks
    BY ReferenceFacts, ClockFacts DEF OffsetVariables
  <2>5. refmap[x] \in Clocks
    BY <2>4, ReferenceFacts DEF RefMaps
  <2>6. /\ u[<<refmap[x], x>>] \in Int /\ m[<<refmap[x], x>>] \in Int /\ LE_ZERO \in Int
        /\ u[<<refmap[x], x>>] <= m[<<refmap[x], x>>]
    BY <1>2, <1>3, <2>1, <2>3, <2>4, <2>5, GoodFacts, EntryFacts
  <2>7. m[<<refmap[x], x>>] <= LE_ZERO
    BY <1>1, <2>2 DEF IsPositiveOffset
  <2> QED
    BY <2>6, <2>7
<1> QED
  BY <1>2, <1>3 DEF OffsetOutcomes

\* The zones among the outcomes.
LEMMA OffsetOutcomesCases ==
  ASSUME NEW refmap, NEW u \in OffsetOutcomes(refmap)
  PROVE  IsEmpty0(u) \/ (u \in OffsetZones(refmap) /\ Good(u) /\ u # Thrown)
<1>1. u \in Outcomes /\ (IsZone(u) => IsPositiveOffset(u, refmap))
  BY DEF OffsetOutcomes
<1> QED
  BY <1>1, OutcomesCases DEF OffsetZones, Good

\* A zone to compute with is an outcome.
LEMMA OffsetZonesOutcomes ==
  ASSUME NEW refmap, NEW u \in OffsetZones(refmap)
  PROVE  /\ u \in OffsetOutcomes(refmap) /\ u \in Outcomes /\ Good(u)
         /\ ~ IsEmpty0(u) /\ u # Thrown
<1>1. u \in Matrices /\ Good(u) /\ IsPositiveOffset(u, refmap)
  BY DEF OffsetZones
<1>2. IsOutcome(u) /\ ~ IsEmpty0(u)
  BY <1>1, OutcomesGood, GoodFacts, ClockFacts, EntryFacts DEF IsEmpty0
<1>3. u # Thrown
  <2>1. Thrown[<<0, 0>>] = OutOfBounds /\ u[<<0, 0>>] # OutOfBounds
    BY <1>1, GoodFacts, ClockFacts DEF Thrown
  <2> QED
    BY <2>1
<1> QED
  BY <1>1, <1>2, <1>3 DEF OffsetOutcomes, Outcomes

\* w is v after a delay in each process, when it may delay, in the invariant.
IsDelayOf(w, v) ==
  (\A x \in Clocks \ References : w[x] = v[x]) /\ \A r \in References : w[r] <= v[r]

IsOffsetLater(w, v, invariant, allowed) ==
  IF allowed THEN IsDelayOf(w, v) /\ SatisfiesAll(w, invariant) ELSE w = v

\* The zone where time has elapsed loses no valuation.
LEMMA AsynchronousOpenFacts ==
  ASSUME RefCountBounds, NEW refmap \in RefMaps, NEW m \in OffsetOutcomes(refmap),
         NEW invariant \in Seq(DbmConstraints), NEW allowed \in BOOLEAN,
         NEW u, u = AsynchronousOpen(m, invariant, allowed)
  PROVE  /\ u \in OffsetOutcomes(refmap)
         /\ u # Thrown => \A v, w \in Values :
              InZone(v, m) /\ IsOffsetLater(w, v, invariant, allowed) => InZone(w, u)
<1>1. CASE ~ allowed
  BY <1>1 DEF AsynchronousOpen, IsOffsetLater
<1>2. CASE IsEmpty0(m)
  BY <1>2 DEF AsynchronousOpen, InZone
<1>3. CASE allowed /\ ~ IsEmpty0(m)
  <2> DEFINE o == AsynchronousOpenUp(m)
  <2>1. Good(m) /\ IsPositiveOffset(m, refmap)
    BY <1>3, OffsetOutcomesCases DEF OffsetZones
  <2>2. u = ConstrainAll(o, invariant) /\ Good(o)
    BY <1>3, <2>1, AsynchronousOpenUpOutcome DEF AsynchronousOpen
  <2>3. \A i, j \in Clocks :
          o[<<i, j>>] = IF i # j /\ j \in References THEN LT_INFINITY ELSE m[<<i, j>>]
    BY DEF AsynchronousOpenUp
  <2>4. References \subseteq Clocks /\ \A x \in OffsetVariables : x \in Clocks \ References
    BY ReferenceFacts, ClockFacts DEF OffsetVariables, References
  <2> HIDE DEF o
  <2>5. IsPositiveOffset(o, refmap)
    <3> SUFFICES ASSUME NEW x \in OffsetVariables PROVE o[<<refmap[x], x>>] <= LE_ZERO
      BY DEF IsPositiveOffset
    <3>1. x \in Clocks \ References /\ refmap[x] \in Clocks
      BY <2>4 DEF RefMaps
    <3>2. o[<<refmap[x], x>>] = m[<<refmap[x], x>>] /\ m[<<refmap[x], x>>] <= LE_ZERO
      BY <2>1, <2>3, <3>1 DEF IsPositiveOffset
    <3> QED
      BY <3>2
  <2>6. o \in OffsetZones(refmap)
    BY <2>2, <2>5 DEF OffsetZones, Good
  <2>7. u \in OffsetOutcomes(refmap)
    BY <2>2, <2>6, OffsetZonesOutcomes, ConstrainOffset
  <2>8. ASSUME NEW v \in Values, NEW w \in Values, InZone(v, m), IsDelayOf(w, v)
        PROVE  InZone(w, o)
    <3>1. Admits(v, m)
      BY <2>1, <2>8, ZoneAdmits
    <3>2. ASSUME NEW i \in Clocks, NEW j \in Clocks PROVE Fits(w, i, j, o[<<i, j>>])
      <4>1. CASE i # j /\ j \in References
        BY <2>3, <4>1 DEF Fits
      <4>2. CASE i = j \/ j \notin References
        <5>1. o[<<i, j>>] = m[<<i, j>>] /\ Fits(v, i, j, m[<<i, j>>])
          BY <2>3, <3>1, <4>2 DEF Admits
        <5>2. /\ v[i] \in Int /\ v[j] \in Int /\ w[i] \in Int /\ w[j] \in Int
              /\ w[i] <= v[i]
          BY <2>8 DEF Values, IsDelayOf
        <5>3. w[i] - w[j] <= v[i] - v[j]
          <6>1. i # j => w[j] = v[j]
            BY <2>8, <4>2 DEF IsDelayOf
          <6>2. CASE i = j
            BY <5>2, <6>2
          <6>3. CASE i # j
            BY <5>2, <6>1, <6>3
          <6> QED
            BY <6>2, <6>3
        <5>4. ASSUME Sat(v, i, j, m[<<i, j>>]) PROVE Sat(w, i, j, m[<<i, j>>])
          <6> DEFINE b == Value(m[<<i, j>>]) * Unit
                     d == v[i] - v[j]
                     e == w[i] - w[j]
          <6>1. Value(m[<<i, j>>]) \in Int
            BY <2>1, GoodFacts, Parts
          <6>2. b \in Int /\ d \in Int /\ e \in Int /\ e <= d
            BY <5>2, <5>3, <6>1, UnitFacts
          <6>3. IF Comparator(m[<<i, j>>]) = LT THEN d < b ELSE d <= b
            BY <5>4 DEF Sat, Satisfies
          <6> HIDE DEF b, d, e
          <6>4. IF Comparator(m[<<i, j>>]) = LT THEN e < b ELSE e <= b
            BY <6>2, <6>3
          <6> QED
            BY <6>4 DEF Sat, Satisfies, b, d, e
        <5> QED
          BY <5>1, <5>4 DEF Fits
      <4> QED
        BY <4>1, <4>2
    <3>3. Admits(w, o)
      BY <3>2 DEF Admits
    <3> QED
      BY <2>2, <3>3, ZoneAdmits
  <2>9. ASSUME u # Thrown, NEW v \in Values, NEW w \in Values, InZone(v, m),
               IsOffsetLater(w, v, invariant, allowed)
        PROVE  InZone(w, u)
    <3>1. InZone(w, o) /\ SatisfiesAll(w, invariant)
      BY <1>3, <2>8, <2>9 DEF IsOffsetLater
    <3>2. o \in Outcomes
      BY <2>6, OffsetZonesOutcomes
    <3> QED
      BY <2>2, <2>9, <3>1, <3>2, ConstrainAllFacts
  <2> QED
    BY <2>7, <2>9
<1> QED
  BY <1>1, <1>2, <1>3
-----------------------------------------------------------------------------
(* The synchronized zone. *)

\* The clocks of the synchronized zone, and its valuations.
ZoneClocks == 0 .. Dim - RefCount

InSyncZone(w, d) ==
  \A x, y \in ZoneClocks :
    d[<<x, y>>] = LT_INFINITY
      \/ Satisfies(w, x, y, Comparator(d[<<x, y>>]), Value(d[<<x, y>>]))

\* The processes have the same time, and the clocks have the valuation w.
IsTogether(v, w) ==
  /\ \A r \in References : v[r] = v[0]
  /\ w = [x \in ZoneClocks |-> IF x = 0 THEN 0 ELSE v[OffsetId(x)] - v[0]]

\* What to_dbm asserts and is for.
IsSyncZone(d) ==
  /\ d \in [ZoneClocks \X ZoneClocks -> Bound]
  /\ \A x \in ZoneClocks : d[<<x, x>>] = LE_ZERO /\ d[<<0, x>>] <= LE_ZERO
  /\ \A x, y, z \in ZoneClocks :
       \/ LT_INFINITY \in {d[<<x, z>>], d[<<z, y>>]}
       \/ d[<<x, y>>] <= Plus(d[<<x, z>>], d[<<z, y>>])

\* Zero is the bound of a path of length zero.
LEMMA PathsOfZero ==
  ASSUME NEW b \in Int
  PROVE  Plus(LE_ZERO, b) = b /\ Plus(b, LE_ZERO) = b
BY PlusParts

\* All the reference clocks of a synchronized zone are equal.
LEMMA ReferencesEqual ==
  ASSUME RefCountBounds, NEW u, Good(u), IsSynchronized(u)
  PROVE  \A r, s \in References : u[<<r, s>>] = LE_ZERO
<1>1. ASSUME NEW a \in Clocks, NEW b \in Clocks, NEW c \in Clocks,
             u[<<a, b>>] = LE_ZERO, u[<<b, c>>] = LE_ZERO
      PROVE  u[<<a, c>>] <= LE_ZERO /\ u[<<a, c>>] \in Int /\ Proper(u[<<a, c>>])
  <2>1. Triangle(u, a, b, c) /\ Proper(LE_ZERO)
    BY EntryFacts DEF Good, Tightly
  <2>2. u[<<a, c>>] <= Plus(LE_ZERO, LE_ZERO) /\ u[<<a, c>>] # LT_INFINITY
    BY <1>1, <2>1 DEF Triangle
  <2>3. Plus(LE_ZERO, LE_ZERO) = LE_ZERO
    BY PathsOfZero, EntryFacts
  <2>4. u[<<a, c>>] \in Entries /\ u[<<a, c>>] # OutOfBounds /\ u[<<a, c>>] \in Int
    BY GoodFacts
  <2> QED
    BY <2>2, <2>3, <2>4 DEF Proper
<1>2. ASSUME NEW a \in Clocks, NEW b \in Clocks, NEW c \in Clocks,
             u[<<a, b>>] = LE_ZERO, u[<<b, c>>] = LE_ZERO,
             u[<<c, b>>] = LE_ZERO, u[<<b, a>>] = LE_ZERO
      PROVE  u[<<a, c>>] = LE_ZERO
  <2>1. /\ u[<<a, c>>] <= LE_ZERO /\ u[<<a, c>>] \in Int /\ Proper(u[<<a, c>>])
        /\ u[<<c, a>>] <= LE_ZERO /\ u[<<c, a>>] \in Int /\ Proper(u[<<c, a>>])
    BY <1>1, <1>2
  <2>2. Triangle(u, a, c, a) /\ u[<<a, a>>] = LE_ZERO
    BY GoodFacts DEF Good, Tightly
  <2>3. LE_ZERO <= Plus(u[<<a, c>>], u[<<c, a>>])
    BY <2>1, <2>2 DEF Triangle
  <2> QED
    BY <2>1, <2>3, NoneApart
<1> DEFINE N == RefCount - 1
           S == {n \in 0 .. N : u[<<0, n>>] = LE_ZERO /\ u[<<n, 0>>] = LE_ZERO}
<1>3. N \in Nat /\ References = 0 .. N /\ References \subseteq Clocks /\ 0 \in Clocks
  BY ReferenceFacts DEF References, RefCountBounds
<1>4. 0 \in S
  BY <1>3, GoodFacts
<1>5. ASSUME NEW n \in 0 .. N - 1, n \in S PROVE n + 1 \in S
  <2>1. n \in References /\ n + 1 \in References /\ n \in References \ {RefCount - 1}
        /\ n \in Clocks /\ n + 1 \in Clocks /\ n + 1 \in 0 .. N
    BY <1>3, ReferenceFacts
  <2>2. u[<<n, n + 1>>] = LE_ZERO /\ u[<<n + 1, n>>] = LE_ZERO
    BY <2>1 DEF IsSynchronized
  <2>3. u[<<0, n>>] = LE_ZERO /\ u[<<n, 0>>] = LE_ZERO
    BY <1>5
  <2>4. u[<<0, n + 1>>] = LE_ZERO /\ u[<<n + 1, 0>>] = LE_ZERO
    BY <1>2, <1>3, <2>1, <2>2, <2>3
  <2> QED
    BY <2>1, <2>4
<1> HIDE DEF S
<1>6. \A n \in 0 .. N : n \in S
  BY <1>3, <1>4, <1>5, CountingTo
<1>7. \A r \in References : u[<<0, r>>] = LE_ZERO /\ u[<<r, 0>>] = LE_ZERO
  BY <1>3, <1>6 DEF S
<1> QED
  BY <1>2, <1>3, <1>7

\* Any reference clock has the bounds of another.
LEMMA ReferencesAlike ==
  ASSUME RefCountBounds, NEW u, Good(u), IsSynchronized(u),
         NEW r \in References, NEW s \in References, NEW x \in Clocks
  PROVE  u[<<r, x>>] = u[<<s, x>>] /\ u[<<x, r>>] = u[<<x, s>>]
<1>1. r \in Clocks /\ s \in Clocks
  BY ReferenceFacts
<1>2. ASSUME NEW a \in Clocks, NEW b \in Clocks, u[<<a, b>>] = LE_ZERO
      PROVE  u[<<a, x>>] <= u[<<b, x>>] /\ u[<<x, b>>] <= u[<<x, a>>]
  <2>1. /\ u[<<a, x>>] \in Entries /\ u[<<b, x>>] \in Entries
        /\ u[<<a, x>>] \in Int /\ u[<<b, x>>] \in Int /\ u[<<b, x>>] # OutOfBounds
        /\ u[<<x, b>>] \in Entries /\ u[<<x, a>>] \in Entries
        /\ u[<<x, b>>] \in Int /\ u[<<x, a>>] \in Int /\ u[<<x, a>>] # OutOfBounds
    BY GoodFacts
  <2>2. Triangle(u, a, b, x) /\ Triangle(u, x, a, b) /\ Proper(LE_ZERO)
    BY EntryFacts DEF Good, Tightly
  <2>3. u[<<a, x>>] <= u[<<b, x>>]
    <3>1. CASE Proper(u[<<b, x>>])
      BY <1>2, <2>1, <2>2, <3>1, PathsOfZero DEF Triangle
    <3>2. CASE ~ Proper(u[<<b, x>>])
      BY <2>1, <3>2, EntryFacts
    <3> QED
      BY <3>1, <3>2
  <2>4. u[<<x, b>>] <= u[<<x, a>>]
    <3>1. CASE Proper(u[<<x, a>>])
      BY <1>2, <2>1, <2>2, <3>1, PathsOfZero DEF Triangle
    <3>2. CASE ~ Proper(u[<<x, a>>])
      BY <2>1, <3>2, EntryFacts
    <3> QED
      BY <3>1, <3>2
  <2> QED
    BY <2>3, <2>4
<1>3. u[<<r, s>>] = LE_ZERO /\ u[<<s, r>>] = LE_ZERO
  BY ReferencesEqual
<1>4. /\ u[<<r, x>>] <= u[<<s, x>>] /\ u[<<s, x>>] <= u[<<r, x>>]
      /\ u[<<x, s>>] <= u[<<x, r>>] /\ u[<<x, r>>] <= u[<<x, s>>]
  BY <1>1, <1>2, <1>3
<1>5. /\ u[<<r, x>>] \in Int /\ u[<<s, x>>] \in Int
      /\ u[<<x, r>>] \in Int /\ u[<<x, s>>] \in Int
  BY <1>1, GoodFacts
<1> QED
  BY <1>4, <1>5

\* The clock of the offset zone for one of the synchronized zone.
OffsetClock(x) == IF x = 0 THEN 0 ELSE OffsetId(x)

\* The clocks of the two zones.
LEMMA OffsetClockFacts ==
  ASSUME RefCountBounds
  PROVE  /\ 0 \in ZoneClocks /\ OffsetClock(0) = 0 /\ 0 \in References
         /\ \A x \in ZoneClocks : OffsetClock(x) \in Clocks
         /\ \A x \in ZoneClocks \ {0} : /\ OffsetId(x) = OffsetClock(x)
                                        /\ OffsetId(x) \in OffsetVariables
                                        /\ OffsetId(x) \notin References
                                        /\ OffsetId(x) - RefCount + 1 = x
         /\ \A i \in Clocks \ References : /\ i - RefCount + 1 \in ZoneClocks \ {0}
                                           /\ OffsetClock(i - RefCount + 1) = i
<1>1. /\ RefCount \in Int /\ Dim \in Int /\ 1 <= RefCount /\ RefCount <= Dim
      /\ Clocks = 0 .. Dim - 1 /\ References = 0 .. RefCount - 1
      /\ OffsetVariables = RefCount .. Dim - 1 /\ ZoneClocks = 0 .. Dim - RefCount
  BY ClockFacts DEF RefCountBounds, References, OffsetVariables, ZoneClocks
<1> QED
  BY <1>1 DEF OffsetClock, OffsetId

\* to_dbm copies the bounds of the clocks, and of any reference clock for those of 0.
LEMMA ToDbmCopies ==
  ASSUME RefCountBounds, NEW refmap \in RefMaps, NEW u, Good(u), IsSynchronized(u),
         NEW x \in ZoneClocks, NEW y \in ZoneClocks
  PROVE  ToDbm(u, refmap)[<<x, y>>] = u[<<OffsetClock(x), OffsetClock(y)>>]
<1>1. ZoneClocks = 0 .. (Dim - RefCount + 1) - 1
  BY ClockFacts DEF ZoneClocks, RefCountBounds
<1>2. ToDbm(u, refmap)[<<x, y>>] =
        IF x = y THEN LE_ZERO
        ELSE IF x = 0 THEN u[<<refmap[OffsetId(y)], OffsetId(y)>>]
        ELSE IF y = 0 THEN u[<<OffsetId(x), refmap[OffsetId(x)]>>]
        ELSE u[<<OffsetId(x), OffsetId(y)>>]
  BY <1>1 DEF ToDbm, ReferenceId
<1>3. ASSUME NEW z \in ZoneClocks \ {0}
      PROVE  OffsetId(z) \in Clocks /\ refmap[OffsetId(z)] \in References
  BY OffsetClockFacts DEF RefMaps
<1>4. CASE x = y
  BY <1>2, <1>4, OffsetClockFacts, GoodFacts
<1>5. CASE x # y /\ x = 0
  <2>1. u[<<refmap[OffsetId(y)], OffsetId(y)>>] = u[<<0, OffsetId(y)>>]
    <3>1. OffsetId(y) \in Clocks /\ refmap[OffsetId(y)] \in References /\ 0 \in References
      BY <1>3, <1>5, OffsetClockFacts
    <3> QED
      BY <3>1, ReferencesAlike
  <2> QED
    BY <1>2, <1>5, <2>1, OffsetClockFacts
<1>6. CASE x # y /\ y = 0
  <2>1. u[<<OffsetId(x), refmap[OffsetId(x)]>>] = u[<<OffsetId(x), 0>>]
    <3>1. OffsetId(x) \in Clocks /\ refmap[OffsetId(x)] \in References /\ 0 \in References
      BY <1>3, <1>6, OffsetClockFacts
    <3> QED
      BY <3>1, ReferencesAlike
  <2> QED
    BY <1>2, <1>6, <2>1, OffsetClockFacts
<1>7. CASE x # y /\ x # 0 /\ y # 0
  BY <1>2, <1>7, OffsetClockFacts
<1> QED
  BY <1>4, <1>5, <1>6, <1>7

\* The synchronized zone is a zone that the other functions can be given, and its valuations
\* are those of the offset zone when the processes have the same time.
LEMMA SyncZoneFacts ==
  ASSUME RefCountBounds, NEW refmap \in RefMaps, NEW zone \in OffsetZones(refmap),
         NEW u, u = Synchronize(zone), ~ IsEmpty0(u), NEW d, d = ToDbm(u, refmap)
  PROVE  /\ IsSyncZone(d)
         /\ \A w \in [ZoneClocks -> Int] :
              w[0] = 0 =>
                (InSyncZone(w, d) <=> \E v \in Values : InZone(v, zone) /\ IsTogether(v, w))
<1>1. Good(zone) /\ IsPositiveOffset(zone, refmap)
  BY DEF OffsetZones
<1>2. u # Thrown /\ u # Empty
  <2>1. IsEmpty0(Thrown)
    <3>1. Thrown[<<0, 0>>] = OutOfBounds
      BY ClockFacts DEF Thrown
    <3> QED
      BY <3>1, EntryFacts DEF IsEmpty0
  <2>2. IsEmpty0(Empty)
    BY ClockFacts DEF IsEmpty0, Empty, LT_ZERO, LE_ZERO, LT, LE
  <2> QED
    BY <2>1, <2>2
<1>3. /\ Good(u) /\ IsTight(u) /\ IsSynchronized(u)
      /\ \A v \in Values :
           InZone(v, u) <=>
             InZone(v, zone) /\ \A r \in References \ {RefCount - 1} : v[r] = v[r + 1]
  BY <1>1, <1>2, SynchronizeCorrect
<1>4. \A x, y \in ZoneClocks : d[<<x, y>>] = u[<<OffsetClock(x), OffsetClock(y)>>]
  <2>1. ASSUME NEW x \in ZoneClocks, NEW y \in ZoneClocks
        PROVE  ToDbm(u, refmap)[<<x, y>>] = u[<<OffsetClock(x), OffsetClock(y)>>]
    BY <1>3, ToDbmCopies
  <2> QED
    BY <2>1
<1>5. \A x \in ZoneClocks : OffsetClock(x) \in Clocks
  BY OffsetClockFacts
<1>6. IsSyncZone(d)
  <2>1. \A x, y \in ZoneClocks : d[<<x, y>>] \in Bound
    <3>1. \A a, b \in Clocks : u[<<a, b>>] \in Bound
      BY <1>3, GoodFacts
    <3> QED
      BY <1>4, <1>5, <3>1
  <2>2. d \in [ZoneClocks \X ZoneClocks -> Bound]
    <3>1. ZoneClocks = 0 .. (Dim - RefCount + 1) - 1
      BY ClockFacts DEF ZoneClocks, RefCountBounds
    <3>2. d = [p \in ZoneClocks \X ZoneClocks |-> d[p]]
      BY <3>1, Zenon DEF ToDbm
    <3>3. \A p \in ZoneClocks \X ZoneClocks : d[p] \in Bound
      BY <2>1
    <3> QED
      BY <3>2, <3>3
  <2>3. \A x \in ZoneClocks : d[<<x, x>>] = LE_ZERO
    BY <1>3, <1>4, <1>5, GoodFacts
  <2>4. ASSUME NEW x \in ZoneClocks PROVE d[<<0, x>>] <= LE_ZERO
    <3>1. CASE x = 0
      <4>1. LE_ZERO <= LE_ZERO
        BY EntryFacts
      <4> QED
        BY <2>3, <3>1, <4>1
    <3>2. CASE x # 0
      <4> DEFINE i == OffsetId(x)
      <4>1. i \in OffsetVariables /\ i \in Clocks /\ OffsetClock(x) = i /\ OffsetClock(0) = 0
            /\ 0 \in References /\ 0 \in ZoneClocks
        BY <1>5, <3>2, OffsetClockFacts
      <4> HIDE DEF i
      <4>2. refmap[i] \in References /\ refmap[i] \in Clocks
        BY <4>1, ReferenceFacts DEF RefMaps
      <4>3. d[<<0, x>>] = u[<<refmap[i], i>>]
        <5>1. d[<<0, x>>] = u[<<0, i>>]
          BY <1>4, <4>1
        <5>2. ASSUME NEW r \in References, NEW s \in References
              PROVE  u[<<r, i>>] = u[<<s, i>>]
          <6>1. Good(u) /\ IsSynchronized(u) /\ i \in Clocks
            BY <1>3, <4>1
          <6> QED
            BY <6>1, ReferencesAlike
        <5>3. u[<<0, i>>] = u[<<refmap[i], i>>]
          BY <4>1, <4>2, <5>2
        <5> QED
          BY <5>1, <5>3
      <4>4. \A a, b \in Clocks : u[<<a, b>>] <= Equated(zone)[<<a, b>>]
        BY <1>1, <1>2, SynchronizeOutcome
      <4>5. /\ Equated(zone)[<<refmap[i], i>>] <= zone[<<refmap[i], i>>]
            /\ Equated(zone)[<<refmap[i], i>>] \in Int
        BY <1>1, <4>1, <4>2, EquatedFacts, ClockFacts
      <4>6. zone[<<refmap[i], i>>] <= LE_ZERO
        BY <1>1, <4>1 DEF IsPositiveOffset
      <4>7. u[<<refmap[i], i>>] \in Int /\ zone[<<refmap[i], i>>] \in Int /\ LE_ZERO \in Int
        BY <1>1, <1>3, <4>1, <4>2, GoodFacts, EntryFacts
      <4>8. u[<<refmap[i], i>>] <= Equated(zone)[<<refmap[i], i>>]
        BY <4>1, <4>2, <4>4
      <4> QED
        BY <4>3, <4>5, <4>6, <4>7, <4>8
    <3> QED
      BY <3>1, <3>2
  <2>5. \A x, y, z \in ZoneClocks :
          \/ LT_INFINITY \in {d[<<x, z>>], d[<<z, y>>]}
          \/ d[<<x, y>>] <= Plus(d[<<x, z>>], d[<<z, y>>])
    <3>1. \A a, b, c \in Clocks :
            \/ LT_INFINITY \in {u[<<a, c>>], u[<<c, b>>]}
            \/ u[<<a, b>>] <= Plus(u[<<a, c>>], u[<<c, b>>])
      BY <1>3 DEF IsTight, Plus
    <3> QED
      BY <1>4, <1>5, <3>1
  <2> QED
    BY <2>2, <2>3, <2>4, <2>5 DEF IsSyncZone
<1>7. ASSUME NEW w \in [ZoneClocks -> Int], w[0] = 0, NEW v \in Values,
             NEW x \in ZoneClocks, NEW y \in ZoneClocks,
             v[OffsetClock(x)] - v[OffsetClock(y)] = w[x] - w[y]
      PROVE  Satisfies(w, x, y, Comparator(d[<<x, y>>]), Value(d[<<x, y>>])) <=>
               Sat(v, OffsetClock(x), OffsetClock(y), u[<<OffsetClock(x), OffsetClock(y)>>])
  BY <1>4, <1>7 DEF Sat, Satisfies
<1>8. ASSUME NEW w \in [ZoneClocks -> Int], w[0] = 0, NEW v \in Values, InZone(v, zone),
             IsTogether(v, w)
      PROVE  InSyncZone(w, d)
  <2>1. \A r \in References \ {RefCount - 1} : r + 1 \in References /\ v[r] = v[r + 1]
    <3>1. \A r \in References \ {RefCount - 1} : r + 1 \in References
      BY ReferenceFacts DEF References
    <3> QED
      BY <1>8, <3>1 DEF IsTogether
  <2>2. Admits(v, u)
    BY <1>3, <1>8, <2>1, ZoneAdmits
  <2>3. ASSUME NEW x \in ZoneClocks PROVE w[x] = v[OffsetClock(x)] - v[0] /\ w[x] \in Int
    <3>1. v[0] \in Int
      BY ClockFacts DEF Values
    <3>2. v[0] - v[0] = 0
      BY <3>1
    <3> QED
      BY <1>8, <3>2, OffsetClockFacts DEF IsTogether
  <2> SUFFICES ASSUME NEW x \in ZoneClocks, NEW y \in ZoneClocks
               PROVE  \/ d[<<x, y>>] = LT_INFINITY
                      \/ Satisfies(w, x, y, Comparator(d[<<x, y>>]), Value(d[<<x, y>>]))
    BY DEF InSyncZone
  <2>4. v[OffsetClock(x)] - v[OffsetClock(y)] = w[x] - w[y]
    <3>1. v[OffsetClock(x)] \in Int /\ v[OffsetClock(y)] \in Int /\ v[0] \in Int
      BY <1>5, ClockFacts DEF Values
    <3> QED
      BY <2>3, <3>1
  <2>5. /\ Fits(v, OffsetClock(x), OffsetClock(y), u[<<OffsetClock(x), OffsetClock(y)>>])
        /\ u[<<OffsetClock(x), OffsetClock(y)>>] # OutOfBounds
    BY <1>3, <1>5, <2>2, GoodFacts DEF Admits
  <2> QED
    BY <1>4, <1>7, <1>8, <2>4, <2>5 DEF Fits
<1>9. ASSUME NEW w \in [ZoneClocks -> Int], w[0] = 0, InSyncZone(w, d)
      PROVE  \E v \in Values : InZone(v, zone) /\ IsTogether(v, w)
  <2> DEFINE k(i) == IF i \in References THEN 0 ELSE i - RefCount + 1
             v == [i \in Clocks |-> w[k(i)]]
  <2>1. \A i \in Clocks : k(i) \in ZoneClocks
    BY OffsetClockFacts
  <2>2. v \in Values
    BY <2>1 DEF Values
  <2>3. \A x \in ZoneClocks : v[OffsetClock(x)] = w[x]
    <3>1. \A x \in ZoneClocks : OffsetClock(x) \in Clocks /\ k(OffsetClock(x)) = x
      BY OffsetClockFacts
    <3> HIDE DEF k
    <3> QED
      BY <3>1
  <2>4. \A r \in References : r \in Clocks /\ v[r] = 0
    BY <1>9, ReferenceFacts
  <2>5. ASSUME NEW i \in Clocks, NEW j \in Clocks
        PROVE  u[<<i, j>>] = u[<<OffsetClock(k(i)), OffsetClock(k(j))>>]
    <3>1. ASSUME NEW a \in Clocks
          PROVE  \/ OffsetClock(k(a)) = a
                 \/ a \in References /\ OffsetClock(k(a)) \in References
      BY OffsetClockFacts
    <3>2. OffsetClock(k(i)) \in Clocks /\ OffsetClock(k(j)) \in Clocks
      BY <1>5, <2>1
    <3> HIDE DEF k
    <3>3. u[<<i, j>>] = u[<<OffsetClock(k(i)), j>>]
      BY <1>3, <3>1, ReferencesAlike
    <3>4. u[<<OffsetClock(k(i)), j>>] = u[<<OffsetClock(k(i)), OffsetClock(k(j))>>]
      <4>1. OffsetClock(k(j)) = j => u[<<OffsetClock(k(i)), j>>] =
                                      u[<<OffsetClock(k(i)), OffsetClock(k(j))>>]
        OBVIOUS
      <4>2. ASSUME j \in References, OffsetClock(k(j)) \in References
            PROVE  u[<<OffsetClock(k(i)), j>>] = u[<<OffsetClock(k(i)), OffsetClock(k(j))>>]
        BY <1>3, <3>2, <4>2, ReferencesAlike
      <4> QED
        BY <3>1, <4>1, <4>2
    <3> QED
      BY <3>3, <3>4
  <2>6. ASSUME NEW i \in Clocks, NEW j \in Clocks PROVE Fits(v, i, j, u[<<i, j>>])
    <3> DEFINE x == k(i)
               y == k(j)
               b == u[<<OffsetClock(x), OffsetClock(y)>>]
    <3>1. x \in ZoneClocks /\ y \in ZoneClocks
      BY <2>1
    <3>2. v[i] = w[x] /\ v[j] = w[y] /\ v[OffsetClock(x)] = w[x] /\ v[OffsetClock(y)] = w[y]
      BY <2>3, <3>1
    <3>3. d[<<x, y>>] = LT_INFINITY
            \/ Satisfies(w, x, y, Comparator(d[<<x, y>>]), Value(d[<<x, y>>]))
      BY <1>9, <3>1 DEF InSyncZone
    <3>4. d[<<x, y>>] = b /\ u[<<i, j>>] = b
      BY <1>4, <2>5, <3>1
    <3> HIDE DEF v, k, x, y
    <3>5. b = LT_INFINITY \/ Sat(v, OffsetClock(x), OffsetClock(y), b)
      BY <1>7, <1>9, <2>2, <3>1, <3>2, <3>3, <3>4
    <3> HIDE DEF b
    <3>6. Sat(v, OffsetClock(x), OffsetClock(y), b) <=> Sat(v, i, j, b)
      BY <3>2 DEF Sat, Satisfies
    <3> QED
      BY <3>4, <3>5, <3>6 DEF Fits
  <2>7. InZone(v, u)
    <3> HIDE DEF v
    <3>1. Admits(v, u)
      BY <2>6 DEF Admits
    <3> QED
      BY <1>3, <2>2, <3>1, ZoneAdmits
  <2>8. IsTogether(v, w)
    <3>1. v[0] = 0 /\ \A r \in References : v[r] = v[0]
      BY <2>4, OffsetClockFacts
    <3>2. w = [x \in ZoneClocks |-> w[x]] /\ \A x \in ZoneClocks : w[x] \in Int
      OBVIOUS
    <3>3. \A x \in ZoneClocks : w[x] = IF x = 0 THEN 0 ELSE v[OffsetId(x)] - v[0]
      <4>1. \A x \in ZoneClocks \ {0} : v[OffsetId(x)] = w[x]
        BY <2>3, OffsetClockFacts
      <4> HIDE DEF v
      <4> QED
        BY <1>9, <3>1, <3>2, <4>1
    <3> HIDE DEF v
    <3> QED
      BY <3>1, <3>2, <3>3 DEF IsTogether
  <2> HIDE DEF v
  <2> QED
    BY <1>3, <2>2, <2>7, <2>8
<1> QED
  BY <1>6, <1>8, <1>9
-----------------------------------------------------------------------------
(* The steps of the asynchronous semantics lose no run. *)

\* What a step may return: when the status is OK, a zone to compute with, where the offset
\* variables are positive, and its synchronized zone.
IsOffsetStep(step, refmap) ==
  step.status = "OK" =>
    /\ step.offset \in OffsetZones(refmap)
    /\ IsSyncZone(step.sync)
    /\ \A w \in [ZoneClocks -> Int] :
         w[0] = 0 =>
           (InSyncZone(w, step.sync) <=>
              \E v \in Values : InZone(v, step.offset) /\ IsTogether(v, w))

\* The step keeps v: it fails for no other reason than that the processes cannot have the
\* same time, which is not so of v when they have it.
IsKept(v, step) ==
  /\ step.status \in {"OK", "EMPTY_ZONE"}
  /\ step.status = "OK" => InZone(v, step.offset)
  /\ (\A r \in References : v[r] = v[0]) => step.status = "OK"

\* v becomes w: after the resets, in the invariant of the target, then a delay.
IsOffsetElapsedStep(v, w, guard, resets, allowed, invariant, refmap) ==
  LET after == ResetBy(v, resets, Len(resets), refmap)
  IN SatisfiesAll(v, guard) /\ SatisfiesAll(after, invariant)
     /\ IsOffsetLater(w, after, invariant, allowed)

\* After a delay in the invariant of the source, and the resets, in that of the target.
IsOffsetNonElapsedStep(v, w, allowed, src_invariant, guard, resets, tgt_invariant, refmap) ==
  \E late \in Values :
    /\ IsOffsetLater(late, v, src_invariant, allowed) /\ SatisfiesAll(late, guard)
    /\ w = ResetBy(late, resets, Len(resets), refmap) /\ SatisfiesAll(w, tgt_invariant)

\* sync_zone, from a zone that may have thrown.
LEMMA WithSyncZoneFacts ==
  ASSUME RefCountBounds, NEW refmap \in RefMaps, NEW zone \in OffsetOutcomes(refmap),
         ~ IsEmpty0(zone), NEW step, step = WithSyncZone(zone, refmap)
  PROVE  /\ IsOffsetStep(step, refmap)
         /\ \A v \in Values : InZone(v, zone) => Synchronize(zone) = Thrown \/ IsKept(v, step)
<1> DEFINE u == Synchronize(zone)
<1>1. zone \in OffsetZones(refmap) /\ Good(zone)
  BY OffsetOutcomesCases
<1>2. CASE IsEmpty0(u)
  <2>1. step.status = "EMPTY_ZONE"
    BY <1>2 DEF WithSyncZone, Failure, OffsetResult
  <2>2. ASSUME NEW v \in Values, InZone(v, zone), u # Thrown, \A r \in References : v[r] = v[0]
        PROVE  FALSE
    <3>1. \A r \in References \ {RefCount - 1} : r + 1 \in References
      BY ReferenceFacts DEF References
    <3>2. \A r \in References \ {RefCount - 1} : v[r] = v[r + 1]
      BY <2>2, <3>1
    <3>3. InZone(v, u)
      BY <1>1, <2>2, <3>2, SynchronizeCorrect
    <3> QED
      BY <1>2, <3>3 DEF InZone
  <2> QED
    BY <2>1, <2>2 DEF IsOffsetStep, IsKept
<1>3. CASE ~ IsEmpty0(u)
  <2>1. step = OffsetResult("OK", zone, ToDbm(u, refmap))
    BY <1>3 DEF WithSyncZone
  <2>2. step.status = "OK" /\ step.offset = zone /\ step.sync = ToDbm(u, refmap)
    BY <2>1 DEF OffsetResult
  <2>3. /\ IsSyncZone(step.sync)
        /\ \A w \in [ZoneClocks -> Int] :
             w[0] = 0 =>
               (InSyncZone(w, step.sync) <=>
                  \E v \in Values : InZone(v, step.offset) /\ IsTogether(v, w))
    BY <1>1, <1>3, <2>2, SyncZoneFacts
  <2> QED
    BY <1>1, <2>2, <2>3 DEF IsOffsetStep, IsKept
<1> QED
  BY <1>2, <1>3

\* The guard, the resets and an invariant.
LEMMA ArrivedFacts ==
  ASSUME RefCountBounds, NEW refmap \in RefMaps, NEW m \in OffsetOutcomes(refmap),
         NEW guard \in Seq(DbmConstraints), NEW resets \in Seq(OffsetResets(refmap)),
         NEW invariant \in Seq(DbmConstraints),
         NEW guarded, guarded = ConstrainAll(m, guard), ~ IsEmpty0(guarded),
         NEW arrived,
         arrived = ConstrainAll(OffsetResetAll(guarded, resets, refmap), invariant)
  PROVE  /\ arrived \in OffsetOutcomes(refmap)
         /\ arrived # Thrown => \A v \in Values :
              LET after == ResetBy(v, resets, Len(resets), refmap)
              IN InZone(v, guarded) /\ SatisfiesAll(after, invariant) => InZone(after, arrived)
<1> DEFINE zone == OffsetResetAll(guarded, resets, refmap)
<1>1. guarded \in OffsetZones(refmap) /\ Good(guarded)
  BY ConstrainOffset, OffsetOutcomesCases
<1>2. /\ zone \in OffsetZones(refmap)
      /\ \A v \in Values :
           Admits(v, guarded) => Admits(ResetBy(v, resets, Len(resets), refmap), zone)
  BY <1>1, OffsetResetFacts
<1> HIDE DEF zone
<1>3. zone \in OffsetOutcomes(refmap) /\ zone \in Outcomes /\ Good(zone)
  BY <1>2, OffsetZonesOutcomes
<1>4. arrived = ConstrainAll(zone, invariant)
  BY DEF zone
<1>5. arrived \in OffsetOutcomes(refmap)
  BY <1>3, <1>4, ConstrainOffset
<1>6. ASSUME arrived # Thrown, NEW v \in Values, NEW after,
             after = ResetBy(v, resets, Len(resets), refmap),
             InZone(v, guarded), SatisfiesAll(after, invariant)
      PROVE  InZone(after, arrived)
  <2>1. after \in Values
    <3>1. \A x \in Clocks : refmap[x] \in Clocks
      BY ReferenceFacts DEF RefMaps
    <3> QED
      BY <1>6, <3>1 DEF ResetBy, Values
  <2>2. Admits(after, zone)
    BY <1>1, <1>2, <1>6, ZoneAdmits
  <2>3. InZone(after, zone)
    BY <1>3, <2>1, <2>2, ZoneAdmits
  <2> QED
    BY <1>3, <1>4, <1>6, <2>1, <2>3, ConstrainAllFacts
<1> QED
  BY <1>5, <1>6

\* elapsed_semantics_t::next returns zones to compute with, and their synchronized zones,
\* and loses no run, unless a bound is out of bounds on the way: a valuation in the guard
\* that is in the invariant of the target after the resets, and after a delay of its own in
\* each process, is in the zone that is returned; and there is one when the processes have
\* the same time.
THEOREM OffsetElapsedNextCorrect ==
  ASSUME RefCountBounds, NEW refmap \in RefMaps, NEW m \in OffsetZones(refmap),
         NEW guard \in Seq(DbmConstraints), NEW resets \in Seq(OffsetResets(refmap)),
         NEW allowed \in BOOLEAN, NEW invariant \in Seq(DbmConstraints)
  PROVE  LET step == OffsetElapsedNext(m, guard, resets, allowed, invariant, refmap)
             guarded == ConstrainAll(m, guard)
             arrived == ConstrainAll(OffsetResetAll(guarded, resets, refmap), invariant)
             zone == AsynchronousOpen(arrived, invariant, allowed)
         IN /\ IsOffsetStep(step, refmap)
            /\ \A v, w \in Values :
                 /\ InZone(v, m)
                 /\ IsOffsetElapsedStep(v, w, guard, resets, allowed, invariant, refmap)
                 => Thrown \in {guarded, arrived, zone, Synchronize(zone)} \/ IsKept(w, step)
<1> DEFINE step == OffsetElapsedNext(m, guard, resets, allowed, invariant, refmap)
           guarded == ConstrainAll(m, guard)
           arrived == ConstrainAll(OffsetResetAll(guarded, resets, refmap), invariant)
           zone == AsynchronousOpen(arrived, invariant, allowed)
<1>1. step = IF IsEmpty0(guarded) THEN Failure("CLOCKS_GUARD_VIOLATED")
             ELSE IF IsEmpty0(zone) THEN Failure("CLOCKS_TGT_INVARIANT_VIOLATED")
             ELSE WithSyncZone(zone, refmap)
  BY DEF OffsetElapsedNext
<1>2. m \in OffsetOutcomes(refmap) /\ m \in Outcomes
  BY OffsetZonesOutcomes
<1> HIDE DEF step, zone, arrived, guarded
<1>3. guarded # Thrown => \A v \in Values :
        InZone(v, guarded) <=> InZone(v, m) /\ SatisfiesAll(v, guard)
  BY <1>2, ConstrainAllFacts DEF guarded
<1>4. CASE IsEmpty0(guarded)
  <2>1. step.status = "CLOCKS_GUARD_VIOLATED"
    BY <1>1, <1>4 DEF Failure, OffsetResult
  <2>2. \A v \in Values : InZone(v, m) /\ SatisfiesAll(v, guard) => guarded = Thrown
    BY <1>3, <1>4 DEF InZone
  <2>3. IsOffsetStep(step, refmap)
    BY <2>1 DEF IsOffsetStep
  <2> QED
    BY <2>2, <2>3 DEF IsOffsetElapsedStep, step, guarded
<1>5. CASE ~ IsEmpty0(guarded)
  <2>1. /\ arrived \in OffsetOutcomes(refmap)
        /\ arrived # Thrown => \A v \in Values :
             InZone(v, guarded) /\ SatisfiesAll(ResetBy(v, resets, Len(resets), refmap), invariant)
             => InZone(ResetBy(v, resets, Len(resets), refmap), arrived)
    BY <1>2, <1>5, ArrivedFacts DEF guarded, arrived
  <2>2. /\ zone \in OffsetOutcomes(refmap)
        /\ zone # Thrown => \A v, w \in Values :
             InZone(v, arrived) /\ IsOffsetLater(w, v, invariant, allowed) => InZone(w, zone)
    BY <2>1, AsynchronousOpenFacts DEF zone
  <2>3. ASSUME NEW v \in Values, NEW w \in Values, InZone(v, m),
               IsOffsetElapsedStep(v, w, guard, resets, allowed, invariant, refmap),
               Thrown \notin {guarded, arrived, zone}
        PROVE  InZone(w, zone)
    <3> DEFINE after == ResetBy(v, resets, Len(resets), refmap)
    <3>1. after \in Values
      <4>1. \A x \in Clocks : refmap[x] \in Clocks
        BY ReferenceFacts DEF RefMaps
      <4> QED
        BY <4>1 DEF ResetBy, Values
    <3>2. /\ SatisfiesAll(v, guard) /\ SatisfiesAll(after, invariant)
          /\ IsOffsetLater(w, after, invariant, allowed)
      BY <2>3 DEF IsOffsetElapsedStep
    <3>3. InZone(v, guarded)
      BY <1>3, <2>3, <3>2
    <3>4. InZone(after, arrived)
      BY <2>1, <2>3, <3>2, <3>3
    <3> HIDE DEF after
    <3> QED
      BY <2>2, <2>3, <3>1, <3>2, <3>4
  <2>4. CASE IsEmpty0(zone)
    <3>1. step.status = "CLOCKS_TGT_INVARIANT_VIOLATED"
      BY <1>1, <1>5, <2>4 DEF Failure, OffsetResult
    <3>2. \A w \in Values : ~ InZone(w, zone)
      BY <2>4 DEF InZone
    <3>3. IsOffsetStep(step, refmap)
      BY <3>1 DEF IsOffsetStep
    <3> QED
      BY <2>3, <3>2, <3>3 DEF step, guarded, arrived, zone
  <2>5. CASE ~ IsEmpty0(zone)
    <3>1. step = WithSyncZone(zone, refmap)
      BY <1>1, <1>5, <2>5
    <3>2. /\ IsOffsetStep(step, refmap)
          /\ \A v \in Values : InZone(v, zone) => Synchronize(zone) = Thrown \/ IsKept(v, step)
      BY <2>2, <2>5, <3>1, WithSyncZoneFacts
    <3> QED
      BY <2>3, <3>2 DEF step, guarded, arrived, zone
  <2> QED
    BY <2>4, <2>5
<1> QED
  BY <1>4, <1>5

\* So does non_elapsed_semantics_t::next, where the delay comes first, in the invariant of
\* the source.
THEOREM OffsetNonElapsedNextCorrect ==
  ASSUME RefCountBounds, NEW refmap \in RefMaps, NEW m \in OffsetZones(refmap),
         NEW allowed \in BOOLEAN, NEW src_invariant \in Seq(DbmConstraints),
         NEW guard \in Seq(DbmConstraints), NEW resets \in Seq(OffsetResets(refmap)),
         NEW tgt_invariant \in Seq(DbmConstraints)
  PROVE  LET step == OffsetNonElapsedNext(m, allowed, src_invariant, guard, resets,
                                          tgt_invariant, refmap)
             source == AsynchronousOpen(m, src_invariant, allowed)
             guarded == ConstrainAll(source, guard)
             zone == ConstrainAll(OffsetResetAll(guarded, resets, refmap), tgt_invariant)
         IN /\ IsOffsetStep(step, refmap)
            /\ \A v, w \in Values :
                 /\ InZone(v, m)
                 /\ IsOffsetNonElapsedStep(v, w, allowed, src_invariant, guard, resets,
                                     tgt_invariant, refmap)
                 => Thrown \in {source, guarded, zone, Synchronize(zone)} \/ IsKept(w, step)
<1> DEFINE step == OffsetNonElapsedNext(m, allowed, src_invariant, guard, resets,
                                        tgt_invariant, refmap)
           source == AsynchronousOpen(m, src_invariant, allowed)
           guarded == ConstrainAll(source, guard)
           zone == ConstrainAll(OffsetResetAll(guarded, resets, refmap), tgt_invariant)
<1>1. step = IF IsEmpty0(source) THEN Failure("CLOCKS_SRC_INVARIANT_VIOLATED")
             ELSE IF IsEmpty0(guarded) THEN Failure("CLOCKS_GUARD_VIOLATED")
             ELSE IF IsEmpty0(zone) THEN Failure("CLOCKS_TGT_INVARIANT_VIOLATED")
             ELSE WithSyncZone(zone, refmap)
  BY DEF OffsetNonElapsedNext
<1>2. m \in OffsetOutcomes(refmap)
  BY OffsetZonesOutcomes
<1> HIDE DEF step, zone, guarded, source
<1>3. /\ source \in OffsetOutcomes(refmap) /\ source \in Outcomes
      /\ source # Thrown => \A v, w \in Values :
           InZone(v, m) /\ IsOffsetLater(w, v, src_invariant, allowed) => InZone(w, source)
  BY <1>2, AsynchronousOpenFacts DEF source, OffsetOutcomes
<1>4. guarded # Thrown => \A v \in Values :
        InZone(v, guarded) <=> InZone(v, source) /\ SatisfiesAll(v, guard)
  BY <1>3, ConstrainAllFacts DEF guarded
<1>5. ASSUME NEW v \in Values, NEW late \in Values, InZone(v, m),
             IsOffsetLater(late, v, src_invariant, allowed), SatisfiesAll(late, guard),
             Thrown \notin {source, guarded}
      PROVE  InZone(late, source) /\ InZone(late, guarded)
  BY <1>3, <1>4, <1>5
<1>6. CASE IsEmpty0(source) \/ IsEmpty0(guarded)
  <2>1. step.status # "OK"
    BY <1>1, <1>6 DEF Failure, OffsetResult
  <2>2. IsOffsetStep(step, refmap)
    BY <2>1 DEF IsOffsetStep
  <2>3. \A w : ~ (InZone(w, source) /\ InZone(w, guarded))
    BY <1>6 DEF InZone
  <2> QED
    BY <1>5, <2>2, <2>3 DEF IsOffsetNonElapsedStep, step, source, guarded, zone
<1>7. CASE ~ IsEmpty0(source) /\ ~ IsEmpty0(guarded)
  <2>1. /\ zone \in OffsetOutcomes(refmap)
        /\ zone # Thrown => \A v \in Values :
             /\ InZone(v, guarded)
             /\ SatisfiesAll(ResetBy(v, resets, Len(resets), refmap), tgt_invariant)
             => InZone(ResetBy(v, resets, Len(resets), refmap), zone)
    BY <1>3, <1>7, ArrivedFacts DEF guarded, zone
  <2>2. ASSUME NEW v \in Values, NEW w \in Values, InZone(v, m),
               IsOffsetNonElapsedStep(v, w, allowed, src_invariant, guard, resets, tgt_invariant,
                                refmap),
               Thrown \notin {source, guarded, zone}
        PROVE  InZone(w, zone)
    <3>1. PICK late \in Values :
            /\ IsOffsetLater(late, v, src_invariant, allowed) /\ SatisfiesAll(late, guard)
            /\ w = ResetBy(late, resets, Len(resets), refmap)
            /\ SatisfiesAll(w, tgt_invariant)
      BY <2>2 DEF IsOffsetNonElapsedStep
    <3>2. InZone(late, guarded)
      BY <1>5, <2>2, <3>1
    <3> QED
      BY <2>1, <2>2, <3>1, <3>2
  <2>3. CASE IsEmpty0(zone)
    <3>1. step.status # "OK"
      BY <1>1, <1>7, <2>3 DEF Failure, OffsetResult
    <3>2. \A w \in Values : ~ InZone(w, zone)
      BY <2>3 DEF InZone
    <3>3. IsOffsetStep(step, refmap)
      BY <3>1 DEF IsOffsetStep
    <3> QED
      BY <2>2, <3>2, <3>3 DEF step, source, guarded, zone
  <2>4. CASE ~ IsEmpty0(zone)
    <3>1. step = WithSyncZone(zone, refmap)
      BY <1>1, <1>7, <2>4
    <3>2. /\ IsOffsetStep(step, refmap)
          /\ \A v \in Values : InZone(v, zone) => Synchronize(zone) = Thrown \/ IsKept(v, step)
      BY <2>1, <2>4, <3>1, WithSyncZoneFacts
    <3> QED
      BY <2>2, <3>2 DEF step, source, guarded, zone
  <2> QED
    BY <2>3, <2>4
<1> QED
  BY <1>6, <1>7

\* The valuation where all the clocks are 0 is in the zone Zero.
LEMMA ZeroAdmitted == InZone([x \in Clocks |-> 0], Zero)
<1> DEFINE v == [x \in Clocks |-> 0]
<1>1. Good(Zero) /\ Zero \in Matrices
  BY ZeroFacts DEF ZeroIsGood, Good
<1>2. v \in Values /\ \A x \in Clocks : v[x] = 0
  BY DEF Values
<1>3. Value(LE_ZERO) = 0 /\ Comparator(LE_ZERO) = 1 /\ 0 * Unit = 0
  BY UnitFacts DEF Value, Comparator, LE_ZERO, LE
<1>4. \A x, y \in Clocks : Sat(v, x, y, LE_ZERO)
  BY <1>2, <1>3 DEF Sat, Satisfies, LT
<1>5. \A x, y \in Clocks : Zero[<<x, y>>] = LE_ZERO
  BY DEF Zero
<1> HIDE DEF v
<1>6. Admits(v, Zero)
  BY <1>4, <1>5 DEF Admits, Fits
<1> QED
  BY <1>1, <1>2, <1>6, ZoneAdmits DEF v

\* The zone that the initial zones are computed from.
LEMMA ZeroIsOffset ==
  ASSUME RefCountBounds, NEW refmap \in RefMaps
  PROVE  Zero \in OffsetZones(refmap) /\ InZone([x \in Clocks |-> 0], Zero)
<1>1. Good(Zero) /\ Zero \in Matrices
  BY ZeroFacts DEF ZeroIsGood, Good
<1>2. \A x, y \in Clocks : Zero[<<x, y>>] = LE_ZERO
  BY DEF Zero
<1>3. IsPositiveOffset(Zero, refmap)
  <2>1. \A x \in OffsetVariables : x \in Clocks /\ refmap[x] \in Clocks
    BY ReferenceFacts, ClockFacts DEF OffsetVariables, RefMaps
  <2>2. LE_ZERO <= LE_ZERO
    BY EntryFacts
  <2> QED
    BY <1>2, <2>1, <2>2 DEF IsPositiveOffset
<1>4. InZone([x \in Clocks |-> 0], Zero)
  BY ZeroAdmitted
<1> QED
  BY <1>1, <1>3, <1>4 DEF OffsetZones

\* And so do the functions initialize of both: the valuation where all the clocks are 0 is
\* kept if it is in the invariant, and after a delay of its own in each process, when time
\* elapses after the steps.
THEOREM OffsetInitializeCorrect ==
  ASSUME RefCountBounds, NEW refmap \in RefMaps, NEW allowed \in BOOLEAN,
         NEW invariant \in Seq(DbmConstraints)
  PROVE  LET elapsed == OffsetElapsedInitialize(allowed, invariant, refmap)
             nonElapsed == OffsetNonElapsedInitialize(invariant, refmap)
             zone == ConstrainAll(Zero, invariant)
             later == AsynchronousOpen(zone, invariant, allowed)
             zero == [x \in Clocks |-> 0]
         IN /\ IsOffsetStep(elapsed, refmap) /\ IsOffsetStep(nonElapsed, refmap)
            /\ SatisfiesAll(zero, invariant) =>
                 /\ Thrown \in {zone, Synchronize(zone)} \/ IsKept(zero, nonElapsed)
                 /\ \A w \in Values :
                      IsOffsetLater(w, zero, invariant, allowed) =>
                        Thrown \in {zone, later, Synchronize(later)} \/ IsKept(w, elapsed)
<1> DEFINE elapsed == OffsetElapsedInitialize(allowed, invariant, refmap)
           nonElapsed == OffsetNonElapsedInitialize(invariant, refmap)
           zone == ConstrainAll(Zero, invariant)
           later == AsynchronousOpen(zone, invariant, allowed)
           zero == [x \in Clocks |-> 0]
<1>1. /\ elapsed = IF IsEmpty0(later) THEN Failure("CLOCKS_SRC_INVARIANT_VIOLATED")
                   ELSE WithSyncZone(later, refmap)
      /\ nonElapsed = IF IsEmpty0(zone) THEN Failure("CLOCKS_SRC_INVARIANT_VIOLATED")
                      ELSE WithSyncZone(zone, refmap)
  BY DEF OffsetElapsedInitialize, OffsetNonElapsedInitialize
<1>2. /\ Zero \in OffsetOutcomes(refmap) /\ Zero \in Outcomes /\ InZone(zero, Zero)
      /\ zero \in Values
  BY ZeroIsOffset, OffsetZonesOutcomes DEF Values
<1> HIDE DEF elapsed, nonElapsed, zone, later, zero
<1>3. /\ zone \in OffsetOutcomes(refmap)
      /\ zone # Thrown /\ SatisfiesAll(zero, invariant) => InZone(zero, zone)
  BY <1>2, ConstrainOffset, ConstrainAllFacts DEF zone
<1>4. /\ later \in OffsetOutcomes(refmap)
      /\ later # Thrown => \A v, w \in Values :
           InZone(v, zone) /\ IsOffsetLater(w, v, invariant, allowed) => InZone(w, later)
  BY <1>3, AsynchronousOpenFacts DEF later
<1>5. ASSUME NEW d \in OffsetOutcomes(refmap), NEW step,
             step = IF IsEmpty0(d) THEN Failure("CLOCKS_SRC_INVARIANT_VIOLATED")
                    ELSE WithSyncZone(d, refmap)
      PROVE  /\ IsOffsetStep(step, refmap)
             /\ \A v \in Values : InZone(v, d) => Synchronize(d) = Thrown \/ IsKept(v, step)
  <2>1. CASE IsEmpty0(d)
    <3>1. step.status # "OK" /\ \A v \in Values : ~ InZone(v, d)
      BY <1>5, <2>1 DEF Failure, OffsetResult, InZone
    <3> QED
      BY <3>1 DEF IsOffsetStep
  <2>2. CASE ~ IsEmpty0(d)
    BY <1>5, <2>2, WithSyncZoneFacts
  <2> QED
    BY <2>1, <2>2
<1>6. /\ IsOffsetStep(elapsed, refmap)
      /\ \A v \in Values : InZone(v, later) => Synchronize(later) = Thrown \/ IsKept(v, elapsed)
  BY <1>1, <1>4, <1>5
<1>7. /\ IsOffsetStep(nonElapsed, refmap)
      /\ \A v \in Values : InZone(v, zone) => Synchronize(zone) = Thrown \/ IsKept(v, nonElapsed)
  BY <1>1, <1>3, <1>5
<1>8. ASSUME SatisfiesAll(zero, invariant)
      PROVE  Thrown \in {zone, Synchronize(zone)} \/ IsKept(zero, nonElapsed)
  BY <1>2, <1>3, <1>7, <1>8
<1>9. ASSUME SatisfiesAll(zero, invariant), NEW w \in Values,
             IsOffsetLater(w, zero, invariant, allowed)
      PROVE  Thrown \in {zone, later, Synchronize(later)} \/ IsKept(w, elapsed)
  BY <1>2, <1>3, <1>4, <1>6, <1>9
<1> QED
  BY <1>6, <1>7, <1>8, <1>9 DEF elapsed, nonElapsed, zone, later, zero
-----------------------------------------------------------------------------
(* The zone semantics loses no run either, whatever the extrapolation. *)

\* Clocks are not negative, and clock 0 is 0.
ClockValues == {v \in Values : v[0] = 0 /\ \A x \in Clocks : v[x] >= 0}

\* The zones that the semantics computes with, and what its functions may return.
Zones == {z \in Matrices : Good(z) /\ IsPositive(z)}
ZoneOutcomes == {u \in Outcomes : IsZone(u) => IsPositive(u)}

ZoneResets == [x : Clocks \ {0}, y : Clocks, c : Nat]

\* The zones among the outcomes.
LEMMA ZoneOutcomesCases ==
  ASSUME NEW u \in ZoneOutcomes
  PROVE  IsEmpty0(u) \/ (u \in Zones /\ Good(u) /\ u # Thrown)
<1>1. u \in Outcomes /\ (IsZone(u) => IsPositive(u))
  BY DEF ZoneOutcomes
<1> QED
  BY <1>1, OutcomesCases DEF Zones, Good

\* A zone is an outcome, and there is something to compute with.
LEMMA ZonesOutcomes ==
  ASSUME NEW u \in Zones
  PROVE  /\ u \in ZoneOutcomes /\ u \in Outcomes /\ Good(u) /\ IsPositive(u)
         /\ ~ IsEmpty0(u) /\ u # Thrown
<1>1. u \in Matrices /\ Good(u) /\ IsPositive(u)
  BY DEF Zones
<1>2. IsOutcome(u) /\ ~ IsEmpty0(u)
  BY <1>1, OutcomesGood, GoodFacts, ClockFacts, EntryFacts DEF IsEmpty0
<1>3. u # Thrown
  <2>1. Thrown[<<0, 0>>] = OutOfBounds /\ u[<<0, 0>>] # OutOfBounds
    BY <1>1, GoodFacts, ClockFacts DEF Thrown
  <2> QED
    BY <2>1
<1> QED
  BY <1>1, <1>2, <1>3 DEF ZoneOutcomes, Outcomes

\* Constraints leave an outcome.
LEMMA ConstrainPositive ==
  ASSUME NEW m \in ZoneOutcomes, NEW constraints \in Seq(DbmConstraints),
         NEW u, u = ConstrainAll(m, constraints)
  PROVE  u \in ZoneOutcomes
<1>1. m \in Outcomes /\ (IsZone(m) => IsPositive(m))
  BY DEF ZoneOutcomes
<1>2. u \in Outcomes /\ (IsZone(u) => \A i, j \in Clocks : u[<<i, j>>] <= m[<<i, j>>])
  BY <1>1, ConstrainAllFacts
<1>3. ASSUME IsZone(u) PROVE IsPositive(u)
  <2>1. Good(u)
    BY <1>2, <1>3, OutcomesCases DEF IsOutcome
  <2>2. IsZone(m)
    <3> SUFFICES ASSUME IsEmpty0(m) PROVE FALSE
      BY <1>1, OutcomesCases
    <3>1. m \in EntryMatrices
      BY <1>1, OutcomeFacts DEF Outcomes, Matrices, EntryMatrices, Entries
    <3>2. m[<<0, 0>>] < LE_ZERO /\ m[<<0, 0>>] \in Int /\ u[<<0, 0>>] <= m[<<0, 0>>]
      BY <1>2, <1>3, <3>1, ClockFacts DEF IsEmpty0
    <3>3. u[<<0, 0>>] = LE_ZERO /\ LE_ZERO \in Int
      BY <2>1, GoodFacts, ClockFacts, EntryFacts
    <3> QED
      BY <3>2, <3>3
  <2>3. Good(m)
    BY <1>1, <2>2, OutcomesCases DEF IsOutcome
  <2> SUFFICES ASSUME NEW x \in Clocks PROVE u[<<0, x>>] <= LE_ZERO
    BY DEF IsPositive
  <2>4. /\ u[<<0, x>>] \in Int /\ m[<<0, x>>] \in Int /\ LE_ZERO \in Int
        /\ u[<<0, x>>] <= m[<<0, x>>]
    BY <1>2, <1>3, <2>1, <2>3, ClockFacts, GoodFacts, EntryFacts
  <2>5. m[<<0, x>>] <= LE_ZERO
    BY <1>1, <2>2 DEF IsPositive
  <2> QED
    BY <2>4, <2>5
<1> QED
  BY <1>2, <1>3 DEF ZoneOutcomes

\* What has thrown is not reset.
LEMMA ResetThrown ==
  ASSUME NEW x \in Clocks, NEW y \in Clocks, NEW c \in Nat
  PROVE  Reset(Thrown, x, y, c) = Thrown
<1>1. \A p \in Clocks \X Clocks : Thrown[p] = OutOfBounds
  BY DEF Thrown
<1>2. <<0, 0>> \in Clocks \X Clocks
  BY ClockFacts
<1>3. ASSUME NEW m, m[<<0, 0>>] = OutOfBounds PROVE OrThrown(m) = Thrown
  BY <1>2, <1>3 DEF OrThrown
<1>4. ResetToValue(Thrown, x, c) = Thrown
  <2> DEFINE e == [p \in Clocks \X Clocks |->
                     IF p[1] = p[2] THEN Thrown[p]
                     ELSE IF p[1] = x THEN Sum(MakeBound(LE, c), Thrown[<<0, p[2]>>])
                     ELSE IF p[2] = x THEN Sum(Thrown[<<p[1], 0>>], MakeBound(LE, -c))
                     ELSE Thrown[p]]
  <2>1. e[<<0, 0>>] = OutOfBounds
    BY <1>1, <1>2
  <2>2. ResetToValue(Thrown, x, c) = OrThrown(e)
    BY DEF ResetToValue
  <2> HIDE DEF e
  <2> QED
    BY <1>3, <2>1, <2>2
<1>5. ResetToClock(Thrown, x, y) = Thrown
  BY <1>1 DEF ResetToClock, Thrown
<1>6. ResetToSum(Thrown, x, y, c) = Thrown
  <2> DEFINE e == [p \in Clocks \X Clocks |->
                     IF p[1] = p[2] THEN Thrown[p]
                     ELSE IF p[1] = x THEN Add(Thrown[<<y, p[2]>>], c)
                     ELSE IF p[2] = x THEN Add(Thrown[<<p[1], y>>], -c)
                     ELSE Thrown[p]]
  <2>1. e[<<0, 0>>] = OutOfBounds
    BY <1>1, <1>2
  <2>2. ResetToSum(Thrown, x, y, c) \in {Thrown, OrThrown(e)}
    BY DEF ResetToSum
  <2> HIDE DEF e
  <2> QED
    BY <1>3, <2>1, <2>2
<1> QED
  BY <1>4, <1>5, <1>6 DEF Reset

\* A reset leaves a zone with the valuations after it, or has thrown.
LEMMA ResetKeeps ==
  ASSUME NEW z \in Zones \cup {Thrown}, NEW r \in ZoneResets,
         NEW u, u = Reset(z, r.x, r.y, r.c)
  PROVE  /\ u \in Zones \cup {Thrown} /\ (z = Thrown => u = Thrown)
         /\ \A v \in Values :
              u # Thrown /\ Admits(v, z) =>
                Admits([v EXCEPT ![r.x] = v[r.y] + r.c * Unit], u)
<1>1. r.x \in Clocks \ {0} /\ r.x \in Clocks /\ r.y \in Clocks /\ r.c \in Nat
  BY DEF ZoneResets
<1>2. CASE z = Thrown
  BY <1>1, <1>2, ResetThrown
<1>3. CASE z # Thrown
  <2>1. Good(z) /\ IsPositive(z)
    BY <1>3 DEF Zones
  <2>2. u = Thrown \/ IsReset(u, z, r.x, r.y, r.c)
    BY <1>1, <2>1, ResetFacts
  <2>3. u = Thrown \/ (u \in Zones /\ IsReset(u, z, r.x, r.y, r.c))
    BY <1>1, <2>1, <2>2, ResetGood DEF Zones, Good
  <2>4. ASSUME NEW v \in Values, IsReset(u, z, r.x, r.y, r.c), Admits(v, z)
        PROVE  Admits([v EXCEPT ![r.x] = v[r.y] + r.c * Unit], u)
    <3> DEFINE w == [v EXCEPT ![r.x] = v[r.y] + r.c * Unit]
    <3>1. r.c * Unit \in Int /\ 0 * Unit = 0 /\ \A i \in Clocks : v[i] \in Int
      BY <1>1, UnitFacts DEF Values
    <3>2. w \in Values
      BY <1>1, <3>1 DEF Values
    <3>3. IsResetOf(w, v, r.x, r.y, r.c)
      BY <1>1, <3>1 DEF IsResetOf, Source, Shift, Values
    <3>4. \A i, j \in Clocks :
            Fits(v, Source(r.x, r.y)[i], Source(r.x, r.y)[j],
                 z[<<Source(r.x, r.y)[i], Source(r.x, r.y)[j]>>])
      <4>1. \A i \in Clocks : Source(r.x, r.y)[i] \in Clocks
        BY <1>1 DEF Source
      <4> QED
        BY <2>4, <4>1 DEF Admits
    <3> HIDE DEF w
    <3>5. Admits(w, u)
      BY <1>1, <2>1, <2>4, <3>2, <3>3, <3>4, ResetAdmits
    <3> QED
      BY <3>5 DEF w
  <2> QED
    BY <1>3, <2>3, <2>4
<1> QED
  BY <1>2, <1>3

\* The valuations that the resets make of v, one after another.
IsResetRun(run, v, resets) ==
  /\ run \in [0 .. Len(resets) -> Values] /\ run[0] = v
  /\ \A n \in 0 .. Len(resets) - 1 :
       LET r == resets[n + 1]
       IN run[n + 1] = [run[n] EXCEPT ![r.x] = run[n][r.y] + r.c * Unit]

\* Clocks stay clocks.
LEMMA ResetRunFacts ==
  ASSUME NEW resets \in Seq(ZoneResets), NEW v \in ClockValues, NEW run,
         IsResetRun(run, v, resets)
  PROVE  run[Len(resets)] \in ClockValues
<1> DEFINE N == Len(resets)
           S == {n \in 0 .. N : run[n] \in ClockValues}
<1>1. N \in Nat /\ \A n \in 1 .. N : resets[n] \in ZoneResets
  OBVIOUS
<1>2. 0 \in S
  BY <1>1 DEF IsResetRun
<1>3. ASSUME NEW n \in 0 .. N - 1, n \in S PROVE n + 1 \in S
  <2> DEFINE r == resets[n + 1]
             w == run[n]
             k == r.c * Unit
  <2>1. n + 1 \in 0 .. N /\ n + 1 \in 1 .. N /\ w \in ClockValues
    BY <1>1, <1>3
  <2>2. r.x \in Clocks \ {0} /\ r.y \in Clocks /\ r.c \in Nat
    BY <1>1, <2>1 DEF ZoneResets
  <2>3. run[n + 1] = [w EXCEPT ![r.x] = w[r.y] + k]
    BY DEF IsResetRun
  <2>4. k \in Nat
    <3>1. \A a, b \in Nat : a * b \in Nat
      OBVIOUS
    <3> QED
      BY <2>2, <3>1, UnitFacts
  <2> HIDE DEF r, w, k
  <2>5. run[n + 1] \in ClockValues
    <3>1. w \in Values /\ w[0] = 0 /\ \A i \in Clocks : w[i] \in Int /\ w[i] >= 0
      BY <2>1 DEF ClockValues, Values
    <3> DEFINE a == w[r.y] + k
               e == [w EXCEPT ![r.x] = a]
    <3>2. a \in Int /\ a >= 0
      BY <2>2, <2>4, <3>1
    <3> HIDE DEF a
    <3>3. e \in Values /\ \A i \in Clocks : e[i] = IF i = r.x THEN a ELSE w[i]
      BY <3>1, <3>2 DEF Values
    <3> HIDE DEF e
    <3>4. e[0] = 0 /\ \A i \in Clocks : e[i] >= 0
      BY <2>2, <3>1, <3>2, <3>3, ClockFacts
    <3>5. run[n + 1] = e
      BY <2>3 DEF a, e
    <3> QED
      BY <3>3, <3>4, <3>5 DEF ClockValues
  <2> QED
    BY <2>1, <2>5
<1> HIDE DEF S
<1>4. \A n \in 0 .. N : n \in S
  BY <1>1, <1>2, <1>3, CountingTo
<1> QED
  BY <1>1, <1>4 DEF S

\* The loop of details::reset.
LEMMA ResetAllFacts ==
  ASSUME NEW m \in Zones, NEW resets \in Seq(ZoneResets), NEW u, u = ResetAll(m, resets)
  PROVE  /\ u \in Zones \cup {Thrown}
         /\ u # Thrown => \A v \in Values : \A run :
              Admits(v, m) /\ IsResetRun(run, v, resets) => Admits(run[Len(resets)], u)
<1> DEFINE N == Len(resets)
           Results == Zones \cup {Thrown}
           G(n, z) == Reset(z, resets[n].x, resets[n].y, resets[n].c)
           F == [p \in Nat \X Results |-> IF p[1] < N THEN G(p[1] + 1, p[2]) ELSE p[2]]
           zones[n \in 0 .. N] == IF n = 0 THEN m ELSE G(n, zones[n - 1])
<1>1. u = zones[N]
  BY DEF ResetAll
<1>2. N \in Nat /\ \A n \in 1 .. N : resets[n] \in ZoneResets
  OBVIOUS
<1>3. ASSUME NEW n \in 1 .. N, NEW z \in Results
      PROVE  /\ G(n, z) \in Results /\ (z = Thrown => G(n, z) = Thrown)
             /\ \A v \in Values :
                  G(n, z) # Thrown /\ Admits(v, z) =>
                    Admits([v EXCEPT ![resets[n].x] = v[resets[n].y] + resets[n].c * Unit],
                           G(n, z))
  BY <1>2, ResetKeeps
<1> HIDE DEF G
<1>4. F \in [Nat \X Results -> Results]
  <2>1. ASSUME NEW p \in Nat \X Results
        PROVE  (IF p[1] < N THEN G(p[1] + 1, p[2]) ELSE p[2]) \in Results
    <3>1. p[1] \in Nat /\ p[2] \in Results
      OBVIOUS
    <3>2. p[1] < N => p[1] + 1 \in 1 .. N
      BY <1>2, <3>1
    <3> QED
      BY <1>3, <3>1, <3>2
  <2> QED
    BY <2>1
<1>5. PICK f \in [0 .. N -> Results] : IsLoop(f, F, m, N)
  <2>1. m \in Results
    OBVIOUS
  <2> HIDE DEF F, Results
  <2> QED
    BY <1>2, <1>4, <2>1, Loop, Zenon
<1>6. f = [n \in 0 .. N |-> IF n = 0 THEN m ELSE G(n, f[n - 1])]
  <2>1. ASSUME NEW n \in 0 .. N, n # 0 PROVE F[<<n - 1, f[n - 1]>>] = G(n, f[n - 1])
    <3>1. n - 1 \in Nat /\ n - 1 \in 0 .. N /\ n - 1 < N /\ (n - 1) + 1 = n
      BY <1>2, <2>1
    <3>2. <<n - 1, f[n - 1]>> \in Nat \X Results
      BY <1>5, <3>1
    <3> QED
      BY <3>1, <3>2
  <2> HIDE DEF F
  <2> QED
    BY <1>5, <2>1 DEF IsLoop
<1>7. zones = [n \in 0 .. N |-> IF n = 0 THEN m ELSE G(n, zones[n - 1])]
  BY <1>6, Zenon DEF zones
<1> HIDE DEF zones, F
<1>8. zones[0] = m /\ \A n \in 0 .. N - 1 : zones[n + 1] = G(n + 1, zones[n])
  <2>1. \A n \in 0 .. N - 1 : n + 1 \in 0 .. N /\ n + 1 # 0 /\ (n + 1) - 1 = n
    BY <1>2
  <2>2. 0 \in 0 .. N
    BY <1>2
  <2> QED
    BY <1>7, <2>1, <2>2
<1> DEFINE Kept(z, n) ==
             /\ z \in Results
             /\ z # Thrown => \A v \in Values : \A run :
                  Admits(v, m) /\ IsResetRun(run, v, resets) => Admits(run[n], z)
           S == {n \in 0 .. N : Kept(zones[n], n)}
<1>9. 0 \in S
  <2>1. 0 \in 0 .. N
    BY <1>2
  <2> QED
    BY <1>8, <2>1 DEF IsResetRun
<1>10. ASSUME NEW n \in 0 .. N - 1, n \in S PROVE n + 1 \in S
  <2>1. n \in 0 .. N /\ n + 1 \in 0 .. N /\ n + 1 \in 1 .. N /\ Kept(zones[n], n)
    BY <1>2, <1>10
  <2>2. zones[n + 1] = G(n + 1, zones[n])
    BY <1>8
  <2>3. zones[n + 1] \in Results /\ (zones[n] = Thrown => zones[n + 1] = Thrown)
    BY <1>3, <2>1, <2>2
  <2>4. ASSUME zones[n + 1] # Thrown, NEW v \in Values, NEW run, Admits(v, m),
               IsResetRun(run, v, resets)
        PROVE  Admits(run[n + 1], zones[n + 1])
    <3> DEFINE r == resets[n + 1]
               w == run[n]
    <3>1. w \in Values /\ run[n + 1] = [w EXCEPT ![r.x] = w[r.y] + r.c * Unit]
      BY <2>1, <2>4 DEF IsResetRun
    <3>2. Admits(w, zones[n])
      BY <2>1, <2>3, <2>4
    <3> HIDE DEF w
    <3>3. Admits([w EXCEPT ![r.x] = w[r.y] + r.c * Unit], zones[n + 1])
      BY <1>3, <2>1, <2>2, <2>4, <3>1, <3>2
    <3> QED
      BY <3>1, <3>3
  <2> HIDE DEF Results
  <2> QED
    BY <2>1, <2>3, <2>4
<1> HIDE DEF S
<1>11. N \in S
  <2>1. \A n \in 0 .. N : n \in S
    BY <1>2, <1>9, <1>10, CountingTo
  <2> QED
    BY <1>2, <2>1
<1> QED
  BY <1>1, <1>11 DEF S

\* Time elapses, when it may, in the invariant.
IsLater(w, v, invariant, allowed) ==
  IF allowed
  THEN /\ \E t \in Nat : w = [x \in Clocks |-> IF x = 0 THEN 0 ELSE v[x] + t]
       /\ SatisfiesAll(w, invariant)
  ELSE w = v

\* The zone where time has elapsed loses no valuation.
LEMMA OpenFacts ==
  ASSUME NEW m \in ZoneOutcomes, NEW invariant \in Seq(DbmConstraints),
         NEW allowed \in BOOLEAN, NEW u, u = Open(m, invariant, allowed)
  PROVE  /\ u \in ZoneOutcomes
         /\ u # Thrown => \A v \in ClockValues : \A w :
              InZone(v, m) /\ IsLater(w, v, invariant, allowed) =>
                w \in ClockValues /\ InZone(w, u)
<1>1. CASE ~ allowed
  BY <1>1 DEF Open, IsLater
<1>2. CASE IsEmpty0(m)
  BY <1>2 DEF Open, InZone
<1>3. CASE allowed /\ ~ IsEmpty0(m)
  <2> DEFINE o == OpenUp(m)
  <2>1. Good(m) /\ IsPositive(m)
    BY <1>3, ZoneOutcomesCases DEF Zones
  <2>2. u = ConstrainAll(o, invariant) /\ Good(o) /\ IsPositive(o)
    BY <1>3, <2>1, OpenUpOutcome DEF Open
  <2>3. \A i, j \in Clocks :
          o[<<i, j>>] = IF i # 0 /\ j = 0 THEN LT_INFINITY ELSE m[<<i, j>>]
    BY DEF OpenUp
  <2> HIDE DEF o
  <2>4. o \in Zones
    BY <2>2 DEF Zones, Good
  <2>5. o \in Outcomes /\ u \in ZoneOutcomes
    BY <2>2, <2>4, ZonesOutcomes, ConstrainPositive
  <2>6. ASSUME NEW v \in ClockValues, NEW t \in Nat, NEW w,
               w = [x \in Clocks |-> IF x = 0 THEN 0 ELSE v[x] + t], InZone(v, m)
        PROVE  w \in ClockValues /\ InZone(w, o)
    <3>1. v \in Values /\ v[0] = 0 /\ \A x \in Clocks : v[x] \in Int /\ v[x] >= 0
      BY DEF ClockValues, Values
    <3>2. w \in Values /\ w \in ClockValues
      BY <2>6, <3>1, ClockFacts DEF ClockValues, Values
    <3>3. Admits(v, m)
      BY <2>1, <2>6, <3>1, ZoneAdmits
    <3>4. ASSUME NEW i \in Clocks, NEW j \in Clocks PROVE Fits(w, i, j, o[<<i, j>>])
      <4>1. CASE i # 0 /\ j = 0
        BY <2>3, <4>1 DEF Fits
      <4>2. CASE ~ (i # 0 /\ j = 0)
        <5>1. o[<<i, j>>] = m[<<i, j>>] /\ Fits(v, i, j, m[<<i, j>>])
          BY <2>3, <3>3, <4>2 DEF Admits
        <5>2. w[i] - w[j] <= v[i] - v[j] /\ w[i] - w[j] \in Int /\ v[i] - v[j] \in Int
          <6>1. \A x \in Clocks : w[x] = IF x = 0 THEN 0 ELSE v[x] + t
            BY <2>6
          <6>2. v[i] \in Int /\ v[i] >= 0 /\ v[j] \in Int /\ v[j] >= 0 /\ v[0] = 0
            BY <3>1
          <6> QED
            BY <4>2, <6>1, <6>2
        <5>3. ASSUME Sat(v, i, j, m[<<i, j>>]) PROVE Sat(w, i, j, m[<<i, j>>])
          <6> DEFINE b == Value(m[<<i, j>>]) * Unit
                     d == v[i] - v[j]
                     e == w[i] - w[j]
          <6>1. Value(m[<<i, j>>]) \in Int
            BY <2>1, GoodFacts, Parts
          <6>2. b \in Int /\ d \in Int /\ e \in Int /\ e <= d
            BY <5>2, <6>1, UnitFacts
          <6>3. IF Comparator(m[<<i, j>>]) = LT THEN d < b ELSE d <= b
            BY <5>3 DEF Sat, Satisfies
          <6> HIDE DEF b, d, e
          <6>4. IF Comparator(m[<<i, j>>]) = LT THEN e < b ELSE e <= b
            BY <6>2, <6>3
          <6> QED
            BY <6>4 DEF Sat, Satisfies, b, d, e
        <5> QED
          BY <5>1, <5>3 DEF Fits
      <4> QED
        BY <4>1, <4>2
    <3>5. Admits(w, o)
      BY <3>4 DEF Admits
    <3> QED
      BY <2>2, <3>2, <3>5, ZoneAdmits
  <2>7. ASSUME u # Thrown, NEW v \in ClockValues, NEW w, InZone(v, m),
               IsLater(w, v, invariant, allowed)
        PROVE  w \in ClockValues /\ InZone(w, u)
    <3>1. w \in ClockValues /\ InZone(w, o) /\ SatisfiesAll(w, invariant)
      BY <1>3, <2>6, <2>7 DEF IsLater
    <3>2. w \in Values
      BY <3>1 DEF ClockValues
    <3> QED
      BY <2>2, <2>5, <2>7, <3>1, <3>2, ConstrainAllFacts
  <2> QED
    BY <2>5, <2>7
<1> QED
  BY <1>1, <1>2, <1>3

\* Zero is a zone, with the valuation where all the clocks are 0.
LEMMA ZeroIsZone == Zero \in Zones /\ InZone([x \in Clocks |-> 0], Zero)
<1>1. Good(Zero) /\ Zero \in Matrices
  BY ZeroFacts DEF ZeroIsGood, Good
<1>2. \A x, y \in Clocks : Zero[<<x, y>>] = LE_ZERO
  BY DEF Zero
<1>3. IsPositive(Zero)
  BY <1>2, ClockFacts, EntryFacts DEF IsPositive
<1>4. InZone([x \in Clocks |-> 0], Zero)
  BY ZeroAdmitted
<1> QED
  BY <1>1, <1>3, <1>4 DEF Zones

\* An extrapolation: its name, and the bounds of the clocks that it is given.
IsExtrapolation(e) ==
  /\ e.extra \in Extrapolations
  /\ e.extra # "NOextra" =>
       /\ e.l \in [Clocks -> Int] /\ e.u \in [Clocks -> Int]
       /\ \A x \in Clocks : e.u[x] \in Nat \cup {NoBound}

\* An extrapolation leaves a zone, and loses no valuation of it.
LEMMA ExtrapolateToFacts ==
  ASSUME NEW z \in Zones, NEW e, IsExtrapolation(e), NEW u, u = ExtrapolateTo(z, e)
  PROVE  /\ u \in ZoneOutcomes
         /\ u # Thrown => \A v \in ClockValues : InZone(v, z) => InZone(v, u)
<1>1. Good(z) /\ IsPositive(z)
  BY ZonesOutcomes
<1>2. CASE e.extra = "NOextra"
  <2>1. u = z
    BY <1>2 DEF ExtrapolateTo
  <2> QED
    BY <2>1, ZonesOutcomes
<1>3. CASE e.extra # "NOextra"
  <2>1. /\ e.l \in [Clocks -> Int] /\ e.u \in [Clocks -> Int]
        /\ \A x \in Clocks : e.u[x] \in Nat \cup {NoBound}
    BY <1>3 DEF IsExtrapolation
  <2>2. u = ExtraLU(z, e.l, e.u) \/ u = ExtraLUPlus(z, e.l, e.u)
    BY <1>3 DEF ExtrapolateTo, IsExtrapolation, Extrapolations
  <2>3. IsOutcome(u) /\ (IsZone(u) => IsPositive(u))
    BY <1>1, <2>1, <2>2, ExtraLUOutcome, ExtraLUPlusOutcome
  <2>4. u \in ZoneOutcomes
    BY <2>3 DEF ZoneOutcomes, Outcomes, IsOutcome
  <2>5. ASSUME u # Thrown, NEW v \in ClockValues, InZone(v, z) PROVE InZone(v, u)
    <3>1. v \in Values /\ v[0] = 0 /\ \A i \in Clocks : v[i] >= 0
      BY DEF ClockValues
    <3>2. CASE u = ExtraLU(z, e.l, e.u)
      BY <1>1, <2>1, <2>5, <3>1, <3>2, ExtraLUKeeps
    <3>3. CASE u = ExtraLUPlus(z, e.l, e.u)
      BY <1>1, <2>1, <2>5, <3>1, <3>3, ExtraLUPlusKeeps
    <3> QED
      BY <2>2, <3>2, <3>3
  <2> QED
    BY <2>4, <2>5
<1> QED
  BY <1>2, <1>3

\* What a step may return: when the status is OK, a zone, unless a bound is out of bounds.
IsStep(step) == step.status = "OK" => step.zone \in ZoneOutcomes

\* The step keeps v, unless a bound is out of bounds in its extrapolation.
Keeps(v, step) == step.status = "OK" /\ (step.zone = Thrown \/ InZone(v, step.zone))

\* The end of a step: the extrapolation of a zone that is not empty.
LEMMA EndFacts ==
  ASSUME NEW zone \in ZoneOutcomes, NEW e, IsExtrapolation(e), NEW step,
         IF IsEmpty0(zone) THEN step.status # "OK"
         ELSE step.status = "OK" /\ step.zone = ExtrapolateTo(zone, e)
  PROVE  IsStep(step) /\ \A v \in ClockValues : InZone(v, zone) => Keeps(v, step)
<1>1. CASE IsEmpty0(zone)
  BY <1>1 DEF IsStep, InZone
<1>2. CASE ~ IsEmpty0(zone)
  <2>1. zone \in Zones
    BY <1>2, ZoneOutcomesCases
  <2>2. step.status = "OK" /\ step.zone = ExtrapolateTo(zone, e)
    BY <1>2
  <2> QED
    BY <2>1, <2>2, ExtrapolateToFacts DEF IsStep, Keeps
<1> QED
  BY <1>1, <1>2

\* The guard, the resets and an invariant.
LEMMA ArrivalFacts ==
  ASSUME NEW m \in ZoneOutcomes, NEW guard \in Seq(DbmConstraints),
         NEW resets \in Seq(ZoneResets), NEW invariant \in Seq(DbmConstraints),
         NEW guarded, guarded = ConstrainAll(m, guard), ~ IsEmpty0(guarded),
         NEW reset, reset = ResetAll(guarded, resets),
         NEW arrived, arrived = ConstrainAll(reset, invariant)
  PROVE  /\ arrived \in ZoneOutcomes
         /\ Thrown \notin {reset, arrived} => \A v \in ClockValues : \A run :
              /\ InZone(v, guarded) /\ IsResetRun(run, v, resets)
              /\ SatisfiesAll(run[Len(resets)], invariant)
              => run[Len(resets)] \in ClockValues /\ InZone(run[Len(resets)], arrived)
<1>1. guarded \in Zones /\ Good(guarded)
  BY ConstrainPositive, ZoneOutcomesCases
<1>2. /\ reset \in Zones \cup {Thrown}
      /\ reset # Thrown => \A v \in Values : \A run :
           Admits(v, guarded) /\ IsResetRun(run, v, resets) => Admits(run[Len(resets)], reset)
  BY <1>1, ResetAllFacts
<1>3. reset \in ZoneOutcomes /\ reset \in Outcomes
  <2>1. Thrown \in Outcomes /\ ~ IsZone(Thrown)
    <3>1. IsOutcome(Thrown)
      BY OutcomesStopped
    <3>2. Thrown[<<0, 0>>] = OutOfBounds
      BY ClockFacts DEF Thrown
    <3> QED
      BY <3>1, <3>2, EntryFacts DEF Outcomes, IsZone, IsEmpty0
  <2> QED
    BY <1>2, <2>1, ZonesOutcomes DEF ZoneOutcomes
<1>4. arrived \in ZoneOutcomes
  BY <1>3, ConstrainPositive
<1>5. ASSUME Thrown \notin {reset, arrived}, NEW v \in ClockValues, NEW run,
             InZone(v, guarded), IsResetRun(run, v, resets),
             NEW after, after = run[Len(resets)], SatisfiesAll(after, invariant)
      PROVE  after \in ClockValues /\ InZone(after, arrived)
  <2>1. after \in ClockValues /\ after \in Values /\ v \in Values
    BY <1>5, ResetRunFacts DEF ClockValues
  <2>2. Admits(v, guarded)
    BY <1>1, <1>5, <2>1, ZoneAdmits
  <2>3. Admits(after, reset) /\ Good(reset)
    BY <1>2, <1>5, <2>1, <2>2, ZonesOutcomes
  <2>4. InZone(after, reset)
    BY <2>1, <2>3, ZoneAdmits
  <2> QED
    BY <1>3, <1>5, <2>1, <2>4, ConstrainAllFacts
<1> QED
  BY <1>4, <1>5

\* A valuation becomes w: after the resets, in the invariant of the target, then a delay.
IsElapsedStep(v, w, guard, resets, allowed, invariant) ==
  \E run :
    /\ SatisfiesAll(v, guard) /\ IsResetRun(run, v, resets)
    /\ SatisfiesAll(run[Len(resets)], invariant)
    /\ IsLater(w, run[Len(resets)], invariant, allowed)

\* After a delay in the invariant of the source, and the resets, in that of the target.
IsNonElapsedStep(v, w, allowed, src_invariant, guard, resets, tgt_invariant) ==
  \E late, run :
    /\ IsLater(late, v, src_invariant, allowed) /\ SatisfiesAll(late, guard)
    /\ IsResetRun(run, late, resets) /\ w = run[Len(resets)]
    /\ SatisfiesAll(w, tgt_invariant)

\* elapsed_semantics_t::next (zone/dbm/semantics.hh) returns a zone to compute with, or that
\* there is none, and loses no run, whatever the extrapolation, unless a bound is out of
\* bounds on the way: a valuation in the guard that is in the invariant of the target after
\* the resets, and after a delay, is in the zone that is returned.
THEOREM ElapsedNextCorrect ==
  ASSUME NEW m \in Zones, NEW guard \in Seq(DbmConstraints), NEW resets \in Seq(ZoneResets),
         NEW allowed \in BOOLEAN, NEW invariant \in Seq(DbmConstraints),
         NEW e, IsExtrapolation(e)
  PROVE  LET step == ElapsedNext(m, guard, resets, allowed, invariant, e)
             guarded == ConstrainAll(m, guard)
             reset == ResetAll(guarded, resets)
             arrived == ConstrainAll(reset, invariant)
             zone == Open(arrived, invariant, allowed)
         IN /\ IsStep(step)
            /\ \A v \in ClockValues : \A w :
                 InZone(v, m) /\ IsElapsedStep(v, w, guard, resets, allowed, invariant)
                 => Thrown \in {guarded, reset, arrived, zone} \/ Keeps(w, step)
<1> DEFINE step == ElapsedNext(m, guard, resets, allowed, invariant, e)
           guarded == ConstrainAll(m, guard)
           reset == ResetAll(guarded, resets)
           arrived == ConstrainAll(reset, invariant)
           zone == Open(arrived, invariant, allowed)
<1>1. step = IF IsEmpty0(guarded) THEN Result("CLOCKS_GUARD_VIOLATED", guarded)
             ELSE IF IsEmpty0(zone) THEN Result("CLOCKS_TGT_INVARIANT_VIOLATED", zone)
             ELSE Result("OK", ExtrapolateTo(zone, e))
  BY DEF ElapsedNext
<1>2. m \in ZoneOutcomes /\ m \in Outcomes
  BY ZonesOutcomes
<1> HIDE DEF step, zone, arrived, reset, guarded
<1>3. guarded # Thrown => \A v \in Values :
        InZone(v, guarded) <=> InZone(v, m) /\ SatisfiesAll(v, guard)
  BY <1>2, ConstrainAllFacts DEF guarded
<1>4. CASE IsEmpty0(guarded)
  <2>1. step.status = "CLOCKS_GUARD_VIOLATED"
    BY <1>1, <1>4 DEF Result
  <2>2. \A v \in ClockValues : InZone(v, m) /\ SatisfiesAll(v, guard) => guarded = Thrown
    BY <1>3, <1>4 DEF InZone, ClockValues
  <2>3. IsStep(step)
    BY <2>1 DEF IsStep
  <2> QED
    BY <2>2, <2>3 DEF IsElapsedStep, step, guarded
<1>5. CASE ~ IsEmpty0(guarded)
  <2>1. /\ arrived \in ZoneOutcomes
        /\ Thrown \notin {reset, arrived} => \A v \in ClockValues : \A run :
             /\ InZone(v, guarded) /\ IsResetRun(run, v, resets)
             /\ SatisfiesAll(run[Len(resets)], invariant)
             => run[Len(resets)] \in ClockValues /\ InZone(run[Len(resets)], arrived)
    BY <1>2, <1>5, ArrivalFacts DEF guarded, reset, arrived
  <2>2. /\ zone \in ZoneOutcomes
        /\ zone # Thrown => \A v \in ClockValues : \A w :
             InZone(v, arrived) /\ IsLater(w, v, invariant, allowed) =>
               w \in ClockValues /\ InZone(w, zone)
    BY <2>1, OpenFacts DEF zone
  <2>3. ASSUME NEW v \in ClockValues, NEW w, InZone(v, m),
               IsElapsedStep(v, w, guard, resets, allowed, invariant),
               Thrown \notin {guarded, reset, arrived, zone}
        PROVE  w \in ClockValues /\ InZone(w, zone)
    <3>1. PICK run :
            /\ SatisfiesAll(v, guard) /\ IsResetRun(run, v, resets)
            /\ SatisfiesAll(run[Len(resets)], invariant)
            /\ IsLater(w, run[Len(resets)], invariant, allowed)
      BY <2>3 DEF IsElapsedStep
    <3>2. InZone(v, guarded)
      BY <1>3, <2>3, <3>1 DEF ClockValues
    <3>3. run[Len(resets)] \in ClockValues /\ InZone(run[Len(resets)], arrived)
      BY <2>1, <2>3, <3>1, <3>2
    <3> QED
      BY <2>2, <2>3, <3>1, <3>3
  <2>4. IF IsEmpty0(zone) THEN step.status # "OK"
       ELSE step.status = "OK" /\ step.zone = ExtrapolateTo(zone, e)
    BY <1>1, <1>5 DEF Result
  <2>5. IsStep(step) /\ \A w \in ClockValues : InZone(w, zone) => Keeps(w, step)
    BY <2>2, <2>4, EndFacts
  <2> QED
    BY <2>3, <2>5 DEF step, guarded, reset, arrived, zone
<1> QED
  BY <1>4, <1>5

\* So does non_elapsed_semantics_t::next, where the delay comes first, in the invariant of
\* the source.
THEOREM NonElapsedNextCorrect ==
  ASSUME NEW m \in Zones, NEW allowed \in BOOLEAN, NEW src_invariant \in Seq(DbmConstraints),
         NEW guard \in Seq(DbmConstraints), NEW resets \in Seq(ZoneResets),
         NEW tgt_invariant \in Seq(DbmConstraints), NEW e, IsExtrapolation(e)
  PROVE  LET step == NonElapsedNext(m, allowed, src_invariant, guard, resets,
                                    tgt_invariant, e)
             source == Open(m, src_invariant, allowed)
             guarded == ConstrainAll(source, guard)
             reset == ResetAll(guarded, resets)
             zone == ConstrainAll(reset, tgt_invariant)
         IN /\ IsStep(step)
            /\ \A v \in ClockValues : \A w :
                 /\ InZone(v, m)
                 /\ IsNonElapsedStep(v, w, allowed, src_invariant, guard, resets,
                                     tgt_invariant)
                 => Thrown \in {source, guarded, reset, zone} \/ Keeps(w, step)
<1> DEFINE step == NonElapsedNext(m, allowed, src_invariant, guard, resets,
                                  tgt_invariant, e)
           source == Open(m, src_invariant, allowed)
           guarded == ConstrainAll(source, guard)
           reset == ResetAll(guarded, resets)
           zone == ConstrainAll(reset, tgt_invariant)
<1>1. step = IF IsEmpty0(source) THEN Result("CLOCKS_SRC_INVARIANT_VIOLATED", source)
             ELSE IF IsEmpty0(guarded) THEN Result("CLOCKS_GUARD_VIOLATED", guarded)
             ELSE IF IsEmpty0(zone) THEN Result("CLOCKS_TGT_INVARIANT_VIOLATED", zone)
             ELSE Result("OK", ExtrapolateTo(zone, e))
  BY DEF NonElapsedNext
<1>2. m \in ZoneOutcomes
  BY ZonesOutcomes
<1> HIDE DEF step, zone, reset, guarded, source
<1>3. /\ source \in ZoneOutcomes /\ source \in Outcomes
      /\ source # Thrown => \A v \in ClockValues : \A w :
           InZone(v, m) /\ IsLater(w, v, src_invariant, allowed) =>
             w \in ClockValues /\ InZone(w, source)
  BY <1>2, OpenFacts DEF source, ZoneOutcomes
<1>4. guarded # Thrown => \A v \in Values :
        InZone(v, guarded) <=> InZone(v, source) /\ SatisfiesAll(v, guard)
  BY <1>3, ConstrainAllFacts DEF guarded
<1>5. ASSUME NEW v \in ClockValues, NEW late, InZone(v, m),
             IsLater(late, v, src_invariant, allowed), SatisfiesAll(late, guard),
             Thrown \notin {source, guarded}
      PROVE  late \in ClockValues /\ InZone(late, source) /\ InZone(late, guarded)
  <2>1. late \in ClockValues /\ InZone(late, source)
    BY <1>3, <1>5
  <2> QED
    BY <1>4, <1>5, <2>1 DEF ClockValues
<1>6. CASE IsEmpty0(source) \/ IsEmpty0(guarded)
  <2>1. step.status # "OK"
    BY <1>1, <1>6 DEF Result
  <2>2. IsStep(step)
    BY <2>1 DEF IsStep
  <2>3. \A w : ~ (InZone(w, source) /\ InZone(w, guarded))
    BY <1>6 DEF InZone
  <2> QED
    BY <1>5, <2>2, <2>3 DEF IsNonElapsedStep, step, source, guarded
<1>7. CASE ~ IsEmpty0(source) /\ ~ IsEmpty0(guarded)
  <2>1. /\ zone \in ZoneOutcomes
        /\ Thrown \notin {reset, zone} => \A v \in ClockValues : \A run :
             /\ InZone(v, guarded) /\ IsResetRun(run, v, resets)
             /\ SatisfiesAll(run[Len(resets)], tgt_invariant)
             => run[Len(resets)] \in ClockValues /\ InZone(run[Len(resets)], zone)
    BY <1>3, <1>7, ArrivalFacts DEF guarded, reset, zone
  <2>2. ASSUME NEW v \in ClockValues, NEW w, InZone(v, m),
               IsNonElapsedStep(v, w, allowed, src_invariant, guard, resets, tgt_invariant),
               Thrown \notin {source, guarded, reset, zone}
        PROVE  w \in ClockValues /\ InZone(w, zone)
    <3>1. PICK late, run :
            /\ IsLater(late, v, src_invariant, allowed) /\ SatisfiesAll(late, guard)
            /\ IsResetRun(run, late, resets) /\ w = run[Len(resets)]
            /\ SatisfiesAll(w, tgt_invariant)
      BY <2>2 DEF IsNonElapsedStep
    <3>2. late \in ClockValues /\ InZone(late, guarded)
      BY <1>5, <2>2, <3>1
    <3> QED
      BY <2>1, <2>2, <3>1, <3>2
  <2>3. IF IsEmpty0(zone) THEN step.status # "OK"
       ELSE step.status = "OK" /\ step.zone = ExtrapolateTo(zone, e)
    BY <1>1, <1>7 DEF Result
  <2>4. IsStep(step) /\ \A w \in ClockValues : InZone(w, zone) => Keeps(w, step)
    BY <2>1, <2>3, EndFacts
  <2> QED
    BY <2>2, <2>4 DEF step, source, guarded, reset, zone
<1> QED
  BY <1>6, <1>7

\* And so do the functions initialize of both: the valuation where all the clocks are 0 is
\* kept if it is in the invariant, and after a delay, when time elapses after the steps.
THEOREM InitializeCorrect ==
  ASSUME NEW allowed \in BOOLEAN, NEW invariant \in Seq(DbmConstraints),
         NEW e, IsExtrapolation(e)
  PROVE  LET elapsed == ElapsedInitialize(allowed, invariant, e)
             nonElapsed == NonElapsedInitialize(invariant, e)
             zone == ConstrainAll(Zero, invariant)
             later == Open(zone, invariant, allowed)
             zero == [x \in Clocks |-> 0]
         IN /\ IsStep(elapsed) /\ IsStep(nonElapsed)
            /\ SatisfiesAll(zero, invariant) =>
                 /\ zone = Thrown \/ Keeps(zero, nonElapsed)
                 /\ \A w : IsLater(w, zero, invariant, allowed) =>
                             Thrown \in {zone, later} \/ Keeps(w, elapsed)
<1> DEFINE elapsed == ElapsedInitialize(allowed, invariant, e)
           nonElapsed == NonElapsedInitialize(invariant, e)
           zone == ConstrainAll(Zero, invariant)
           later == Open(zone, invariant, allowed)
           zero == [x \in Clocks |-> 0]
<1>1. /\ elapsed = IF IsEmpty0(later) THEN Result("CLOCKS_SRC_INVARIANT_VIOLATED", later)
                   ELSE Result("OK", ExtrapolateTo(later, e))
      /\ nonElapsed = IF IsEmpty0(zone) THEN Result("CLOCKS_SRC_INVARIANT_VIOLATED", zone)
                      ELSE Result("OK", ExtrapolateTo(zone, e))
  BY DEF ElapsedInitialize, NonElapsedInitialize
<1>2. /\ Zero \in ZoneOutcomes /\ Zero \in Outcomes /\ InZone(zero, Zero)
      /\ zero \in ClockValues /\ zero \in Values
  <2>1. \A x \in Clocks : zero[x] = 0
    OBVIOUS
  <2> QED
    BY <2>1, ZeroIsZone, ZonesOutcomes, ClockFacts DEF Values, ClockValues
<1> HIDE DEF elapsed, nonElapsed, zone, later, zero
<1>3. /\ zone \in ZoneOutcomes
      /\ zone # Thrown /\ SatisfiesAll(zero, invariant) => InZone(zero, zone)
  BY <1>2, ConstrainPositive, ConstrainAllFacts DEF zone
<1>4. /\ later \in ZoneOutcomes
      /\ later # Thrown => \A v \in ClockValues : \A w :
           InZone(v, zone) /\ IsLater(w, v, invariant, allowed) =>
             w \in ClockValues /\ InZone(w, later)
  BY <1>3, OpenFacts DEF later
<1>5. IsStep(elapsed) /\ \A v \in ClockValues : InZone(v, later) => Keeps(v, elapsed)
  <2>1. IF IsEmpty0(later) THEN elapsed.status # "OK"
        ELSE elapsed.status = "OK" /\ elapsed.zone = ExtrapolateTo(later, e)
    BY <1>1 DEF Result
  <2> QED
    BY <1>4, <2>1, EndFacts
<1>6. IsStep(nonElapsed) /\ \A v \in ClockValues : InZone(v, zone) => Keeps(v, nonElapsed)
  <2>1. IF IsEmpty0(zone) THEN nonElapsed.status # "OK"
        ELSE nonElapsed.status = "OK" /\ nonElapsed.zone = ExtrapolateTo(zone, e)
    BY <1>1 DEF Result
  <2> QED
    BY <1>3, <2>1, EndFacts
<1>7. ASSUME SatisfiesAll(zero, invariant) PROVE zone = Thrown \/ Keeps(zero, nonElapsed)
  BY <1>2, <1>3, <1>6, <1>7
<1>8. ASSUME SatisfiesAll(zero, invariant), NEW w, IsLater(w, zero, invariant, allowed)
      PROVE  Thrown \in {zone, later} \/ Keeps(w, elapsed)
  BY <1>2, <1>3, <1>4, <1>5, <1>8
<1> QED
  BY <1>5, <1>6, <1>7, <1>8 DEF elapsed, nonElapsed, zone, later, zero
=============================================================================
