--------------------------------- MODULE Dbm ---------------------------------
(***************************************************************************)
(* Difference bounds (include/tchecker/dbm/db.hh) and difference bound     *)
(* matrices (src/dbm/dbm.cc).  A bound (< or <=, v) is one integer, 2v or  *)
(* 2v + 1, so that bounds are compared as integers.  In the safe build (no *)
(* DBM_UNSAFE) the functions that make a bound throw std::invalid_argument *)
(* when its value is out of bounds: they return OutOfBounds, which stays in*)
(* what is computed from it.  The bound m[x, y] of clocks x and y says     *)
(* x - y < v or x - y <= v; clock 0 is always 0.  The loops update the     *)
(* matrix in place, in the order of the code.                              *)
(***************************************************************************)
EXTENDS Integers

CONSTANT IntMax   \* int_maxval, 2^w - 1 on w + 1 bits

INF_VALUE == IntMax \div 2
MAX_VALUE == INF_VALUE - 1
MIN_VALUE == -INF_VALUE - 1

ASSUME IntMaxAssumption == IntMax \in Nat /\ IntMax % 2 = 1 /\ IntMax > 2

LT == 0
LE == 1

LE_ZERO     == LE
LT_ZERO     == LT
LT_INFINITY == 2 * INF_VALUE + LT

\* Less than all the bounds.
OutOfBounds == 2 * MIN_VALUE - 1

Bound == 2 * MIN_VALUE .. LT_INFINITY

Value(b) == b \div 2
Comparator(b) == b % 2

\* db()
MakeBound(cmp, v) ==
  IF v \in MIN_VALUE .. MAX_VALUE THEN 2 * v + cmp ELSE OutOfBounds

\* sum(): the bound of a path, large if both bounds are.
Sum(a, b) ==
  IF OutOfBounds \in {a, b} THEN OutOfBounds
  ELSE IF LT_INFINITY \in {a, b} THEN LT_INFINITY
  ELSE MakeBound(Comparator(a) * Comparator(b), Value(a) + Value(b))

\* add(): the bound is shifted.
Add(b, v) ==
  IF b = LT_INFINITY THEN LT_INFINITY ELSE MakeBound(Comparator(b), Value(b) + v)

Min(a, b) == IF a < b THEN a ELSE b

-----------------------------------------------------------------------------
(* Matrices of bounds. *)

CONSTANT Dim   \* number of clocks, the zero clock included

ASSUME DimAssumption == Dim \in Nat \ {0}

Clocks == 0 .. Dim - 1

Matrices == [Clocks \X Clocks -> Bound]

Zero == [p \in Clocks \X Clocks |-> LE_ZERO]

\* An empty zone is told by its first bound: the others are not looked at.
Empty == [p \in Clocks \X Clocks |->
            IF p = <<0, 0>> THEN LT_ZERO
            ELSE IF p[1] = p[2] THEN LE_ZERO ELSE LT_INFINITY]

\* What a function that has thrown leaves is not looked at either.
Thrown == [p \in Clocks \X Clocks |-> OutOfBounds]

IsEmpty0(m) == m[<<0, 0>>] < LE_ZERO

IsConsistent(m) == \A x \in Clocks : m[<<x, x>>] = LE_ZERO

IsPositive(m) == \A x \in Clocks : m[<<0, x>>] <= LE_ZERO

\* is_tight is for assertions: the bound of a path is compared, not stored.
IsTight(m) ==
  \A x, y, z \in Clocks :
    \/ LT_INFINITY \in {m[<<x, z>>], m[<<z, y>>]}
    \/ m[<<x, y>>] <= 2 * (Value(m[<<x, z>>]) + Value(m[<<z, y>>]))
                    + Comparator(m[<<x, z>>]) * Comparator(m[<<z, y>>])

-----------------------------------------------------------------------------
(* Tightening *)

\* The bounds of row i through z: i - j is at most i - z + z - j.
TightenRow(m, i, z) ==
  LET row[j \in 0 .. Dim] ==
        IF j = 0 THEN m
        ELSE LET r == row[j - 1]
             IN [r EXCEPT ![<<i, j - 1>>] = Min(@, Sum(r[<<i, z>>], r[<<z, j - 1>>]))]
  IN row[Dim]

\* The loops stop when row i of m tells that the zone is empty, or has thrown.
CheckRow(m, i) ==
  IF \E j \in Clocks : m[<<i, j>>] = OutOfBounds THEN Thrown
  ELSE IF m[<<i, i>>] < LE_ZERO THEN Empty
  ELSE m

IsStopped(m) == m[<<0, 0>>] # LE_ZERO

\* All the rows through z: row z and the rows with no bound through z are skipped.
TightenVia(m, z) ==
  LET rows[n \in 0 .. Dim] ==
        IF n = 0 THEN m
        ELSE LET t == rows[n - 1]
                 i == n - 1
             IN IF IsStopped(t) \/ i = z \/ t[<<i, z>>] = LT_INFINITY THEN t
                ELSE CheckRow(TightenRow(t, i, z), i)
  IN rows[Dim]

\* Through the clocks before n, one after another.
TightenThrough(m, n) ==
  LET tight[k \in 0 .. n] == IF k = 0 THEN m ELSE TightenVia(tight[k - 1], k - 1)
  IN tight[n]

\* tighten(dbm, dim)
Tighten(m) == TightenThrough(m, Dim)

\* Mutant: the bounds through y are tightened in column y only.
TightenRowOne(m, x, y, i) ==
  CheckRow([m EXCEPT ![<<i, y>>] = Min(@, Sum(m[<<i, x>>], m[<<x, y>>]))], i)

\* An iteration of tighten(dbm, dim, x, y): i - y through x, then row i through y.
TightenOne(m, x, y, i) ==
  LET ixy == Sum(m[<<i, x>>], m[<<x, y>>])
  IN IF i = x THEN CheckRow(TightenRow(m, x, y), x)
     ELSE IF ixy >= m[<<i, y>>] THEN m
     ELSE CheckRow(TightenRow([m EXCEPT ![<<i, y>>] = ixy], i, y), i)

\* tighten(dbm, dim, x, y): the bound of x - y only has changed.
TightenFrom(m, x, y) ==
  LET tight[n \in 0 .. Dim] ==
        IF n = 0 THEN m
        ELSE LET t == tight[n - 1]
             IN IF IsStopped(t) THEN t ELSE TightenOne(t, x, y, n - 1)
  IN IF m[<<x, y>>] = LT_INFINITY THEN m ELSE tight[Dim]

-----------------------------------------------------------------------------
(* Operations *)

\* Mutant: a strict bound is not told from the large one.
ConstrainValue(m, x, y, cmp, v) ==
  LET b == MakeBound(cmp, v)
  IN IF b = OutOfBounds THEN Thrown
     ELSE IF Value(b) >= Value(m[<<x, y>>]) THEN m
     ELSE TightenFrom([m EXCEPT ![<<x, y>>] = b], x, y)

\* constrain
Constrain(m, x, y, cmp, v) ==
  LET b == MakeBound(cmp, v)
  IN IF b = OutOfBounds THEN Thrown
     ELSE IF b >= m[<<x, y>>] THEN m
     ELSE TightenFrom([m EXCEPT ![<<x, y>>] = b], x, y)

\* A bound that is out of bounds has been computed.
OrThrown(m) ==
  IF \E p \in Clocks \X Clocks : m[p] = OutOfBounds THEN Thrown ELSE m

\* reset_to_value: x - y is x - 0 + 0 - y for every y.
ResetToValue(m, x, v) ==
  OrThrown([p \in Clocks \X Clocks |->
    IF p[1] = p[2] THEN m[p]
    ELSE IF p[1] = x THEN Sum(MakeBound(LE, v), m[<<0, p[2]>>])
    ELSE IF p[2] = x THEN Sum(m[<<p[1], 0>>], MakeBound(LE, -v))
    ELSE m[p]])

\* reset_to_clock: x has the bounds of y.
ResetToClock(m, x, y) ==
  [p \in Clocks \X Clocks |->
    IF p[1] = p[2] THEN m[p]
    ELSE IF p[1] = x THEN m[<<y, p[2]>>]
    ELSE IF p[2] = x THEN m[<<p[1], y>>]
    ELSE m[p]]

\* reset_to_sum: x has the bounds of y, shifted.  The bounds of x - x, which the
\* loop computes from y - x and x - y before it sets them to 0, may throw too.
ResetToSum(m, x, y, v) ==
  LET shifted == [p \in Clocks \X Clocks |->
        IF p[1] = p[2] THEN m[p]
        ELSE IF p[1] = x THEN Add(m[<<y, p[2]>>], v)
        ELSE IF p[2] = x THEN Add(m[<<p[1], y>>], -v)
        ELSE m[p]]
      \* The loop reads m[x, y] after it has set it when y comes before x.
      yx == IF y < x THEN shifted[<<y, x>>] ELSE m[<<y, x>>]
      xy == IF y < x THEN shifted[<<x, y>>] ELSE m[<<x, y>>]
  IN IF OutOfBounds \in {Add(yx, v), Add(xy, -v)} THEN Thrown ELSE OrThrown(shifted)

\* reset: x := y + v
Reset(m, x, y, v) ==
  IF y = 0 THEN ResetToValue(m, x, v)
  ELSE IF v = 0 THEN ResetToClock(m, x, y)
  ELSE ResetToSum(m, x, y, v)

\* open_up: time elapses, the clocks have no upper bound any more.
OpenUp(m) ==
  [p \in Clocks \X Clocks |-> IF p[1] # 0 /\ p[2] = 0 THEN LT_INFINITY ELSE m[p]]

-----------------------------------------------------------------------------
(* Extrapolations, for the bounds l and u of the clocks: NoBound if x is not  *)
(* compared to any constant.                                                 *)

NoBound == -INF_VALUE

\* The lower bound of x - y that is kept when it is less than -v.
Relaxed(x, v) ==
  IF v # NoBound THEN MakeBound(LT, -v) ELSE IF x = 0 THEN LE_ZERO ELSE LT_INFINITY

TightenIfModified(m, e) == IF e = m THEN m ELSE Tighten(e)

\* extra_lu, and extra_m when l = u.
ExtraLU(m, l, u) ==
  TightenIfModified(m, [p \in Clocks \X Clocks |->
    LET x == p[1]
        y == p[2]
        c == Value(m[p])
    IN IF x = y \/ m[p] = LT_INFINITY \/ (x = 0 /\ m[p] = LE_ZERO) THEN m[p]
       ELSE IF x # 0 /\ c > l[x] THEN LT_INFINITY
       ELSE IF -c > u[y] THEN Relaxed(x, u[y])
       ELSE m[p]])

\* Mutant: the bounds l and u are confused.
ExtraLUPlusSwapped(m, l, u) ==
  TightenIfModified(m, [p \in Clocks \X Clocks |->
    LET x == p[1]
        y == p[2]
    IN IF x = y \/ m[p] = LT_INFINITY THEN m[p]
       ELSE IF x = 0 THEN IF -Value(m[<<0, y>>]) > l[y] THEN Relaxed(0, l[y]) ELSE m[p]
       ELSE IF \/ -Value(m[<<0, x>>]) > u[x]
               \/ Value(m[p]) > u[x]
               \/ -Value(m[<<0, y>>]) > l[y]
         THEN LT_INFINITY
       ELSE m[p]])

\* extra_lu_plus, and extra_m_plus when l = u.
ExtraLUPlus(m, l, u) ==
  TightenIfModified(m, [p \in Clocks \X Clocks |->
    LET x == p[1]
        y == p[2]
    IN IF x = y \/ m[p] = LT_INFINITY THEN m[p]
       ELSE IF x = 0 THEN IF -Value(m[<<0, y>>]) > u[y] THEN Relaxed(0, u[y]) ELSE m[p]
       ELSE IF \/ -Value(m[<<0, x>>]) > l[x]
               \/ Value(m[p]) > l[x]
               \/ -Value(m[<<0, y>>]) > u[y]
         THEN LT_INFINITY
       ELSE m[p]])

-----------------------------------------------------------------------------
(* Comparisons *)

IsLe(m1, m2) == \A p \in Clocks \X Clocks : m1[p] <= m2[p]

\* Mutant: the first condition is strict.
IsAluLeStrict(m1, m2, l, u) ==
  ~ \E x, y \in Clocks :
      /\ x # y /\ u[x] # NoBound /\ l[y] # NoBound
      /\ m1[<<0, x>>] > MakeBound(LE, -u[x])
      /\ m2[<<y, x>>] < m1[<<y, x>>]
      /\ Sum(m2[<<y, x>>], MakeBound(LT, -l[y])) < m1[<<0, x>>]

\* is_alu_le, and is_am_le when l = u: no x and y tell m1 from aLU(m2).
IsAluLe(m1, m2, l, u) ==
  ~ \E x, y \in Clocks :
      /\ x # y /\ u[x] # NoBound /\ l[y] # NoBound
      /\ m1[<<0, x>>] >= MakeBound(LE, -u[x])
      /\ m2[<<y, x>>] < m1[<<y, x>>]
      /\ Sum(m2[<<y, x>>], MakeBound(LT, -l[y])) < m1[<<0, x>>]
=============================================================================
