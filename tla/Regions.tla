------------------------------- MODULE Regions -------------------------------
(***************************************************************************)
(* What a step of a zone graph stands for, valuation by valuation: a       *)
(* discrete step, then or before it a delay.  A region is a set of clock   *)
(* valuations that no constraint with integer constants tells apart, now   *)
(* or after a delay; its representative counts grains, Unit to the unit of *)
(* time, and its fractional parts are 0, 1, 2... grains, in order.         *)
(***************************************************************************)
EXTENDS Dbm, TimedAutomata, FiniteSets

CONSTANTS
  Narrow,  \* sets of valuations are compared up to this number of units
  Wide     \* and computed up to this one

ASSUME RegionsAssumption ==
  /\ Dim = ClockNumber
  /\ Unit = ClockNumber
  /\ Narrow \in Nat /\ Wide \in Nat /\ Narrow <= Wide

Fraction(v, x) == v[x] % Unit

\* The representative of the region of a valuation.
Canonical(v) ==
  [x \in ClockIds |->
     v[x] - Fraction(v, x)
       + Cardinality({Fraction(v, y) : y \in ClockIds} \cap 1 .. Fraction(v, x))]

Regions ==
  {v \in [ClockIds -> 0 .. Wide * Unit] : v[0] = 0 /\ Canonical(v) = v}

\* The next region as time elapses: the clocks that are integers no longer are, or
\* else the ones with the greatest fractional part become integers.
Later(v) ==
  LET clocks == ClockIds \ {0}
      greatest == {x \in clocks : \A y \in clocks : Fraction(v, y) <= Fraction(v, x)}
  IN IF \E x \in clocks : Fraction(v, x) = 0
     THEN [x \in ClockIds |-> IF x = 0 THEN 0 ELSE v[x] + 1]
     ELSE [x \in ClockIds |->
             IF x \in greatest THEN v[x] - Fraction(v, x) + Unit ELSE v[x]]

\* What is reached from each region by delays.
Elapsed ==
  LET elapsed[v \in Regions] ==
        LET w == Later(v)
        IN {v} \cup (IF w \in Regions THEN elapsed[w] ELSE {})
  IN [v \in Regions |-> elapsed[v]]

InZone(v, m) ==
  /\ ~ IsEmpty0(m)
  /\ \A p \in Clocks \X Clocks :
       LET d == v[p[1]] - v[p[2]]
           c == Units(Value(m[p]))
       IN m[p] = LT_INFINITY \/ d < c \/ (Comparator(m[p]) = LE /\ d = c)

RegionsOf(m) == {v \in Regions : InZone(v, m)}

IsNarrow(v) == \A x \in ClockIds : v[x] <= Units(Narrow)

Compared(regions) == {v \in regions : IsNarrow(v)}

\* The delays are those along which the invariant holds.  It is convex: it is enough
\* that it holds when they end, as it did when they began.
Delayed(regions, invariant, allowed) ==
  {w \in IF allowed THEN UNION {Elapsed[v] : v \in regions} ELSE regions :
     Meets(w, invariant)}

\* The discrete step.
Image(regions, guard, statement, invariant) ==
  {w \in {Canonical(After(v, statement)) : v \in {r \in regions : Meets(r, guard)}} :
     Meets(w, invariant)}
=============================================================================
