-------------------------------- MODULE Zone --------------------------------
(***************************************************************************)
(* A zone that is computed by the functions of src/dbm/dbm.cc in the orders*)
(* in which the zone semantics (zone/dbm/semantics.hh) may call them:      *)
(* constraints of guards and invariants, resets, elapse of time and        *)
(* extrapolation, from the zone where all the clocks are 0, until it is    *)
(* empty or a bound is out of bounds.  When zones are compared, it may be  *)
(* stored on the way with the clock bounds of its location, and later zones*)
(* are compared to it.                                                     *)
(***************************************************************************)
EXTENDS Dbm

CONSTANTS
  Constraints, \* of guards and invariants: records of x, y, cmp and c
  Resets,      \* x := y + c: records of x, y and c
  Comparable,  \* the constraints and the resets when zones are compared
  ClockBounds, \* records of the bounds l and u of the clocks
  Nothing,     \* no zone is stored
  Limit        \* the bounds of the sampled zones are between -Limit and Limit

ASSUME ConstraintsAssumption ==
  Constraints \subseteq [x : Clocks, y : Clocks, cmp : {LT, LE}, c : Int]

ASSUME ResetsAssumption ==
  Resets \subseteq [x : Clocks \ {0}, y : Clocks, c : Nat]

ASSUME ComparableAssumption == Comparable \subseteq Constraints \cup Resets

ASSUME ClockBoundsAssumption ==
  /\ ClockBounds \subseteq [l : [Clocks -> Int], u : [Clocks -> Int]]
  /\ \A b \in ClockBounds : b.l[0] = 0 /\ b.u[0] = 0

ASSUME LimitAssumption == Limit \in Nat

VARIABLES
  comparing,  \* whether zones are compared
  dbm,        \* the zone
  stored      \* the stored zone, its clock bounds and what its valuations simulate

vars == <<comparing, dbm, stored>>

-----------------------------------------------------------------------------
(* What zones stand for: sets of clock valuations.  A clock counts grains,   *)
(* Dim * Dim to the unit of time, enough for a grain to fall strictly between*)
(* the valuations of the clocks that Sample takes, Dim grains apart: a zone  *)
(* has integer bounds, so it tells no other valuations apart than the sampled*)
(* ones, and a sampled valuation that has a predecessor or simulates one has *)
(* one on the grain.                                                         *)

\* Every bound of a sampled zone is the bound of x - y for some x and y before it.
Horizon == (Dim - 1) * Limit + 1

Unit == Dim * Dim

Grains == 0 .. (Horizon + Limit) * Unit + Dim

Valuations == {v \in [Clocks -> Grains] : v[0] = 0}

Sample == {v \in [Clocks -> {Dim * n : n \in 0 .. Horizon * Dim}] : v[0] = 0}

\* x - y < c or x - y <= c
Satisfies(v, x, y, cmp, c) ==
  IF cmp = LT THEN v[x] - v[y] < c * Unit ELSE v[x] - v[y] <= c * Unit

InZone(v, m) ==
  /\ ~ IsEmpty0(m)
  /\ \A p \in Clocks \X Clocks :
       m[p] = LT_INFINITY \/ Satisfies(v, p[1], p[2], Comparator(m[p]), Value(m[p]))

\* v is a valuation of m after x := y + c: of a value n of x before, when y is not x.
InReset(v, m, x, y, c) ==
  IF y = x THEN InZone([v EXCEPT ![x] = @ - c * Unit], m)
  ELSE /\ v[x] = v[y] + c * Unit
       /\ \E n \in Grains : InZone([v EXCEPT ![x] = n], m)

\* v is a valuation of m after a delay d.
InElapse(v, m) ==
  \E d \in 0 .. Horizon * Unit :
    InZone([x \in Clocks |-> IF x = 0 THEN 0 ELSE v[x] - d], m)

\* w does what v does, of an automaton whose guards compare clock x from below
\* with constants up to l[x] and from above with constants up to u[x].
Simulates(w, v, l, u) ==
  \A x \in Clocks : /\ w[x] < v[x] => l[x] * Unit < w[x]
                    /\ w[x] > v[x] => u[x] * Unit < v[x]

\* aLU of a zone, sampled.
Simulated(m, l, u) ==
  LET inside == {w \in Valuations : InZone(w, m)}
  IN {v \in Sample : v \in inside \/ \E w \in inside : Simulates(w, v, l, u)}
-----------------------------------------------------------------------------
(* Operations *)

Allowed(S) == IF comparing THEN S \cap Comparable ELSE S

IsZone(m) == m # Thrown /\ ~ IsEmpty0(m)

\* Bound: the zones that are computed with have bounds that the sampled valuations
\* tell apart.
IsSampled(m) ==
  /\ IsZone(m)
  /\ \A p \in Clocks \X Clocks :
       m[p] = LT_INFINITY \/ Value(m[p]) \in - Limit .. Limit

Init ==
  /\ comparing \in BOOLEAN
  /\ dbm = Zero
  /\ stored = Nothing

\* A constraint of a guard or of an invariant.
ConstrainZone ==
  /\ IsSampled(dbm)
  /\ \E k \in Allowed(Constraints) : dbm' = Constrain(dbm, k.x, k.y, k.cmp, k.c)
  /\ UNCHANGED <<comparing, stored>>

ResetZone ==
  /\ IsSampled(dbm)
  /\ \E r \in Allowed(Resets) : dbm' = Reset(dbm, r.x, r.y, r.c)
  /\ UNCHANGED <<comparing, stored>>

OpenUpZone ==
  /\ IsSampled(dbm)
  /\ dbm' = OpenUp(dbm)
  /\ UNCHANGED <<comparing, stored>>

ExtrapolateZone ==
  /\ IsSampled(dbm)
  /\ \E b \in ClockBounds : \/ dbm' = ExtraLU(dbm, b.l, b.u)
                              \/ dbm' = ExtraLUPlus(dbm, b.l, b.u)
  /\ UNCHANGED <<comparing, stored>>

\* A node of the graph keeps the zone.  What it simulates is computed once.
Store ==
  /\ comparing
  /\ IsSampled(dbm)
  /\ stored = Nothing
  /\ \E b \in ClockBounds :
       stored' = [zone |-> dbm, bounds |-> b, simulated |-> Simulated(dbm, b.l, b.u)]
  /\ UNCHANGED <<comparing, dbm>>

Next ==
  \/ ConstrainZone
  \/ ResetZone
  \/ OpenUpZone
  \/ ExtrapolateZone
  \/ Store

Spec == Init /\ [][Next]_vars

-----------------------------------------------------------------------------
(* Properties *)

TypeOK ==
  /\ comparing \in BOOLEAN
  /\ dbm \in Matrices \cup {Thrown}
  /\ stored # Nothing => /\ stored.zone \in Matrices
                         /\ stored.simulated \subseteq Sample

\* The bounds are in their range, and the postconditions that the functions of dbm.cc
\* assert and their callers rely on: a zone that is not told empty is consistent,
\* positive and tight, even though each function updates only the bounds it must.
Canonical ==
  /\ TypeOK
  /\ IsZone(dbm) => /\ IsConsistent(dbm) /\ IsPositive(dbm) /\ IsTight(dbm)

Unstored == IsSampled(dbm) /\ stored = Nothing

\* constrain keeps the valuations that satisfy the constraint, all of them and no
\* other, and tells the zone empty when there is none.
ConstrainExact ==
  LET inside == {v \in Sample : InZone(v, dbm)}
  IN \A k \in Constraints :
       LET m == Constrain(dbm, k.x, k.y, k.cmp, k.c)
       IN m # Thrown =>
            {v \in Sample : InZone(v, m)} = {v \in inside : Satisfies(v, k.x, k.y, k.cmp, k.c)}

\* reset yields the valuations of the zone after x := y + c, whichever of the three
\* functions computes them and whether or not y is x.
ResetExact ==
  \A r \in Resets :
    LET m == Reset(dbm, r.x, r.y, r.c)
    IN m # Thrown =>
         \A v \in Sample : InZone(v, m) <=> InReset(v, dbm, r.x, r.y, r.c)

\* open_up yields the valuations of the zone after any delay.
OpenUpExact == \A v \in Sample : InZone(v, OpenUp(dbm)) <=> InElapse(v, dbm)

\* The operations that make up a step of the semantics compute sets of valuations,
\* exactly, although they work on bounds and skip the ones that cannot change.
OperationsExact ==
  Unstored /\ ~ comparing => ConstrainExact /\ ResetExact /\ OpenUpExact

\* The extrapolations add valuations to the zone, but only ones that a valuation
\* of the zone simulates: no run of the automaton is lost, and none invented.
ExtrapolationSound ==
  Unstored =>
    \A b \in ClockBounds :
      LET simulated == Simulated(dbm, b.l, b.u)
      IN \A m \in {ExtraLU(dbm, b.l, b.u), ExtraLUPlus(dbm, b.l, b.u)} :
           m # Thrown =>
             \A v \in Sample : /\ InZone(v, dbm) => InZone(v, m)
                               /\ InZone(v, m) => v \in simulated

\* is_le compares two matrices bound by bound, and decides the inclusion of the
\* zones: it needs both of them to be tight.
InclusionExact ==
  IsLe(dbm, stored.zone) <=> \A v \in Sample : InZone(v, dbm) => InZone(v, stored.zone)

\* is_alu_le decides whether the zone is within aLU of the stored one, which is
\* not convex, from at most three bounds at a time.
AluInclusionExact ==
  IsAluLe(dbm, stored.zone, stored.bounds.l, stored.bounds.u) <=>
    \A v \in Sample : InZone(v, dbm) => v \in stored.simulated

\* The covering predicates mean what covreach takes them for: what they let it drop
\* is included in, or simulated by, what it keeps.
ComparisonsExact ==
  IsSampled(dbm) /\ stored # Nothing => InclusionExact /\ AluInclusionExact
=============================================================================
