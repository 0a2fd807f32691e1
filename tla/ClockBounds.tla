----------------------------- MODULE ClockBounds -----------------------------
(***************************************************************************)
(* The clock bounds of a network (clockbounds/): the constants to which a  *)
(* clock may be compared, from a location on, before it is assigned.  The  *)
(* solver keeps inequations between the bounds of all the clocks in all    *)
(* the locations as two matrices of dbm.hh, one for lower bounds and one   *)
(* for upper bounds.  A row 0 is the least solution, negated.              *)
(*                                                                         *)
(* An expression denotes a clock, or any of several ones (an element of an *)
(* array whose index is known at run time only): it is a set of clocks.    *)
(***************************************************************************)
EXTENDS TimedAutomata, FiniteSets

Sets == INSTANCE FiniteSetsExt
Seqs == INSTANCE SequencesExt

CONSTANTS
  IntMax,     \* that of db.hh
  LastValue   \* the clocks of the valuations that are compared are at most this

\* A variable for each clock of each location, and one that is 0.
SolverDim == 1 + LocNumber * (ClockNumber - 1)

INSTANCE Dbm WITH Dim <- SolverDim

VARIABLES
  network,  \* invariants and edges of the system
  solver,   \* its matrices L and U, and whether they have a solution
  turn,     \* locations whose invariant has been seen, then edges
  maps,     \* the clock bounds of the model
  outcome   \* "solving", or how the construction of the model ends

NO_BOUND == NoBound
MAX_BOUND == MAX_VALUE

\* A constant that is not known before the run.
Unknown == MAX_VALUE + 1

Kinds == {"L", "U"}

Values == {v \in [ClockIds -> 0 .. LastValue] : v[0] = 0}

-----------------------------------------------------------------------------
(* solver_t *)

\* index: clock 0 of all the locations is variable 0.
Index(l, x) == l * (ClockNumber - 1) + x

\* clear: no inequation.
Cleared == [p \in Clocks \X Clocks |-> IF p[1] = p[2] THEN LE_ZERO ELSE LT_INFINITY]

\* An inequation X_i - X_j <= c, among the ones on the bounds of this kind.
AddInequation(s, kind, i, j, c) ==
  LET m == IF s[kind] = Thrown THEN Thrown ELSE Constrain(s[kind], i, j, LE, c)
  IN [s EXCEPT ![kind] = m, !.has_solution = @ /\ ~ IsEmpty0(m)]

AddBoth(s, i, j, c) == AddInequation(AddInequation(s, "L", i, j, c), "U", i, j, c)

AddLowerBoundGuard(s, l, x, c) == AddInequation(s, "L", 0, Index(l, x), -c)
AddUpperBoundGuard(s, l, x, c) == AddInequation(s, "U", 0, Index(l, x), -c)

\* Mutant: the other processes are forgotten.
AddAssignmentAlone(s, l1, l2, x, y, c) == AddBoth(s, Index(l2, x), Index(l1, y), c)

\* add_assignment: in l1 clock y is as good as x will be in l2, plus c.  The other
\* processes, wherever they are, will see it as well.
AddAssignment(s, l1, l2, x, y, c) ==
  LET others == {m \in Locations : Pid[m] # Pid[l1]}
  IN Sets!FoldSet(LAMBDA m, t : AddBoth(t, Index(m, x), Index(l1, y), c),
             AddBoth(s, Index(l2, x), Index(l1, y), c),
             others)

AddNoAssignment(s, l1, l2, x) == AddBoth(s, Index(l2, x), Index(l1, x), 0)

SolverL(l, x) ==
  LET b == solver.L[0, Index(l, x)] IN IF b = LT_INFINITY THEN NO_BOUND ELSE -Value(b)

SolverU(l, x) ==
  LET b == solver.U[0, Index(l, x)] IN IF b = LT_INFINITY THEN NO_BOUND ELSE -Value(b)

-----------------------------------------------------------------------------
(* solver_updater_t and assigned_clocks_extractor_t *)

\* const_evaluate, with what stands for a constant that is not known.
Evaluate(c, value) == IF c = Unknown THEN value ELSE c

\* visit(typed_simple_clkconstr_expression_t)
VisitConstraint(s, l, k) ==
  LET c == Evaluate(k.c, MAX_BOUND)
      upper == IF k.op \in {"<", "<=", "=="}
               THEN Sets!FoldSet(LAMBDA x, t : AddUpperBoundGuard(t, l, x, c), s, k.x) ELSE s
  IN IF k.op \in {">=", ">", "=="}
     THEN Sets!FoldSet(LAMBDA x, t : AddLowerBoundGuard(t, l, x, c), upper, k.x) ELSE upper

VisitGuard(s, l, guard) == Seqs!FoldLeft(LAMBDA t, k : VisitConstraint(t, l, k), s, guard)

\* visit(typed_..._to_clock_assign_statement_t): x := c yields no inequation.  The
\* arguments of x := y are not those of x := y + c.
VisitAssignment(s, l1, l2, a) ==
  CASE a.kind = "int" -> s
    [] a.kind = "clock" ->
         Sets!FoldSet(LAMBDA p, t : AddAssignment(t, l1, p[1], l2, p[2], 0), s, a.x \X a.y)
    [] a.kind = "sum" ->
         Sets!FoldSet(LAMBDA p, t : AddAssignment(t, l1, l2, p[1], p[2], Evaluate(a.c, 0)),
                 s, a.x \X a.y)

VisitStatement(s, l1, l2, statement) ==
  Seqs!FoldLeft(LAMBDA t, a : VisitAssignment(t, l1, l2, a), s, statement)

\* Mutant: an array that may be assigned counts as assigned.
AssignedClocksMaybe(statement) == UNION {statement[i].x : i \in DOMAIN statement}

\* Clocks that are assigned for sure.
AssignedClocks(statement) ==
  UNION {a.x : a \in {b \in Seqs!ToSet(statement) : Cardinality(b.x) = 1}}

\* Constraints that the updater refuses.
HasDiagonal(constraints) == \E k \in Seqs!ToSet(constraints) : k.y # {0}

\* What a step leaves: an exception of dbm.hh goes through the solver.
Solve(s) ==
  /\ solver' = s
  /\ outcome' = IF Thrown \in {s.L, s.U} THEN "out of bounds" ELSE outcome

Refuse ==
  /\ outcome' = "unsupported"
  /\ UNCHANGED solver

-----------------------------------------------------------------------------
SolverInit ==
  /\ solver = [L |-> Cleared, U |-> Cleared, has_solution |-> TRUE]
  /\ turn = 0
  /\ maps = <<>>
  /\ outcome = "solving"

\* add_invariant_constraints, for the next location.
AddInvariantConstraints ==
  /\ outcome = "solving" /\ turn < LocNumber
  /\ LET invariant == network.invariant[turn]
     IN IF HasDiagonal(invariant) THEN Refuse ELSE Solve(VisitGuard(solver, turn, invariant))
  /\ turn' = turn + 1
  /\ UNCHANGED <<network, maps>>

\* add_edge_constraints, for the next edge.
AddEdgeConstraints ==
  /\ outcome = "solving" /\ turn >= LocNumber
  /\ turn - LocNumber < Len(network.edges)
  /\ LET e == network.edges[turn - LocNumber + 1]
         guarded == VisitGuard(solver, e.src, e.guard)
         assigned == VisitStatement(guarded, e.src, e.tgt, e.statement)
         kept == ClockIds \ ({0} \cup AssignedClocks(e.statement))
     IN IF HasDiagonal(e.guard) THEN Refuse
        ELSE Solve(Sets!FoldSet(LAMBDA x, t : AddNoAssignment(t, e.src, e.tgt, x), assigned, kept))
  /\ turn' = turn + 1
  /\ UNCHANGED <<network, maps>>

MaxOf(a, b) == IF a < b THEN b ELSE a

\* The maps have 0 for clock 0.
Map(bound) == [x \in ClockIds |-> IF x = 0 THEN 0 ELSE bound[x]]

\* fill_local_lu_map, fill_local_m_map
LocalMap == [l \in Locations |->
  [L |-> Map([x \in ClockIds \ {0} |-> SolverL(l, x)]),
   U |-> Map([x \in ClockIds \ {0} |-> SolverU(l, x)]),
   M |-> Map([x \in ClockIds \ {0} |-> MaxOf(SolverL(l, x), SolverU(l, x))])]]

\* fill_global_lu_map, fill_global_m_map: the largest bound of a location.
GlobalMap(local) ==
  [k \in {"L", "U", "M"} |->
     Map([x \in ClockIds \ {0} |->
            Sets!FoldSet(LAMBDA l, b : MaxOf(b, local[l][k][x]), NO_BOUND, Locations)])]

\* compute_all_clockbounds_map
FillMaps ==
  /\ outcome = "solving" /\ turn = LocNumber + Len(network.edges)
  /\ solver.has_solution
  /\ maps' = [local |-> LocalMap, global |-> GlobalMap(LocalMap)]
  /\ outcome' = "bounds"
  /\ UNCHANGED <<network, solver, turn>>

NoSolution ==
  /\ outcome = "solving" /\ turn = LocNumber + Len(network.edges)
  /\ ~ solver.has_solution
  /\ outcome' = "no bounds"
  /\ UNCHANGED <<network, solver, turn, maps>>

Next ==
  \/ AddInvariantConstraints
  \/ AddEdgeConstraints
  \/ FillMaps
  \/ NoSolution

-----------------------------------------------------------------------------
(* vlocbounds.hh: the bounds of a tuple of locations. *)

VlocBounds(local, vloc, k) ==
  [x \in ClockIds |->
     Sets!FoldSet(LAMBDA p, b : MaxOf(b, local[vloc[p]][k][x]),
             IF x = 0 THEN 0 ELSE NO_BOUND, Processes)]

-----------------------------------------------------------------------------
(* Properties *)

\* The maps are within the bounds that dbm.hh can express.
TypeOK ==
  /\ outcome = "solving" => {solver.L, solver.U} \subseteq Matrices
  /\ turn \in 0 .. LocNumber + Len(network.edges)
  /\ maps # <<>> =>
       \A l \in Locations, k \in {"L", "U", "M"} :
         maps.local[l][k] \in [ClockIds -> NO_BOUND .. MAX_BOUND]

\* The inequations of the documentation (solver.hh) and of the comment on other
\* processes (solver.cc): the bound of a clock in a location is at least a constant,
\* or the bound of a clock in a location less a constant.
EdgesOf == Seqs!ToSet(network.edges)

ConstantsOf(l, x, kind) ==
  LET guards == {network.invariant[l]} \cup {e.guard : e \in {d \in EdgesOf : d.src = l}}
      ops == IF kind = "L" THEN {">", ">=", "=="} ELSE {"<", "<=", "=="}
  IN {Evaluate(k.c, MAX_BOUND) :
        k \in {h \in UNION {Seqs!ToSet(g) : g \in guards} : h.op \in ops /\ x \in h.x}}

Propagated(l, x) ==
  UNION {
    {<<e.tgt, x, 0>> : n \in {0} \ {IF x \in AssignedClocks(e.statement) THEN 0 ELSE 1}}
      \cup UNION {
        {<<m, y, Evaluate(a.c, 0)>> :
           m \in {e.tgt} \cup {m \in Locations : Pid[m] # Pid[l]}, y \in a.x} :
        a \in {b \in Seqs!ToSet(e.statement) : b.kind # "int" /\ x \in b.y}} :
    e \in {d \in EdgesOf : d.src = l}}

BoundVariables == Locations \X (ClockIds \ {0})

\* The inequations applied once, and as often as it takes to reach the least bounds
\* when there are.
Raised(b, kind) ==
  [v \in BoundVariables |->
     Sets!Max({b[v]} \cup ConstantsOf(v[1], v[2], kind)
              \cup {b[t[1], t[2]] - t[3] :
                      t \in {p \in Propagated(v[1], v[2]) : b[p[1], p[2]] # NO_BOUND}})]

RaisedFrom(base, kind) ==
  LET raised[n \in 0 .. SolverDim] ==
        IF n = 0 THEN [v \in BoundVariables |-> base]
        ELSE LET b == raised[n - 1]
                 r == Raised(b, kind)
             IN IF r = b THEN b ELSE r
  IN raised[SolverDim]

Feasible(kind) ==
  LET b == RaisedFrom(0, kind) IN Raised(b, kind) = b

\* The bounds are the least ones that satisfy the inequations of the documentation,
\* for every clock and location, whatever the order in which the inequations have
\* been added to the matrices; there are none when the inequations have no solution.
LeastBounds ==
  /\ outcome = "bounds" =>
       \A kind \in Kinds :
         LET least == RaisedFrom(NO_BOUND, kind)
         IN \A v \in BoundVariables : maps.local[v[1]][kind][v[2]] = least[v]
  /\ outcome \in {"bounds", "no bounds"} =>
       (outcome = "bounds" <=> \A kind \in Kinds : Feasible(kind))

\* The choices of a clock, and of a constant that is not known.
Chosen(k) ==
  {[k EXCEPT !.x = x, !.y = y, !.c = c] :
     x \in k.x, y \in k.y, c \in IF k.c = Unknown THEN 0 .. 1 ELSE {k.c}}

Resolved(s) ==
  {r \in [DOMAIN s -> UNION {Chosen(s[i]) : i \in DOMAIN s}] :
     \A i \in DOMAIN s : r[i] \in Chosen(s[i])}

ResolvedEdges ==
  UNION {{[src |-> e.src, tgt |-> e.tgt, guard |-> g, statement |-> s] :
            g \in Resolved(e.guard), s \in Resolved(e.statement)} : e \in EdgesOf}

\* w does whatever v does, for bounds l and u.
IsAbove(w, v, l, u) ==
  \A x \in ClockIds : /\ w[x] < v[x] => Units(l[x]) < w[x]
                      /\ w[x] > v[x] => Units(u[x]) < v[x]

BoundsOf(scope, vloc, k) ==
  IF scope = "global" THEN maps.global[k] ELSE VlocBounds(maps.local, vloc, k)

\* Pairs of valuations that differ by one clock: being above is transitive.
Neighbours ==
  {<<v, [v EXCEPT ![x] = d]>> : v \in Values, x \in ClockIds \ {0}, d \in 0 .. LastValue}

\* The tuples of locations that may matter: of locations that an edge leads to, or the
\* first of their process.
VisitedVlocs ==
  LET first == {l \in Locations : \A m \in Locations : Pid[m] = Pid[l] => l <= m}
  IN {vloc \in Vlocs : \A p \in Processes : vloc[p] \in first \cup {e.tgt : e \in EdgesOf}}

\* What the bounds are for: the valuations that the extrapolations and the coverings
\* of this tuple of locations do not tell apart, with local or global bounds, L and U
\* or M, can take the same edges, alone or with edges of other processes, and the local
\* bounds L and U do not tell them apart after that either.
BoundsSimulate ==
  outcome = "bounds" =>
    LET vedges == Vedges(ResolvedEdges)
    IN
    \A scope \in {"local", "global"}, k \in {<<"L", "U">>, <<"M", "M">>}, vloc \in VisitedVlocs :
      LET l == BoundsOf(scope, vloc, k[1])
          u == BoundsOf(scope, vloc, k[2])
          above == {vw \in Neighbours : IsAbove(vw[2], vw[1], l, u)}
      IN /\ \A p \in Processes : \A i \in Resolved(network.invariant[vloc[p]]) :
              \A vw \in above : Meets(vw[1], i) => Meets(vw[2], i)
         /\ \A vedge \in {e \in vedges : IsSource(vloc, e)} :
              LET target == Target(vloc, vedge)
                  statement == Statement(vedge)
                  l2 == VlocBounds(maps.local, target, "L")
                  u2 == VlocBounds(maps.local, target, "U")
              IN \A vw \in {a \in above : IsEnabled(a[1], vedge)} :
                   /\ IsEnabled(vw[2], vedge)
                   /\ IsAbove(After(vw[2], statement), After(vw[1], statement), l2, u2)
=============================================================================
