------------------------------ MODULE ZoneGraph ------------------------------
(***************************************************************************)
(* The zone graph of a network of timed automata, along a path: the states *)
(* that the builder of transition systems (ts/builder.hh) makes one from   *)
(* the other, through the layers of zg/, ta/ and fsm/ and with any of the  *)
(* zone semantics that the covering reachability algorithm can be run with.*)
(*                                                                         *)
(* A location has a set of allowed values of the integer variable and an   *)
(* invariant on clocks; an edge has both for its guard, a function of the  *)
(* integer variable and a sequence of clock resets.  The edges that leave a*)
(* tuple of locations together are those that FlatSystem iterates over.    *)
(***************************************************************************)
EXTENDS ZoneSemantics, Regions

Seqs == INSTANCE SequencesExt

CONSTANTS
  Networks,  \* the systems, each with the models of the command line that are run on it
  Syntaxes,  \* systems whose clock bounds are computed, and no more
  LastValue, \* the clocks of the valuations that clock bounds compare are at most this
  Limit,     \* bound on the constants of the zones that are extended
  Failed     \* what a statement that fails yields

VARIABLES
  network,  \* the system, or the empty function
  syntax,   \* its constraints and assignments
  solver, turn, outcome,   \* the computation of its clock bounds
  maps,     \* its clock bounds
  model,    \* the model that the options name, or the empty function before it is run
  vloc,     \* the state: its tuple of locations, or the empty function before the first
  value,    \* its integer variable
  zone,     \* its zone
  exact,    \* the zone that the same path has without extrapolation
  attempt   \* the last computation of a state: from which state, to which tuple of
            \* locations, its status and the one without extrapolation

systemVars == <<network, syntax, solver, turn, outcome, maps>>
stateVars == <<vloc, value, zone, exact>>
vars == <<systemVars, model, stateVars, attempt>>

-----------------------------------------------------------------------------
(* The clock bounds of the model. *)

\* What the solver sees of a network: its constraints and assignments, where a clock is
\* one of a set.
SyntaxOf(n) ==
  LET lift(k) == [k EXCEPT !.x = {@}, !.y = {@}]
      assign(a) == [x |-> {a.x}, y |-> {a.y}, c |-> a.c,
                    kind |-> IF a.y = 0 THEN "int" ELSE "sum"]
      edge(e) == [src |-> e.src, tgt |-> e.tgt,
                  guard |-> [i \in DOMAIN e.guard |-> lift(e.guard[i])],
                  statement |-> [i \in DOMAIN e.statement |-> assign(e.statement[i])]]
  IN [invariant |-> [l \in Locations |->
        [i \in DOMAIN n.invariant[l] |-> lift(n.invariant[l][i])]],
      edges |-> [i \in DOMAIN n.edges |-> edge(n.edges[i])]]

\* Halves of a unit tell the constraints of one clock apart.
Bounds == INSTANCE ClockBounds WITH Unit <- 2, network <- syntax

\* global_M_extrapolation_t and global_LU_extrapolation_t
GlobalBounds(k) == maps.global[k]

\* Mutant: the bounds of one process.
LocalBoundsOne(k, vl) == maps.local[vl[0]][k]

\* local_M_extrapolation_t and local_LU_extrapolation_t: the bounds of the tuple of
\* locations are computed at each call.
LocalBounds(k, vl) == Bounds!VlocBounds(maps.local, vl, k)

BoundsAt(class, k, vl) == IF class.scope = "global" THEN GlobalBounds(k) ELSE LocalBounds(k, vl)

\* What the class extrapolates with, in this tuple of locations.
Extrapolation(class, vl) ==
  [extra |-> class.extra, l |-> BoundsAt(class, LowerKind(class), vl),
   u |-> BoundsAt(class, UpperKind(class), vl)]

\* run: the class that is instantiated for the model.
Dispatched(name) ==
  IF name = [semantics |-> "non-elapsed", extra |-> "extraLU+", scope |-> "local"]
  THEN [name EXCEPT !.extra = "extraLU"]
  ELSE name

-----------------------------------------------------------------------------
(* Expressions: what the virtual machine finds and what it collects. *)

InOrder(Of(_)) == Seqs!FlattenSeq([i \in 1 .. Cardinality(Processes) |-> Of(i - 1)])

\* Clock constraints are upper bounds of differences.
Collected(constraints) ==
  LET upper(k) == IF k.op \in {"<", "<=", "=="}
                  THEN <<[x |-> k.x, y |-> k.y, cmp |-> IF k.op = "<" THEN LT ELSE LE, c |-> k.c]>>
                  ELSE <<>>
      lower(k) == IF k.op \in {">", ">=", "=="}
                  THEN <<[x |-> k.y, y |-> k.x, cmp |-> IF k.op = ">" THEN LT ELSE LE, c |-> -k.c]>>
                  ELSE <<>>
  IN Seqs!FlattenSeq([i \in DOMAIN constraints |->
                       upper(constraints[i]) \o lower(constraints[i])])

InvariantOf(vl) == InOrder(LAMBDA p : network.invariant[vl[p]])
GuardOf(vedge) == Seqs!FlattenSeq([i \in DOMAIN vedge |-> vedge[i].guard])

IsAllowed(vl, n) == \A p \in Processes : n \in network.test[vl[p]]

\* The statements of the edges, one after another; each fails or yields a value.
Assigned(vedge, n) ==
  Seqs!FoldLeft(LAMBDA r, e : IF r = Failed THEN r ELSE e.assign[r], n, vedge)

\* ta::delay_allowed
DelayAllowed(vl) ==
  \A p \in Processes : vl[p] \notin network.committed \cup network.urgent

-----------------------------------------------------------------------------
(* fsm_t *)

FsmInitialize(vl) ==
  IF ~ IsAllowed(vl, network.value) THEN "INTVARS_SRC_INVARIANT_VIOLATED" ELSE "OK"

\* next: the conditions in the order of the code.
FsmNext(vedge) ==
  LET tgt == Target(vloc, vedge)
      assigned == Assigned(vedge, value)
  IN IF ~ IsAllowed(vloc, value) THEN "INTVARS_SRC_INVARIANT_VIOLATED"
     ELSE IF \E i \in DOMAIN vedge : value \notin vedge[i].test THEN "INTVARS_GUARD_VIOLATED"
     ELSE IF assigned = Failed THEN "INTVARS_STATEMENT_FAILED"
     ELSE IF ~ IsAllowed(tgt, assigned) THEN "INTVARS_TGT_INVARIANT_VIOLATED"
     ELSE "OK"

-----------------------------------------------------------------------------
(* zg_t *)

ZgInitialize(class, vl) ==
  LET invariant == Collected(InvariantOf(vl))
      e == Extrapolation(class, vl)
      status == FsmInitialize(vl)
  IN IF status # "OK" THEN Result(status, Empty)
     ELSE IF class.semantics = "elapsed"
     THEN ElapsedInitialize(DelayAllowed(vl), invariant, e)
     ELSE NonElapsedInitialize(invariant, e)

\* next: whether time may elapse in the source is asked before the locations change.
ZgNext(class, m, vedge) ==
  LET tgt == Target(vloc, vedge)
      status == FsmNext(vedge)
      guard == Collected(GuardOf(vedge))
      src_invariant == Collected(InvariantOf(vloc))
      tgt_invariant == Collected(InvariantOf(tgt))
      e == Extrapolation(class, tgt)
  IN IF status # "OK" THEN Result(status, Empty)
     ELSE IF class.semantics = "elapsed"
     THEN ElapsedNext(m, guard, Statement(vedge), DelayAllowed(tgt), tgt_invariant, e)
     ELSE NonElapsedNext(m, DelayAllowed(vloc), src_invariant, guard, Statement(vedge),
                         tgt_invariant, e)

-----------------------------------------------------------------------------
(* builder_t *)

Exactly(class) == [class EXCEPT !.extra = "NOextra"]

NoState == [vloc |-> <<>>, value |-> 0, zone |-> Empty, exact |-> Empty]

Here == [vloc |-> vloc, value |-> value, zone |-> zone, exact |-> exact]

Init ==
  /\ \/ network \in Networks /\ syntax = SyntaxOf(network)
     \/ network = <<>> /\ syntax \in Syntaxes
  /\ Bounds!SolverInit
  /\ model = <<>>
  /\ vloc = <<>> /\ value = 0
  /\ zone = Empty /\ exact = Empty
  /\ attempt = [from |-> NoState, vedge |-> <<>>, to |-> <<>>, status |-> "OK", exact |-> "OK"]

\* The model is built: it has clock bounds, or it is refused.
ComputeBounds ==
  /\ UNCHANGED <<network, syntax, model, stateVars, attempt>>
  /\ Bounds!Next

\* run: the model of the options.
RunModel(name) ==
  /\ outcome = "bounds" /\ network # <<>> /\ model = <<>>
  /\ model' = name
  /\ UNCHANGED <<systemVars, stateVars, attempt>>

\* initial_state: there is a state if the status is OK, else builder_ok_t skips it.
InitialState ==
  /\ model # <<>> /\ vloc = <<>>
  /\ \E vl \in network.initial :
       LET made == ZgInitialize(Dispatched(model), vl)
           other == ZgInitialize(Exactly(Dispatched(model)), vl)
       IN /\ attempt' = [from |-> NoState, vedge |-> <<>>, to |-> vl, status |-> made.status,
                         exact |-> other.status]
          /\ IF made.status = "OK"
             THEN /\ vloc' = vl /\ value' = network.value
                  /\ zone' = made.zone /\ exact' = other.zone
             ELSE UNCHANGED stateVars
  /\ UNCHANGED <<systemVars, model>>

\* Bound: the constants of the exact zone are within the limit.
IsWithinLimit(m) ==
  \A p \in Clocks \X Clocks : m[p] = LT_INFINITY \/ Value(m[p]) \in -Limit .. Limit

\* next_state, from a copy of the state: the state itself is as it was if the status is
\* not OK.
NextState ==
  /\ vloc # <<>>
  /\ IsWithinLimit(exact)
  /\ \E vedge \in network.vedges :
       LET made == ZgNext(Dispatched(model), zone, vedge)
           other == ZgNext(Exactly(Dispatched(model)), exact, vedge)
       IN /\ IsSource(vloc, vedge)
          /\ attempt' = [from |-> Here, vedge |-> vedge, to |-> Target(vloc, vedge),
                         status |-> made.status, exact |-> other.status]
          /\ IF made.status = "OK"
             THEN /\ vloc' = Target(vloc, vedge) /\ value' = Assigned(vedge, value)
                  /\ zone' = made.zone /\ exact' = other.zone
             ELSE UNCHANGED stateVars
  /\ UNCHANGED <<systemVars, model>>

Next == InitialState \/ NextState

-----------------------------------------------------------------------------
(* Properties *)

\* The zones have the form that the functions of dbm.hh ask for, before and after
\* extrapolation, and no bound of theirs has been out of bounds.
ZoneTypeOK ==
  /\ vloc \in Vlocs \cup {<<>>}
  /\ value # Failed
  /\ vloc # <<>> =>
       \A m \in {zone, exact} :
         /\ m \in Matrices
         /\ IsConsistent(m) /\ IsPositive(m) /\ IsTight(m)

IsElapsed == Dispatched(model).semantics = "elapsed"

\* The valuations from which the automata arrive in attempt.to, with the initial
\* values or by the edges.
Arriving ==
  LET from == attempt.from
      sources == RegionsOf(from.zone)
      departing == IF IsElapsed THEN sources
                   ELSE Delayed(sources, InvariantOf(from.vloc), DelayAllowed(from.vloc))
      zero == [x \in ClockIds |-> 0]
  IN IF from.vloc = <<>> THEN {v \in {zero} : Meets(v, InvariantOf(attempt.to))}
     ELSE Image(departing, GuardOf(attempt.vedge), Statement(attempt.vedge),
                InvariantOf(attempt.to))

\* Whether the integer variable lets them.
CanArrive ==
  LET from == attempt.from
      n == Assigned(attempt.vedge, from.value)
  IN IF from.vloc = <<>> THEN IsAllowed(attempt.to, network.value)
     ELSE /\ \A i \in DOMAIN attempt.vedge : from.value \in attempt.vedge[i].test
          /\ n # Failed
          /\ IsAllowed(attempt.to, n)

\* Without extrapolation, the zone of a state holds the valuations that the runs of the
\* automata which take the same edges reach, all of them and no other: with the last
\* delay, or without.  There is a state if and only if there is such a run.
StepExact ==
  attempt.to # <<>> /\ model.extra = "NOextra" =>
    LET arriving == Arriving
        reached == IF IsElapsed THEN Delayed(arriving, InvariantOf(attempt.to), DelayAllowed(attempt.to))
                   ELSE arriving
    IN /\ attempt.status = "OK" <=> CanArrive /\ arriving # {}
       /\ attempt.status = "OK" /\ IsWithinLimit(zone) =>
            Compared(reached) = Compared(RegionsOf(zone))

\* Whatever the extrapolation and the clock bounds that it uses, and however long the
\* path, the zone holds the valuations that its runs reach, and a valuation that is not
\* one of them does nothing that one of them does not, from the tuple of locations on.
SimulatedByExact ==
  vloc # <<>> /\ attempt.exact = "OK" =>
    LET local == [semantics |-> "", extra |-> "extraLU", scope |-> "local"]
    IN /\ IsLe(exact, zone)
       /\ IsAluLe(zone, exact, BoundsAt(local, "L", vloc), BoundsAt(local, "U", vloc))

\* An edge may be taken from the zone if and only if it may from the valuations that the
\* runs reach, and it fails for the same reason.
SameSteps == attempt.status = attempt.exact

\* The comment of non_elapsed_semantics_t on the source invariant, "should never occur",
\* holds for the integer variables and for the clocks.
SourceInvariantHolds ==
  attempt.vedge # <<>> =>
    attempt.status \notin {"INTVARS_SRC_INVARIANT_VIOLATED", "CLOCKS_SRC_INVARIANT_VIOLATED"}

\* Extrapolation adds no path to those of the automata and removes none, whichever the
\* model: the nodes that covreach drops or keeps are judged on it.
PathsKept == SimulatedByExact /\ SameSteps /\ SourceInvariantHolds

-----------------------------------------------------------------------------
(* Two statements of the repository that the code does not keep (README,     *)
(* "Disagreements").                                                         *)

\* The zones of a model are those of the extrapolation that its name says.
UsesNamedExtrapolation ==
  [][vloc' # <<>> /\ attempt'.status = "OK" /\ vloc # <<>> =>
       zone' = ZgNext(model, zone, attempt'.vedge).zone]_vars

\* When a process is in a committed location, the edges are of one that is.
CommittedFirst ==
  [][(\E p \in DOMAIN vloc : vloc[p] \in network.committed) /\ attempt'.status = "OK" =>
       \E i \in DOMAIN attempt'.vedge : attempt'.vedge[i].src \in network.committed]_vars
=============================================================================
