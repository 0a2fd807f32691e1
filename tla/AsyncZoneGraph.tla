--------------------------- MODULE AsyncZoneGraph ---------------------------
(***************************************************************************)
(* The asynchronous zone graph (async_zg/details/zg.hh) of a network of    *)
(* timed automata that share no variable: the states along a path, with    *)
(* the layers of ta/ and fsm/ that ZoneGraph models, and the offset zone   *)
(* and its synchronized zone instead of a zone.                            *)
(*                                                                         *)
(* Here zone is the synchronized zone of the state, extrapolated, and exact*)
(* is the synchronized zone that is extrapolated.                          *)
(***************************************************************************)
EXTENDS ZoneGraph

CONSTANT
  Length   \* bound on the number of edges of a path

RefCount == Cardinality(Processes)
OffsetDim == RefCount + ClockNumber - 1

O == INSTANCE OffsetZoneSemantics WITH Dim <- OffsetDim
D == INSTANCE Dbm WITH Dim <- OffsetDim

VARIABLES
  refmap,  \* the reference clocks, or the empty function for a zone graph
  offset,  \* the offset zone of the state
  path     \* the edges that have been taken

asyncVars == <<refmap, offset, path>>

-----------------------------------------------------------------------------
(* The model (async_zg/details/model.hh, variables/offset_clocks.cc). *)

ClocksIn(items) == {items[i].x : i \in DOMAIN items} \cup {items[i].y : i \in DOMAIN items}

EdgesOf(n, p) == {n.edges[i] : i \in {j \in DOMAIN n.edges : Pid[n.edges[j].src] = p}}

LocationsOf(p) == {l \in Locations : Pid[l] = p}

\* The processes that the map of accesses tells of a clock.
ClockAccess(n, x) ==
  {p \in Processes :
     \/ \E l \in LocationsOf(p) : x \in ClocksIn(n.invariant[l])
     \/ \E e \in EdgesOf(n, p) : x \in ClocksIn(e.guard) \cup ClocksIn(e.statement)}

\* And of the integer variable.
ValueAccess(n) ==
  {p \in Processes :
     \/ \E l \in LocationsOf(p) : n.test[l] # n.values
     \/ \E e \in EdgesOf(n, p) : e.test # n.values \/ \E k \in n.values : e.assign[k] # k}

\* Mutant: the processes may share clocks.
IsRefusedForValue(n) ==
  \/ Cardinality(ValueAccess(n)) > 1
  \/ \E x \in ClockIds \ {0} : ClockAccess(n, x) = {}

\* model_t: no variable is shared.  build_from_variable_access: each clock has a process.
IsRefused(n) ==
  \/ Cardinality(ValueAccess(n)) > 1
  \/ \E x \in ClockIds \ {0} : Cardinality(ClockAccess(n, x)) # 1

\* declare_reference_clock of each process, and declare_offset_variable of each clock.
RefMapOf(n) ==
  [k \in 0 .. OffsetDim - 1 |->
     IF k < RefCount THEN k ELSE CHOOSE p \in ClockAccess(n, k - RefCount + 1) : TRUE]

-----------------------------------------------------------------------------
(* zg_t *)

\* translate(constraints)
Translated(constraints) ==
  [i \in DOMAIN constraints |->
     LET k == constraints[i]
     IN [k EXCEPT !.x = IF @ = 0 THEN O!ReferenceId(k.y, refmap) ELSE O!OffsetId(@),
                  !.y = IF @ = 0 THEN O!ReferenceId(k.x, refmap) ELSE O!OffsetId(@)]]

\* translate(resets): to zero only, else it throws.
IsTranslatable(resets) == \A i \in DOMAIN resets : resets[i].y = 0 /\ resets[i].c = 0

TranslatedResets(resets) ==
  [i \in DOMAIN resets |->
     [x |-> O!OffsetId(resets[i].x), y |-> O!ReferenceId(resets[i].x, refmap), c |-> 0]]

\* reference_clock_synchronization: the processes of the edges have the same time.
ReferenceSynchronization(vedge) ==
  LET ref(i) == refmap[Pid[vedge[i].src]]
      le(r, s) == [x |-> r, y |-> s, cmp |-> LE, c |-> 0]
  IN Seqs!FlattenSeq([i \in 1 .. Len(vedge) - 1 |->
                       <<le(ref(i + 1), ref(i)), le(ref(i), ref(i + 1))>>])

AsyncInitialize(class, vl) ==
  LET invariant == Translated(Collected(InvariantOf(vl)))
      status == FsmInitialize(vl)
  IN IF status # "OK" THEN O!Failure(status)
     ELSE IF class.semantics = "elapsed"
     THEN O!OffsetElapsedInitialize(DelayAllowed(vl), invariant, refmap)
     ELSE O!OffsetNonElapsedInitialize(invariant, refmap)

AsyncNext(class, vedge) ==
  LET tgt == Target(vloc, vedge)
      status == FsmNext(vedge)
      guard == Translated(Collected(GuardOf(vedge))) \o ReferenceSynchronization(vedge)
      resets == TranslatedResets(Statement(vedge))
      src_invariant == Translated(Collected(InvariantOf(vloc)))
      tgt_invariant == Translated(Collected(InvariantOf(tgt)))
  IN IF status # "OK" THEN O!Failure(status)
     ELSE IF ~ IsTranslatable(Statement(vedge)) THEN O!Failure("invalid_argument")
     ELSE IF class.semantics = "elapsed"
     THEN O!OffsetElapsedNext(offset, guard, resets, DelayAllowed(tgt), tgt_invariant,
                              refmap)
     ELSE O!OffsetNonElapsedNext(offset, DelayAllowed(vloc), src_invariant, guard, resets,
                                 tgt_invariant, refmap)

-----------------------------------------------------------------------------
(* builder_t *)

AsyncInit ==
  /\ refmap = <<>>
  /\ offset = D!Empty
  /\ path = <<>>

\* model_t, when the clock bounds are known: variables must not be shared.
RunAsyncModel(name) ==
  /\ ~ IsRefused(network)
  /\ RunModel(name)
  /\ refmap' = RefMapOf(network)
  /\ UNCHANGED <<offset, path>>

RefuseModel ==
  /\ IsRefused(network)
  /\ outcome = "bounds" /\ model = <<>>
  /\ outcome' = "shared variable"
  /\ UNCHANGED <<network, syntax, solver, turn, maps, model, stateVars, attempt, asyncVars>>

\* There is a state if the status is OK; its synchronized zone is extrapolated.
Made(made, vl, n, edges) ==
  IF made.status = "OK"
  THEN /\ vloc' = vl /\ value' = n /\ path' = edges
       /\ offset' = made.offset /\ exact' = made.sync
       /\ zone' = ExtrapolateTo(made.sync, Extrapolation(model, vl))
  ELSE UNCHANGED <<stateVars, offset, path>>

AsyncInitialState ==
  /\ refmap # <<>> /\ vloc = <<>>
  /\ \E vl \in network.initial :
       LET made == AsyncInitialize(model, vl)
       IN /\ attempt' = [from |-> NoState, vedge |-> <<>>, to |-> vl, status |-> made.status,
                         exact |-> made.status]
          /\ Made(made, vl, network.value, <<>>)
  /\ UNCHANGED <<systemVars, model, refmap>>

AsyncNextState ==
  /\ refmap # <<>> /\ vloc # <<>> /\ attempt.status # "invalid_argument"
  /\ Len(path) < Length
  /\ \E vedge \in network.vedges :
       LET made == AsyncNext(model, vedge)
           tgt == Target(vloc, vedge)
       IN /\ IsSource(vloc, vedge)
          /\ attempt' = [from |-> Here, vedge |-> vedge, to |-> tgt, status |-> made.status,
                         exact |-> made.status]
          /\ Made(made, tgt, Assigned(vedge, value), Append(path, vedge))
  /\ UNCHANGED <<systemVars, model, refmap>>

AsyncStep == AsyncInitialState \/ AsyncNextState

-----------------------------------------------------------------------------
(* Properties *)

\* The offset zone and the synchronized zones have the form that their functions ask for,
\* although a few paths only are tightened, and nothing has thrown on the way.
AsyncTypeOK ==
  refmap # <<>> /\ vloc # <<>> =>
    /\ offset \in D!Matrices
    /\ D!IsConsistent(offset) /\ D!IsTight(offset) /\ O!IsPositiveOffset(offset, refmap)
    /\ O!IsSynchronized(O!Synchronize(offset)) /\ D!IsTight(O!Synchronize(offset))

-----------------------------------------------------------------------------
\* The edges that a process of an edge takes before it in the path.
Before(i) ==
  {j \in 1 .. i - 1 :
     \E k \in DOMAIN path[i], l \in DOMAIN path[j] :
       Pid[path[i][k].src] = Pid[path[j][l].src]}

VlocAfter(vl, edges) ==
  Seqs!FoldLeft(LAMBDA w, i : IF i \in edges THEN Target(w, path[i]) ELSE w,
                vl, [i \in DOMAIN path |-> i])

\* The valuations that the network reaches, all the processes in the same time, when they
\* take the edges of the path each in its order and in any order of the processes.  When
\* time elapses before the steps, the last edge is the last one: no time has elapsed since.
Reached(vl) ==
  LET Late(regions, w) == IF IsElapsed THEN Delayed(regions, InvariantOf(w), DelayAllowed(w))
                          ELSE regions
      Departing(regions, w) ==
        IF IsElapsed THEN regions ELSE Delayed(regions, InvariantOf(w), DelayAllowed(w))
      reached[done \in SUBSET DOMAIN path] ==
        LET last == IF done = DOMAIN path /\ ~ IsElapsed THEN {Len(path)}
                    ELSE {i \in done : \A j \in done : i \notin Before(j)}
            here == VlocAfter(vl, done)
        IN IF done = {} THEN Late({[x \in ClockIds |-> 0]}, vl)
           ELSE Late(UNION {Image(Departing(reached[done \ {i}], VlocAfter(vl, done \ {i})),
                                  GuardOf(path[i]), Statement(path[i]), InvariantOf(here))
                            : i \in last}, here)
  IN reached[DOMAIN path]

\* The synchronized zone holds no valuation but those, although time is not the same for
\* all the processes between two edges; and it holds them all when time may elapse
\* everywhere: one path stands for all the orders of its edges.
ReachedExactly ==
  refmap # <<>> /\ vloc # <<>> =>
    LET reached == UNION {Reached(vl) : vl \in {w \in network.initial : VlocAfter(w, DOMAIN path) = vloc}}
        regions == Compared(RegionsOf(exact))
    IN /\ regions \subseteq reached
       /\ network.committed \cup network.urgent = {} => Compared(reached) = regions

\* From the synchronized zone of a state, an edge that the network can take, all the
\* processes in the same time, leads to a state whose synchronized zone holds what it
\* reaches: a state may be covered by another on their synchronized zones, although they
\* have different offset zones.
GlobalStepKept ==
  refmap # <<>> /\ attempt.to # <<>> /\ attempt.status # "invalid_argument" =>
    LET from == attempt.from
        sources == RegionsOf(from.exact)
        departing == IF IsElapsed THEN sources
                     ELSE Delayed(sources, InvariantOf(from.vloc), DelayAllowed(from.vloc))
        zero == [x \in ClockIds |-> 0]
        arriving == IF from.vloc = <<>> THEN {v \in {zero} : Meets(v, InvariantOf(attempt.to))}
                    ELSE Image(departing, GuardOf(attempt.vedge), Statement(attempt.vedge),
                               InvariantOf(attempt.to))
        reached == IF IsElapsed THEN Delayed(arriving, InvariantOf(attempt.to), DelayAllowed(attempt.to))
                   ELSE arriving
    IN CanArrive /\ arriving # {} => attempt.status = "OK" /\ Compared(reached) \subseteq RegionsOf(exact)

\* The two together are what makes one path stand for all the orders of its edges, and
\* the covering of states by their synchronized zones right.
SyncExact == ReachedExactly /\ GlobalStepKept
=============================================================================
