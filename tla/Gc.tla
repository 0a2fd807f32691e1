--------------------------------- MODULE Gc ---------------------------------
(***************************************************************************)
(* The garbage collection thread of TChecker (gc_t) over one run of an     *)
(* algorithm: run() of algorithms/covreach/run.hh, from the construction   *)
(* of the graph to the destruction of its locals, on every path out of it. *)
(* The pools are those of the state allocators (ts, fsm, ta, zg and their  *)
(* details/allocators.hh): one of states and one for each kind of part of  *)
(* a state.  Each state owns parts of its own.  A slot stands for a state  *)
(* and its parts; what goes on inside a pool is the matter of Pool.        *)
(***************************************************************************)
EXTENDS Naturals, Sequences

CONSTANTS
  Slots,          \* places for states
  Parts,          \* kinds of parts: tuple of locations, integer variables, zone
  Enrolled,       \* the pools, in the order they have been enrolled
  OutputMayThrow  \* whether the code that outputs the graph may throw

Pools == {"state"} \cup Parts

ASSUME PartsAssumption == "state" \notin Parts
ASSUME EnrolledAssumption ==
  /\ Enrolled \in Seq(Pools)
  /\ Pools = {Enrolled[i] : i \in DOMAIN Enrolled}
ASSUME OutputAssumption == OutputMayThrow \in BOOLEAN

NoSlot == "none"

ASSUME SlotsAssumption == NoSlot \notin Slots

VARIABLES
  mpc,       \* where run() is
  building,  \* the slot of the state under construction
  made,      \* the kinds of the parts that have been constructed for it
  state,     \* state[s]: "none", "live" (referenced) or "garbage"
  part,      \* part[k][s]: "none", "held" (by the caller of construct),
             \* "owned" (by the state of the slot) or "garbage"
  freed,     \* the pools that have no memory any more
  stop,      \* _stop
  thread,    \* "none", "running" or "ended" (not joined yet)
  gpc,       \* where collect() is
  index,     \* the position of its loop in _functions
  scan       \* the slots the running pool_t::collect() has not visited yet

main == <<mpc, building, made, freed>>
collector == <<gpc, index, scan>>
vars == <<main, state, part, stop, thread, collector>>

Init ==
  /\ mpc = "start" /\ building = NoSlot /\ made = {} /\ freed = {}
  /\ state = [s \in Slots |-> "none"]
  /\ part = [k \in Parts |-> [s \in Slots |-> "none"]]
  /\ stop = TRUE /\ thread = "none"
  /\ gpc = "none" /\ index = 1 /\ scan = {}

-----------------------------------------------------------------------------
(* run() *)

\* gc.start()
Start ==
  /\ mpc = "start"
  /\ stop' = FALSE /\ thread' = "running" /\ gpc' = "loop"
  /\ mpc' = "algorithm"
  /\ UNCHANGED <<building, made, freed, state, part, index, scan>>

\* std::thread throws, after _stop has been set to false.
StartThrows ==
  /\ mpc = "start"
  /\ stop' = FALSE
  /\ mpc' = "unwind"
  /\ UNCHANGED <<building, made, freed, state, part, thread, collector>>

\* construct() or construct_from_state(): the parts first, in any order.
ConstructPart(s, k) ==
  /\ mpc = "algorithm"
  /\ building \in {NoSlot, s}
  /\ building = NoSlot =>
       state[s] = "none" /\ \A j \in Parts : part[j][s] = "none"
  /\ k \notin made
  /\ building' = s
  /\ made' = made \cup {k}
  /\ part' = [part EXCEPT ![k][s] = "held"]
  /\ UNCHANGED <<mpc, freed, state, stop, thread, collector>>

\* ... then the state, which takes references on them.
ConstructState ==
  /\ mpc = "algorithm" /\ building # NoSlot
  /\ made = Parts
  /\ state' = [state EXCEPT ![building] = "live"]
  /\ part' = [k \in Parts |-> [part[k] EXCEPT ![building] =
                                   IF @ = "held" THEN "owned" ELSE @]]
  /\ building' = NoSlot /\ made' = {}
  /\ UNCHANGED <<mpc, freed, stop, thread, collector>>

\* Nothing references a state any more: it has been covered, or it was bad.
DropState(s) ==
  /\ mpc = "algorithm" /\ state[s] = "live"
  /\ state' = [state EXCEPT ![s] = "garbage"]
  /\ UNCHANGED <<main, part, stop, thread, collector>>

\* The parts whose caller has been left by an exception are not referenced.
Abandoned(p) ==
  [k \in Parts |-> [s \in Slots |-> IF p[k][s] = "held" THEN "garbage" ELSE p[k][s]]]

\* algorithm.run() throws, in a construction or not: catch (...).
AlgorithmThrows ==
  /\ mpc = "algorithm"
  /\ part' = Abandoned(part) /\ building' = NoSlot /\ made' = {}
  /\ mpc' = "stop"
  /\ UNCHANGED <<freed, state, stop, thread, collector>>

AlgorithmReturns ==
  /\ mpc = "algorithm" /\ building = NoSlot
  /\ mpc' = "output"
  /\ UNCHANGED <<building, made, freed, state, part, stop, thread, collector>>

\* The verdict, the statistics and the graph are output.  No handler stops the
\* garbage collector if this code throws.
Output ==
  /\ mpc = "output"
  /\ mpc' \in {"stop"} \cup (IF OutputMayThrow THEN {"unwind"} ELSE {})
  /\ UNCHANGED <<building, made, freed, state, part, stop, thread, collector>>

\* Mutant: the thread is joined without being told to stop.
SetStopNot ==
  /\ mpc \in {"stop", "unwind_gc"} /\ thread # "none"
  /\ mpc' = IF mpc = "stop" THEN "join" ELSE "join_gc"
  /\ UNCHANGED <<building, made, freed, state, part, stop, thread, collector>>

\* gc.stop(), from run() or from ~gc_t()
SetStop ==
  /\ mpc \in {"stop", "unwind_gc"} /\ thread # "none"
  /\ stop' = TRUE
  /\ mpc' = IF mpc = "stop" THEN "join" ELSE "join_gc"
  /\ UNCHANGED <<building, made, freed, state, part, thread, collector>>

\* Mutant: the thread is detached, not joined.
JoinNothing ==
  /\ mpc \in {"join", "join_gc"}
  /\ mpc' = IF mpc = "join" THEN "free" ELSE "done"
  /\ UNCHANGED <<building, made, freed, state, part, stop, thread, collector>>

Join ==
  /\ mpc \in {"join", "join_gc"} /\ thread = "ended"
  /\ thread' = "none"
  /\ mpc' = IF mpc = "join" THEN "free" ELSE "done"
  /\ UNCHANGED <<building, made, freed, state, part, stop, collector>>

\* graph.clear() and graph.free_all(): no destructor is called.
FreeAll ==
  /\ mpc = "free"
  /\ state' = [s \in Slots |-> "none"]
  /\ part' = [k \in Parts |-> [s \in Slots |-> "none"]]
  /\ freed' = Pools
  /\ mpc' = "unwind"
  /\ UNCHANGED <<building, made, stop, thread, collector>>

\* A part whose state is destructed is not referenced any more.
Orphaned(p, S) ==
  [k \in Parts |-> [s \in Slots |->
     IF s \in S /\ p[k][s] = "owned" THEN "garbage" ELSE p[k][s]]]

\* ~graph_t(): destruct_all of the pools, states before their parts.
DestructGraph(p) ==
  /\ mpc = "unwind" /\ p \in Pools \ freed
  /\ p \in Parts => "state" \in freed
  /\ IF p = "state"
       THEN /\ part' = Orphaned(part, {s \in Slots : state[s] # "none"})
            /\ state' = [s \in Slots |-> "none"]
       ELSE /\ part' = [part EXCEPT ![p] = [s \in Slots |-> "none"]]
            /\ UNCHANGED state
  /\ freed' = freed \cup {p}
  /\ UNCHANGED <<mpc, building, made, stop, thread, collector>>

\* ~gc_t(): the graph has been constructed after gc, it is destructed before.
DestructGc ==
  /\ mpc = "unwind" /\ freed = Pools
  /\ mpc' = IF thread = "none" THEN "done" ELSE "unwind_gc"
  /\ UNCHANGED <<building, made, freed, state, part, stop, thread, collector>>

-----------------------------------------------------------------------------
(* gc_t::collect() *)

EndThread ==
  /\ gpc \in {"loop", "for"} /\ stop
  /\ thread' = "ended" /\ gpc' = "none"
  /\ UNCHANGED <<main, state, part, stop, index, scan>>

Loop ==
  /\ gpc = "loop" /\ ~ stop
  /\ index' = 1 /\ gpc' = "for"
  /\ UNCHANGED <<main, state, part, stop, thread, scan>>

\* Mutant: one turn too many of the loop over the functions.
CallNextPast ==
  /\ gpc = "for" /\ ~ stop
  /\ IF index > Len(Enrolled)
       THEN gpc' = "loop" /\ index' = index + 1 /\ UNCHANGED scan
       ELSE gpc' = "call" /\ scan' = Slots /\ UNCHANGED index
  /\ UNCHANGED <<main, state, part, stop, thread>>

\* The next function is called, if any: it collects the pool index.
CallNext ==
  /\ gpc = "for" /\ ~ stop
  /\ IF index > Len(Enrolled)
       THEN gpc' = "loop" /\ UNCHANGED scan
       ELSE gpc' = "call" /\ scan' = Slots
  /\ UNCHANGED <<main, state, part, stop, thread, index>>

\* Mutant: a part that nothing references yet is taken for garbage.
CollectableNew(v) == v \in {"garbage", "held"}

Collectable(v) == v = "garbage"

\* The chunks of slot s are visited: an unused object is destructed.
Visit(s) ==
  LET p == Enrolled[index]
  IN /\ gpc = "call" /\ s \in scan
     /\ scan' = scan \ {s}
     /\ IF p = "state"
          THEN IF Collectable(state[s])
                 THEN /\ part' = Orphaned(part, {s})
                      /\ state' = [state EXCEPT ![s] = "none"]
                 ELSE UNCHANGED <<state, part>>
          ELSE /\ part' = IF Collectable(part[p][s])
                            THEN [part EXCEPT ![p][s] = "none"] ELSE part
               /\ UNCHANGED state
     /\ UNCHANGED <<main, stop, thread, gpc, index>>

Return ==
  /\ gpc = "call" /\ scan = {}
  /\ gpc' = "for" /\ index' = index + 1
  /\ UNCHANGED <<main, state, part, stop, thread, scan>>

-----------------------------------------------------------------------------
Algorithm ==
  \/ \E s \in Slots, k \in Parts : ConstructPart(s, k)
  \/ ConstructState
  \/ \E s \in Slots : DropState(s)

Leave ==
  \/ Start \/ StartThrows \/ AlgorithmThrows \/ AlgorithmReturns
  \/ Output \/ SetStop \/ Join \/ FreeAll
  \/ (\E p \in Pools : DestructGraph(p)) \/ DestructGc

Collect == EndThread \/ Loop \/ CallNext \/ (\E s \in Slots : Visit(s)) \/ Return

Next == Algorithm \/ Leave \/ Collect

Spec == Init /\ [][Next]_vars

\* Both threads run; the algorithm may go on for ever.
FairSpec == Spec /\ WF_vars(Leave /\ mpc # "algorithm") /\ WF_vars(Collect)

-----------------------------------------------------------------------------
(* Properties *)

TypeOK ==
  /\ mpc \in {"start", "algorithm", "output", "stop", "join", "free", "unwind",
              "unwind_gc", "join_gc", "done"}
  /\ building \in Slots \cup {NoSlot}
  /\ made \in SUBSET Parts
  /\ state \in [Slots -> {"none", "live", "garbage"}]
  /\ part \in [Parts -> [Slots -> {"none", "held", "owned", "garbage"}]]
  /\ freed \in SUBSET Pools
  /\ stop \in BOOLEAN
  /\ thread \in {"none", "running", "ended"}
  /\ gpc \in {"none", "loop", "for", "call"}
  /\ index \in 1 .. Len(Enrolled) + 1
  /\ scan \in SUBSET Slots

(* "Garbage collection must be stopped before any enrolled pool is           *)
(* destructed" (class gc_t): on every path out of run(), no pool is freed or *)
(* destructed while the thread may be collecting it.                         *)
StoppedBeforeDestruction == freed # {} => thread = "none"

(* The parts of a state live as long as it does, whichever thread destructs  *)
(* it, and a part that is not under construction belongs to a state or will  *)
(* be collected: none leaks when a construction fails half-way.              *)
Ownership ==
  \A k \in Parts, s \in Slots :
    /\ state[s] # "none" <=> part[k][s] = "owned"
    /\ part[k][s] = "held" => building = s

(* stop() returns: the collector sees _stop between two calls, and run()     *)
(* comes to its end on every path.                                           *)
StopReturns == mpc \notin {"start", "algorithm"} ~> mpc = "done"
=============================================================================
