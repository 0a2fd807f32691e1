# A TLA+ verification of TChecker

TChecker verifies reachability properties of timed automata: it reads a system of
processes, compiles its guards and statements, explores a graph of zones (sets of
clock valuations kept as difference bound matrices), covers nodes by bigger ones, and
allocates everything in pools that a second thread collects. This directory models
the parts where an error would be silent: a wrong verdict, a path that is lost, a node
collected while it is in use, a zone that is too small, a guard that is compiled to
another one.

Line numbers refer to the commit the modules were written from. `PROJECT.json` maps
every definition to the lines it models, and lists the hazards that the properties are
for.

## 1. Inventory

| Component | Where | State | Operations | What makes it correct |
|---|---|---|---|---|
| Covering reachability | `algorithms/covreach/` (`algorithm.hh`, `cover.hh`, `waiting.hh`), `utils/waiting.hh` | waiting container, list of new nodes, statistics | `run`, `expand_initial_nodes`, `expand_node`, `cover_node` | the verdict; what a run knows never shrinks; it ends |
| Subsumption graph | `covreach/graph.hh`, `graph/cover_graph.hh`, `graph/directed_graph.hh` | buckets of nodes, positions in the nodes, two lists of edges per node | add, remove, move edges, find covering and covered nodes, clear | positions and lists agree; what leaves the graph points to nothing |
| Pools and counters | `utils/pool.hh`, `shared_objects.hh`, `spinlock.hh` | blocks, raw block, free list, counters | `construct`, `destruct`, `release`, `collect`, `destruct_all`, copies of pointers | no chunk given twice, no object in use destructed, garbage collected |
| Garbage collector | `utils/gc.*`, `covreach/run.hh`, the allocators | a thread, a flag, a list of functions | `enroll`, `start`, `stop`, the loop, `~gc_t` | stopped before the pools go, on every path |
| Bounds and DBMs | `dbm/db.*`, `dbm/dbm.*` | a matrix of bounds | `constrain`, `reset`, `open_up`, `tighten`, extrapolations, comparisons | canonical; stands for the right valuations; overflow noticed |
| Zone semantics | `zone/` | a zone | `initialize`, `next` (elapsed or not), extrapolation with the bounds of a tuple of locations | same valuations as the automaton, up to extrapolation |
| Offset DBMs, asynchronous zone graphs | `dbm/offset_dbm.*`, `zone/offset_dbm/`, `async_zg/`, `variables/offset_clocks.*` | a matrix with one reference clock per process | the same, plus synchronization and the refusal of shared variables | a path stands for all the orders of its edges |
| Clock bounds | `clockbounds/` | two matrices of inequations L and U | constraints from guards, invariants and assignments, solution, maps | the least bounds that satisfy the inequations; the bounds suit the automaton |
| Flat systems | `flat_system/`, `utils/iterator.hh` | iterators over tuples of locations and edges | synchronized and asynchronous edges, initial tuples, moves | each global edge once, no other; the loops end |
| fsm, ta, zg | `fsm/`, `ta/`, `zg/`, `ts/` | states and transitions | `initialize`, `next`, builders that skip bad states | order of guards, statements and invariants |
| Compiler, virtual machine | `vm/` | bytecode, a stack | compile, run | computes what the source means |
| Expressions, statements | `expression/`, `statement/` | syntax trees, typed or not | type checking, static analysis | what is accepted can be compiled and run |
| Variables and accesses | `variables/` | tables of names, domains, accesses | declare, flatten, access maps | identifiers distinct; no access missed |
| Parsing, systems | `parsing/`, `system/`, `fsm/system.*`, `ta/system.*` | declarations, locations and edges that point to each other | the rules of the parser, the builders, copy, destruction | the file decides what is built; each expression freed once |
| Explore | `algorithms/explore/`, `graph/find_graph.hh`, `find_builder.hh` | waiting container, set of nodes, output | exploration without covering | the graph that is written is the reachable one |
| Command line, output, logs | `tchecker.cc`, `options`, `output.hh`, `log` | none that lives on | printing | - |

How they interact:

* The parser yields declarations; a builder visits them in order and makes a system; the
  model type checks and compiles its expressions, and computes what the options need:
  clock bounds, access maps, offset variables.
* `run()` of `covreach/run.hh` builds a model, a transition system, a `gc_t`, then a
  graph whose allocators enroll their pools in the collector; it starts the
  thread, runs the algorithm, prints, stops the thread and frees the memory. The
  graph is declared after the collector, so it is destructed before.
* The algorithm asks a builder for successors. The builder calls the transition system
  (flat system, fsm with the virtual machine, ta, then the zone semantics) on a state
  allocated in pools: one for states, one for each kind of part.
* Nodes and edges are shared objects with a counter; covering a node only drops
  pointers. The collector finds the counter at 0, destructs the object, and so
  drops pointers itself, in its own thread.
* The waiting container shares the active flag of the nodes with the algorithm:
  a covered node is not removed from it but skipped later.

What is hard:

* two threads on the pools, with a lock on the head of the free list only;
* nodes that are replaced while their siblings, their parent or a whole branch
  are under way; loops that remove from the list they iterate over;
* exceptions in constructions, in the algorithm, in the output, in the evaluation of a
  statement that has already assigned some variables;
* matrices updated in part, with canonicity assumed by the next operation;
* the exact strictness of bounds in the extrapolations and comparisons, and bounds of
  clocks that change with the tuple of locations;
* processes that have each their own time, between two edges that they share;
* what the static analyses (types, accesses, clock bounds) must foresee of all the runs;
* integers at their limits: of bounds, of constants, of identifiers.

There are no messages, no persistent state and no timeouts in this program.

## 2. Plan

Done, in this order:

1. `SymbolicSystems`, `Reachability`, `GraphEdges`, `CovReach` and their proofs;
2. `Pool` and its proofs, then `Gc` and its proofs;
3. `GraphOperations`, `CoverGraph` and their proofs;
4. `Dbm`, `Zone` and their proofs;
5. `ClockBounds` over `TimedAutomata`;
6. `Declarations`, `Systems`;
7. `Expressions`, `Compiler`, `VirtualMachine`, `ProgramSemantics`;
8. `Iterators`, `FlatSystem` over `Configurations`, and their proofs;
9. `Regions`, `ZoneSemantics`, `ZoneGraph`, `OffsetZoneSemantics`, `AsyncZoneGraph`, and
   their composition `Models`;
10. `Exploration`, `Explore` and their proofs.

What would come next: the theorem `FreedOnce` of `Systems` for any number of copies; then the
options of the command line.

## 3. Modules

```
SymbolicSystems --+-- Reachability (abstract)           GraphEdges --+-- GraphOperations (abstract)
                  |        ^ implemented by                          |        ^ implemented by
                  +-- CovReach --- CovReachProofs                    +-- CoverGraph --- CoverGraphProofs
GraphEdges -------+        |                                                  |
                       MCCovReach                                        MCCoverGraph

                                                        Exploration (abstract)
                                                             ^ implemented by
Pool --- PoolProofs    Gc --- GcProofs                  Explore --- ExploreProofs
                        |                                    |
                       MCGc                              MCExplore

       +-- Zone --+-- ZoneProofs (with ZoneSemantics and OffsetZoneSemantics)
       |          +-- MCZone
Dbm ---+-- ZoneSemantics --+-- ZoneGraph -- AsyncZoneGraph -- Models -- MCModels
       |                   |      |              |
       |  TimedAutomata ---+-- Regions           |
       |                +-- ClockBounds          |
       +-- OffsetZoneSemantics ------------------+

Declarations -- Systems -- MCSystems            Iterators --+-- FlatSystem --+-- FlatSystemProofs
                                                            |                +-- MCFlatSystem
                                                Configurations (abstract) ^ implemented by
Expressions -- Compiler -- VirtualMachine -- ProgramSemantics -- MCVirtualMachine
```

**Loops** has the lemmas about least numbers and counting loops that `CoverGraphProofs`,
`ZoneProofs`, `ExploreProofs` and `FlatSystemProofs` share. `Pool` is run as it is.

### Algorithms and memory

**SymbolicSystems** is what `algorithm_t` sees of a zone graph: initial states and
successors in the order of the iterators, accepting states, and the relation of
the cover predicate. The relation is a preorder and a simulation and respects
acceptance: this is the precondition of `run()` and the theory of the relations
that `cover.hh` offers. It is assumed there; `Zone` (on matrices) and `ZoneGraph` (on
paths of automata) look at it from the other side.

**Reachability** is the specification of a reachability algorithm: a set of known
states that grows within what is reachable (up to simulation), and a verdict that
may be given at once if an accepting state has been seen, or when all is known.

**CovReach** is `algorithm_t::run`. A node is the rank of its creation; `state[n]` is its
symbolic state. `stored` is the node table, `active` the flags that the waiting
container filters on, `roots` the protected nodes, `edges` the edges. `waiting` is the
underlying queue or stack with the inactive nodes that are still in it. One
action per turn of a loop: `ExpandInitialNodes`, `Expand`, `Accept`, `Exhausted` for
the main loop; `SkipInactive`, `CoverNext`, `KeepNext`, `EndCovering` for the covering
loop. Building the successors of a node is one action: nothing reads the graph
meanwhile. `CoverNext(m)` lets any covering node be found: the order of a bucket
is the business of `CoverGraph`.

**CoverGraph** is the same graph in memory: `table`, `inTable` and `inContainer` are the
buckets and the positions kept in the nodes, `list["incoming"]` and
`list["outgoing"]` the intrusive lists (head per node, next and node per edge). The
loops of `move_incoming_edges`, `remove_edges` and `clear` take one action per edge, and that
of `clear` over the nodes one per node, in the order of the buckets: `todo` holds the nodes
that its iterator has not met.
**GraphOperations** is what `CovReach` takes for granted: add, cover, clear, at once.

**Pool** is `pool_t` with the counters of `make_shared_t`. Addresses are numbers; a block
is a link and its chunks. `mpc` and `cpc` are where the two threads are; every
access that the other thread may see is an action. `order` is the order of the
stores that publish a new block, in this build: that of the source, or that of an
optimizing compiler (section 6).

A copy that overflows a counter (`CopyOverflows`) stores `REFCOUNT_MAX`, then throws before
it stores the pointer: the counter is one above the pointers. No caller goes on with the algorithm
(`covreach/run.hh:260`, `explore/run.hh:234`), so the mutator is at `thrown`: pointers are
dropped (`DropReference`) while the collector still runs, then it is stopped and the pool
destructed. In between, `graph.clear()` of covreach copies the pointers of the edges it
removes: such a copy overflows again, or takes the counter from `REFCOUNT_MAX` to 1
(`ClearCopies`). `release_reference` throws at 0 and changes nothing.

**Gc** is one run of `run()` with the thread of the collector: `mpc` follows `run()` on
each path (normal, exception in the algorithm, exception in the output, no thread),
`gpc`, `index` and `scan` the loop of `gc_t::collect` down to the chunks it visits. A
slot stands for a state with its parts.

**Explore** is `algorithm_t::run` of the other algorithm with its builder, its graph and
its output: `heap` holds the nodes that have been kept, `found` the table, `nodeLines` and
`edgeLines` what has been written. One action per turn of a loop, for a successor that is
built, refused or raises an error. **Exploration** is what the reader of the output may
expect: nodes and edges of the reachable graph, all of them if the run is complete.

### From the file to the programs

**Declarations** is the parser: a file is a sequence of lines, each a rule of the grammar
with its checks; an action reads a line or recovers from it. **Systems** goes on with the
declarations: the builder visits them one by one, then the model is made, the system copied,
assigned and deleted. Locations and edges have addresses `<<generation, identifier>>` so
that a pointer to the wrong copy shows; `freed` is the history of the deletions.

**Expressions** has the trees, the rules of the grammar as sets of trees, the type
checker, and the static analyses: constant evaluation, the ranges of values and the accesses to
variables; **Compiler** turns typed trees into bytecode. **VirtualMachine** builds the programs of
a model and runs them, one instruction per action, with integers of `Width` bits that wrap
around where `integer_t` does. **ProgramSemantics** says what the sources mean, on trees,
without types, bytecode nor stack.

### From the model to the states

**ClockBounds** is the solver: one action per location and per edge, then the maps.
**Iterators** has ranges, their product and their concatenation, and **FlatSystem** the iterators
over the edges of a tuple of locations built from them, with the moves along the edges;
**Configurations** is the set of global edges as the documentation has it.

**ZoneSemantics** has `initialize` and `next` of both semantics and the extrapolations;
**ZoneGraph** makes states along a path through the layers of `zg/`, `ta/` and `fsm/`. Beside
the state of the model that the options name, it keeps `exact`, the zone that the same path
has without extrapolation, and `attempt`, how the last computation of a state ended.
**Regions** says what sets of valuations the automata reach, without zones.
**OffsetZoneSemantics** (with the functions of `offset_dbm.cc`) and **AsyncZoneGraph** are the
same for the asynchronous zone graphs.
**Models** puts them together: a system, its clock bounds as the solver finds them, one of
the models of the command line, its states. Here a location has a set of allowed
values for an integer variable and an edge a function of it: `VirtualMachine` is the
detail.

**Dbm** has the functions of `db.hh` and `dbm.cc` on bounds that have a width
(`IntMax`): a function that throws yields `Thrown`. **Zone** calls the functions in the orders in
which the semantics may; its first part says what a matrix stands for, without any algorithm
on matrices.

## 4. What is checked

| Run | Properties | What it shows |
|---|---|---|
| `covreach` | TypeOK, Verdict, SubsumptionGraph, NonRedundant, ImplementsReachability, Termination | the verdict is right in every search order; every reachable state is below a stored one; no stored node covers another that could go; it ends |
| `pool` | OneOwner, NoDanglingPointer, CollectsOnlyGarbage, GarbageCollected | with the stores in the order of the source, no chunk has two owners, only garbage is collected, and all of it in the end; counters count the pointers, the copy that overflows included |
| `pool_optimized` | CollectsOnlyGarbage, **violated** | with the stores reordered, the collector destructs a chunk without an object |
| `gc` | TypeOK, StoppedBeforeDestruction, Ownership, StopReturns | the collector is joined before the pools go, states have their parts, `stop` returns |
| `cover_graph` | Positions, Lists, ImplementsGraph, LoopsEnd | positions and lists agree at each turn of the loops, which implement `GraphOperations` and end |
| `zone` | Canonical, OperationsExact, ComparisonsExact, ExtrapolationSound | matrices stay canonical and stand for exactly the right valuations; inclusion and aLU inclusion are exact; extrapolations add no behaviour |
| `models` | TypeOK, LeastBounds, BoundsSimulate, StepExact, PathsKept, SyncExact | the solver finds the least bounds, which suit the automata; zones without extrapolation are those of the runs; no extrapolation adds or removes a path; an asynchronous path stands for the orders of its edges |
| `models_copy` | LeastBounds, **violated** | an edge that copies a clock gets the inequations of others |
| `systems` | FileDecides, DescribedByTheFile, FreedOnce | a file is refused when it should be; every system, copies too, is the one its lines describe, and nothing is freed twice |
| `virtual_machine` | RunsSafely, MeansItsSource, AccessesAreForeseen | what is accepted runs within its stack and its variables, computes what the source means, and touches only what the analysis foresaw |
| `flat_system` | EnumeratesGlobalEdges, MovesAlongGlobalEdges, EnumerationsEnd | the iterators yield the global edges, each once, in both directions, and end; moves follow them |
| `explore` | BreadthFirst, WritesReachableGraph, Ends | the graph read from the output is the reachable one, errors and refusals included; a FIFO search is breadth-first |

Every property of a passing run has a mutant, a change of one definition like a
plausible bug (an argument swapped, a store forgotten, an iterator moved too
late), which the run detects. Mutants are next to the definitions they change.

### Bounds, and why they are enough

* `covreach`: all systems over three states with at most two successors and any order
  that is a simulation, from one or two initial states; and systems over four
  states with two branches. With three states, a node is covered by a sibling, by
  a successor of its own, and an expanded node is covered by its successor; the
  fourth is needed for a branch to cover what waits in another, and leave
  inactive nodes at the top of a stack.
* `pool`: two blocks of two chunks (`AllocNb`), placed in either order in memory (the raw
  block test compares addresses), and `RefcountMax` = 3: the third pointer to an object
  overflows its counter. Two blocks are needed for the
  link, two chunks for the raw block to be used in part. New memory reads as 0, the
  worst value: it is the one that means collectable.
* `gc`: two states with two kinds of parts, each pool enrolled twice as in the code.
  `OutputMayThrow` = FALSE (section 6).
* `cover_graph`: four nodes in two buckets, three edges, and `_NOT_A_POSITION` = 2, so
  that a bucket overflows. Three edges make a list with a first, a middle and a last
  one. A node or an edge that has left the graph may be used again.
* `zone`: two clocks and the clock 0, `IntMax` = 7 (bounds from -4 to 2, so that
  overflow happens), constraints with constants -2 to 2, resets to 0 to 2 and to other clocks.
  Zones are computed with as long as their bounds are within `Limit` = 1; `Comparable`
  chooses the zones that all others are compared with; the bounds of the clocks have L above
  U, L below U, and clocks without bound. A sample of valuations, finer than what the
  bounds can tell apart, decides the properties.
* `models`: three processes of three, two and two locations and two clocks; an integer
  variable of two values; networks with committed and urgent locations,
  invariants, handshakes of two and of three, statements that fail, and shared variables;
  all 18 zone graphs of the command line and both asynchronous ones. `IntMax` = 63 so that
  offsets fit; `Limit` = 3 on the constants of the exact zones that are extended; `Length` = 5 edges
  for an asynchronous path: steps of one process come before, between and after handshakes.
  `Unit`, `Narrow`, `Wide` and `LastValue` size the valuations that stand for all the others:
  fractions enough for two clocks, integers beyond the largest constant. Other small
  systems (arrays, unknown constants, sums, diagonals, cycles without a solution, constants
  that are too large) go through
  the solver only.
* `systems`: a header and at most three lines among declarations of each rule, right
  and wrong, in every order; `KeyMax` = 2 and `VarIdMax` = 4 so that an index fills up
  and an identifier could wrap around; three systems built or copied (`MaxGenerations`).
* `virtual_machine`: integers of three bits (-4 to 3), so that every operator overflows; an
  integer, an array of two, a clock and an array of two clocks; programs of one
  process by rule of the grammar, nested twice, and pairs of statements of two processes.
* `flat_system`: three processes of at most two locations, two events, up to two
  synchronizations of up to three strong or weak constraints, several initial locations or none.
* `explore`: all small transition systems over three states with refused transitions and
  evaluation errors, and of four states with three branches; `MaxFailures` = 0 (section 6).

Within these bounds TLC explores each run to its end.

### Fairness

* `CovReach`, `Explore`, `VirtualMachine`: `WF_vars(Next)`: sequential code does not stop on its
  own.
* `Pool`: `WF_vars(Collect)`: the thread of the collector is scheduled. Nothing is asked
  of the mutator, which may stop allocating for ever. The spin lock needs no strong
  fairness: `GarbageCollected` supposes the mutator at rest.
* `Gc`: `WF_vars(Collect)`, and weak fairness of the steps of `run()` that are not those of
  the algorithm, which may go on for ever.
* `CoverGraph`: `WF_vars(Loops)`, `FlatSystem`: weak fairness of `Fill` and `Expand`: a loop that
  has begun goes on.

Deadlock is not checked in these runs: each of them models a run that ends.

## 5. What is proved

Seven components have their theorems in a module of their own, over the lemmas of `Loops`. They hold for every value of the
constants that satisfies the named assumptions of the modules, which TLC evaluates in the
runs. No liveness is assumed: each theorem is about `Spec` and uses `Init /\ [][Next]_vars` only.

**The verdict: `CovReachProofs`**, for every set of states, finite or not, and every set of
transition systems that satisfies `TransitionSystemsAssumption`:

* `TypeCorrect`: `Spec => []TypeOK`;
* `VerdictCorrect`: `Spec => []Verdict`;
* `Implementation`: `Spec => R!Spec`, `CovReach` implements `Reachability`;
* `GraphCorrect`: `Spec => []SubsumptionGraph`;
* `NoRedundantNode`: `Spec => []NonRedundant`.

The verdict is not inductive: that no accepting state is reachable follows, when
the container is empty, from an invariant about all the nodes ever stored. `IInv`
says where each stored node is: waiting, pending in the covering loop, or expanded,
in which case every successor is below a stored node; that initial states are below
stored nodes; that nodes carry reachable states and no expanded node is accepting.
`KnownStep` shows that covering, which removes nodes, does not shrink the states below
a stored node, by transitivity. With the container empty, the states below stored
nodes contain the initial states and are closed under successors, since the order is
a simulation: they contain `Reachable(ts)`. The graph is inductive next to `IInv`:
`CoverEdgesMeaning` says what redirecting edges does to an edge that remains, and
`CoverEdgesSound` that an edge redirected twice still stands for a successor, by transitivity.
Non-redundancy needs `Antichain` (of the nodes the covering loop is done with, none covers
another) and `Counted` (the nodes ever built are the stored ones and those that the
statistics have counted), which rests on the cardinality of the removed nodes.

**The graph in memory: `CoverGraphProofs`**, for any nodes, edges, keys and sizes of the table
and of the positions:

* `PositionsCorrect`: `Spec => []Positions`;
* `ListsCorrect`: `Spec => []Lists`;
* `GraphImplemented`: `Spec => ImplementsGraph`, `CoverGraph` implements `GraphOperations`.

`Lists` follows the pointers, which says nothing of the lists of another node. `IInv` has
`Chained` instead, local to the links: the edges have a depth that grows along `next`, an edge
is the head of its node or the next of one other edge. Such links make disjoint lists without
a cycle; this is kept when an edge is cut out or put in front, by changing the depths. `Looping`
says which lists the loops have emptied, and that the iterator is at the head of the one it
empties: then nothing remains of a node when it is removed. `Known` and `Placed` keep the
positions, which the last node of the bucket takes over from the removed one. The steps of the
loops map to stutters, and the last one to the operation, since `GraphOperations` sees the
edges between nodes.

**Memory: `PoolProofs`**, for any blocks, chunks per block and `REFCOUNT_MAX`, in the build
that performs the stores in the order of the source (`order = SourceOrder`; the other
one is wrong, section 6), at the interleaving of single accesses:

* `OneOwnerCorrect`: `Spec /\ order = SourceOrder => []OneOwner`;
* `PointersCorrect`: the same for `NoDanglingPointer`, copies that overflow included: the
  counter of `Overflown` is one above its pointers until the collector is stopped, and it still
  stands for an object when `clear()` has copied again (`Unwound`);
* `GarbageOnly`: the same for `CollectsOnlyGarbage`.

`OneOwner` is preserved because of what each thread may rely on between two accesses. `IInv` says
which blocks the collector may see (`Visible`: all but a block whose head has not been
stored yet) and that links lead from visible blocks to visible blocks; how far the set-up of
a block has gone (`SetUp`); that the raw block is the end of a block (`RawBlock`); that the
collector tests no raw chunk and that what it is about to destruct stays garbage (`Visiting`):
no pointer to it can be made, as none is left; and that the counter of a
chunk tells who owns it (`Owned`, `Counters`). `Working` keeps the excess of the
copy that threw: as long as the collector runs it is what keeps that object from being collected.

**The collector: `GcProofs`**, for any number of states, parts and enrolled pools:

* `TypeCorrect`: `Spec => []TypeOK` (with `InPool`: a call is that of an enrolled function);
* `OwnershipCorrect`: `Spec => []Ownership` (with `Building`: nothing is under construction
  outside the algorithm, and no state outlives its pool);
* `CollectorStoppedFirst`: if the output does not throw, `Spec => []StoppedBeforeDestruction`.
  The invariant `Stopped` says at which points of `run()` the thread has been joined. The
  hypothesis is necessary (section 6).

**Zones: `ZoneProofs`**, for any number of clocks, width of the bounds, constraints, resets and
size of the sample of valuations, in every order of the operations:

* `TightZonesCorrect`: `Spec => []TightZones`: a zone that is not told empty is consistent and
  tight;
* `CanonicalCorrect`: if no clock has a negative upper bound, `Spec => []Canonical`;
* `OperationsExactCorrect`: under the same hypothesis, `Spec => []OperationsExact`: `constrain`,
  `reset` and `open_up` yield exactly the valuations that they should;
* `NothingLostCorrect`: `Spec => []NothingLost`, without it: `constrain` is exact, both
  extrapolations keep all the valuations, a zone below another bound by bound is included;
* `ExtrapolationCorrect`: if no clock has a negative upper bound,
  `Spec => []ExtrapolationSound`: what the extrapolations add is simulated by the zone;
* `ComparisonsCorrect`: if the bounds of the clocks are representable,
  `Spec => []ComparisonsExact`: `is_le` and `is_alu_le` decide inclusion and simulation.

The hypothesis `PositiveBounds` is what the assertions of `extra_lu` need, and the
solver does not ensure it (section 6); `TightZonesCorrect` and `NothingLostCorrect` show what
remains without it. `RepresentableBounds` says that each bound of a clock is none, or the negation
of a value: otherwise `db` throws when a comparison or an extrapolation is given it.
`ZInv` says that the zone is `Good`, or told empty, or that the function has thrown, and the same of
the zone that it is compared with.

`tighten(dbm, dim)` is a loop over clocks k, then rows i, then columns j, which skips row k and the
rows without a bound through k; `constrain` has its own loop, which tightens each row through the
one bound that has changed. Their proofs (`TightenFacts`, `FromFacts`) are inductions on the turns of
the loops, stated with sets and functions (`CountingTo`, `Loop`) since the theorems of the
library with operators cannot be used. After the turn of clock k the bounds are tight along the paths
through the clocks up to k, or a diagonal bound is negative and the loops stop. A sum may be out
of bounds: then the function throws, or the bound is not the least one. So the triangle
inequality of `Good` (`Tightly`) is asked where both terms are values.

Exactness needs valuations: no sum that the loops take loses one (`RowAdmits` to `TightenAdmits`), so
that a matrix and its tight form have the same ones; and a clock that is forgotten (`reset`,
`open_up`) has a value between the bounds that the others leave it, because the matrix is tight:
`Room` finds it on the grid of the sample (Fourier-Motzkin).

The last two need more. A sampled valuation of the extrapolated zone must be simulated by
a valuation of the zone: the one where each clock has the least value that the bounds and the
clocks of no more than their upper bound leave it (`Corner`, `Simulator`). A strict bound puts a
clock one grain higher; a path goes through each clock once, so there are fewer than `Dim` such
grains, and the sample has `Dim` grains between two values. For the comparisons, a bound that is
greater than that of the other zone needs a sampled valuation as a witness. The zone restricted by
the negation of the other bound is not empty (`NegationFacts`, `RestrictedTight`); its corner is
one, and it is within the horizon because the clocks of a path are distinct (`DetourValue`,
`Witness`). It has the least value of a clock, so that for `is_alu_le` no valuation of the other
zone simulates it (`Separated`).

The functions of the zone semantics are operators, not steps of `Zone`. Of every zone
that is `Good` and positive, any sequences of constraints and resets, and any delay:

* `ElapsedNextCorrect`, `NonElapsedNextCorrect`, `InitializeCorrect`: what `next` and `initialize`
  return is a zone to compute with, or a failure, and no run is lost, with or without
  extrapolation (by bounds that are not negative): a valuation that satisfies the guard, is in
  the invariant after the resets, one by one, and after a delay, is in the zone that is returned;
* `SynchronizeCorrect`: `synchronize` tightens through the reference clocks only, and its result is
  tight and synchronized all the same, as `offset_dbm.cc:184-220` asserts; it has
  exactly the valuations where all the processes are at the same time;
* `OffsetElapsedNextCorrect`, `OffsetNonElapsedNextCorrect`, `OffsetInitializeCorrect`: the same as
  the first three for offset DBMs, any number of processes, and a delay of its own in each
  process. The zone of the clocks (`to_dbm`) is tight and exactly that of the valuations where the
  processes are at the same time (`SyncZoneFacts`), and a step fails on a run only
  where they cannot be.

All of them are told of runs on which nothing is `Thrown` on the way: the code then stops with
an exception, which the conclusions name. `ResetAllFacts` and `ConstrainAllFacts` are
inductions over the sequences, which `ZoneSemantics` walks by recursive functions. A
path through a clock that is no reference clock was tight before `synchronize`; where one of its two
bounds has changed since, the new bound is that of a path through a reference clock, and the
matrix is tight along those at the end of the loop (`SynchronizedTriangle`).

**Explore: `ExploreProofs`**, for any set of states and transition systems and both search
orders, if no insertion in the node table fails (`MaxFailures = 0`; section 6 shows why):

* `Types`: `Spec => []TypeOK`;
* `EveryVisitedWritten`: `Spec => []VisitedWritten`;
* `WritesTheGraph`: `Spec => WritesReachableGraph`, `Explore` implements `Exploration`;
* `VisitsBreadthFirst`: `Spec => []BreadthFirst`.

The inductive invariant is `IInv`: `TypeOK`, `Numbered` (the nodes are written as they are kept,
under the rank of their creation, and the table holds one for each state), `Sources` (an
edge that is written starts from a kept node), `Fresh` (nothing has been written of a waiting
node, nor beyond the iterator for the current one), `Progress` (a kept node is waiting, or
all its edges have been written, up to the iterator for the current one) and `InitialKept`. With the
container empty, the written nodes hold the initial states and are closed under successors.

The search is breadth-first by a second invariant, `Layered`: with a FIFO container the visited
nodes and the waiting ones are all the nodes, in the order of their creation (`Queued`); each
has been created for an initial state or from a visited node (`HasParent`); the visited nodes
have their successors (`SuccessorsKept`); and nodes created later are not nearer (`Sorted`). A
path to a state without a node leaves the known states from a node that is current or waiting,
hence is longer than the distance of the parents of all the nodes (`NewIsLast`). `WithinNear` shows
that the recursive `Within` counts the transitions of paths.

**The iterators: `FlatSystemProofs`**, for any number of processes and every set of systems that
satisfies `SystemsAssumption`, weak and strong synchronizations, in both directions:

* `InvariantCorrect`: `Spec => []IInv`;
* `EnumerationCorrect`: `Spec => []EnumeratesGlobalEdges`;
* `MovesCorrect`: `Spec => MovesAlongGlobalEdges`, the moves implement `Configurations`.

`ProcessesAssumption` numbers the processes as the declarations do; `SystemsAssumption` is what the
builder of systems ensures: the constraints of a synchronization are on different processes
(`declaration.cc:459-472`), edges are told apart, and a location is of one process.

At the end of an enumeration the iterators have nothing more to say, so `EnumeratesGlobalEdges` is not
inductive. `IInv` says it of each position: for each synchronization, and for the edges taken
alone, what was produced is exactly what the iterator has left behind (`LeftBehind`), each once.
For a synchronization that is the tuples that come before the position in the order of the
product (`Before`); an advance adds the tuple of the position and no other (`AdvancedSync`),
whether the last range moves or several start again. The product of a synchronization is filled
only when the iterator gets to it (`Fill`), from the current tuple of locations, and skips the
synchronizations that a strong constraint disables: `NextEnabledFacts` and `FillFacts` show that nothing
is left behind there. `InstancesFacts` then shows that the tuples of the ranges are the ways to
take part, weak constraints included, and `InstanceOnePerProcess` that a global edge has one
edge per process, so that its order in the synchronization does not matter.

Only model-checked:

* liveness (`Termination`, `GarbageCollected`, `StopReturns`, `LoopsEnd`, `EnumerationsEnd`, `Ends`),
  which is out of the provers' reach;
* what the folds and the recursive functions on sequences and trees compute for any input, which
  needs an induction over data: the solver (`LeastBounds`), the type checker, the compiler and the programs
  (`RunsSafely`, `MeansItsSource`), the parser and the builders (`FileDecides`,
  `DescribedByTheFile`);
* the deletions of systems (`FreedOnce`), whose invariant goes through the builders;
* the zone graphs as a whole (`StepExact`, `PathsKept`, `SyncExact`, `BoundsSimulate`), which
  quantify over runs of automata; of a step of the semantics alone, the theorems above show that it
  loses no run, while `StepExact` and `SyncExact` check that it adds none.

## 6. Disagreements

Where the code does not do what a line of the repository says. The first two are runs; each
of the others is a definition, or the value of a constant, which TLC refutes when it is
put in place of the properties or constants of the run.

| Where | The repository says | The code does | To see it |
|---|---|---|---|
| `utils/pool.hh:379` | `pool.hh:380`: `collect()` may interleave with the set-up of a block | the stores are plain; gcc 12 with `-O2`, the level of the Release build, drops the first store of `_raw_head` and publishes the block before the second: the collector takes its first chunk, whose counter reads 0, for an object without references | run `pool_optimized` |
| `clockbounds/solver.cc:417` | `solver.hh:180`: for y := x, `L_{x,l1} >= L_{y,l2} - c` is added | the call swaps the target location and the assigned clock | run `models_copy` |
| `clockbounds/solver.cc:393` | `solver.hh:248`: the bounds are suitable for the model | the assignments of a sequence are related to the source and target locations one by one, as if each were alone: after `x := y + 1; y := x + 1` the bound of y is lost | `models` with `Networks <- NoNetwork`, `Syntaxes <- MCSequences`: BoundsSimulate |
| `utils/shared_objects.hh:169` | `shared_objects.hh:63`: `REFCOUNT_MAX` identifies the objects that no pointer references | a copy that overflows leaves this value in the counter of an object with `REFCOUNT_MAX` - 1 pointers; one more copy (`clear()`, after the exception) would start again from 1 | `pool`: MaxMeansUnreferenced |
| `covreach/algorithm.hh:71` | there and `doc/usage.md:96`: the graph stores the maximal nodes | a protected (initial) node is never covered; the verdict is not affected | `covreach`: MaximalNodes |
| `covreach/run.hh:267` | `gc.hh:32`: the collector is stopped before a pool is destructed | if the printing or the outputter throws, the destructor of the graph runs first | `gc` with `OutputMayThrow = TRUE`: StoppedBeforeDestruction |
| `covreach/run.hh:499` | `doc/usage.md:67`: extraLU+l is ExtraLU+ | the non-elapsed model of that name is run with ExtraLU | `models`: UsesNamedExtrapolation |
| `fsm/details/fsm.hh:216` | `doc/file-format.md:485`: the edge involves a committed process, if any | nothing but `delay_allowed` asks whether a location is committed | `models`: CommittedFirst |
| `ta/system.cc:160` | `ta/system.hh:103`: `add_location` takes ownership on the invariant | with committed and urgent, the constructor of the location deletes the invariant, then the handler of the exception does | `systems` with `Lines <- MCBothLines`: FreedOnce |
| `vm/compilers.cc:302` | there: a conjunction returns as soon as a conjunct is false | the instruction comes after both operands: the right one is evaluated, and may fail | `virtual_machine`: ReturnsAsSoonAsFalse |
| `fsm/details/fsm.hh:240` | `doc/file-format.md:387`: a term is false iff it is 0 | a guard must evaluate to 1: a term of value 2 is false | `virtual_machine`: TermsAreFalseIffZero |
| `fsm/details/model.hh:301` | `doc/file-format.md:356`: expressions are those of the grammar | what compiles is accepted: a guard that is a clock or an array, which has no truth value | `virtual_machine`: GuardsHaveTruthValues |
| `vm/compilers.cc:344` | `compilers.hh:24`: the compiler throws on a bad type, or when it cannot compile | the type checker accepts a clock in parentheses, and the cast of the compiler throws `std::bad_cast` | `virtual_machine`: CompilerThrowsWhatItSays |
| `statement/typed_statement.cc:71` | `statement/typechecking.hh:30`: errors are reported by calling `error` | an assignment to an array throws out of the type checker | `virtual_machine`: TypecheckReportsErrors |
| `expression/type_inference.cc:137` | `doc/file-format.md:432`: a clock can be assigned `clock + int_term` | the sum is accepted with its integer term first only | `virtual_machine`: SumsOfClocksAreAccepted |
| `flat_system/synchronizer.hh:301` | `synchronizer.hh:457`: the end can be told by an equality check | an exhausted iterator keeps its last product and is not equal to the end of its range | `flat_system`: EndEqualsPastTheEnd |
| `flat_system/synchronizer.hh:638` | `synchronizer.hh:629`: the incoming edges of the tuple | weak constraints take part according to the incoming edges of the target, not to the outgoing ones of the source | `flat_system`: WeakIncomingEdgesLeadHere |
| `dbm/dbm.cc:606`, `:691` | there: an extrapolated zone is positive (asserted) | the solver may find a negative upper bound (-2 for y, with `x := y + 5` and `x <= 3`); the extrapolations then replace 0 - y <= 0 by 0 - y < 2. No valuation is lost (`NothingLostCorrect`) | `zone` with `ClockBounds <- MCNegativeBounds`: Canonical |
| `explore/algorithm.hh:76` | `explore/options.cc:279`: depth-first search | a node is marked when it is inserted, not when it is visited: with a LIFO container the order is not depth-first | `explore`: DepthFirst |
| `graph/find_graph.hh:87` | `explore/algorithm.hh:39`: for each state visited a node is added to the graph | an exception of the insertion is swallowed and its result ignored: the state is visited without its node | `explore` with `MaxFailures = 1`: VisitedWritten |

UsesNamedExtrapolation, CommittedFirst and DepthFirst are action properties (PROPERTY); the
others are invariants.

## 7. What is not modelled, and limits

* The singleton pool (one object, never collected, used by one thread in one call); the
  operations of `dbm.cc` that no algorithm calls (`open_down`, `scale_up`, `intersection`);
  hashing, printing and the total order of matrices, nodes and arrays.
* The parser of expressions (`program.yy`): whether a text is an expression, and which, is an
  input. Clones and the printing of declarations; moves of systems.
* Options, wording and layout of the output.
* The transition system of `CovReach` is assumed to satisfy the preconditions of `run()`;
  `Models` checks on small automata that exact and extrapolated zone graphs have the same
  paths, which is what they come from.
* `Pool` models two orders of stores, not a memory model: the loads of the collector are in
  source order.
* `Zone`, `ZoneGraph` and `AsyncZoneGraph` sample valuations; `Dbm` throws where `db.hh`
  does (without `DBM_UNSAFE`).
* With urgent or committed locations, the asynchronous zone graph is only shown to reach
  nothing else than the runs (`SyncExact`): processes need not be late at the same time.
* `ZoneGraph` takes tuples of edges from a list and `FlatSystem` enumerates them; the two meet
  in the definition of a global edge, not in one run. So do `ZoneGraph` and
  `VirtualMachine`, in what a guard and a statement yield.
* An output that throws and a table that cannot grow are left out of the passing runs, by a
  constant, since the code fails there (section 6).
