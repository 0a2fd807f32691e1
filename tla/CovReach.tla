------------------------------ MODULE CovReach ------------------------------
(***************************************************************************)
(* The covering reachability algorithm of TChecker: algorithm_t::run of    *)
(* include/tchecker/algorithms/covreach/algorithm.hh, with the waiting     *)
(* container (lazily filtered FIFO or LIFO) and the subsumption graph it   *)
(* updates.  One action per iteration of a loop of run().                  *)
(*                                                                         *)
(* The zone graph is a transition system of SymbolicSystems.  A node is    *)
(* the rank of its creation; several nodes may carry the same state.       *)
(***************************************************************************)
EXTENDS SymbolicSystems, GraphEdges, FiniteSets

Policies == {"fifo", "lifo"}

VARIABLES
  ts,       \* the transition system of this run
  policy,   \* FIFO (bfs) or LIFO (dfs) waiting container
  pc,       \* where run() is
  state,    \* state[n]: the symbolic state of node n; the nodes are DOMAIN state
  active,   \* the nodes with the flag _active
  roots,    \* the nodes with the flag _protected, listed in _root_nodes
  stored,   \* the nodes in the node table of the graph
  edges,    \* the edges of the graph; id tells parallel edges apart
  waiting,  \* the underlying queue or stack, first inserted first
  nodes,    \* the successors of the node under expansion
  pos,      \* the position of the covering loop in nodes
  outcome,  \* the value returned
  stats     \* stats_t

vars == <<ts, policy, pc, state, active, roots, stored, edges, waiting, nodes,
          pos, outcome, stats>>

Nodes == DOMAIN state

-----------------------------------------------------------------------------
(* The graph and the waiting container. *)

\* Mutant: the arguments of the zone predicate are swapped.
CoversSwapped(n1, n2) == n1 # n2 /\ n1 \notin roots /\ Le(ts, state[n2], state[n1])

\* n1 may be covered by n2: valid_cover, then the state and zone predicates.
Covers(n1, n2) == n1 # n2 /\ n1 \notin roots /\ Le(ts, state[n1], state[n2])

\* filter_waiting_t::insert
Insert(w, n) == IF n \in active THEN Append(w, n) ELSE w

\* Mutant: the inactive nodes are not filtered out.
IsEmptyUnfiltered(w) == w = <<>>

\* filter_waiting_t::empty: no active node is left.
IsEmpty(w) == \A i \in DOMAIN w : w[i] \notin active

\* filter_waiting_t::skip_bad then first(): the position of the first active
\* node in the order of the container.
IsFirst(w, i) ==
  /\ w[i] \in active
  /\ \A j \in DOMAIN w :
       (IF policy = "fifo" THEN j < i ELSE j > i) => w[j] \notin active

\* Mutant: the first node inserted is removed, whatever the policy.
RemoveFirstFront(w, i) == SubSeq(w, 2, Len(w))

\* remove_first(), after skip_bad, when the first active node is at position i.
RemoveFirst(w, i) ==
  IF policy = "fifo" THEN SubSeq(w, i + 1, Len(w)) ELSE SubSeq(w, 1, i - 1)

\* The nodes built for the states of s, and the edges that lead to them.
Ranks(s) == {Len(state) + i : i \in DOMAIN s}

\* Mutant: the list starts one node too late.
NewNodesLate(s) == [i \in DOMAIN s |-> Len(state) + i + 1]

NewNodes(s) == [i \in DOMAIN s |-> Len(state) + i]

NewEdges(n, s) ==
  {[id |-> m, src |-> n, tgt |-> m, type |-> "actual"] : m \in Ranks(s)}

-----------------------------------------------------------------------------
Init ==
  /\ ts \in TransitionSystems
  /\ policy \in Policies
  /\ pc = "initial"
  /\ state = <<>> /\ active = {} /\ roots = {} /\ stored = {} /\ edges = {}
  /\ waiting = <<>> /\ nodes = <<>> /\ pos = 1
  /\ outcome = "none"
  /\ stats = [visited |-> 0, leaf |-> 0, nonleaf |-> 0]

(* expand_initial_nodes, then the insertion of every initial node.  Initial *)
(* nodes are not compared with one another, and are protected.              *)
ExpandInitialNodes ==
  /\ pc = "initial"
  /\ pc' = "waiting"
  /\ state' = state \o ts.init
  /\ active' = active \cup Ranks(ts.init)
  /\ stored' = stored \cup Ranks(ts.init)
  /\ roots' = roots \cup Ranks(ts.init)
  /\ waiting' = waiting \o NewNodes(ts.init)
  /\ UNCHANGED <<ts, policy, edges, nodes, pos, outcome, stats>>

\* while (! waiting.empty()) ends the run when no active node is waiting.
Exhausted ==
  /\ pc = "waiting"
  /\ IsEmpty(waiting)
  /\ pc' = "done"
  /\ waiting' = <<>>
  /\ outcome' = "UNREACHABLE"
  /\ UNCHANGED <<ts, policy, state, active, roots, stored, edges, nodes, pos, stats>>

\* The first waiting node is visited, and it is accepting.
Accept(i) ==
  /\ pc = "waiting"
  /\ IsFirst(waiting, i)
  /\ state[waiting[i]] \in ts.accepting
  /\ pc' = "done"
  /\ waiting' = RemoveFirst(waiting, i)
  /\ stats' = [stats EXCEPT !.visited = @ + 1]
  /\ outcome' = "REACHABLE"
  /\ UNCHANGED <<ts, policy, state, active, roots, stored, edges, nodes, pos>>

\* The first waiting node is visited and expanded (expand_node): a node and an
\* actual edge for each successor, all in the graph before any is compared.
Expand(i) ==
  LET n    == waiting[i]
      succ == ts.succ[state[n]]
  IN /\ pc = "waiting"
     /\ IsFirst(waiting, i)
     /\ state[n] \notin ts.accepting
     /\ pc' = "covering"
     /\ waiting' = RemoveFirst(waiting, i)
     /\ stats' = [stats EXCEPT !.visited = @ + 1]
     /\ state' = state \o succ
     /\ active' = active \cup Ranks(succ)
     /\ stored' = stored \cup Ranks(succ)
     /\ edges' = edges \cup NewEdges(n, succ)
     /\ nodes' = NewNodes(succ)
     /\ pos' = 1
     /\ UNCHANGED <<ts, policy, roots, outcome>>

\* `continue': the next node has been covered by one of its siblings.
SkipInactive ==
  /\ pc = "covering"
  /\ pos \in DOMAIN nodes
  /\ nodes[pos] \notin active
  /\ pos' = pos + 1
  /\ UNCHANGED <<ts, policy, pc, state, active, roots, stored, edges, waiting,
                 nodes, outcome, stats>>

\* The next node is covered by m, a node of its bucket of the node table.
CoverNext(m) ==
  LET n == nodes[pos]
  IN /\ pc = "covering"
     /\ pos \in DOMAIN nodes
     /\ n \in active
     /\ m \in stored
     /\ Covers(n, m)
     /\ edges' = CoverEdges(edges, {n}, m)
     /\ stored' = stored \ {n}
     /\ active' = active \ {n}
     /\ stats' = [stats EXCEPT !.leaf = @ + 1]
     /\ pos' = pos + 1
     /\ UNCHANGED <<ts, policy, pc, state, roots, waiting, nodes, outcome>>

\* Mutant: only the waiting nodes are looked at.
CoveredNodesWaiting(n) == {m \in stored : m \in Elements(waiting) /\ Covers(m, n)}

\* The nodes that n covers in the graph.
CoveredNodes(n) == {m \in stored : Covers(m, n)}

\* The next node is not covered: it waits, and replaces the nodes it covers.
\* A covered node may be waiting, a sibling to come, or the expanded node.
KeepNext ==
  LET n == nodes[pos]
      C == CoveredNodes(n)
  IN /\ pc = "covering"
     /\ pos \in DOMAIN nodes
     /\ n \in active
     /\ \A m \in stored : ~ Covers(n, m)
     /\ waiting' = Insert(waiting, n)
     /\ edges' = CoverEdges(edges, C, n)
     /\ stored' = stored \ C
     /\ active' = active \ C
     /\ stats' = [stats EXCEPT !.nonleaf = @ + Cardinality(C)]
     /\ pos' = pos + 1
     /\ UNCHANGED <<ts, policy, pc, state, roots, nodes, outcome>>

\* The covering loop is over: back to the test of the main loop.
EndCovering ==
  /\ pc = "covering"
  /\ pos \notin DOMAIN nodes
  /\ pc' = "waiting"
  /\ nodes' = <<>>
  /\ pos' = 1
  /\ UNCHANGED <<ts, policy, state, active, roots, stored, edges, waiting,
                 outcome, stats>>

Next ==
  \/ ExpandInitialNodes
  \/ Exhausted
  \/ \E i \in DOMAIN waiting : Accept(i)
  \/ \E i \in DOMAIN waiting : Expand(i)
  \/ SkipInactive
  \/ \E m \in stored : CoverNext(m)
  \/ KeepNext
  \/ EndCovering

Spec == Init /\ [][Next]_vars

\* run() is sequential code: it goes on as long as it has a step to take.
FairSpec == Spec /\ WF_vars(Next)

-----------------------------------------------------------------------------
(* What the properties speak of. *)

\* The nodes of the covering loop that it has not reached yet.
Pending == {nodes[i] : i \in {j \in DOMAIN nodes : pos <= j}}

\* The stored nodes whose successors have been built.
Expanded == {n \in stored : /\ n \notin Elements(waiting) /\ n \notin Pending
                            /\ state[n] \notin ts.accepting}

Covered(s) == \E n \in stored : Le(ts, s, state[n])

-----------------------------------------------------------------------------
(* Properties *)

Edge == [id : Nodes, src : Nodes, tgt : Nodes, type : EdgeTypes]

\* The variables have their types: nodes are ranks of creation.
TypeOK ==
  /\ ts \in TransitionSystems
  /\ policy \in Policies
  /\ pc \in {"initial", "waiting", "covering", "done"}
  /\ state \in Seq(States)
  /\ active \in SUBSET Nodes /\ stored \in SUBSET Nodes /\ roots \in SUBSET Nodes
  /\ edges \in SUBSET Edge
  /\ waiting \in Seq(Nodes) /\ nodes \in Seq(Nodes)
  /\ pos \in 1 .. Len(nodes) + 1
  /\ outcome \in {"none", "REACHABLE", "UNREACHABLE"}
  /\ stats \in [visited : Nat, leaf : Nat, nonleaf : Nat]

(* The verdict of run() is right whatever the cover relation has removed:   *)
(* "return REACHABLE if TS has an accepting run, UNREACHABLE otherwise"     *)
(* (the \return clause of algorithm_t::run).                                *)
Verdict ==
  /\ outcome = "REACHABLE" => HasAcceptingRun(ts)
  /\ outcome = "UNREACHABLE" => ~ HasAcceptingRun(ts)

(* The edges are those of a subsumption graph, at every step of the covering *)
(* loop: an edge links stored nodes, its target is a successor (actual edge) *)
(* or bigger than one (abstract edge), and each successor of an expanded     *)
(* node is represented by an edge, although its node may have been removed   *)
(* and the edge redirected many times.                                       *)
SubsumptionGraph ==
  /\ \A e \in edges :
       /\ e.src \in stored /\ e.tgt \in stored
       /\ \E s \in Elements(ts.succ[state[e.src]]) :
            IF e.type = "actual" THEN s = state[e.tgt] ELSE Le(ts, s, state[e.tgt])
  /\ \A n \in Expanded : \A s \in Elements(ts.succ[state[n]]) :
       \E e \in edges : e.src = n /\ Le(ts, s, state[e.tgt])

(* The node table holds exactly the active nodes: what the waiting container *)
(* filters out is what the graph has dropped.  Of the stored nodes that the  *)
(* covering loop is done with, none is covered by another one: only          *)
(* protected (initial) nodes may be redundant.  The counters printed by -S   *)
(* account for every node ever built.                                        *)
NonRedundant ==
  /\ stored = active
  /\ \A n, m \in stored \ Pending : ~ Covers(n, m)
  /\ Len(state) = Cardinality(stored) + stats.leaf + stats.nonleaf

(* The algorithm is a reachability algorithm: the states covered by a stored *)
(* node are what it knows.  No step loses one, although nodes are removed    *)
(* all the time, and the loop does not stop before it knows them all.        *)
R == INSTANCE Reachability WITH known <- {s \in States : Covered(s)}

ImplementsReachability == R!Spec

(* On a finite transition system the algorithm ends.                         *)
Termination == <>(pc = "done")

(* The graph "stores the maximal nodes in ts" (the \post clause of           *)
(* algorithm_t::run): no stored node is strictly below another one.  It is   *)
(* not so (README, "Disagreements").                                         *)
MaximalNodes ==
  outcome = "UNREACHABLE" =>
    \A n, m \in stored :
      Le(ts, state[n], state[m]) => Le(ts, state[m], state[n])

=============================================================================
