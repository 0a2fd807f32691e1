------------------------------- MODULE Explore -------------------------------
(***************************************************************************)
(* `tchecker explore': algorithm_t::run of algorithms/explore/algorithm.hh,*)
(* with the builder that numbers the nodes and looks them up, the graph    *)
(* that stores the nodes and writes nodes and edges as it meets them, the  *)
(* FIFO or LIFO container, and how the run ends (run.hh).  One action per  *)
(* iteration of a loop of run().                                           *)
(*                                                                         *)
(* A node pointer is a position in heap, the nodes that have been kept.    *)
(* The table of nodes may fail to insert: the exception is caught in       *)
(* find_graph_t::add_node, and MaxFailures bounds how often it happens.    *)
(***************************************************************************)
EXTENDS Naturals, Sequences, FiniteSets

CONSTANTS
  States,             \* the states, up to the equality of the node table
  TransitionSystems,  \* the transition systems that may be explored
  MaxFailures         \* how many insertions in the node table may fail

ASSUME MaxFailuresAssumption == MaxFailures \in Nat

VARIABLES
  ts,         \* the transition system of this run
  policy,     \* FIFO (bfs) or LIFO (dfs) waiting container
  pc,         \* where run() is
  it,         \* the iterator of the loop in progress
  heap,       \* the nodes that have been kept, [id, state]
  node_id,    \* the next identifier of the builder
  found,      \* the nodes in the table of the graph
  waiting,    \* the waiting container, first inserted first
  node,       \* the node whose outgoing edges are explored
  visited,    \* the nodes in the order they were taken from waiting (history)
  nodeLines,  \* the nodes written, in order
  edgeLines,  \* the edges written, in order; edge is a position in the iterator
  finalized,  \* the outputter has been finalized
  failures    \* the insertions that have failed

builder == <<heap, node_id>>
graph == <<found, nodeLines, edgeLines, finalized, failures>>
vars == <<ts, policy, pc, it, waiting, node, visited, builder, graph>>

\* What is promised of the graph read from the output: an edge names nodes by
\* their identifiers.
StateOf(id) ==
  LET line == CHOOSE i \in DOMAIN nodeLines : nodeLines[i].id = id
  IN nodeLines[line].state

Promise ==
  INSTANCE Exploration WITH
    nodes <- [i \in DOMAIN nodeLines |-> nodeLines[i].state],
    edges <- [i \in DOMAIN edgeLines |-> <<StateOf(edgeLines[i].src), edgeLines[i].edge>>],
    outcome <- IF pc = "done" THEN "complete" ELSE IF pc = "failed" THEN "interrupted" ELSE "none"

Policies == {"fifo", "lifo"}

ASSUME TransitionSystemsAssumption ==
  \A t \in TransitionSystems :
    t \in [init : Seq(Promise!Outcomes), succ : [States -> Seq(Promise!Outcomes)]]

IsOk(o) == o.status = "STATE_OK"
Raises(o) == o.status = "exception"

-----------------------------------------------------------------------------
(* The waiting container. *)

\* Mutant: the nodes are inserted in front.
InsertFront(w, n) == <<n>> \o w

Insert(w, n) == Append(w, n)

First(w) == IF policy = "fifo" THEN w[1] ELSE w[Len(w)]

RemoveFirst(w) ==
  IF policy = "fifo" THEN Tail(w) ELSE SubSeq(w, 1, Len(w) - 1)

(* The builder and the graph. *)

\* The nodes of the table equal to a node that carries s.
Equivalent(s) == {n \in found : heap[n].state = s}

\* A node that carries s is new: find returns the node it was given.
IsNew(s) == Equivalent(s) = {}

NewNode == Len(heap) + 1

\* The node that the builder returns for s: the new one, or the one in the table.
NodeFor(s) == IF IsNew(s) THEN NewNode ELSE CHOOSE n \in Equivalent(s) : TRUE

\* builder_t: a new node takes the next identifier.
Build(s) ==
  /\ heap' = IF IsNew(s) THEN Append(heap, [id |-> node_id, state |-> s]) ELSE heap
  /\ node_id' = IF IsNew(s) THEN node_id + 1 ELSE node_id

\* graph_t::add_node then waiting.insert of a new node.  Without the node in the
\* table nothing is written, and run() does not look at the result.
AddNode(s) ==
  IF ~ IsNew(s) THEN UNCHANGED <<found, nodeLines, failures, waiting>>
  ELSE /\ waiting' = Insert(waiting, NewNode)
       /\ \/ /\ found' = found \cup {NewNode}
             /\ nodeLines' = Append(nodeLines, [id |-> node_id, state |-> s])
             /\ UNCHANGED failures
          \/ /\ failures < MaxFailures
             /\ failures' = failures + 1
             /\ UNCHANGED <<found, nodeLines>>

\* Mutant: the exception leaves the output as it is.
FailOpen ==
  /\ pc' = "failed"
  /\ found' = {}
  /\ waiting' = <<>>
  /\ UNCHANGED <<ts, policy, it, node, visited, builder, nodeLines, edgeLines, finalized, failures>>

\* An exception goes through run(): the nodes are freed and the output is closed.
Fail ==
  /\ pc' = "failed"
  /\ found' = {}
  /\ waiting' = <<>>
  /\ finalized' = TRUE
  /\ UNCHANGED <<ts, policy, it, node, visited, builder, nodeLines, edgeLines, failures>>

-----------------------------------------------------------------------------
Init ==
  /\ ts \in TransitionSystems
  /\ policy \in Policies
  /\ pc = "initial" /\ it = 1
  /\ heap = <<>> /\ node_id = 0
  /\ found = {} /\ nodeLines = <<>> /\ edgeLines = <<>>
  /\ finalized = FALSE /\ failures = 0
  /\ waiting = <<>> /\ node = 0 /\ visited = <<>>

\* One iteration over the initial states: the state is built.
InitialNode ==
  /\ pc = "initial" /\ it \in DOMAIN ts.init
  /\ IsOk(ts.init[it])
  /\ Build(ts.init[it].state)
  /\ AddNode(ts.init[it].state)
  /\ it' = it + 1
  /\ UNCHANGED <<ts, policy, pc, node, visited, edgeLines, finalized>>

\* ... it is refused: the node is null, and is not new.
RefuseInitial ==
  /\ pc = "initial" /\ it \in DOMAIN ts.init
  /\ ~ IsOk(ts.init[it]) /\ ~ Raises(ts.init[it])
  /\ it' = it + 1
  /\ UNCHANGED <<ts, policy, pc, node, visited, waiting, builder, graph>>

InitialRaises ==
  /\ pc = "initial" /\ it \in DOMAIN ts.init
  /\ Raises(ts.init[it])
  /\ Fail

EndInitial ==
  /\ pc = "initial" /\ it \notin DOMAIN ts.init
  /\ pc' = "waiting"
  /\ UNCHANGED <<ts, policy, it, node, visited, waiting, builder, graph>>

\* The first waiting node is removed, and its outgoing edges are explored.
Visit ==
  /\ pc = "waiting" /\ waiting # <<>>
  /\ pc' = "edges" /\ it' = 1
  /\ node' = First(waiting)
  /\ visited' = Append(visited, First(waiting))
  /\ waiting' = RemoveFirst(waiting)
  /\ UNCHANGED <<ts, policy, builder, graph>>

Outgoing == ts.succ[heap[node].state]

\* Mutant: only the edges to new nodes are written.
NextNodeTree ==
  LET o == Outgoing[it]
  IN /\ pc = "edges" /\ it \in DOMAIN Outgoing
     /\ IsOk(o)
     /\ Build(o.state)
     /\ AddNode(o.state)
     /\ edgeLines' = IF IsNew(o.state)
                     THEN Append(edgeLines, [src |-> heap[node].id, tgt |-> node_id, edge |-> it])
                     ELSE edgeLines
     /\ it' = it + 1
     /\ UNCHANGED <<ts, policy, pc, node, visited, finalized>>

\* One iteration over the outgoing edges: the next state is built, and the edge
\* is written.
NextNode ==
  LET o == Outgoing[it]
  IN /\ pc = "edges" /\ it \in DOMAIN Outgoing
     /\ IsOk(o)
     /\ Build(o.state)
     /\ AddNode(o.state)
     /\ edgeLines' = Append(edgeLines,
                       [src |-> heap[node].id, tgt |-> heap'[NodeFor(o.state)].id, edge |-> it])
     /\ it' = it + 1
     /\ UNCHANGED <<ts, policy, pc, node, visited, finalized>>

RefuseNext ==
  /\ pc = "edges" /\ it \in DOMAIN Outgoing
  /\ ~ IsOk(Outgoing[it]) /\ ~ Raises(Outgoing[it])
  /\ it' = it + 1
  /\ UNCHANGED <<ts, policy, pc, node, visited, waiting, builder, graph>>

NextRaises ==
  /\ pc = "edges" /\ it \in DOMAIN Outgoing
  /\ Raises(Outgoing[it])
  /\ Fail

EndEdges ==
  /\ pc = "edges" /\ it \notin DOMAIN Outgoing
  /\ pc' = "waiting"
  /\ UNCHANGED <<ts, policy, it, node, visited, waiting, builder, graph>>

\* No node is waiting: run() returns, the nodes are freed and the output is closed.
Done ==
  /\ pc = "waiting" /\ waiting = <<>>
  /\ pc' = "done"
  /\ found' = {}
  /\ finalized' = TRUE
  /\ UNCHANGED <<ts, policy, it, node, visited, waiting, builder, nodeLines, edgeLines, failures>>

Next ==
  \/ InitialNode \/ RefuseInitial \/ InitialRaises \/ EndInitial
  \/ Visit \/ NextNode \/ RefuseNext \/ NextRaises \/ EndEdges
  \/ Done

\* The explorer is sequential and nothing blocks it.
Spec == Init /\ [][Next]_vars /\ WF_vars(Next)

-----------------------------------------------------------------------------
(* Properties. *)

Pointers == DOMAIN heap

\* Every variable has its type, and identifiers are given in order (node_id_t).
TypeOK ==
  /\ ts \in TransitionSystems /\ policy \in Policies
  /\ pc \in {"initial", "waiting", "edges", "done", "failed"}
  /\ it \in Nat \ {0}
  /\ heap \in Seq([id : Nat, state : States])
  /\ node_id = Len(heap)
  /\ found \subseteq Pointers
  /\ waiting \in Seq(Pointers) /\ visited \in Seq(Pointers)
  /\ node \in Pointers \cup {0}
  /\ pc = "edges" => node # 0
  /\ nodeLines \in Seq([id : Nat, state : States])
  /\ edgeLines \in Seq([src : Nat, tgt : Nat, edge : Nat])
  /\ finalized \in BOOLEAN /\ failures \in 0 .. MaxFailures

\* The output of a run is the graph of the reachable states: each once, each
\* transition once after its source, all of them when the run returns
\* (algorithm.hh: a node/edge is added for each state/transition visited).
WritesReachableGraph == Promise!Spec

\* A node is written for each state that is visited (algorithm.hh:39), if no insertion
\* fails (README, "Disagreements").
VisitedWritten == \A i \in DOMAIN visited : heap[visited[i]] \in Promise!Elements(nodeLines)

\* A run ends, and its output has been closed, even if an exception is raised
\* (free_all in both paths, then ~tracing_graph_t).
Ends == <>[](pc \in {"done", "failed"} /\ finalized)

Targets(S) ==
  {o.state : o \in {p \in UNION {Promise!Elements(ts.succ[s]) : s \in S} : IsOk(p)}}

\* The states at distance at most n of the initial ones.
Within[n \in Nat] ==
  IF n = 0 THEN {o.state : o \in {p \in Promise!Elements(ts.init) : IsOk(p)}}
  ELSE Within[n - 1] \cup Targets(Within[n - 1])

\* With a FIFO container the nodes are visited by increasing distance, hence the
\* first path written to a node is a shortest one (options.cc: breadth-first search).
\* The distance of a visited node is at most the number of nodes.
BreadthFirst ==
  policy = "fifo" =>
    \A i, j \in DOMAIN visited : \A n \in 0 .. Len(heap) :
      i < j /\ heap[visited[j]].state \in Within[n] => heap[visited[i]].state \in Within[n]

\* The visited nodes with a successor that has not been visited.
Unfinished ==
  {i \in DOMAIN visited :
     \E s \in Targets({heap[visited[i]].state}) :
       \A j \in DOMAIN visited : heap[visited[j]].state # s}

\* With a LIFO container a node is visited from the last visited node that has
\* successors left (options.cc: depth-first search).  It is not so (README,
\* "Disagreements").
DepthFirst ==
  [][ policy = "lifo" /\ visited' # visited /\ Unfinished # {} =>
        \E i \in Unfinished :
          /\ \A j \in Unfinished : j <= i
          /\ heap[node'].state \in Targets({heap[visited[i]].state}) ]_vars
=============================================================================
