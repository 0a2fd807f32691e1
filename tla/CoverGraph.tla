----------------------------- MODULE CoverGraph -----------------------------
(***************************************************************************)
(* The graph of covreach as it is in memory (algorithms/covreach/graph.hh):*)
(* a table of buckets of nodes, where each node knows its position         *)
(* (graph/cover_graph.hh), and two singly linked lists of edges per node,  *)
(* which go through the edges (graph/directed_graph.hh).  It implements    *)
(* GraphOperations.                                                        *)
(*                                                                         *)
(* A node is covered (cover_node) and the graph is cleared one edge at a   *)
(* time: the loops remove from the lists they go through.                  *)
(***************************************************************************)
EXTENDS GraphEdges, Integers, Sequences, FiniteSets

CONSTANTS
  Nodes,        \* objects of type node_t; one may be used again once removed
  Edges,        \* objects of type edge_t
  Nil,          \* nullptr
  Key,          \* Key[n]: the hash of the discrete part of node n
  TableSize,    \* size of the nodes table
  NotAPosition  \* _NOT_A_POSITION, the largest value of node_position_t

ASSUME NilAssumption == Nil \notin Nodes \cup Edges
ASSUME KeyAssumption == Key \in [Nodes -> Nat]
ASSUME SizeAssumption ==
  /\ NotAPosition \in Nat \ {0}
  /\ TableSize \in 1 .. NotAPosition
ASSUME FiniteAssumption ==
  Nodes \subseteq Nat /\ Edges \subseteq Nat /\ IsFiniteSet(Nodes) /\ IsFiniteSet(Edges)

Tags == {"incoming", "outgoing"}
Buckets == 0 .. TableSize - 1

VARIABLES
  table,        \* _nodes: the nodes of each bucket
  inTable,      \* _position_in_table of each node
  inContainer,  \* _position_in_container of each node
  roots,        \* the nodes of _root_nodes
  list,         \* list[tag]: the heads of the lists of the nodes, the next edge
                \* after each edge, and the node of each edge
  type,         \* the type of each edge
  pc,           \* where the operation under way is
  small, big,   \* the node the loops remove edges from, and what replaces it
  it,           \* the iterator of the loop
  todo          \* the nodes clear() has not visited yet

nodesTable == <<table, inTable, inContainer, roots>>
vars == <<nodesTable, list, type, pc, small, big, it, todo>>

Init ==
  /\ table = [k \in Buckets |-> <<>>]
  /\ inTable = [n \in Nodes |-> 0]
  /\ inContainer = [n \in Nodes |-> NotAPosition]
  /\ roots = {}
  /\ list = [tag \in Tags |-> [head |-> [n \in Nodes |-> Nil],
                               next |-> [e \in Edges |-> Nil],
                               node |-> [e \in Edges |-> Nil]]]
  /\ type = [e \in Edges |-> "actual"]
  /\ pc = "idle" /\ small = Nil /\ big = Nil /\ it = Nil /\ todo = {}

-----------------------------------------------------------------------------
(* Lists of edges *)

\* The edges of the list of node n in l: the least set that has the head of n
\* and the edge that follows each edge it has.
InList(l, n) ==
  {e \in Edges : \A S \in SUBSET Edges :
     /\ l.head[n] \in S \cup {Nil}
     /\ \A d \in S : l.next[d] \in S \cup {Nil}
     => e \in S}

\* Edge e is put at the head of the list of n.
AddToList(l, n, e) ==
  [head |-> [l.head EXCEPT ![n] = e],
   next |-> [l.next EXCEPT ![e] = l.head[n]],
   node |-> [l.node EXCEPT ![e] = n]]

\* The next edge of the one before e, or the head, skips e.
Skip(l, e) ==
  LET n == l.node[e]
  IN IF l.head[n] = e THEN [l EXCEPT !.head[n] = l.next[e]]
     ELSE LET prev == CHOOSE p \in InList(l, n) : l.next[p] = e
          IN [l EXCEPT !.next[prev] = l.next[e]]

\* Mutant: the edge still points to its node and to the next edge.
RemoveFromListOnly(l, e) == Skip(l, e)

RemoveFromList(l, e) ==
  LET skips == Skip(l, e)
  IN [head |-> skips.head,
      next |-> [skips.next EXCEPT ![e] = Nil],
      node |-> [skips.node EXCEPT ![e] = Nil]]

\* remove_edge: from the two lists.
RemoveEdge(e) == [tag \in Tags |-> RemoveFromList(list[tag], e)]

-----------------------------------------------------------------------------
(* The nodes table *)

Stored == UNION {{table[k][i] : i \in DOMAIN table[k]} : k \in Buckets}

IsStored(n) == inTable[n] # 0 \/ inContainer[n] # NotAPosition

Bucket(n) == Key[n] % TableSize

\* Mutant: the position of the last node of the bucket is set at the end.
RemovedPositionLast(n) ==
  LET bucket == table[inTable[n]]
  IN [inContainer EXCEPT ![n] = NotAPosition,
                         ![bucket[Len(bucket)]] = inContainer[n]]

\* The positions once n is removed: the last node of the bucket takes its place.
\* It may be n itself: n has no position in the end.
RemovedPosition(n) ==
  LET bucket == table[inTable[n]]
  IN [inContainer EXCEPT ![bucket[Len(bucket)]] = inContainer[n],
                         ![n] = NotAPosition]

RemovedBucket(n) ==
  LET bucket == table[inTable[n]]
      last   == Len(bucket)
  IN SubSeq([bucket EXCEPT ![inContainer[n] + 1] = bucket[last]], 1, last - 1)

\* The size of the bucket, as a node_position_t.
NewPosition(n) == Len(table[Bucket(n)]) % (NotAPosition + 1)

-----------------------------------------------------------------------------
(* Operations *)

\* A node that is not stored.  The nodes of a bucket are interchangeable: the
\* first one is used.
IsNext(n) ==
  /\ ~ IsStored(n)
  /\ \A m \in Nodes : ~ IsStored(m) /\ Bucket(m) = Bucket(n) => n <= m

\* The root nodes are added before any other (expand_initial_nodes).
AddNode(n, root) ==
  /\ pc = "idle"
  /\ IsNext(n)
  /\ root => Stored \subseteq roots
  /\ NewPosition(n) # NotAPosition
  /\ inTable' = [inTable EXCEPT ![n] = Bucket(n)]
  /\ inContainer' = [inContainer EXCEPT ![n] = NewPosition(n)]
  /\ table' = [table EXCEPT ![Bucket(n)] = Append(@, n)]
  /\ roots' = IF root THEN roots \cup {n} ELSE roots
  /\ UNCHANGED <<list, type, pc, small, big, it, todo>>

\* The bucket is full: the position of the node in the table has been set.
AddNodeThrows(n) ==
  /\ pc = "idle"
  /\ IsNext(n)
  /\ NewPosition(n) = NotAPosition
  /\ inTable' = [inTable EXCEPT ![n] = Bucket(n)]
  /\ pc' = "thrown"
  /\ UNCHANGED <<table, inContainer, roots, list, type, small, big, it, todo>>

\* A new edge, to a node that has just been added (expand_node).  The edges are
\* interchangeable: the first one that is in no list is used.
AddEdge(e, n, m) ==
  /\ pc = "idle"
  /\ \A d \in Edges : list["incoming"].node[d] = Nil => e <= d
  /\ list["incoming"].node[e] = Nil
  /\ IsStored(n) /\ IsStored(m)
  /\ m \notin roots /\ list["incoming"].head[m] = Nil
  /\ list' = [list EXCEPT !["incoming"] = AddToList(@, m, e),
                          !["outgoing"] = AddToList(@, n, e)]
  /\ type' = [type EXCEPT ![e] = "actual"]
  /\ UNCHANGED <<nodesTable, pc, small, big, it, todo>>

\* Mutant: the types are set once the edges have been moved: none is left.
CoverKeepsTypes(n, m) ==
  /\ pc = "idle"
  /\ IsStored(n) /\ IsStored(m) /\ n # m /\ n \notin roots
  /\ pc' = "move" /\ small' = n /\ big' = m
  /\ it' = list["incoming"].head[n]
  /\ UNCHANGED <<nodesTable, list, type, todo>>

\* cover_node(n, m): the incoming edges of n become abstract edges ...
Cover(n, m) ==
  /\ pc = "idle"
  /\ IsStored(n) /\ IsStored(m) /\ n # m /\ n \notin roots
  /\ type' = [e \in Edges |->
                IF e \in InList(list["incoming"], n) THEN "abstract" ELSE type[e]]
  /\ pc' = "move" /\ small' = n /\ big' = m
  /\ it' = list["incoming"].head[n]
  /\ UNCHANGED <<nodesTable, list, todo>>

\* Mutant: the iterator goes forward when the edge has been moved.
MoveEdgeThenAdvance ==
  LET moved == AddToList(RemoveFromList(list["incoming"], it), big, it)
  IN /\ pc = "move" /\ it # Nil
     /\ list' = [list EXCEPT !["incoming"] = moved]
     /\ it' = moved.next[it]
     /\ UNCHANGED <<nodesTable, type, pc, small, big, todo>>

\* ... they are moved to m one by one: the iterator goes forward first ...
MoveEdge ==
  /\ pc = "move" /\ it # Nil
  /\ it' = list["incoming"].next[it]
  /\ list' = [list EXCEPT !["incoming"] =
                AddToList(RemoveFromList(@, it), big, it)]
  /\ UNCHANGED <<nodesTable, type, pc, small, big, todo>>

\* ... then remove_edges(n), first the outgoing ones ...
EndMove ==
  /\ pc = "move" /\ it = Nil
  /\ pc' = "outgoing" /\ it' = list["outgoing"].head[small]
  /\ UNCHANGED <<nodesTable, list, type, small, big, todo>>

\* ... one by one ...
RemoveNext ==
  /\ pc \in Tags /\ it # Nil
  /\ it' = list[pc].next[it]
  /\ list' = RemoveEdge(it)
  /\ UNCHANGED <<nodesTable, type, pc, small, big, todo>>

EndOutgoing ==
  /\ pc = "outgoing" /\ it = Nil
  /\ pc' = "incoming" /\ it' = list["incoming"].head[small]
  /\ UNCHANGED <<nodesTable, list, type, small, big, todo>>

\* ... then remove_node(n).
RemoveNode ==
  /\ pc = "incoming" /\ it = Nil /\ big # Nil
  /\ table' = [table EXCEPT ![inTable[small]] = RemovedBucket(small)]
  /\ inContainer' = RemovedPosition(small)
  /\ inTable' = [inTable EXCEPT ![small] = 0]
  /\ pc' = "idle" /\ small' = Nil /\ big' = Nil
  /\ UNCHANGED <<roots, list, type, it, todo>>

\* clear(): remove_edges for every node ...
Clear ==
  /\ pc \in {"idle", "thrown"}
  /\ pc' = "clear" /\ todo' = Stored
  /\ UNCHANGED <<nodesTable, list, type, small, big, it>>

\* The next node of the iterator of the graph, which goes from bucket to bucket.
IsFirst(n) ==
  \E k \in Buckets : \E i \in DOMAIN table[k] :
    /\ table[k][i] = n
    /\ \A j \in DOMAIN table[k] : j < i => table[k][j] \notin todo
    /\ \A h \in Buckets : h < k => \A j \in DOMAIN table[h] : table[h][j] \notin todo

ClearNode(n) ==
  /\ pc = "clear" /\ n \in todo /\ IsFirst(n)
  /\ pc' = "outgoing" /\ small' = n /\ todo' = todo \ {n}
  /\ it' = list["outgoing"].head[n]
  /\ UNCHANGED <<nodesTable, list, type, big>>

EndNode ==
  /\ pc = "incoming" /\ it = Nil /\ big = Nil
  /\ pc' = "clear" /\ small' = Nil
  /\ UNCHANGED <<nodesTable, list, type, big, it, todo>>

\* ... then the nodes have no position and there is no table any more.
EndClear ==
  /\ pc = "clear" /\ todo = {}
  /\ table' = [k \in Buckets |-> <<>>]
  /\ inTable' = [n \in Nodes |-> IF n \in Stored THEN 0 ELSE inTable[n]]
  /\ inContainer' =
       [n \in Nodes |-> IF n \in Stored THEN NotAPosition ELSE inContainer[n]]
  /\ roots' = {}
  /\ pc' = "cleared"
  /\ UNCHANGED <<list, type, small, big, it, todo>>

Loops == MoveEdge \/ EndMove \/ RemoveNext \/ EndOutgoing \/ RemoveNode
           \/ EndNode \/ EndClear \/ \E n \in Nodes : ClearNode(n)

Next ==
  \/ \E n \in Nodes, root \in BOOLEAN : AddNode(n, root)
  \/ \E n \in Nodes : AddNodeThrows(n)
  \/ \E e \in Edges, n, m \in Nodes : AddEdge(e, n, m)
  \/ \E n, m \in Nodes : Cover(n, m)
  \/ Clear
  \/ Loops

Spec == Init /\ [][Next]_vars

\* The operations are sequential code.
FairSpec == Spec /\ WF_vars(Loops)

-----------------------------------------------------------------------------
(* Properties *)

TypeOK ==
  /\ table \in [Buckets -> Seq(Nodes)]
  /\ inTable \in [Nodes -> Buckets]
  /\ inContainer \in [Nodes -> 0 .. NotAPosition]
  /\ roots \in SUBSET Nodes
  /\ list \in [Tags -> [head : [Nodes -> Edges \cup {Nil}],
                        next : [Edges -> Edges \cup {Nil}],
                        node : [Edges -> Nodes \cup {Nil}]]]
  /\ type \in [Edges -> EdgeTypes]
  /\ pc \in {"idle", "move", "thrown", "clear", "cleared"} \cup Tags
  /\ small \in Nodes \cup {Nil} /\ big \in Nodes \cup {Nil}
  /\ it \in Edges \cup {Nil}
  /\ todo \in SUBSET Nodes

(* The types, and a node is where its positions say, so that it is removed  *)
(* in constant time and in one bucket only, and nodes of the same key meet in*)
(* the same bucket: is_covered and covered_nodes miss none.  Nodes that are  *)
(* not in the table have no position, hence may be added, unless an addition *)
(* has failed.                                                               *)
Positions ==
  /\ TypeOK
  /\ \A n \in Stored : inTable[n] = Bucket(n)
  /\ \A k \in Buckets : \A i \in DOMAIN table[k] :
       inTable[table[k][i]] = k /\ inContainer[table[k][i]] = i - 1
  /\ pc = "idle" \/ big # Nil =>
       \A n \in Nodes : IsStored(n) <=> n \in Stored

(* What has left the graph points to nothing: an edge is in two lists or in  *)
(* none and keeps no pointer when it is in none, neither does a node that is *)
(* not stored.                                                               *)
Detached ==
  /\ \A tag \in Tags : \A e \in Edges \ UNION {InList(list[tag], n) : n \in Nodes} :
       \A t \in Tags : list[t].node[e] = Nil /\ list[t].next[e] = Nil
  /\ \A n \in Nodes \ Stored, tag \in Tags : list[tag].head[n] = Nil

(* The lists are sound while the loops cut into them: an edge is in the lists*)
(* of its two nodes and in no other, the lists have an end, and the nodes of *)
(* the edges are stored.  What has left the lists points to nothing: no cycle*)
(* of pointers keeps it from being collected, and the collector, when it     *)
(* destructs it, touches the counter of nothing that the algorithm uses.     *)
Lists ==
  /\ \A tag \in Tags :
       LET l == list[tag]
       IN /\ \A n \in Nodes : InList(l, n) = {e \in Edges : l.node[e] = n}
          /\ \A e, d \in Edges : l.next[e] = l.next[d] /\ l.next[e] # Nil => e = d
          /\ \A n \in Nodes, e \in Edges : l.head[n] # Nil => l.next[e] # l.head[n]
          /\ \A e \in Edges : l.node[e] \in Stored \cup {Nil}
  /\ Detached

(* The abstract graph: an operation takes effect when it starts.             *)
EdgeSet ==
  {[id |-> e, src |-> list["outgoing"].node[e], tgt |-> list["incoming"].node[e],
    type |-> type[e]] : e \in {d \in Edges : list["incoming"].node[d] # Nil}}

Clearing == big = Nil /\ pc \in Tags \cup {"clear", "cleared"}

G == INSTANCE GraphOperations WITH
  stored <- IF Clearing THEN {} ELSE Stored \ (IF big = Nil THEN {} ELSE {small}),
  roots  <- IF Clearing THEN {} ELSE roots,
  edges  <- IF Clearing THEN {}
            ELSE IF big = Nil THEN EdgeSet ELSE CoverEdges(EdgeSet, {small}, big)

(* Covering a node edge by edge, through the lists, amounts to what covreach *)
(* relies on: no edge is lost, kept or redirected to the wrong node.         *)
ImplementsGraph == G!Spec

(* The loops end, although they change the lists they go through.            *)
LoopsEnd == pc \in Tags \cup {"move", "clear"} ~> pc \in {"idle", "cleared"}
=============================================================================
