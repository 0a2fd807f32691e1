--------------------------- MODULE GraphOperations ---------------------------
(***************************************************************************)
(* What the covreach algorithm expects of its graph, whatever the data     *)
(* structures: a set of stored nodes, some of them roots, and a set of     *)
(* edges.  Each operation is one step.                                     *)
(***************************************************************************)
EXTENDS GraphEdges

CONSTANTS Nodes, Edges

VARIABLES stored, roots, edges

vars == <<stored, roots, edges>>

Init == stored = {} /\ roots = {} /\ edges = {}

AddNode(n) ==
  /\ n \notin stored
  /\ stored' = stored \cup {n}
  /\ \/ roots' = roots
     \/ roots' = roots \cup {n}
  /\ UNCHANGED edges

AddEdge(e, n, m) ==
  /\ n \in stored /\ m \in stored
  /\ \A d \in edges : d.id # e
  /\ edges' = edges \cup {[id |-> e, src |-> n, tgt |-> m, type |-> "actual"]}
  /\ UNCHANGED <<stored, roots>>

\* m replaces n in the graph.
Cover(n, m) ==
  /\ n \in stored \ roots /\ m \in stored \ {n}
  /\ edges' = CoverEdges(edges, {n}, m)
  /\ stored' = stored \ {n}
  /\ UNCHANGED roots

Clear == stored' = {} /\ roots' = {} /\ edges' = {}

Next ==
  \/ \E n \in Nodes : AddNode(n)
  \/ \E e \in Edges, n, m \in Nodes : AddEdge(e, n, m)
  \/ \E n, m \in Nodes : Cover(n, m)
  \/ Clear

Spec == Init /\ [][Next]_vars
=============================================================================
