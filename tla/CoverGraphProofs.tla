-------------------------- MODULE CoverGraphProofs --------------------------
(***************************************************************************)
(* Proofs about CoverGraph, for every set of nodes, edges and keys and     *)
(* every size of the table and of the positions: the nodes are where their *)
(* positions say, the lists of edges are sound while the loops cut into    *)
(* them, and what the pointers do is what the algorithm expects of a graph.*)
(***************************************************************************)
EXTENDS CoverGraph, Loops, TLAPS

-----------------------------------------------------------------------------
(* The inductive invariant. *)

\* The lists of l, one node at a time: an edge comes after an edge of the same
\* node, further from the head.
Linked(l, depth) ==
  /\ \A n \in Nodes : l.head[n] # Nil => l.node[l.head[n]] = n
  /\ \A e \in Edges : l.next[e] # Nil =>
       /\ l.node[e] # Nil /\ l.node[l.next[e]] = l.node[e]
       /\ depth[e] < depth[l.next[e]]
  /\ \A e \in Edges : l.node[e] # Nil =>
       l.head[l.node[e]] = e \/ \E d \in Edges : l.next[d] = e
  /\ \A e, d \in Edges : l.next[e] = l.next[d] /\ l.next[e] # Nil => e = d
  /\ \A n \in Nodes, e \in Edges : l.head[n] # Nil => l.next[e] # l.head[n]

Chained(l) == \E depth \in [Edges -> Nat] : Linked(l, depth)

\* A node of the table is at its position, in the bucket of its key.
Placed ==
  \A k \in Buckets :
    /\ Len(table[k]) <= NotAPosition
    /\ \A i \in DOMAIN table[k] :
         /\ inTable[table[k][i]] = k /\ Bucket(table[k][i]) = k
         /\ inContainer[table[k][i]] = i - 1

\* The other nodes have no position, but when the graph is being cleared.
Known == pc = "idle" \/ big # Nil => \A n \in Nodes : IsStored(n) => n \in Stored

\* The edges of the two lists are the same ones, between stored nodes.
Ends ==
  \A e \in Edges :
    /\ \A tag \in Tags : list[tag].node[e] \in Stored \cup {Nil}
    /\ list["incoming"].node[e] = Nil <=> list["outgoing"].node[e] = Nil

\* The loops are at the head of the list they empty, and have emptied the lists
\* they have been through.
Looping ==
  /\ pc \in Tags \cup {"move"} => small \in Stored
  /\ pc \in {"idle", "thrown", "clear", "cleared"} => small = Nil /\ big = Nil
  /\ pc = "move" => big # Nil
  /\ big # Nil => big \in Stored /\ big # small /\ small \notin roots
  /\ pc \in {"move", "incoming"} => it = list["incoming"].head[small]
  /\ pc = "outgoing" => it = list["outgoing"].head[small]
  /\ pc = "incoming" => list["outgoing"].head[small] = Nil
  /\ pc \in Tags /\ big # Nil => list["incoming"].head[small] = Nil
  /\ pc = "move" =>
       \A e \in Edges : list["incoming"].node[e] = small => type[e] = "abstract"
  /\ pc \in Tags \cup {"clear"} /\ big = Nil =>
       \A n \in Stored \ (todo \cup {small}), tag \in Tags : list[tag].head[n] = Nil
  /\ pc \in {"idle", "thrown", "move"} \/ big # Nil => todo = {}
  /\ pc = "cleared" => Stored = {}

IInv ==
  /\ TypeOK
  /\ \A tag \in Tags : Chained(list[tag])
  /\ Placed
  /\ Known
  /\ Ends
  /\ Looping

-----------------------------------------------------------------------------
(* Lists of edges. *)

ListType == [head : [Nodes -> Edges \cup {Nil}],
             next : [Edges -> Edges \cup {Nil}],
             node : [Edges -> Nodes \cup {Nil}]]

\* Following the pointers from the head of a node leads to its edges.
LEMMA InListMeaning ==
  ASSUME NEW l \in ListType, Chained(l), NEW n \in Nodes
  PROVE  InList(l, n) = {e \in Edges : l.node[e] = n}
<1>1. PICK depth \in [Edges -> Nat] : Linked(l, depth)
  BY DEF Chained
<1>2. /\ \A m \in Nodes : l.head[m] \in Edges \cup {Nil}
      /\ \A e \in Edges : l.next[e] \in Edges \cup {Nil}
  BY DEF ListType
<1>3. ASSUME NEW e \in InList(l, n) PROVE e \in Edges /\ l.node[e] = n
  <2> DEFINE S == {d \in Edges : l.node[d] = n}
  <2>1. l.head[n] \in S \cup {Nil}
    BY <1>1, <1>2 DEF Linked
  <2>2. \A d \in S : l.next[d] \in S \cup {Nil}
    BY <1>1, <1>2 DEF Linked
  <2>3. S \in SUBSET Edges
    OBVIOUS
  <2>4. e \in S
    <3> HIDE DEF S
    <3> QED
      BY <1>3, <2>1, <2>2, <2>3 DEF InList
  <2> QED
    BY <2>4
<1>4. ASSUME NEW S \in SUBSET Edges,
             l.head[n] \in S \cup {Nil}, \A d \in S : l.next[d] \in S \cup {Nil},
             NEW e \in Edges, l.node[e] = n, e \notin S
      PROVE  FALSE
  <2> DEFINE Missed == {d \in Edges : l.node[d] = n /\ d \notin S}
             D == {depth[d] : d \in Missed}
  <2>1. D \in SUBSET Nat /\ D # {}
    BY <1>1, <1>4
  <2>2. PICK k \in D : \A j \in D : k <= j
    <3> HIDE DEF D
    <3> QED
      BY <2>1, Least
  <2>3. PICK d \in Missed : depth[d] = k
    OBVIOUS
  <2>4. PICK c \in Edges : l.next[c] = d
    <3>1. l.node[d] = n /\ n # Nil /\ l.head[n] # d
      BY <1>4, <2>3, NilAssumption
    <3> QED
      BY <1>1, <3>1, <2>3 DEF Linked
  <2>5. d # Nil /\ d \notin S
    BY <2>3, NilAssumption
  <2>6. l.node[c] = n /\ depth[c] < depth[d]
    BY <1>1, <2>3, <2>4, <2>5 DEF Linked
  <2>7. c \notin S
    BY <1>4, <2>4, <2>5
  <2>8. depth[c] \in D
    BY <2>6, <2>7
  <2>9. depth[c] \in Nat /\ depth[d] \in Nat /\ k <= depth[c]
    BY <1>1, <2>2, <2>3, <2>8
  <2> QED
    BY <2>3, <2>6, <2>9
<1>5. \A e \in Edges : l.node[e] = n => e \in InList(l, n)
  BY <1>4 DEF InList
<1> QED
  BY <1>3, <1>5

\* Putting an edge at the head of a list keeps the lists.
LEMMA AddedToList ==
  ASSUME NEW l \in ListType, Chained(l), NEW n \in Nodes, NEW e \in Edges, l.node[e] = Nil
  PROVE  /\ AddToList(l, n, e) \in ListType
         /\ Chained(AddToList(l, n, e))
         /\ AddToList(l, n, e).head = [l.head EXCEPT ![n] = e]
         /\ AddToList(l, n, e).node = [l.node EXCEPT ![e] = n]
<1> DEFINE r == AddToList(l, n, e)
<1>1. PICK depth \in [Edges -> Nat] : Linked(l, depth)
  BY DEF Chained
<1>2. /\ l.head \in [Nodes -> Edges \cup {Nil}]
      /\ l.next \in [Edges -> Edges \cup {Nil}]
      /\ l.node \in [Edges -> Nodes \cup {Nil}]
      /\ l = [head |-> l.head, next |-> l.next, node |-> l.node]
  BY DEF ListType
<1>3. r = [head |-> [l.head EXCEPT ![n] = e], next |-> [l.next EXCEPT ![e] = l.head[n]],
           node |-> [l.node EXCEPT ![e] = n]]
  BY <1>2 DEF AddToList
<1>4. /\ r.head = [l.head EXCEPT ![n] = e]
      /\ r.next = [l.next EXCEPT ![e] = l.head[n]]
      /\ r.node = [l.node EXCEPT ![e] = n]
      /\ r \in ListType
  BY <1>2, <1>3 DEF ListType
<1> HIDE DEF r
<1>5. /\ \A m \in Nodes : r.head[m] = IF m = n THEN e ELSE l.head[m]
      /\ \A d \in Edges : r.next[d] = IF d = e THEN l.head[n] ELSE l.next[d]
      /\ \A d \in Edges : r.node[d] = IF d = e THEN n ELSE l.node[d]
  BY <1>2, <1>4
<1>6. /\ l.next[e] = Nil
      /\ \A m \in Nodes : l.head[m] # e
      /\ \A d \in Edges : l.next[d] # e
      /\ e # Nil /\ n # Nil
  BY <1>1, NilAssumption DEF Linked
<1> DEFINE deeper == [d \in Edges |-> IF d = e THEN 0 ELSE depth[d] + 1]
<1>7. /\ deeper \in [Edges -> Nat]
      /\ \A d \in Edges : deeper[d] = IF d = e THEN 0 ELSE depth[d] + 1
  BY <1>1
<1> HIDE DEF deeper
<1>8. Linked(r, deeper)
  <2>1. \A m \in Nodes : r.head[m] # Nil => r.node[r.head[m]] = m
    BY <1>1, <1>2, <1>5, <1>6 DEF Linked
  <2>2. ASSUME NEW d \in Edges, r.next[d] # Nil
        PROVE  /\ r.node[d] # Nil /\ r.node[r.next[d]] = r.node[d]
               /\ deeper[d] < deeper[r.next[d]]
    <3>1. CASE d = e
      <4>1. l.head[n] # Nil /\ l.head[n] \in Edges /\ r.next[d] = l.head[n] /\ l.head[n] # e
        BY <1>2, <1>5, <1>6, <2>2, <3>1
      <4>2. l.node[l.head[n]] = n
        BY <1>1, <4>1 DEF Linked
      <4>3. depth[l.head[n]] \in Nat
        BY <1>1, <4>1
      <4> QED
        BY <1>5, <1>6, <1>7, <3>1, <4>1, <4>2, <4>3
    <3>2. CASE d # e
      <4>1. r.next[d] = l.next[d] /\ l.next[d] \in Edges /\ l.next[d] # e
        BY <1>2, <1>5, <1>6, <2>2, <3>2
      <4>2. l.node[d] # Nil /\ l.node[l.next[d]] = l.node[d] /\ depth[d] < depth[l.next[d]]
        BY <1>1, <2>2, <4>1 DEF Linked
      <4>3. depth[d] \in Nat /\ depth[l.next[d]] \in Nat
        BY <1>1, <4>1
      <4> QED
        BY <1>5, <1>7, <3>2, <4>1, <4>2, <4>3
    <3> QED
      BY <3>1, <3>2
  <2>3. ASSUME NEW d \in Edges, r.node[d] # Nil
        PROVE  r.head[r.node[d]] = d \/ \E c \in Edges : r.next[c] = d
    <3>1. CASE d = e
      BY <1>5, <3>1
    <3>2. CASE d # e
      <4>1. r.node[d] = l.node[d] /\ l.node[d] \in Nodes
        BY <1>2, <1>5, <2>3, <3>2
      <4>2. CASE l.head[l.node[d]] = d
        <5>1. CASE l.node[d] = n
          BY <1>5, <4>2, <5>1
        <5>2. CASE l.node[d] # n
          BY <1>5, <4>1, <4>2, <5>2
        <5> QED
          BY <5>1, <5>2
      <4>3. ASSUME NEW c \in Edges, l.next[c] = d PROVE r.next[c] = d
        BY <1>5, <1>6, <4>3, NilAssumption
      <4> QED
        BY <1>1, <2>3, <4>1, <4>2, <4>3 DEF Linked
    <3> QED
      BY <3>1, <3>2
  <2>4. \A c, d \in Edges : r.next[c] = r.next[d] /\ r.next[c] # Nil => c = d
    BY <1>1, <1>2, <1>5, <1>6 DEF Linked
  <2>5. \A m \in Nodes, d \in Edges : r.head[m] # Nil => r.next[d] # r.head[m]
    <3>1. ASSUME NEW m \in Nodes, m # n, l.head[m] # Nil PROVE l.head[m] # l.head[n]
      BY <1>1, <3>1 DEF Linked
    <3>2. \A m \in Nodes, d \in Edges : l.head[m] # Nil => l.next[d] # l.head[m]
      BY <1>1 DEF Linked
    <3>3. ASSUME NEW m \in Nodes, NEW d \in Edges, r.head[m] # Nil, r.next[d] = r.head[m]
          PROVE  FALSE
      <4>1. CASE m = n
        <5>1. r.next[d] = e /\ l.head[n] # e
          BY <1>5, <1>6, <3>3, <4>1
        <5> QED
          BY <1>5, <1>6, <5>1
      <4>2. CASE m # n
        BY <1>5, <3>1, <3>2, <3>3, <4>2
      <4> QED
        BY <4>1, <4>2
    <3> QED
      BY <3>3
  <2> QED
    BY <2>1, <2>2, <2>3, <2>4, <2>5 DEF Linked
<1>9. Chained(r)
  BY <1>7, <1>8 DEF Chained
<1> QED
  BY <1>4, <1>9 DEF r

\* Taking an edge off a list: what pointed to it points to the next edge.
LEMMA RemovedPointers ==
  ASSUME NEW l \in ListType, Chained(l), NEW e \in Edges, l.node[e] # Nil
  PROVE  LET r == RemoveFromList(l, e)
         IN /\ r \in ListType
            /\ r.node = [l.node EXCEPT ![e] = Nil]
            /\ \A m \in Nodes : r.head[m] = IF l.head[m] = e THEN l.next[e] ELSE l.head[m]
            /\ \A d \in Edges : r.next[d] = IF d = e THEN Nil
                                            ELSE IF l.next[d] = e THEN l.next[e] ELSE l.next[d]
<1> DEFINE r == RemoveFromList(l, e)
           n == l.node[e]
           s == Skip(l, e)
<1>1. PICK depth \in [Edges -> Nat] : Linked(l, depth)
  BY DEF Chained
<1>2. /\ l.head \in [Nodes -> Edges \cup {Nil}]
      /\ l.next \in [Edges -> Edges \cup {Nil}]
      /\ l.node \in [Edges -> Nodes \cup {Nil}]
      /\ n \in Nodes /\ e # Nil
  BY NilAssumption DEF ListType
<1>3. \A m \in Nodes : l.head[m] = e => m = n
  BY <1>1, <1>2 DEF Linked
<1>4. /\ s.node = l.node
      /\ s.head \in [Nodes -> Edges \cup {Nil}] /\ s.next \in [Edges -> Edges \cup {Nil}]
      /\ \A m \in Nodes : s.head[m] = IF l.head[m] = e THEN l.next[e] ELSE l.head[m]
      /\ \A d \in Edges : d # e =>
           s.next[d] = IF l.next[d] = e THEN l.next[e] ELSE l.next[d]
  <2>1. CASE l.head[n] = e
    <3>1. s = [l EXCEPT !.head[n] = l.next[e]]
      BY <2>1 DEF Skip
    <3>2. s = [head |-> [l.head EXCEPT ![n] = l.next[e]], next |-> l.next, node |-> l.node]
      BY <3>1 DEF ListType
    <3>3. \A d \in Edges : l.next[d] # e
      BY <1>1, <1>2, <2>1 DEF Linked
    <3> HIDE DEF s, n
    <3> QED
      BY <1>2, <1>3, <2>1, <3>2, <3>3
  <2>2. CASE l.head[n] # e
    <3> DEFINE prev == CHOOSE p \in InList(l, n) : l.next[p] = e
    <3>1. PICK d \in Edges : l.next[d] = e
      BY <1>1, <1>2, <2>2 DEF Linked
    <3>2. l.node[d] = n
      BY <1>1, <1>2, <3>1 DEF Linked
    <3>3. d \in InList(l, n)
      BY <1>2, <3>2, InListMeaning
    <3>4. prev \in InList(l, n) /\ l.next[prev] = e
      BY <3>1, <3>3
    <3>5. prev \in Edges /\ \A c \in Edges : l.next[c] = e => c = prev
      <4>1. prev \in Edges
        BY <3>4 DEF InList
      <4> HIDE DEF prev
      <4> QED
        BY <1>1, <1>2, <3>4, <4>1 DEF Linked
    <3>6. s = [l EXCEPT !.next[prev] = l.next[e]]
      BY <2>2 DEF Skip
    <3> HIDE DEF prev
    <3>7. s = [head |-> l.head, next |-> [l.next EXCEPT ![prev] = l.next[e]], node |-> l.node]
      BY <3>6 DEF ListType
    <3>8. \A m \in Nodes : l.head[m] # e
      BY <1>3, <2>2
    <3> HIDE DEF s, n
    <3> QED
      BY <1>2, <3>4, <3>5, <3>7, <3>8
  <2> QED
    BY <2>1, <2>2
<1>5. r = [head |-> s.head, next |-> [s.next EXCEPT ![e] = Nil],
           node |-> [s.node EXCEPT ![e] = Nil]]
  BY DEF RemoveFromList
<1> HIDE DEF s, n
<1>6. /\ r.head = s.head /\ r.next = [s.next EXCEPT ![e] = Nil]
      /\ r.node = [l.node EXCEPT ![e] = Nil]
      /\ r \in ListType
  BY <1>2, <1>4, <1>5 DEF ListType
<1> HIDE DEF r
<1>7. \A d \in Edges : r.next[d] = IF d = e THEN Nil
                                   ELSE IF l.next[d] = e THEN l.next[e] ELSE l.next[d]
  BY <1>4, <1>6
<1> QED
  BY <1>4, <1>6, <1>7 DEF r

\* It keeps the lists.
LEMMA RemovedFromList ==
  ASSUME NEW l \in ListType, Chained(l), NEW e \in Edges, l.node[e] # Nil
  PROVE  LET r == RemoveFromList(l, e)
         IN /\ r \in ListType /\ Chained(r)
            /\ r.node = [l.node EXCEPT ![e] = Nil]
            /\ \A m \in Nodes : r.head[m] = IF l.head[m] = e THEN l.next[e] ELSE l.head[m]
<1> DEFINE r == RemoveFromList(l, e)
<1>1. PICK depth \in [Edges -> Nat] : Linked(l, depth)
  BY DEF Chained
<1>2. /\ l.head \in [Nodes -> Edges \cup {Nil}]
      /\ l.next \in [Edges -> Edges \cup {Nil}]
      /\ l.node \in [Edges -> Nodes \cup {Nil}]
      /\ e # Nil /\ Nil \notin Edges /\ Nil \notin Nodes
  BY NilAssumption DEF ListType
<1>3. /\ r \in ListType
      /\ r.node = [l.node EXCEPT ![e] = Nil]
      /\ \A m \in Nodes : r.head[m] = IF l.head[m] = e THEN l.next[e] ELSE l.head[m]
      /\ \A d \in Edges : r.next[d] = IF d = e THEN Nil
                                      ELSE IF l.next[d] = e THEN l.next[e] ELSE l.next[d]
  BY RemovedPointers
<1>4. \A d \in Edges : r.node[d] = IF d = e THEN Nil ELSE l.node[d]
  BY <1>2, <1>3
<1>5. l.next[e] # e /\ \A d \in Edges : l.next[d] = e => d # e
  <2>1. depth[e] \in Nat
    BY <1>1
  <2> QED
    BY <1>1, <1>2, <2>1 DEF Linked
<1> HIDE DEF r
<1>6. \A m \in Nodes : r.head[m] # Nil => r.node[r.head[m]] = m
  <2>1. ASSUME NEW m \in Nodes, r.head[m] # Nil PROVE r.node[r.head[m]] = m
    <3>1. CASE l.head[m] = e
      <4>1. l.node[e] = m
        BY <1>1, <1>2, <3>1 DEF Linked
      <4>2. r.head[m] = l.next[e] /\ l.next[e] \in Edges /\ l.next[e] # Nil
        BY <1>2, <1>3, <2>1, <3>1
      <4>3. l.node[l.next[e]] = m
        BY <1>1, <4>1, <4>2 DEF Linked
      <4> QED
        BY <1>4, <1>5, <4>2, <4>3
    <3>2. CASE l.head[m] # e
      <4>1. r.head[m] = l.head[m] /\ l.head[m] \in Edges
        BY <1>2, <1>3, <2>1, <3>2
      <4> QED
        BY <1>1, <1>4, <2>1, <3>2, <4>1 DEF Linked
    <3> QED
      BY <3>1, <3>2
  <2> QED
    BY <2>1
<1>7. ASSUME NEW d \in Edges, r.next[d] # Nil
      PROVE  /\ r.node[d] # Nil /\ r.node[r.next[d]] = r.node[d]
             /\ depth[d] < depth[r.next[d]]
  <2>1. d # e /\ r.node[d] = l.node[d]
    BY <1>3, <1>4, <1>7
  <2>2. CASE l.next[d] = e
    <3>1. r.next[d] = l.next[e] /\ l.next[e] \in Edges /\ l.next[e] # Nil
      BY <1>2, <1>3, <1>7, <2>1, <2>2
    <3>2. /\ l.node[e] = l.node[d] /\ l.node[l.next[e]] = l.node[e]
          /\ depth[d] < depth[e] /\ depth[e] < depth[l.next[e]] /\ l.node[d] # Nil
      BY <1>1, <1>2, <2>2, <3>1 DEF Linked
    <3>3. depth[d] \in Nat /\ depth[e] \in Nat /\ depth[l.next[e]] \in Nat
      BY <1>1, <3>1
    <3>4. r.node[l.next[e]] = l.node[l.next[e]]
      BY <1>4, <1>5, <3>1
    <3> QED
      BY <2>1, <3>1, <3>2, <3>3, <3>4
  <2>3. CASE l.next[d] # e
    <3>1. r.next[d] = l.next[d] /\ l.next[d] \in Edges
      BY <1>2, <1>3, <1>7, <2>1, <2>3
    <3> QED
      BY <1>1, <1>4, <1>7, <2>1, <2>3, <3>1 DEF Linked
  <2> QED
    BY <2>2, <2>3
<1>8. ASSUME NEW d \in Edges, r.node[d] # Nil
      PROVE  r.head[r.node[d]] = d \/ \E c \in Edges : r.next[c] = d
  <2>1. d # e /\ r.node[d] = l.node[d] /\ l.node[d] \in Nodes
    BY <1>2, <1>4, <1>8
  <2>2. CASE l.head[l.node[d]] = d
    BY <1>3, <2>1, <2>2
  <2>3. ASSUME NEW c \in Edges, l.next[c] = d, c # e PROVE r.next[c] = d
    BY <1>3, <2>1, <2>3
  <2>4. CASE l.next[e] = d
    <3>1. l.node[d] = l.node[e] /\ l.node[e] \in Nodes
      BY <1>1, <1>2, <2>4 DEF Linked
    <3>2. CASE l.head[l.node[e]] = e
      BY <1>3, <2>1, <2>4, <3>1, <3>2
    <3>3. ASSUME NEW c \in Edges, l.next[c] = e PROVE r.next[c] = d
      BY <1>3, <1>5, <2>4, <3>3
    <3> QED
      BY <1>1, <3>2, <3>3 DEF Linked
  <2> QED
    BY <1>1, <1>8, <2>1, <2>2, <2>3, <2>4 DEF Linked
<1>9. ASSUME NEW c \in Edges, NEW d \in Edges, r.next[c] = r.next[d], r.next[c] # Nil
      PROVE  c = d
  <2>1. /\ c # e /\ d # e
        /\ r.next[c] = IF l.next[c] = e THEN l.next[e] ELSE l.next[c]
        /\ r.next[d] = IF l.next[d] = e THEN l.next[e] ELSE l.next[d]
    BY <1>3, <1>9
  <2>2. \A a, b \in Edges : l.next[a] = l.next[b] /\ l.next[a] # Nil => a = b
    BY <1>1 DEF Linked
  <2> QED
    BY <1>2, <1>9, <2>1, <2>2
<1>10. ASSUME NEW m \in Nodes, NEW d \in Edges, r.head[m] # Nil, r.next[d] = r.head[m]
       PROVE  FALSE
  <2>1. /\ d # e
        /\ r.next[d] = IF l.next[d] = e THEN l.next[e] ELSE l.next[d]
        /\ r.head[m] = IF l.head[m] = e THEN l.next[e] ELSE l.head[m]
    BY <1>3, <1>10
  <2>2. /\ \A a, b \in Edges : l.next[a] = l.next[b] /\ l.next[a] # Nil => a = b
        /\ \A k \in Nodes, b \in Edges : l.head[k] # Nil => l.next[b] # l.head[k]
    BY <1>1 DEF Linked
  <2> QED
    BY <1>2, <1>10, <2>1, <2>2
<1>11. Linked(r, depth)
  BY <1>6, <1>7, <1>8, <1>9, <1>10 DEF Linked
<1>12. Chained(r)
  BY <1>1, <1>11 DEF Chained
<1> QED
  BY <1>3, <1>12 DEF r

-----------------------------------------------------------------------------
(* The nodes table. *)

\* The buckets and the positions of node_position_t.
LEMMA SizeFacts ==
  /\ TableSize \in Nat /\ TableSize >= 1 /\ NotAPosition \in Nat /\ NotAPosition >= 1
  /\ 0 \in Buckets
  /\ \A n \in Nodes : Bucket(n) \in Buckets
  /\ \A len \in 0 .. NotAPosition : len % (NotAPosition + 1) = len
<1>1. TableSize \in Nat /\ TableSize >= 1 /\ NotAPosition \in Nat /\ NotAPosition >= 1
  BY SizeAssumption
<1>2. ASSUME NEW n \in Nodes PROVE Bucket(n) \in Buckets
  <2>1. Key[n] \in Nat
    BY KeyAssumption
  <2>2. \A a, b \in Nat : b >= 1 => a % b \in 0 .. b - 1
    OBVIOUS
  <2> QED
    BY <1>1, <2>1, <2>2 DEF Bucket, Buckets
<1>3. ASSUME NEW len \in 0 .. NotAPosition PROVE len % (NotAPosition + 1) = len
  <2>1. \A a, b \in Nat : a < b => a % b = a
    OBVIOUS
  <2> QED
    BY <1>1, <2>1
<1> QED
  BY <1>1, <1>2, <1>3 DEF Buckets

\* A stored node is where its positions say, and is known to be stored.
LEMMA StoredFacts ==
  ASSUME TypeOK, Placed, NEW n \in Stored
  PROVE  /\ n \in Nodes /\ IsStored(n)
         /\ inTable[n] \in Buckets /\ inTable[n] = Bucket(n)
         /\ inContainer[n] + 1 \in DOMAIN table[inTable[n]]
         /\ table[inTable[n]][inContainer[n] + 1] = n
<1>0. PICK k \in Buckets : \E i \in DOMAIN table[k] : table[k][i] = n
  BY DEF Stored
<1>1. PICK i \in DOMAIN table[k] : table[k][i] = n
  BY <1>0
<1>2. table[k] \in Seq(Nodes)
  BY DEF TypeOK
<1>3. i \in 1 .. Len(table[k]) /\ Len(table[k]) \in Nat /\ n \in Nodes
  BY <1>1, <1>2
<1>4. /\ inTable[n] = k /\ Bucket(n) = k /\ inContainer[n] = i - 1
      /\ Len(table[k]) <= NotAPosition
  BY <1>1 DEF Placed
<1>5. inContainer[n] + 1 = i /\ inContainer[n] # NotAPosition
  BY <1>3, <1>4, SizeFacts
<1> QED
  BY <1>1, <1>3, <1>4, <1>5 DEF IsStored

\* What AddNode(n, root) does to the table.
Inserted(n) ==
  /\ NewPosition(n) # NotAPosition
  /\ inTable' = [inTable EXCEPT ![n] = Bucket(n)]
  /\ inContainer' = [inContainer EXCEPT ![n] = NewPosition(n)]
  /\ table' = [table EXCEPT ![Bucket(n)] = Append(@, n)]

\* A new node goes to the end of the bucket of its key.
LEMMA InsertedPlaced ==
  ASSUME TypeOK, Placed, NEW n \in Nodes, n \notin Stored, Inserted(n)
  PROVE  /\ table' \in [Buckets -> Seq(Nodes)]
         /\ inTable' \in [Nodes -> Buckets]
         /\ inContainer' \in [Nodes -> 0 .. NotAPosition]
         /\ Placed' /\ Stored' = Stored \cup {n}
         /\ \A m \in Nodes \ {n} : IsStored(m)' <=> IsStored(m)
<1> DEFINE k == Bucket(n)
           bucket == table[k]
           size == Len(bucket)
<1>1. k \in Buckets /\ bucket \in Seq(Nodes) /\ size \in Nat /\ DOMAIN bucket = 1 .. size
  BY SizeFacts DEF TypeOK
<1>2. size <= NotAPosition
  BY <1>1 DEF Placed
<1>3. NewPosition(n) = size
  BY <1>1, <1>2, SizeFacts DEF NewPosition
<1>4. size < NotAPosition
  BY <1>1, <1>2, <1>3, SizeFacts DEF Inserted
<1> DEFINE longer == Append(bucket, n)
<1>5. /\ longer \in Seq(Nodes) /\ Len(longer) = size + 1 /\ DOMAIN longer = 1 .. size + 1
      /\ \A i \in 1 .. size : longer[i] = bucket[i]
      /\ longer[size + 1] = n
  BY <1>1
<1>6. /\ \A h \in Buckets : table'[h] = IF h = k THEN longer ELSE table[h]
      /\ \A m \in Nodes : inTable'[m] = IF m = n THEN k ELSE inTable[m]
      /\ \A m \in Nodes : inContainer'[m] = IF m = n THEN size ELSE inContainer[m]
  BY <1>1, <1>3 DEF Inserted, TypeOK
<1>7. /\ table' \in [Buckets -> Seq(Nodes)]
      /\ inTable' \in [Nodes -> Buckets]
      /\ inContainer' \in [Nodes -> 0 .. NotAPosition]
  <2>1. size \in 0 .. NotAPosition
    BY <1>1, <1>2, SizeFacts
  <2> HIDE DEF k, size
  <2> QED
    BY <1>1, <1>3, <1>5, <2>1 DEF Inserted, TypeOK, k
<1> HIDE DEF longer, k, size, bucket
<1>8. \A h \in Buckets : \A i \in DOMAIN table[h] : table[h][i] \in Nodes /\ table[h][i] # n
  BY DEF TypeOK, Stored
<1>9. bucket = table[k]
  BY DEF bucket
<1>10. ASSUME NEW h \in Buckets, NEW i \in DOMAIN table'[h]
       PROVE  /\ inTable'[table'[h][i]] = h /\ Bucket(table'[h][i]) = h
              /\ inContainer'[table'[h][i]] = i - 1
  <2>1. CASE h = k /\ i = size + 1
    <3>1. table'[h][i] = n
      BY <1>5, <1>6, <2>1
    <3>2. i - 1 = size
      BY <1>1, <2>1
    <3> QED
      BY <1>6, <2>1, <3>1, <3>2 DEF k
  <2>2. CASE ~ (h = k /\ i = size + 1)
    <3>1. i \in DOMAIN table[h] /\ table'[h][i] = table[h][i]
      BY <1>1, <1>5, <1>6, <1>9, <1>10, <2>2
    <3>2. /\ inTable[table[h][i]] = h /\ Bucket(table[h][i]) = h
          /\ inContainer[table[h][i]] = i - 1
      BY <3>1 DEF Placed
    <3> QED
      BY <1>6, <1>8, <3>1, <3>2
  <2> QED
    BY <2>1, <2>2
<1>11. \A h \in Buckets : Len(table'[h]) <= NotAPosition
  BY <1>1, <1>4, <1>5, <1>6, SizeFacts DEF Placed
<1>12. Placed'
  BY <1>10, <1>11 DEF Placed
<1>13. Stored' = Stored \cup {n}
  <2>1. ASSUME NEW m \in Stored' PROVE m \in Stored \cup {n}
    <3>0. PICK h \in Buckets : \E i \in DOMAIN table'[h] : table'[h][i] = m
      BY DEF Stored
    <3>1. PICK i \in DOMAIN table'[h] : table'[h][i] = m
      BY <3>0
    <3>2. CASE h = k /\ i = size + 1
      BY <1>5, <1>6, <3>1, <3>2
    <3>3. CASE ~ (h = k /\ i = size + 1)
      <4>1. i \in DOMAIN table[h] /\ table'[h][i] = table[h][i]
        BY <1>1, <1>5, <1>6, <1>9, <3>1, <3>3
      <4> QED
        BY <3>1, <4>1 DEF Stored
    <3> QED
      BY <3>2, <3>3
  <2>2. ASSUME NEW m \in Stored PROVE m \in Stored'
    <3>0. PICK h \in Buckets : \E i \in DOMAIN table[h] : table[h][i] = m
      BY DEF Stored
    <3>1. PICK i \in DOMAIN table[h] : table[h][i] = m
      BY <3>0
    <3>2. i \in DOMAIN table'[h] /\ table'[h][i] = m
      BY <1>1, <1>5, <1>6, <1>9, <3>1
    <3> QED
      BY <3>2 DEF Stored
  <2>3. n \in Stored'
    <3>1. size + 1 \in DOMAIN table'[k] /\ table'[k][size + 1] = n
      BY <1>1, <1>5, <1>6
    <3> QED
      BY <1>1, <3>1 DEF Stored
  <2> QED
    BY <2>1, <2>2, <2>3
<1>14. \A m \in Nodes \ {n} : IsStored(m)' <=> IsStored(m)
  BY <1>6 DEF IsStored
<1> QED
  BY <1>7, <1>12, <1>13, <1>14

\* What RemoveNode does to the table.
Deleted(n) ==
  /\ table' = [table EXCEPT ![inTable[n]] = RemovedBucket(n)]
  /\ inContainer' = RemovedPosition(n)
  /\ inTable' = [inTable EXCEPT ![n] = 0]

\* The last node of the bucket takes the place of the one that leaves.
LEMMA DeletedPlaced ==
  ASSUME TypeOK, Placed, NEW n \in Stored, Deleted(n)
  PROVE  /\ table' \in [Buckets -> Seq(Nodes)]
         /\ inTable' \in [Nodes -> Buckets]
         /\ inContainer' \in [Nodes -> 0 .. NotAPosition]
         /\ Placed' /\ Stored' = Stored \ {n}
         /\ \A m \in Nodes : IsStored(m)' => IsStored(m) /\ m # n
<1> DEFINE k == inTable[n]
           bucket == table[k]
           last == Len(bucket)
           p == inContainer[n] + 1
           z == bucket[last]
           moved == [bucket EXCEPT ![p] = z]
           shorter == SubSeq(moved, 1, last - 1)
<1>1. /\ n \in Nodes /\ k \in Buckets /\ k = Bucket(n) /\ p \in DOMAIN bucket /\ bucket[p] = n
      /\ bucket \in Seq(Nodes) /\ IsStored(n)
  BY StoredFacts DEF TypeOK
<1>2. /\ last \in Nat /\ DOMAIN bucket = 1 .. last /\ p \in 1 .. last /\ last \in 1 .. last
      /\ z \in Nodes /\ inContainer[n] = p - 1
  <2>1. last \in Nat /\ DOMAIN bucket = 1 .. last /\ p \in 1 .. last
    BY <1>1
  <2>2. last \in 1 .. last
    BY <2>1
  <2>3. z \in Nodes
    BY <1>1, <2>2
  <2>4. inContainer[n] \in Nat
    BY <1>1, SizeFacts DEF TypeOK
  <2> QED
    BY <2>1, <2>2, <2>3, <2>4
<1>3. /\ shorter \in Seq(Nodes) /\ Len(shorter) = last - 1 /\ DOMAIN shorter = 1 .. last - 1
      /\ \A i \in 1 .. last - 1 : shorter[i] = IF i = p THEN z ELSE bucket[i]
  <2> HIDE DEF p, z, last, bucket
  <2>1. moved \in Seq(Nodes) /\ Len(moved) = last
    BY <1>1, <1>2 DEF last
  <2>2. \A i \in 1 .. last : moved[i] = IF i = p THEN z ELSE bucket[i]
    BY <1>2
  <2> HIDE DEF moved
  <2>3. /\ shorter \in Seq(Nodes) /\ Len(shorter) = last - 1 /\ DOMAIN shorter = 1 .. last - 1
        /\ \A i \in 1 .. last - 1 : shorter[i] = moved[i]
    BY <1>2, <2>1
  <2> QED
    BY <1>2, <2>2, <2>3
<1>4. /\ table' = [table EXCEPT ![k] = shorter]
      /\ inTable' = [inTable EXCEPT ![n] = 0]
      /\ inContainer' = [inContainer EXCEPT ![z] = inContainer[n], ![n] = NotAPosition]
  BY DEF Deleted, RemovedBucket, RemovedPosition
<1> HIDE DEF k, bucket, last, p, z, moved, shorter
<1>5. /\ \A h \in Buckets : table'[h] = IF h = k THEN shorter ELSE table[h]
      /\ \A m \in Nodes : inTable'[m] = IF m = n THEN 0 ELSE inTable[m]
      /\ \A m \in Nodes : inContainer'[m] = IF m = n THEN NotAPosition
                                            ELSE IF m = z THEN p - 1 ELSE inContainer[m]
  BY <1>1, <1>2, <1>4 DEF TypeOK
<1>6. /\ table' \in [Buckets -> Seq(Nodes)]
      /\ inTable' \in [Nodes -> Buckets]
      /\ inContainer' \in [Nodes -> 0 .. NotAPosition]
  <2>1. table' \in [Buckets -> Seq(Nodes)]
    BY <1>1, <1>3, <1>4 DEF TypeOK
  <2>2. inTable' \in [Nodes -> Buckets]
    BY <1>1, <1>4, SizeFacts DEF TypeOK
  <2>3. inContainer[n] \in 0 .. NotAPosition /\ NotAPosition \in 0 .. NotAPosition
    BY <1>1, SizeFacts DEF TypeOK
  <2>4. inContainer' \in [Nodes -> 0 .. NotAPosition]
    BY <1>1, <1>2, <1>4, <2>3 DEF TypeOK
  <2> QED
    BY <2>1, <2>2, <2>4
<1>7. /\ \A h \in Buckets : \A i \in DOMAIN table[h] :
           /\ table[h][i] \in Nodes /\ inTable[table[h][i]] = h /\ Bucket(table[h][i]) = h
           /\ inContainer[table[h][i]] = i - 1 /\ i \in Nat
      /\ \A h \in Buckets : Len(table[h]) <= NotAPosition /\ Len(table[h]) \in Nat
  BY DEF TypeOK, Placed
<1>8. /\ bucket = table[k]
      /\ \A i \in 1 .. last : bucket[i] = n => i = p
      /\ \A i \in 1 .. last : bucket[i] = z => i = last
      /\ \A h \in Buckets \ {k} : \A i \in DOMAIN table[h] : table[h][i] # n /\ table[h][i] # z
  <2>1. bucket = table[k]
    BY DEF bucket
  <2>2. inTable[n] = k /\ bucket[last] = z
    BY DEF k, z
  <2>3. /\ inTable[z] = k /\ inContainer[z] = last - 1
        /\ \A i \in 1 .. last : inContainer[bucket[i]] = i - 1
    BY <1>1, <1>2, <1>7, <2>1, <2>2
  <2>4. \A i \in 1 .. last : bucket[i] = n => i = p
    BY <1>2, <2>3
  <2>5. \A i \in 1 .. last : bucket[i] = z => i = last
    BY <1>2, <2>3
  <2>6. \A h \in Buckets \ {k} : \A i \in DOMAIN table[h] : table[h][i] # n /\ table[h][i] # z
    BY <1>7, <2>2, <2>3
  <2> QED
    BY <2>1, <2>4, <2>5, <2>6
<1>9. ASSUME NEW h \in Buckets, NEW i \in DOMAIN table'[h]
      PROVE  /\ inTable'[table'[h][i]] = h /\ Bucket(table'[h][i]) = h
             /\ inContainer'[table'[h][i]] = i - 1
             /\ table'[h][i] # n /\ table'[h][i] \in Stored
  <2>1. CASE h # k
    <3>1. i \in DOMAIN table[h] /\ table'[h][i] = table[h][i]
      BY <1>5, <1>9, <2>1
    <3>2. table[h][i] # n /\ table[h][i] # z /\ table[h][i] \in Stored
      BY <1>8, <2>1, <3>1 DEF Stored
    <3> QED
      BY <1>5, <1>7, <3>1, <3>2
  <2>2. CASE h = k /\ i = p
    <3>1. table'[h][i] = z /\ p # last /\ p \in 1 .. last - 1
      BY <1>2, <1>3, <1>5, <1>9, <2>2
    <3>2. z # n
      BY <1>2, <1>8, <3>1 DEF z
    <3>3. z = bucket[last] /\ inTable[z] = k /\ Bucket(z) = k
      BY <1>1, <1>2, <1>7, <1>8 DEF z
    <3>4. z \in Stored
      BY <1>1, <1>2, <1>8, <3>3 DEF Stored
    <3> QED
      BY <1>2, <1>5, <2>2, <3>1, <3>2, <3>3, <3>4
  <2>3. CASE h = k /\ i # p
    <3>1. table'[h][i] = bucket[i] /\ i \in 1 .. last - 1
      BY <1>2, <1>3, <1>5, <1>9, <2>3
    <3>2. i \in DOMAIN table[k] /\ bucket[i] # n /\ bucket[i] # z
      BY <1>2, <1>8, <2>3, <3>1
    <3>3. bucket[i] = table[k][i] /\ bucket[i] \in Stored
      BY <1>1, <1>8, <3>2 DEF Stored
    <3>4. /\ bucket[i] \in Nodes /\ inTable[bucket[i]] = k /\ Bucket(bucket[i]) = k
          /\ inContainer[bucket[i]] = i - 1
      BY <1>1, <1>7, <3>2, <3>3
    <3> QED
      BY <1>5, <2>3, <3>1, <3>2, <3>3, <3>4
  <2> QED
    BY <2>1, <2>2, <2>3
<1>10. \A h \in Buckets : Len(table'[h]) <= NotAPosition
  <2>1. last <= NotAPosition /\ last - 1 <= NotAPosition
    BY <1>1, <1>2, <1>7, SizeFacts DEF last, bucket
  <2> QED
    BY <1>3, <1>5, <1>7, <2>1
<1>11. Placed'
  BY <1>9, <1>10 DEF Placed
<1>12. Stored' = Stored \ {n}
  <2>1. ASSUME NEW m \in Stored' PROVE m \in Stored \ {n}
    <3>0. PICK h \in Buckets : \E i \in DOMAIN table'[h] : table'[h][i] = m
      BY DEF Stored
    <3>1. PICK i \in DOMAIN table'[h] : table'[h][i] = m
      BY <3>0
    <3> QED
      BY <1>9, <3>1
  <2>2. ASSUME NEW m \in Stored, m # n PROVE m \in Stored'
    <3>0. PICK h \in Buckets : \E i \in DOMAIN table[h] : table[h][i] = m
      BY DEF Stored
    <3>1. PICK i \in DOMAIN table[h] : table[h][i] = m
      BY <3>0
    <3>2. CASE h # k
      BY <1>5, <3>1, <3>2 DEF Stored
    <3>3. CASE h = k
      <4>1. i \in 1 .. last /\ bucket[i] = m /\ i # p
        BY <1>1, <1>2, <1>8, <2>2, <3>1, <3>3
      <4>2. CASE i = last
        <5>1. p \in DOMAIN table'[k] /\ table'[k][p] = m
          BY <1>1, <1>2, <1>3, <1>5, <4>1, <4>2 DEF z
        <5> QED
          BY <1>1, <5>1 DEF Stored
      <4>3. CASE i # last
        <5>1. i \in DOMAIN table'[k] /\ table'[k][i] = m
          BY <1>1, <1>2, <1>3, <1>5, <4>1, <4>3
        <5> QED
          BY <1>1, <5>1 DEF Stored
      <4> QED
        BY <4>2, <4>3
    <3> QED
      BY <3>2, <3>3
  <2> QED
    BY <2>1, <2>2
<1>13. ASSUME NEW m \in Nodes, IsStored(m)' PROVE IsStored(m) /\ m # n
  <2>1. m # n
    BY <1>5, <1>13 DEF IsStored
  <2>2. CASE m = z
    <3>1. z \in Stored
      BY <1>1, <1>2, <1>8 DEF Stored, z
    <3> QED
      BY <2>1, <2>2, <3>1, StoredFacts
  <2>3. CASE m # z
    BY <1>5, <1>13, <2>1, <2>3 DEF IsStored
  <2> QED
    BY <2>1, <2>2, <2>3
<1> QED
  BY <1>6, <1>11, <1>12, <1>13

-----------------------------------------------------------------------------
(* The steps keep the invariant. *)

\* What the types say of the lists.
LEMMA ListsType ==
  ASSUME TypeOK
  PROVE  /\ list \in [Tags -> ListType]
         /\ \A tag \in Tags :
              /\ list[tag] \in ListType
              /\ list[tag].head \in [Nodes -> Edges \cup {Nil}]
              /\ list[tag].next \in [Edges -> Edges \cup {Nil}]
              /\ list[tag].node \in [Edges -> Nodes \cup {Nil}]
<1>1. list \in [Tags -> ListType]
  BY DEF TypeOK, ListType
<1>2. ASSUME NEW tag \in Tags
      PROVE  /\ list[tag] \in ListType
             /\ list[tag].head \in [Nodes -> Edges \cup {Nil}]
             /\ list[tag].next \in [Edges -> Edges \cup {Nil}]
             /\ list[tag].node \in [Edges -> Nodes \cup {Nil}]
  <2>1. list[tag] \in ListType
    BY <1>1
  <2> QED
    BY <2>1 DEF ListType
<1> QED
  BY <1>1, <1>2

\* A list is empty when its node has no edge; its head is an edge of its node.
LEMMA HeadFacts ==
  ASSUME NEW l \in ListType, Chained(l), NEW n \in Nodes
  PROVE  /\ l.head[n] # Nil => l.head[n] \in Edges /\ l.node[l.head[n]] = n
         /\ l.head[n] = Nil => \A e \in Edges : l.node[e] # n
<1>1. l.head[n] \in Edges \cup {Nil}
  BY DEF ListType
<1>2. ASSUME l.head[n] # Nil PROVE l.node[l.head[n]] = n
  BY <1>2 DEF Chained, Linked
<1>3. ASSUME l.head[n] = Nil, NEW e \in Edges PROVE l.node[e] # n
  <2>1. e \notin InList(l, n)
    <3>1. {} \in SUBSET Edges /\ l.head[n] \in {} \cup {Nil} /\ e \notin {}
      BY <1>3
    <3> QED
      BY <3>1 DEF InList
  <2> QED
    BY <2>1, InListMeaning
<1> QED
  BY <1>1, <1>2, <1>3

\* What depends on the table only.
LEMMA TableKept ==
  ASSUME UNCHANGED nodesTable
  PROVE  /\ Stored' = Stored /\ Placed' = Placed
         /\ \A n \in Nodes : IsStored(n)' = IsStored(n)
BY DEF nodesTable, Stored, Placed, IsStored

\* add_node() puts a node where its positions say, and in no list.
LEMMA AddNodeStep ==
  ASSUME IInv, NEW n \in Nodes, NEW root \in BOOLEAN, AddNode(n, root)
  PROVE  IInv'
<1>1. /\ TypeOK /\ Placed /\ Ends /\ pc = "idle" /\ pc' = "idle" /\ small = Nil /\ big = Nil
      /\ \A m \in Nodes : IsStored(m) => m \in Stored
      /\ todo = {}
  BY DEF IInv, AddNode, Known, Looping
<1>2. UNCHANGED <<list, type, pc, small, big, it, todo>> /\ Inserted(n) /\ ~ IsStored(n)
  BY DEF AddNode, Inserted, IsNext
<1>3. n \notin Stored
  BY <1>1, <1>2, StoredFacts
<1>4. /\ table' \in [Buckets -> Seq(Nodes)] /\ inTable' \in [Nodes -> Buckets]
      /\ inContainer' \in [Nodes -> 0 .. NotAPosition]
      /\ Placed' /\ Stored' = Stored \cup {n}
      /\ \A m \in Nodes \ {n} : IsStored(m)' <=> IsStored(m)
  BY <1>1, <1>2, <1>3, InsertedPlaced
<1>5. roots' \in SUBSET Nodes
  BY <1>1 DEF AddNode, TypeOK
<1>6. TypeOK'
  BY <1>1, <1>2, <1>4, <1>5 DEF TypeOK
<1>7. Known'
  BY <1>1, <1>4 DEF Known
<1>8. Ends'
  BY <1>1, <1>2, <1>4 DEF Ends
<1>9. Looping'
  BY <1>1, <1>2 DEF Looping, Tags
<1>10. \A tag \in Tags : Chained(list'[tag])
  BY <1>2 DEF IInv
<1> QED
  BY <1>4, <1>6, <1>7, <1>8, <1>9, <1>10 DEF IInv, Chained, Linked

\* A full bucket: only the node that was to be added has a position.
LEMMA AddNodeThrowsStep ==
  ASSUME IInv, NEW n \in Nodes, AddNodeThrows(n)
  PROVE  IInv'
<1>1. /\ TypeOK /\ Placed /\ Ends /\ pc = "idle" /\ pc' = "thrown" /\ small = Nil /\ big = Nil
      /\ todo = {}
  BY DEF IInv, AddNodeThrows, Looping
<1>2. /\ UNCHANGED <<table, inContainer, roots, list, type, small, big, it, todo>>
      /\ inTable' = [inTable EXCEPT ![n] = Bucket(n)] /\ ~ IsStored(n)
  BY DEF AddNodeThrows, IsNext
<1>3. n \notin Stored /\ Stored' = Stored
  BY <1>1, <1>2, StoredFacts DEF Stored
<1>4. Placed'
  <2>1. \A k \in Buckets : \A i \in DOMAIN table[k] :
          inTable'[table[k][i]] = inTable[table[k][i]]
    BY <1>1, <1>2, <1>3 DEF TypeOK, Stored
  <2> QED
    BY <1>1, <1>2, <2>1 DEF Placed
<1>5. TypeOK'
  BY <1>1, <1>2, SizeFacts DEF TypeOK
<1>6. Known' /\ Looping'
  BY <1>1, <1>2 DEF Known, Looping, Tags
<1>7. Ends'
  BY <1>1, <1>2, <1>3 DEF Ends
<1>8. \A tag \in Tags : Chained(list'[tag])
  BY <1>2 DEF IInv
<1> QED
  BY <1>4, <1>5, <1>6, <1>7, <1>8 DEF IInv, Chained, Linked

\* add_edge() puts an edge in the two lists, between stored nodes.
LEMMA AddEdgeStep ==
  ASSUME IInv, NEW e \in Edges, NEW n \in Nodes, NEW m \in Nodes, AddEdge(e, n, m)
  PROVE  IInv'
<1> DEFINE in == AddToList(list["incoming"], m, e)
           out == AddToList(list["outgoing"], n, e)
<1>1. /\ TypeOK /\ Placed /\ Known /\ Ends /\ Looping /\ pc = "idle"
      /\ \A tag \in Tags : Chained(list[tag])
  BY DEF IInv, AddEdge
<1>2. /\ UNCHANGED <<nodesTable, pc, small, big, it, todo>>
      /\ list' = [list EXCEPT !["incoming"] = AddToList(@, m, e),
                              !["outgoing"] = AddToList(@, n, e)]
      /\ type' = [type EXCEPT ![e] = "actual"]
      /\ list["incoming"].node[e] = Nil /\ IsStored(n) /\ IsStored(m)
  BY DEF AddEdge
<1>3. list["outgoing"].node[e] = Nil /\ n \in Stored /\ m \in Stored
  BY <1>1, <1>2 DEF Ends, Known
<1>4. list["incoming"] \in ListType /\ list["outgoing"] \in ListType
  BY <1>1, ListsType DEF Tags
<1>5. /\ in \in ListType /\ Chained(in) /\ in.node = [list["incoming"].node EXCEPT ![e] = m]
      /\ out \in ListType /\ Chained(out) /\ out.node = [list["outgoing"].node EXCEPT ![e] = n]
  <2>1. Chained(list["incoming"]) /\ Chained(list["outgoing"])
    BY <1>1 DEF Tags
  <2>2. in \in ListType /\ Chained(in) /\ in.node = [list["incoming"].node EXCEPT ![e] = m]
    BY <1>2, <1>4, <2>1, AddedToList
  <2>3. out \in ListType /\ Chained(out) /\ out.node = [list["outgoing"].node EXCEPT ![e] = n]
    BY <1>3, <1>4, <2>1, AddedToList
  <2> QED
    BY <2>2, <2>3
<1>6. /\ list' \in [Tags -> ListType]
      /\ list'["incoming"] = in /\ list'["outgoing"] = out
  <2> HIDE DEF in, out
  <2>1. list' = [list EXCEPT !["incoming"] = in, !["outgoing"] = out]
    BY <1>2 DEF in, out
  <2> QED
    BY <1>1, <1>5, <2>1, ListsType DEF Tags
<1> HIDE DEF in, out
<1>7. Stored' = Stored /\ Placed' /\ Known'
  BY <1>1, <1>2, TableKept DEF Known
<1>8. TypeOK'
  BY <1>1, <1>2, <1>6 DEF TypeOK, ListType, EdgeTypes, nodesTable
<1>9. Ends'
  <2>1. \A d \in Edges : /\ in.node[d] = IF d = e THEN m ELSE list["incoming"].node[d]
                         /\ out.node[d] = IF d = e THEN n ELSE list["outgoing"].node[d]
    BY <1>1, <1>5, ListsType DEF Tags
  <2>2. m # Nil /\ n # Nil
    BY NilAssumption
  <2> QED
    BY <1>1, <1>3, <1>6, <1>7, <2>1, <2>2 DEF Ends, Tags
<1>10. Looping'
  BY <1>1, <1>2 DEF Looping, Tags, nodesTable
<1>11. \A tag \in Tags : Chained(list'[tag])
  BY <1>5, <1>6 DEF Tags
<1> QED
  BY <1>7, <1>8, <1>9, <1>10, <1>11 DEF IInv, Chained, Linked

\* The loop starts from the head, once the types are set.
LEMMA CoverStep ==
  ASSUME IInv, NEW n \in Nodes, NEW m \in Nodes, Cover(n, m)
  PROVE  IInv'
<1>1. /\ TypeOK /\ Placed /\ Known /\ Ends /\ Looping /\ pc = "idle"
      /\ \A tag \in Tags : Chained(list[tag])
  BY DEF IInv, Cover
<1>2. /\ UNCHANGED <<nodesTable, list, todo>>
      /\ type' = [e \in Edges |-> IF e \in InList(list["incoming"], n) THEN "abstract"
                                  ELSE type[e]]
      /\ pc' = "move" /\ small' = n /\ big' = m /\ it' = list["incoming"].head[n]
      /\ IsStored(n) /\ IsStored(m) /\ n # m /\ n \notin roots
  BY DEF Cover
<1>3. n \in Stored /\ m \in Stored /\ todo = {} /\ m # Nil
  BY <1>1, <1>2, NilAssumption DEF Known, Looping
<1>4. /\ Stored' = Stored /\ Placed' /\ roots' = roots
      /\ \A k \in Nodes : IsStored(k)' = IsStored(k)
  BY <1>1, <1>2, TableKept DEF nodesTable
<1>5. list["incoming"].head \in [Nodes -> Edges \cup {Nil}]
  BY <1>1, ListsType DEF Tags
<1>6. TypeOK'
  BY <1>1, <1>2, <1>5 DEF TypeOK, EdgeTypes, nodesTable
<1>7. Known' /\ Ends'
  BY <1>1, <1>2, <1>4 DEF Known, Ends
<1>8. \A e \in Edges : list["incoming"].node[e] = n => type'[e] = "abstract"
  <2>1. InList(list["incoming"], n) = {e \in Edges : list["incoming"].node[e] = n}
    BY <1>1, ListsType, InListMeaning DEF Tags
  <2> QED
    BY <1>2, <2>1
<1>9. Looping'
  BY <1>2, <1>3, <1>4, <1>8 DEF Looping, Tags
<1>10. \A tag \in Tags : Chained(list'[tag])
  BY <1>1, <1>2
<1> QED
  BY <1>4, <1>6, <1>7, <1>9, <1>10 DEF IInv, Chained, Linked

\* The edge is the head of the list of small, and becomes the head of the list of
\* big: the loop is at the new head of small.
LEMMA MoveEdgeStep ==
  ASSUME IInv, MoveEdge
  PROVE  /\ IInv'
         /\ it \in Edges /\ list["incoming"].node[it] = small
         /\ list'["outgoing"] = list["outgoing"]
         /\ list'["incoming"].node = [list["incoming"].node EXCEPT ![it] = big]
<1> DEFINE cut == RemoveFromList(list["incoming"], it)
           in == AddToList(cut, big, it)
<1>1. /\ TypeOK /\ Placed /\ Known /\ Ends /\ Looping /\ pc = "move"
      /\ \A tag \in Tags : Chained(list[tag])
  BY DEF IInv, MoveEdge
<1>2. /\ UNCHANGED <<nodesTable, type, pc, small, big, todo>> /\ it # Nil
      /\ it' = list["incoming"].next[it]
      /\ list' = [list EXCEPT !["incoming"] = AddToList(RemoveFromList(@, it), big, it)]
  BY DEF MoveEdge
<1>3. /\ small \in Stored /\ big \in Stored /\ big # small /\ small \notin roots /\ todo = {}
      /\ it = list["incoming"].head[small]
      /\ small \in Nodes /\ big \in Nodes /\ big # Nil /\ small # Nil
  BY <1>1, StoredFacts, NilAssumption DEF Looping, Tags
<1>4. list["incoming"] \in ListType /\ list["incoming"].node \in [Edges -> Nodes \cup {Nil}]
      /\ list["incoming"].next \in [Edges -> Edges \cup {Nil}]
      /\ list["incoming"].head \in [Nodes -> Edges \cup {Nil}]
  BY <1>1, ListsType DEF Tags
<1>5. it \in Edges /\ list["incoming"].node[it] = small
  BY <1>1, <1>2, <1>3, <1>4, HeadFacts DEF Tags
<1>6. /\ cut \in ListType /\ Chained(cut)
      /\ cut.node = [list["incoming"].node EXCEPT ![it] = Nil]
      /\ \A m \in Nodes : cut.head[m] = IF list["incoming"].head[m] = it
                            THEN list["incoming"].next[it] ELSE list["incoming"].head[m]
  BY <1>1, <1>3, <1>4, <1>5, RemovedFromList DEF Tags
<1>7. cut.node[it] = Nil
  BY <1>4, <1>5, <1>6
<1>8. /\ in \in ListType /\ Chained(in)
      /\ in.head = [cut.head EXCEPT ![big] = it] /\ in.node = [cut.node EXCEPT ![it] = big]
  <2> HIDE DEF cut
  <2> QED
    BY <1>3, <1>5, <1>6, <1>7, AddedToList
<1>9. list' = [list EXCEPT !["incoming"] = in]
  BY <1>2
<1> HIDE DEF cut, in
<1>10. in.node = [list["incoming"].node EXCEPT ![it] = big]
  BY <1>4, <1>6, <1>8
<1>11. in.head[small] = it'
  <2>1. cut.head \in [Nodes -> Edges \cup {Nil}]
    BY <1>6 DEF ListType
  <2> QED
    BY <1>2, <1>3, <1>6, <1>8, <2>1
<1>12. /\ list' \in [Tags -> ListType]
       /\ list'["incoming"] = in /\ list'["outgoing"] = list["outgoing"]
  BY <1>1, <1>8, <1>9, ListsType DEF Tags
<1>13. /\ Stored' = Stored /\ Placed' /\ roots' = roots
       /\ \A k \in Nodes : IsStored(k)' = IsStored(k)
  BY <1>1, <1>2, TableKept DEF nodesTable
<1>14. TypeOK'
  BY <1>1, <1>2, <1>4, <1>5, <1>12 DEF TypeOK, ListType, nodesTable
<1>15. \A d \in Edges : in.node[d] = IF d = it THEN big ELSE list["incoming"].node[d]
  BY <1>4, <1>10
<1>16. Known' /\ Ends'
  BY <1>1, <1>2, <1>3, <1>5, <1>12, <1>13, <1>15 DEF Known, Ends, Tags
<1>17. Looping'
  BY <1>1, <1>2, <1>3, <1>11, <1>12, <1>13, <1>15 DEF Looping, Tags
<1>18. \A tag \in Tags : Chained(list'[tag])
  BY <1>1, <1>8, <1>12 DEF Tags
<1> QED
  BY <1>5, <1>10, <1>12, <1>13, <1>14, <1>16, <1>17, <1>18 DEF IInv, Chained, Linked

\* The edge is the head of the list the loop goes through, but it may be anywhere
\* in the other list it leaves.
LEMMA RemoveNextStep ==
  ASSUME IInv, RemoveNext
  PROVE  /\ IInv'
         /\ pc \in Tags /\ it \in Edges /\ list[pc].node[it] = small
         /\ \A tag \in Tags : list'[tag].node = [list[tag].node EXCEPT ![it] = Nil]
<1>1. /\ TypeOK /\ Placed /\ Known /\ Ends /\ Looping /\ pc \in Tags
      /\ \A tag \in Tags : Chained(list[tag])
  BY DEF IInv, RemoveNext
<1>2. /\ UNCHANGED <<nodesTable, type, pc, small, big, todo>> /\ it # Nil
      /\ it' = list[pc].next[it] /\ list' = RemoveEdge(it)
  BY DEF RemoveNext
<1>3. small \in Stored /\ small \in Nodes /\ small # Nil /\ it = list[pc].head[small]
  BY <1>1, StoredFacts, NilAssumption DEF Looping, Tags
<1>4. it \in Edges /\ list[pc].node[it] = small
  BY <1>1, <1>2, <1>3, ListsType, HeadFacts
<1>5. \A tag \in Tags : list[tag].node[it] # Nil
  BY <1>1, <1>3, <1>4 DEF Ends, Tags
<1>6. ASSUME NEW tag \in Tags
      PROVE  /\ list'[tag] \in ListType /\ Chained(list'[tag])
             /\ list'[tag].node = [list[tag].node EXCEPT ![it] = Nil]
             /\ \A m \in Nodes : list'[tag].head[m] =
                  IF list[tag].head[m] = it THEN list[tag].next[it] ELSE list[tag].head[m]
  <2>1. list[tag] \in ListType /\ Chained(list[tag]) /\ list[tag].node[it] # Nil
    BY <1>1, <1>5, ListsType
  <2>2. list'[tag] = RemoveFromList(list[tag], it)
    BY <1>2 DEF RemoveEdge
  <2> QED
    BY <1>4, <2>1, <2>2, RemovedFromList
<1>7. list' \in [Tags -> ListType]
  BY <1>2, <1>6 DEF RemoveEdge
<1>8. /\ Stored' = Stored /\ Placed' /\ roots' = roots
      /\ \A k \in Nodes : IsStored(k)' = IsStored(k)
  BY <1>1, <1>2, TableKept DEF nodesTable
<1>9. TypeOK'
  <2>1. it' \in Edges \cup {Nil}
    BY <1>1, <1>2, <1>4, ListsType
  <2> QED
    BY <1>1, <1>2, <1>7, <2>1 DEF TypeOK, ListType, nodesTable
<1>10. \A tag \in Tags : \A d \in Edges :
         list'[tag].node[d] = IF d = it THEN Nil ELSE list[tag].node[d]
  BY <1>1, <1>6, ListsType
<1>11. Known' /\ Ends'
  BY <1>1, <1>2, <1>8, <1>10 DEF Known, Ends, Tags
<1>12. \A tag \in Tags : \A m \in Nodes : list[tag].head[m] = Nil => list'[tag].head[m] = Nil
  BY <1>2, <1>6
<1>13. list'[pc].head[small] = it'
  BY <1>1, <1>2, <1>3, <1>6
<1>14. \A n \in Stored : n \in Nodes
  BY <1>1, StoredFacts
<1>15. \A tag \in Tags : Chained(list'[tag])
  BY <1>6
<1>16. Looping'
  <2>1. /\ UNCHANGED <<pc, small, big, todo, roots, type>>
        /\ pc \in Tags /\ Stored' = Stored
    BY <1>1, <1>2, <1>8
  <2>2. pc \in Tags /\ big = Nil =>
          \A n \in Stored \ (todo \cup {small}), tag \in Tags : list'[tag].head[n] = Nil
    BY <1>1, <1>12, <1>14 DEF Looping
  <2>3. /\ pc = "incoming" => it' = list'["incoming"].head[small]
        /\ pc = "outgoing" => it' = list'["outgoing"].head[small]
        /\ pc = "incoming" => list'["outgoing"].head[small] = Nil
        /\ big # Nil => list'["incoming"].head[small] = Nil
    BY <1>1, <1>3, <1>12, <1>13 DEF Looping, Tags
  <2> QED
    BY <1>1, <2>1, <2>2, <2>3 DEF Looping, Tags
<1> QED
  BY <1>1, <1>4, <1>6, <1>8, <1>9, <1>11, <1>15, <1>16 DEF IInv, Chained, Linked

\* The node leaves once no edge is on it.
LEMMA RemoveNodeStep ==
  ASSUME IInv, RemoveNode
  PROVE  /\ IInv'
         /\ Stored' = Stored \ {small} /\ small \in Stored
         /\ \A tag \in Tags : \A e \in Edges : list[tag].node[e] # small
<1>1. /\ TypeOK /\ Placed /\ Known /\ Ends /\ Looping
      /\ \A tag \in Tags : Chained(list[tag])
      /\ pc = "incoming" /\ it = Nil /\ big # Nil
  BY DEF IInv, RemoveNode
<1>2. /\ UNCHANGED <<roots, list, type, it, todo>>
      /\ pc' = "idle" /\ small' = Nil /\ big' = Nil /\ Deleted(small)
  BY DEF RemoveNode, Deleted
<1>3. /\ small \in Stored /\ small \in Nodes /\ todo = {}
      /\ \A tag \in Tags : list[tag].head[small] = Nil
  BY <1>1, StoredFacts DEF Looping, Tags
<1>4. \A tag \in Tags : \A e \in Edges : list[tag].node[e] # small
  BY <1>1, <1>3, ListsType, HeadFacts
<1>5. /\ table' \in [Buckets -> Seq(Nodes)]
      /\ inTable' \in [Nodes -> Buckets]
      /\ inContainer' \in [Nodes -> 0 .. NotAPosition]
      /\ Placed' /\ Stored' = Stored \ {small}
      /\ \A m \in Nodes : IsStored(m)' => IsStored(m) /\ m # small
  BY <1>1, <1>2, <1>3, DeletedPlaced
<1>6. TypeOK'
  BY <1>1, <1>2, <1>5 DEF TypeOK
<1>7. Known'
  BY <1>1, <1>5 DEF Known
<1>8. Ends'
  BY <1>1, <1>2, <1>4, <1>5 DEF Ends
<1>9. Looping'
  BY <1>2, <1>3 DEF Looping, Tags
<1>10. \A tag \in Tags : Chained(list'[tag])
  BY <1>1, <1>2
<1> QED
  BY <1>3, <1>4, <1>5, <1>6, <1>7, <1>8, <1>9, <1>10 DEF IInv, Chained, Linked

\* No edge is on any node when the table is emptied.
LEMMA EndClearStep ==
  ASSUME IInv, EndClear
  PROVE  IInv'
<1>1. /\ TypeOK /\ Placed /\ Ends /\ Looping
      /\ \A tag \in Tags : Chained(list[tag])
      /\ pc = "clear" /\ todo = {} /\ small = Nil /\ big = Nil
  BY DEF IInv, EndClear, Looping
<1>2. /\ UNCHANGED <<list, type, small, big, it, todo>> /\ pc' = "cleared" /\ roots' = {}
      /\ table' = [k \in Buckets |-> <<>>]
      /\ inTable' = [n \in Nodes |-> IF n \in Stored THEN 0 ELSE inTable[n]]
      /\ inContainer' = [n \in Nodes |-> IF n \in Stored THEN NotAPosition ELSE inContainer[n]]
  BY DEF EndClear
<1>3. Stored' = {} /\ Placed'
  BY <1>2, SizeFacts DEF Stored, Placed
<1>4. \A n \in Stored : n \in Nodes /\ n # Nil /\ \A tag \in Tags : list[tag].head[n] = Nil
  BY <1>1, StoredFacts, NilAssumption DEF Looping
<1>5. \A tag \in Tags : \A e \in Edges : list[tag].node[e] = Nil
  <2>1. \A n \in Stored, tag \in Tags : \A e \in Edges : list[tag].node[e] # n
    BY <1>1, <1>4, ListsType, HeadFacts
  <2> QED
    BY <1>1, <2>1 DEF Ends
<1>6. TypeOK'
  <2>1. table' \in [Buckets -> Seq(Nodes)]
    BY <1>2
  <2>2. inTable' \in [Nodes -> Buckets]
    BY <1>1, <1>2, SizeFacts DEF TypeOK
  <2>3. inContainer' \in [Nodes -> 0 .. NotAPosition]
    BY <1>1, <1>2, SizeFacts DEF TypeOK
  <2> QED
    BY <1>1, <1>2, <2>1, <2>2, <2>3 DEF TypeOK
<1>7. Known' /\ Looping'
  BY <1>1, <1>2, <1>3 DEF Known, Looping, Tags
<1>8. Ends'
  BY <1>2, <1>5 DEF Ends, Tags
<1>9. \A tag \in Tags : Chained(list'[tag])
  BY <1>1, <1>2
<1> QED
  BY <1>3, <1>6, <1>7, <1>8, <1>9 DEF IInv, Chained, Linked

\* The other steps change neither the table nor the lists.
LEMMA LoopStep ==
  ASSUME IInv, \/ EndMove \/ EndOutgoing \/ Clear \/ EndNode
               \/ (\E n \in Nodes : ClearNode(n)) \/ UNCHANGED vars
  PROVE  IInv' /\ Stored' = Stored /\ UNCHANGED <<roots, list, type>>
<1>1. /\ TypeOK /\ Placed /\ Known /\ Ends /\ Looping
      /\ \A tag \in Tags : Chained(list[tag])
  BY DEF IInv
<1>2. UNCHANGED <<nodesTable, list, type>>
  BY DEF EndMove, EndOutgoing, Clear, EndNode, ClearNode, vars
<1>3. /\ Stored' = Stored /\ Placed' /\ UNCHANGED <<roots, table, inTable, inContainer>>
      /\ \A k \in Nodes : IsStored(k)' = IsStored(k)
  BY <1>1, <1>2, TableKept DEF nodesTable
<1>4. Ends' /\ \A tag \in Tags : Chained(list'[tag])
  BY <1>1, <1>2, <1>3 DEF Ends
<1>5. \A n \in Stored : n \in Nodes /\ n # Nil
  BY <1>1, StoredFacts, NilAssumption
<1>6. \A tag \in Tags : \A n \in Nodes : list[tag].head[n] \in Edges \cup {Nil}
  BY <1>1, ListsType
<1>8. CASE EndMove
  <2>1. /\ pc = "move" /\ it = Nil /\ pc' = "outgoing" /\ it' = list["outgoing"].head[small]
        /\ UNCHANGED <<small, big, todo>>
    BY <1>8 DEF EndMove
  <2>2. small \in Nodes /\ big # Nil /\ list["incoming"].head[small] = Nil
    BY <1>1, <1>5, <2>1 DEF Looping, Tags
  <2>3. TypeOK'
    BY <1>1, <1>2, <1>3, <1>6, <2>1, <2>2 DEF TypeOK, Tags
  <2>4. Looping'
    BY <1>1, <1>2, <1>3, <2>1, <2>2 DEF Looping, Tags
  <2>5. Known'
    BY <1>1, <1>3, <2>1, <2>2 DEF Known
  <2> QED
    BY <1>2, <1>3, <1>4, <2>3, <2>4, <2>5 DEF IInv, Chained, Linked
<1>9. CASE EndOutgoing
  <2>1. /\ pc = "outgoing" /\ it = Nil /\ pc' = "incoming" /\ it' = list["incoming"].head[small]
        /\ UNCHANGED <<small, big, todo>>
    BY <1>9 DEF EndOutgoing
  <2>2. small \in Nodes /\ list["outgoing"].head[small] = Nil
    BY <1>1, <1>5, <2>1 DEF Looping, Tags
  <2>3. TypeOK'
    BY <1>1, <1>2, <1>3, <1>6, <2>1, <2>2 DEF TypeOK, Tags
  <2>4. Looping'
    BY <1>1, <1>2, <1>3, <2>1, <2>2 DEF Looping, Tags
  <2>5. Known'
    BY <1>1, <1>3, <2>1 DEF Known
  <2> QED
    BY <1>2, <1>3, <1>4, <2>3, <2>4, <2>5 DEF IInv, Chained, Linked
<1>10. CASE Clear
  <2>1. /\ pc \in {"idle", "thrown"} /\ pc' = "clear" /\ todo' = Stored
        /\ UNCHANGED <<small, big, it>>
    BY <1>10 DEF Clear
  <2>2. small = Nil /\ big = Nil
    BY <1>1, <2>1 DEF Looping
  <2>3. TypeOK'
    BY <1>1, <1>2, <1>3, <1>5, <2>1 DEF TypeOK, Tags
  <2>4. Looping'
    BY <1>3, <2>1, <2>2 DEF Looping, Tags
  <2>5. Known'
    BY <2>1, <2>2 DEF Known
  <2> QED
    BY <1>2, <1>3, <1>4, <2>3, <2>4, <2>5 DEF IInv, Chained, Linked
<1>11. CASE EndNode
  <2>1. /\ pc = "incoming" /\ it = Nil /\ big = Nil /\ pc' = "clear" /\ small' = Nil
        /\ UNCHANGED <<big, it, todo>>
    BY <1>11 DEF EndNode
  <2>2. /\ \A tag \in Tags : list[tag].head[small] = Nil
        /\ \A n \in Stored \ (todo \cup {small}), tag \in Tags : list[tag].head[n] = Nil
    BY <1>1, <2>1 DEF Looping, Tags
  <2>3. TypeOK'
    BY <1>1, <1>2, <1>3, <2>1 DEF TypeOK, Tags
  <2>4. Looping'
    BY <1>2, <1>3, <2>1, <2>2 DEF Looping, Tags
  <2>5. Known'
    BY <2>1 DEF Known
  <2> QED
    BY <1>2, <1>3, <1>4, <2>3, <2>4, <2>5 DEF IInv, Chained, Linked
<1>12. ASSUME NEW n \in Nodes, ClearNode(n) PROVE IInv'
  <2>1. /\ pc = "clear" /\ pc' = "outgoing" /\ small' = n /\ todo' = todo \ {n}
        /\ it' = list["outgoing"].head[n] /\ UNCHANGED big
    BY <1>12 DEF ClearNode
  <2>2. n \in Stored
    BY <1>12 DEF ClearNode, IsFirst, Stored
  <2>3. /\ big = Nil /\ small = Nil
        /\ \A m \in Stored \ (todo \cup {small}), tag \in Tags : list[tag].head[m] = Nil
    BY <1>1, <2>1 DEF Looping
  <2>4. TypeOK'
    BY <1>1, <1>2, <1>3, <1>6, <2>1 DEF TypeOK, Tags
  <2>5. Looping'
    BY <1>2, <1>3, <1>5, <2>1, <2>2, <2>3 DEF Looping, Tags
  <2>6. Known'
    BY <2>1, <2>3 DEF Known
  <2> QED
    BY <1>3, <1>4, <2>4, <2>5, <2>6 DEF IInv, Chained, Linked
<1>13. CASE UNCHANGED vars
  <2>1. TypeOK' /\ Looping' /\ Known'
    BY <1>1, <1>3, <1>13 DEF vars, nodesTable, TypeOK, Looping, Known
  <2> QED
    BY <1>2, <1>3, <1>4, <2>1 DEF IInv, Chained, Linked
<1> QED
  BY <1>2, <1>3, <1>8, <1>9, <1>10, <1>11, <1>12, <1>13

\* An empty graph.
LEMMA IInvInit == Init => IInv
<1> SUFFICES ASSUME Init PROVE IInv
  OBVIOUS
<1>1. Stored = {} /\ Placed
  BY SizeFacts DEF Init, Stored, Placed
<1>2. \A tag \in Tags : list[tag] = [head |-> [n \in Nodes |-> Nil],
                                     next |-> [e \in Edges |-> Nil],
                                     node |-> [e \in Edges |-> Nil]]
  BY DEF Init
<1>3. \A tag \in Tags : /\ \A n \in Nodes : list[tag].head[n] = Nil
                        /\ \A e \in Edges : list[tag].next[e] = Nil /\ list[tag].node[e] = Nil
  BY <1>2
<1>4. ASSUME NEW tag \in Tags PROVE Chained(list[tag])
  <2>1. [e \in Edges |-> 0] \in [Edges -> Nat]
    OBVIOUS
  <2>2. Linked(list[tag], [e \in Edges |-> 0])
    BY <1>3 DEF Linked
  <2> QED
    BY <2>1, <2>2 DEF Chained
<1>5. TypeOK
  <2>1. table \in [Buckets -> Seq(Nodes)]
    BY DEF Init
  <2>2. inTable \in [Nodes -> Buckets] /\ inContainer \in [Nodes -> 0 .. NotAPosition]
    BY SizeFacts DEF Init
  <2>3. list \in [Tags -> ListType] /\ type \in [Edges -> EdgeTypes]
    BY DEF Init, ListType, EdgeTypes
  <2> QED
    BY <2>1, <2>2, <2>3 DEF Init, TypeOK, ListType
<1>6. Known
  <2>1. \A n \in Nodes : ~ IsStored(n)
    BY DEF Init, IsStored
  <2> QED
    BY <2>1 DEF Known
<1>7. Ends
  BY <1>3 DEF Ends, Tags
<1>8. Looping
  BY <1>1 DEF Init, Looping, Tags
<1> QED
  BY <1>1, <1>4, <1>5, <1>6, <1>7, <1>8 DEF IInv

\* Every step keeps the invariant.
LEMMA IInvStep == IInv /\ [Next]_vars => IInv'
BY AddNodeStep, AddNodeThrowsStep, AddEdgeStep, CoverStep, MoveEdgeStep, RemoveNextStep,
   RemoveNodeStep, EndClearStep, LoopStep DEF Next, Loops

\* The invariant holds in every state.
LEMMA Invariant == Spec => []IInv
BY IInvInit, IInvStep, PTL DEF Spec

-----------------------------------------------------------------------------
(* What the invariant says. *)

(* Every node of the table is where its positions say, in the bucket of its  *)
(* key, and no other node has a position: add_node() and remove_node() of    *)
(* the cover graph, whose node_position_t may be full.                       *)
THEOREM PositionsCorrect == Spec => []Positions
<1>1. ASSUME IInv PROVE Positions
  <2>1. TypeOK /\ Placed /\ Known
    BY <1>1 DEF IInv
  <2>2. \A n \in Stored : inTable[n] = Bucket(n) /\ IsStored(n)
    BY <2>1, StoredFacts
  <2> QED
    BY <2>1, <2>2 DEF Positions, Placed, Known
<1> QED
  BY <1>1, Invariant, PTL

(* The lists of edges are sound whatever the loops of cover_node() and       *)
(* clear() have cut, and what has left the graph points to nothing: the two  *)
(* lists of directed_graph.hh, with their edges as links.                    *)
THEOREM ListsCorrect == Spec => []Lists
<1>1. ASSUME IInv PROVE Lists
  <2>1. TypeOK /\ Ends /\ \A tag \in Tags : Chained(list[tag])
    BY <1>1 DEF IInv
  <2>2. ASSUME NEW tag \in Tags, NEW n \in Nodes
        PROVE  InList(list[tag], n) = {e \in Edges : list[tag].node[e] = n}
    BY <2>1, ListsType, InListMeaning
  <2>3. ASSUME NEW tag \in Tags
        PROVE  /\ \A e, d \in Edges :
                    list[tag].next[e] = list[tag].next[d] /\ list[tag].next[e] # Nil => e = d
               /\ \A n \in Nodes, e \in Edges :
                    list[tag].head[n] # Nil => list[tag].next[e] # list[tag].head[n]
               /\ \A e \in Edges : list[tag].node[e] = Nil => list[tag].next[e] = Nil
               /\ \A n \in Nodes \ Stored : list[tag].head[n] = Nil
    <3>1. Chained(list[tag])
      BY <2>1
    <3>2. \A n \in Nodes \ Stored : list[tag].head[n] = Nil
      BY <2>1, <3>1, ListsType, HeadFacts, NilAssumption DEF Ends
    <3> QED
      BY <3>1, <3>2 DEF Chained, Linked
  <2>4. Detached
    <3>1. ASSUME NEW tag \in Tags, NEW e \in Edges \ UNION {InList(list[tag], n) : n \in Nodes}
          PROVE  \A t \in Tags : list[t].node[e] = Nil
      <4>1. list[tag].node[e] \in Nodes \cup {Nil}
        BY <2>1, ListsType
      <4>2. list[tag].node[e] \notin Nodes
        BY <2>2
      <4> QED
        BY <2>1, <4>1, <4>2 DEF Ends, Tags
    <3> QED
      BY <2>3, <3>1 DEF Detached
  <2> QED
    BY <2>1, <2>2, <2>3, <2>4 DEF Lists, Ends
<1> QED
  BY <1>1, Invariant, PTL

-----------------------------------------------------------------------------
(* The refinement. *)

\* The edges of lists with these nodes, as records.
EdgesOf(in, out, t) ==
  {[id |-> e, src |-> out[e], tgt |-> in[e], type |-> t[e]] : e \in {d \in Edges : in[d] # Nil}}

\* The edges that are left when n is covered by m, one edge at a time.
Redirected(in, out, t, n, m) ==
  {[id |-> e, src |-> out[e], tgt |-> IF in[e] = n THEN m ELSE in[e],
    type |-> IF in[e] = n THEN "abstract" ELSE t[e]] :
     e \in {d \in Edges : in[d] # Nil /\ out[d] # n}}

\* They are those of cover_node.
LEMMA CoveredEdges ==
  ASSUME NEW in, NEW out, NEW t, NEW n, NEW m, n # m
  PROVE  CoverEdges(EdgesOf(in, out, t), {n}, m) = Redirected(in, out, t, n, m)
<1> DEFINE Rec(e) == [id |-> e, src |-> out[e], tgt |-> in[e], type |-> t[e]]
           Moved(d) == IF d.tgt \in {n} THEN [d EXCEPT !.tgt = m, !.type = "abstract"] ELSE d
           Left(e) == [id |-> e, src |-> out[e], tgt |-> IF in[e] = n THEN m ELSE in[e],
                       type |-> IF in[e] = n THEN "abstract" ELSE t[e]]
           Live == {d \in Edges : in[d] # Nil}
<1>1. ASSUME NEW e \in Edges PROVE Moved(Rec(e)) = Left(e)
  OBVIOUS
<1>2. ASSUME NEW e \in Edges
      PROVE  /\ Left(e).src = out[e]
             /\ Left(e).tgt # n
  BY DEF Left
<1>3. EdgesOf(in, out, t) = {Rec(e) : e \in Live}
  BY DEF EdgesOf
<1>4. CoverEdges(EdgesOf(in, out, t), {n}, m) =
        {d \in {Moved(e) : e \in EdgesOf(in, out, t)} : d.src \notin {n} /\ d.tgt \notin {n}}
  BY DEF CoverEdges
<1>5. {Moved(e) : e \in EdgesOf(in, out, t)} = {Moved(Rec(e)) : e \in Live}
  <2> HIDE DEF Rec, Moved, Live
  <2> QED
    BY <1>3
<1>6. {Moved(Rec(e)) : e \in Live} = {Left(e) : e \in Live}
  <2>1. \A e \in Live : Moved(Rec(e)) = Left(e)
    BY <1>1
  <2> HIDE DEF Rec, Moved, Left, Live
  <2> QED
    BY <2>1
<1>7. {d \in {Left(e) : e \in Live} : d.src \notin {n} /\ d.tgt \notin {n}} =
        {Left(e) : e \in {d \in Live : out[d] # n}}
  <2>1. \A e \in Live : Left(e).src = out[e] /\ Left(e).tgt # n
    BY <1>2
  <2> HIDE DEF Left, Live
  <2> QED
    BY <2>1
<1>8. {d \in Live : out[d] # n} = {d \in Edges : in[d] # Nil /\ out[d] # n}
  OBVIOUS
<1>9. Redirected(in, out, t, n, m) = {Left(e) : e \in {d \in Edges : in[d] # Nil /\ out[d] # n}}
  BY DEF Redirected
<1> QED
  BY <1>4, <1>5, <1>6, <1>7, <1>8, <1>9

\* Two ways to hold the edges that differ in the ones of n only.
SameBut(in, out, t, in2, out2, t2, n, m) ==
  \A e \in Edges :
    /\ in[e] # Nil /\ out[e] # n <=> in2[e] # Nil /\ out2[e] # n
    /\ in[e] # Nil /\ out[e] # n =>
         /\ out2[e] = out[e]
         /\ (IF in2[e] = n THEN m ELSE in2[e]) = (IF in[e] = n THEN m ELSE in[e])
         /\ (IF in2[e] = n THEN "abstract" ELSE t2[e]) =
              (IF in[e] = n THEN "abstract" ELSE t[e])

\* They are the same once n is covered by m.
LEMMA SameCovered ==
  ASSUME NEW in, NEW out, NEW t, NEW in2, NEW out2, NEW t2, NEW n, NEW m, n # m,
         SameBut(in, out, t, in2, out2, t2, n, m)
  PROVE  CoverEdges(EdgesOf(in2, out2, t2), {n}, m) = CoverEdges(EdgesOf(in, out, t), {n}, m)
<1> DEFINE Left(e) == [id |-> e, src |-> out[e], tgt |-> IF in[e] = n THEN m ELSE in[e],
                       type |-> IF in[e] = n THEN "abstract" ELSE t[e]]
           Left2(e) == [id |-> e, src |-> out2[e], tgt |-> IF in2[e] = n THEN m ELSE in2[e],
                        type |-> IF in2[e] = n THEN "abstract" ELSE t2[e]]
           Live == {d \in Edges : in[d] # Nil /\ out[d] # n}
           Live2 == {d \in Edges : in2[d] # Nil /\ out2[d] # n}
<1>1. Live2 = Live
  BY DEF SameBut
<1>2. \A e \in Live : Left2(e) = Left(e)
  BY DEF SameBut
<1>3. {Left2(e) : e \in Live2} = {Left(e) : e \in Live}
  <2> HIDE DEF Left, Left2, Live, Live2
  <2> QED
    BY <1>1, <1>2
<1>4. CoverEdges(EdgesOf(in, out, t), {n}, m) = Redirected(in, out, t, n, m)
  BY CoveredEdges
<1>6. Redirected(in, out, t, n, m) = {Left(e) : e \in Live}
  BY DEF Redirected
<1>5. CoverEdges(EdgesOf(in2, out2, t2), {n}, m) = Redirected(in2, out2, t2, n, m)
  BY CoveredEdges
<1>7. Redirected(in2, out2, t2, n, m) = {Left2(e) : e \in Live2}
  BY DEF Redirected
<1> HIDE DEF Left, Left2, Live, Live2
<1> QED
  BY <1>3, <1>4, <1>5, <1>6, <1>7

\* No edge is left on n.
LEMMA NoneCovered ==
  ASSUME NEW in, NEW out, NEW t, NEW n, NEW m, n # m,
         \A e \in Edges : in[e] # n /\ out[e] # n
  PROVE  CoverEdges(EdgesOf(in, out, t), {n}, m) = EdgesOf(in, out, t)
<1> DEFINE Left(e) == [id |-> e, src |-> out[e], tgt |-> IF in[e] = n THEN m ELSE in[e],
                       type |-> IF in[e] = n THEN "abstract" ELSE t[e]]
           Rec(e) == [id |-> e, src |-> out[e], tgt |-> in[e], type |-> t[e]]
           Live == {d \in Edges : in[d] # Nil /\ out[d] # n}
           Live2 == {d \in Edges : in[d] # Nil}
<1>1. Live2 = Live
  OBVIOUS
<1>2. \A e \in Live : Rec(e) = Left(e)
  OBVIOUS
<1>3. {Rec(e) : e \in Live2} = {Left(e) : e \in Live}
  <2> HIDE DEF Left, Rec, Live, Live2
  <2> QED
    BY <1>1, <1>2
<1>4. CoverEdges(EdgesOf(in, out, t), {n}, m) = Redirected(in, out, t, n, m)
  BY CoveredEdges
<1>6. Redirected(in, out, t, n, m) = {Left(e) : e \in Live}
  BY DEF Redirected
<1>5. EdgesOf(in, out, t) = {Rec(e) : e \in Live2}
  BY DEF EdgesOf
<1> HIDE DEF Left, Rec, Live, Live2
<1> QED
  BY <1>3, <1>4, <1>5, <1>6

StoredBar == IF Clearing THEN {} ELSE Stored \ (IF big = Nil THEN {} ELSE {small})
RootsBar == IF Clearing THEN {} ELSE roots
EdgesBar == IF Clearing THEN {}
            ELSE IF big = Nil THEN EdgeSet ELSE CoverEdges(EdgeSet, {small}, big)

\* The edges of the graph are those of the two lists.
LEMMA EdgeSetOf == EdgeSet = EdgesOf(list["incoming"].node, list["outgoing"].node, type)
BY DEF EdgeSet, EdgesOf

\* Nothing changes in the abstract graph.
Unchanged == StoredBar' = StoredBar /\ RootsBar' = RootsBar /\ EdgesBar' = EdgesBar

\* Adding a node or an edge to a graph that is not being changed.
LEMMA AddImplements ==
  ASSUME IInv
  PROVE  /\ \A n \in Nodes, root \in BOOLEAN : AddNode(n, root) => G!AddNode(n)
         /\ \A n \in Nodes : AddNodeThrows(n) => Unchanged
         /\ \A e \in Edges, n, m \in Nodes : AddEdge(e, n, m) => G!AddEdge(e, n, m)
<1>1. /\ TypeOK /\ Placed /\ Known /\ Ends
      /\ pc = "idle" => big = Nil /\ todo = {}
      /\ pc = "idle" => \A n \in Nodes : IsStored(n) => n \in Stored
  BY DEF IInv, Looping, Known
<1>2. ASSUME big = Nil, pc \in {"idle", "thrown"}, UNCHANGED big, pc' \in {"idle", "thrown"}
      PROVE  /\ StoredBar = Stored /\ RootsBar = roots /\ EdgesBar = EdgeSet
             /\ StoredBar' = Stored' /\ RootsBar' = roots' /\ EdgesBar' = EdgeSet'
  BY <1>2 DEF StoredBar, RootsBar, EdgesBar, Clearing, Tags
<1>3. ASSUME NEW n \in Nodes, NEW root \in BOOLEAN, AddNode(n, root)
      PROVE  G!AddNode(n)
  <2>1. /\ pc = "idle" /\ pc' = "idle" /\ big = Nil /\ UNCHANGED <<big, list, type>>
        /\ Inserted(n) /\ ~ IsStored(n)
    BY <1>1, <1>3 DEF AddNode, Inserted, IsNext
  <2>2. n \notin Stored /\ Stored' = Stored \cup {n}
    BY <1>1, <2>1, StoredFacts, InsertedPlaced
  <2>3. EdgeSet' = EdgeSet
    BY <2>1 DEF EdgeSet
  <2>4. roots' = roots \/ roots' = roots \cup {n}
    BY <1>3 DEF AddNode
  <2>5. /\ n \notin StoredBar /\ StoredBar' = StoredBar \cup {n}
        /\ RootsBar' = RootsBar \/ RootsBar' = RootsBar \cup {n}
        /\ EdgesBar' = EdgesBar
    BY <1>2, <2>1, <2>2, <2>3, <2>4
  <2> QED
    BY <2>5 DEF G!AddNode, StoredBar, RootsBar, EdgesBar
<1>4. ASSUME NEW n \in Nodes, AddNodeThrows(n) PROVE Unchanged
  <2>1. /\ pc = "idle" /\ pc' = "thrown" /\ big = Nil /\ UNCHANGED <<big, list, type, table, roots>>
    BY <1>1, <1>4 DEF AddNodeThrows
  <2>2. Stored' = Stored /\ EdgeSet' = EdgeSet
    BY <2>1 DEF Stored, EdgeSet
  <2> QED
    BY <1>2, <2>1, <2>2 DEF Unchanged
<1>5. ASSUME NEW e \in Edges, NEW n \in Nodes, NEW m \in Nodes, AddEdge(e, n, m)
      PROVE  G!AddEdge(e, n, m)
  <2> DEFINE in == list["incoming"].node
             out == list["outgoing"].node
             added == [id |-> e, src |-> n, tgt |-> m, type |-> "actual"]
             Rec(d) == [id |-> d, src |-> out[d], tgt |-> in[d], type |-> type[d]]
             Rec2(d) == [id |-> d, src |-> out'[d], tgt |-> in'[d], type |-> type'[d]]
             Live == {d \in Edges : in[d] # Nil}
  <2>1. /\ pc = "idle" /\ pc' = "idle" /\ big = Nil /\ UNCHANGED <<big, nodesTable>>
        /\ n \in Stored /\ m \in Stored /\ m # Nil
        /\ in[e] = Nil /\ type' = [type EXCEPT ![e] = "actual"]
    BY <1>1, <1>5, NilAssumption DEF AddEdge
  <2>2. in' = [in EXCEPT ![e] = m] /\ out' = [out EXCEPT ![e] = n]
    <3>1. /\ list["incoming"] \in ListType /\ Chained(list["incoming"])
          /\ list["outgoing"] \in ListType /\ Chained(list["outgoing"])
          /\ list["outgoing"].node[e] = Nil /\ list["incoming"].node[e] = Nil
      BY <1>1, <2>1, ListsType DEF IInv, Ends, Tags
    <3>2. /\ list'["incoming"] = AddToList(list["incoming"], m, e)
          /\ list'["outgoing"] = AddToList(list["outgoing"], n, e)
      BY <1>1, <1>5, ListsType DEF AddEdge, Tags
    <3>3. AddToList(list["incoming"], m, e).node = [list["incoming"].node EXCEPT ![e] = m]
      BY <3>1, AddedToList
    <3>4. AddToList(list["outgoing"], n, e).node = [list["outgoing"].node EXCEPT ![e] = n]
      BY <3>1, AddedToList
    <3> QED
      BY <3>2, <3>3, <3>4
  <2>3. in \in [Edges -> Nodes \cup {Nil}] /\ out \in [Edges -> Nodes \cup {Nil}]
    BY <1>1, ListsType DEF Tags
  <2>4. type \in [Edges -> EdgeTypes]
    BY <1>1 DEF TypeOK
  <2>5. EdgeSet = {Rec(d) : d \in Live}
    BY DEF EdgeSet
  <2>6. EdgeSet' = {Rec2(d) : d \in {d \in Edges : in'[d] # Nil}}
    BY DEF EdgeSet
  <2> HIDE DEF in, out
  <2>7. {d \in Edges : in'[d] # Nil} = Live \cup {e}
    BY <2>1, <2>2, <2>3
  <2>8. \A d \in Live : Rec2(d) = Rec(d)
    BY <2>1, <2>2, <2>3, <2>4
  <2>9. Rec2(e) = added
    BY <2>1, <2>2, <2>3, <2>4
  <2>10. \A d \in EdgeSet : d.id # e
    <3>1. \A d \in Live : Rec(d).id = d /\ d # e
      BY <2>1
    <3> HIDE DEF Rec, Live
    <3> QED
      BY <2>5, <3>1
  <2>11. EdgeSet' = EdgeSet \cup {added}
    <3> HIDE DEF Rec, Rec2, Live, added
    <3> QED
      BY <2>5, <2>6, <2>7, <2>8, <2>9
  <2>12. Stored' = Stored /\ roots' = roots
    BY <2>1, TableKept DEF nodesTable
  <2>13. /\ n \in StoredBar /\ m \in StoredBar /\ StoredBar' = StoredBar
         /\ RootsBar' = RootsBar
         /\ \A d \in EdgesBar : d.id # e
         /\ EdgesBar' = EdgesBar \cup {added}
    BY <1>2, <2>1, <2>10, <2>11, <2>12
  <2> QED
    BY <2>13 DEF G!AddEdge, StoredBar, RootsBar, EdgesBar
<1> QED
  BY <1>3, <1>4, <1>5

\* The ends of the edges.
Targets == list["incoming"].node
Sources == list["outgoing"].node

\* Covering a node takes effect when it starts: the loops that follow change
\* nothing that the algorithm sees.
LEMMA CoverImplements ==
  ASSUME IInv, IInv'
  PROVE  /\ \A n, m \in Nodes : Cover(n, m) => G!Cover(n, m)
         /\ MoveEdge \/ RemoveNext \/ RemoveNode => Unchanged
<1>1. /\ TypeOK /\ Placed /\ Known /\ Ends /\ Looping
      /\ \A tag \in Tags : Chained(list[tag])
  BY DEF IInv
<1>2. /\ Targets \in [Edges -> Nodes \cup {Nil}] /\ Sources \in [Edges -> Nodes \cup {Nil}]
      /\ type \in [Edges -> EdgeTypes]
  BY <1>1, ListsType DEF Tags, TypeOK, Targets, Sources
<1>3. /\ EdgeSet = EdgesOf(Targets, Sources, type)
      /\ EdgeSet' = EdgesOf(Targets', Sources', type')
  BY EdgeSetOf DEF EdgeSet, EdgesOf, Targets, Sources
<1>4. ASSUME big # Nil
      PROVE  /\ StoredBar = Stored \ {small} /\ RootsBar = roots
             /\ EdgesBar = CoverEdges(EdgesOf(Targets, Sources, type), {small}, big)
             /\ big # small /\ small # Nil /\ small \in Stored
  <2>1. big # small /\ small # Nil /\ small \in Stored
    BY <1>1, <1>4, NilAssumption, StoredFacts DEF Looping, TypeOK, Tags
  <2> QED
    BY <1>3, <1>4, <2>1 DEF StoredBar, RootsBar, EdgesBar, Clearing
<1>5. ASSUME big' # Nil
      PROVE  /\ StoredBar' = Stored' \ {small'} /\ RootsBar' = roots'
             /\ EdgesBar' = CoverEdges(EdgesOf(Targets', Sources', type'), {small'}, big')
  <2> QED
    BY <1>3, <1>5 DEF StoredBar, RootsBar, EdgesBar, Clearing
<1>6. ASSUME big = Nil, pc = "idle"
      PROVE  StoredBar = Stored /\ RootsBar = roots /\ EdgesBar = EdgesOf(Targets, Sources, type)
  <2> QED
    BY <1>3, <1>6 DEF StoredBar, RootsBar, EdgesBar, Clearing, Tags
<1>7. ASSUME big' = Nil, pc' = "idle"
      PROVE  /\ StoredBar' = Stored' /\ RootsBar' = roots'
             /\ EdgesBar' = EdgesOf(Targets', Sources', type')
  <2> QED
    BY <1>3, <1>7 DEF StoredBar, RootsBar, EdgesBar, Clearing, Tags
<1>8. ASSUME NEW n \in Nodes, NEW m \in Nodes, Cover(n, m) PROVE G!Cover(n, m)
  <2>1. /\ pc = "idle" /\ small' = n /\ big' = m /\ n # m /\ m # Nil /\ n \notin roots
        /\ UNCHANGED <<nodesTable, list>>
        /\ type' = [e \in Edges |-> IF e \in InList(list["incoming"], n) THEN "abstract"
                                    ELSE type[e]]
        /\ IsStored(n) /\ IsStored(m)
    BY <1>8, NilAssumption DEF Cover
  <2>2. big = Nil /\ n \in Stored /\ m \in Stored
    BY <1>1, <2>1 DEF Looping, Known
  <2>3. Stored' = Stored /\ roots' = roots
    BY <2>1, TableKept DEF nodesTable
  <2>4. \A e \in Edges : type'[e] = IF Targets[e] = n THEN "abstract" ELSE type[e]
    <3>1. InList(list["incoming"], n) = {e \in Edges : Targets[e] = n}
      BY <1>1, ListsType, InListMeaning DEF Tags, Targets
    <3> QED
      BY <2>1, <3>1
  <2>5. Targets' = Targets /\ Sources' = Sources
    BY <2>1 DEF Targets, Sources
  <2>6. CoverEdges(EdgesOf(Targets', Sources', type'), {n}, m)
          = CoverEdges(EdgesOf(Targets, Sources, type), {n}, m)
    <3>1. SameBut(Targets, Sources, type, Targets', Sources', type', n, m)
      BY <2>4, <2>5 DEF SameBut
    <3> QED
      BY <2>1, <3>1, SameCovered
  <2>7. /\ n \in StoredBar \ RootsBar /\ m \in StoredBar \ {n}
        /\ EdgesBar' = CoverEdges(EdgesBar, {n}, m)
        /\ StoredBar' = StoredBar \ {n} /\ RootsBar' = RootsBar
    BY <1>5, <1>6, <2>1, <2>2, <2>3, <2>6
  <2> QED
    BY <2>7 DEF G!Cover, G!CoverEdges, CoverEdges, StoredBar, RootsBar, EdgesBar
<1>9. ASSUME MoveEdge PROVE Unchanged
  <2>1. /\ it \in Edges /\ Targets[it] = small /\ Sources' = Sources
        /\ Targets' = [Targets EXCEPT ![it] = big]
    BY <1>9, MoveEdgeStep DEF Targets, Sources
  <2>2. small' = small /\ big' = big /\ type' = type /\ pc = "move" /\ UNCHANGED nodesTable
    BY <1>9 DEF MoveEdge
  <2>3. big # Nil /\ big' # Nil /\ \A e \in Edges : Targets[e] = small => type[e] = "abstract"
    BY <1>1, <2>2 DEF Looping, Targets
  <2>4. Stored' = Stored /\ roots' = roots
    BY <2>2, TableKept DEF nodesTable
  <2>5. \A e \in Edges : Targets'[e] = IF e = it THEN big ELSE Targets[e]
    BY <1>2, <2>1
  <2>6. big # small /\ small # Nil
    BY <1>4, <2>3
  <2>7. SameBut(Targets, Sources, type, Targets', Sources', type, small, big)
    BY <2>1, <2>3, <2>5, <2>6 DEF SameBut
  <2>8. CoverEdges(EdgesOf(Targets', Sources', type), {small}, big)
          = CoverEdges(EdgesOf(Targets, Sources, type), {small}, big)
    BY <2>6, <2>7, SameCovered
  <2>9. /\ StoredBar' = Stored' \ {small} /\ RootsBar' = roots'
        /\ EdgesBar' = CoverEdges(EdgesOf(Targets', Sources', type), {small}, big)
    BY <1>5, <2>2, <2>3
  <2>10. /\ StoredBar = Stored \ {small} /\ RootsBar = roots
         /\ EdgesBar = CoverEdges(EdgesOf(Targets, Sources, type), {small}, big)
    BY <1>4, <2>3
  <2> QED
    BY <2>4, <2>8, <2>9, <2>10 DEF Unchanged
<1>10. ASSUME RemoveNext PROVE Unchanged
  <2>1. /\ pc \in Tags /\ it \in Edges /\ list[pc].node[it] = small
        /\ Targets' = [Targets EXCEPT ![it] = Nil] /\ Sources' = [Sources EXCEPT ![it] = Nil]
    BY <1>10, RemoveNextStep DEF Tags, Targets, Sources
  <2>2. /\ small' = small /\ big' = big /\ type' = type /\ pc' = pc
        /\ UNCHANGED nodesTable
    BY <1>10 DEF RemoveNext
  <2>3. Stored' = Stored /\ roots' = roots
    BY <2>2, TableKept DEF nodesTable
  <2>4. CASE big = Nil
    <3>1. Clearing /\ Clearing'
      BY <2>1, <2>2, <2>4 DEF Clearing, Tags
    <3> QED
      BY <3>1 DEF Unchanged, StoredBar, RootsBar, EdgesBar
  <2>5. CASE big # Nil
    <3>1. pc = "outgoing"
      <4>1. pc = "incoming" =>
              list["incoming"].head[small] = Nil /\ it = list["incoming"].head[small]
        BY <1>1, <2>5 DEF Looping, Tags
      <4> QED
        BY <2>1, <4>1, NilAssumption DEF Tags
    <3>2. Sources[it] = small
      BY <2>1, <3>1 DEF Sources
    <3>3. \A e \in Edges : /\ Targets'[e] = IF e = it THEN Nil ELSE Targets[e]
                           /\ Sources'[e] = IF e = it THEN Nil ELSE Sources[e]
      BY <1>2, <2>1
    <3>4. big # small /\ small # Nil
      BY <1>4, <2>5
    <3>5. SameBut(Targets, Sources, type, Targets', Sources', type, small, big)
      BY <3>2, <3>3, <3>4 DEF SameBut
    <3>6. CoverEdges(EdgesOf(Targets', Sources', type), {small}, big)
            = CoverEdges(EdgesOf(Targets, Sources, type), {small}, big)
      BY <3>4, <3>5, SameCovered
    <3>7. /\ StoredBar' = Stored' \ {small} /\ RootsBar' = roots'
          /\ EdgesBar' = CoverEdges(EdgesOf(Targets', Sources', type), {small}, big)
      BY <1>5, <2>2, <2>5
    <3>8. /\ StoredBar = Stored \ {small} /\ RootsBar = roots
          /\ EdgesBar = CoverEdges(EdgesOf(Targets, Sources, type), {small}, big)
      BY <1>4, <2>5
    <3> QED
      BY <2>3, <3>6, <3>7, <3>8 DEF Unchanged
  <2> QED
    BY <2>4, <2>5
<1>11. ASSUME RemoveNode PROVE Unchanged
  <2>1. pc' = "idle" /\ big' = Nil /\ big # Nil /\ roots' = roots /\ list' = list /\ type' = type
    BY <1>11 DEF RemoveNode
  <2>2. /\ Stored' = Stored \ {small}
        /\ \A e \in Edges : Targets[e] # small /\ Sources[e] # small
    BY <1>11, RemoveNodeStep DEF Tags, Targets, Sources
  <2>3. Targets' = Targets /\ Sources' = Sources
    BY <2>1 DEF Targets, Sources
  <2>4. /\ big # small
        /\ StoredBar = Stored \ {small} /\ RootsBar = roots
        /\ EdgesBar = CoverEdges(EdgesOf(Targets, Sources, type), {small}, big)
    BY <1>4, <2>1
  <2>5. CoverEdges(EdgesOf(Targets, Sources, type), {small}, big) = EdgesOf(Targets, Sources, type)
    BY <2>2, <2>4, NoneCovered
  <2>6. /\ StoredBar' = Stored' /\ RootsBar' = roots'
        /\ EdgesBar' = EdgesOf(Targets', Sources', type')
    BY <1>7, <2>1
  <2> QED
    BY <2>1, <2>2, <2>3, <2>4, <2>5, <2>6 DEF Unchanged
<1> QED
  BY <1>8, <1>9, <1>10, <1>11

\* Clearing the graph takes effect when it starts, and the other steps of the
\* loops change nothing that the algorithm sees.
LEMMA LoopsImplement ==
  ASSUME IInv
  PROVE  /\ Clear => G!Clear
         /\ \/ EndMove \/ EndOutgoing \/ EndNode \/ EndClear
            \/ (\E n \in Nodes : ClearNode(n)) \/ UNCHANGED vars
            => Unchanged
<1>1. TypeOK /\ Looping
  BY DEF IInv
<1>2. ASSUME Clearing, Clearing' PROVE Unchanged
  BY <1>2 DEF Unchanged, StoredBar, RootsBar, EdgesBar
<1>3. ASSUME Clear PROVE G!Clear
  <2>1. big = Nil /\ big' = Nil /\ pc' = "clear"
    BY <1>1, <1>3 DEF Clear, Looping
  <2>2. Clearing'
    BY <2>1 DEF Clearing
  <2> QED
    BY <2>2 DEF G!Clear
<1>4. ASSUME EndMove PROVE Unchanged
  <2>1. /\ big # Nil /\ UNCHANGED <<list, type>> /\ small' = small /\ big' = big
        /\ Stored' = Stored /\ roots' = roots
    BY <1>1, <1>4, LoopStep DEF EndMove, Looping
  <2>2. EdgeSet' = EdgeSet
    BY <2>1 DEF EdgeSet
  <2>3. ~ Clearing /\ ~ Clearing'
    BY <2>1 DEF Clearing
  <2>4. StoredBar' = StoredBar
    BY <2>1, <2>3 DEF StoredBar
  <2>5. RootsBar' = RootsBar
    BY <2>1, <2>3 DEF RootsBar
  <2>6. EdgesBar' = EdgesBar
    BY <2>1, <2>2, <2>3 DEF EdgesBar
  <2> QED
    BY <2>4, <2>5, <2>6 DEF Unchanged
<1>5. ASSUME EndOutgoing PROVE Unchanged
  <2>1. /\ UNCHANGED <<list, type>> /\ small' = small /\ big' = big
        /\ Stored' = Stored /\ roots' = roots /\ pc = "outgoing" /\ pc' = "incoming"
    BY <1>5, LoopStep DEF EndOutgoing
  <2>2. EdgeSet' = EdgeSet
    BY <2>1 DEF EdgeSet
  <2>3. Clearing' = Clearing
    BY <2>1 DEF Clearing, Tags
  <2>4. StoredBar' = StoredBar
    BY <2>1, <2>3 DEF StoredBar
  <2>5. RootsBar' = RootsBar
    BY <2>1, <2>3 DEF RootsBar
  <2>6. EdgesBar' = EdgesBar
    BY <2>1, <2>2, <2>3 DEF EdgesBar
  <2> QED
    BY <2>4, <2>5, <2>6 DEF Unchanged
<1>6. ASSUME \/ EndNode \/ EndClear \/ \E n \in Nodes : ClearNode(n)
      PROVE  Unchanged
  <2>1. /\ pc \in Tags \cup {"clear"} /\ pc' \in Tags \cup {"clear", "cleared"}
        /\ big = Nil /\ big' = Nil
    BY <1>1, <1>6 DEF EndNode, EndClear, ClearNode, Looping, Tags
  <2> QED
    BY <1>2, <2>1 DEF Clearing
<1>7. ASSUME UNCHANGED vars PROVE Unchanged
  <2>1. /\ UNCHANGED <<list, type, pc, small, big>> /\ Stored' = Stored /\ roots' = roots
    BY <1>7, LoopStep DEF vars
  <2>2. EdgeSet' = EdgeSet
    BY <2>1 DEF EdgeSet
  <2>3. Clearing' = Clearing
    BY <2>1 DEF Clearing
  <2>4. StoredBar' = StoredBar
    BY <2>1, <2>3 DEF StoredBar
  <2>5. RootsBar' = RootsBar
    BY <2>1, <2>3 DEF RootsBar
  <2>6. EdgesBar' = EdgesBar
    BY <2>1, <2>2, <2>3 DEF EdgesBar
  <2> QED
    BY <2>4, <2>5, <2>6 DEF Unchanged
<1> QED
  BY <1>3, <1>4, <1>5, <1>6, <1>7

\* The empty graph.
LEMMA InitImplements == Init => G!Init
<1> SUFFICES ASSUME Init PROVE G!Init
  OBVIOUS
<1>1. /\ table = [k \in Buckets |-> <<>>] /\ roots = {} /\ pc = "idle" /\ big = Nil
      /\ list["incoming"].node = [e \in Edges |-> Nil]
  BY DEF Init, Tags
<1>2. Stored = {} /\ EdgeSet = {} /\ ~ Clearing
  BY <1>1 DEF Stored, EdgeSet, Clearing, Tags
<1> QED
  BY <1>1, <1>2 DEF G!Init

\* Every step is an operation of the abstract graph or changes nothing of it.
LEMMA StepImplements == IInv /\ IInv' /\ [Next]_vars => [G!Next]_(G!vars)
<1> SUFFICES ASSUME IInv, IInv', [Next]_vars PROVE [G!Next]_(G!vars)
  OBVIOUS
<1>1. Unchanged => [G!Next]_(G!vars)
  BY DEF Unchanged, StoredBar, RootsBar, EdgesBar, G!vars
<1>2. ASSUME NEW n \in Nodes, NEW root \in BOOLEAN, AddNode(n, root) PROVE [G!Next]_(G!vars)
  BY <1>2, AddImplements DEF G!Next
<1>3. ASSUME NEW n \in Nodes, AddNodeThrows(n) PROVE [G!Next]_(G!vars)
  BY <1>1, <1>3, AddImplements
<1>4. ASSUME NEW e \in Edges, NEW n \in Nodes, NEW m \in Nodes, AddEdge(e, n, m)
      PROVE  [G!Next]_(G!vars)
  BY <1>4, AddImplements DEF G!Next
<1>5. ASSUME NEW n \in Nodes, NEW m \in Nodes, Cover(n, m) PROVE [G!Next]_(G!vars)
  BY <1>5, CoverImplements DEF G!Next
<1>6. ASSUME Clear PROVE [G!Next]_(G!vars)
  BY <1>6, LoopsImplement DEF G!Next
<1>7. Loops \/ UNCHANGED vars => [G!Next]_(G!vars)
  BY <1>1, CoverImplements, LoopsImplement DEF Loops
<1> QED
  BY <1>2, <1>3, <1>4, <1>5, <1>6, <1>7 DEF Next

(* The pointers, the positions and the loops that remove edges one at a time *)
(* implement the graph that covreach relies on: no edge is lost, kept or     *)
(* redirected to the wrong node, and a covered node is gone.                 *)
THEOREM GraphImplemented == Spec => ImplementsGraph
<1>1. Spec => G!Init
  BY InitImplements DEF Spec
<1>2. Spec => [][G!Next]_(G!vars)
  BY Invariant, StepImplements, PTL DEF Spec
<1> QED
  BY <1>1, <1>2, PTL DEF ImplementsGraph, G!Spec
=============================================================================
