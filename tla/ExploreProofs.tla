---------------------------- MODULE ExploreProofs ----------------------------
(***************************************************************************)
(* Proofs about Explore, for every set of states and of transition systems:*)
(* when no insertion in the table of nodes fails, the output is the graph  *)
(* of the reachable states (WritesReachableGraph), and a search with a FIFO*)
(* container is breadth-first (BreadthFirst).                              *)
(***************************************************************************)
EXTENDS Explore, Loops, TLAPS

Nodes == [id : Nat, state : States]
Lines == [src : Nat, tgt : Nat, edge : Nat]

Elements(s) == {s[i] : i \in DOMAIN s}

-----------------------------------------------------------------------------
(* Lemmas about sequences. *)

\* A sequence with one more element.
LEMMA AppendFacts ==
  ASSUME NEW S, NEW s \in Seq(S), NEW x \in S
  PROVE  /\ Append(s, x) \in Seq(S)
         /\ Len(Append(s, x)) = Len(s) + 1 /\ Len(s) \in Nat
         /\ DOMAIN s = 1 .. Len(s)
         /\ DOMAIN Append(s, x) = 1 .. Len(s) + 1
         /\ \A i \in DOMAIN s : Append(s, x)[i] = s[i]
         /\ Append(s, x)[Len(s) + 1] = x
OBVIOUS

\* Appending to a list adds its element.
LEMMA AppendElements ==
  ASSUME NEW S, NEW s \in Seq(S), NEW x \in S
  PROVE  Elements(Append(s, x)) = Elements(s) \cup {x}
<1>1. \A i \in DOMAIN Append(s, x) : Append(s, x)[i] \in Elements(s) \cup {x}
  <2>1. \A i \in DOMAIN Append(s, x) : i \in DOMAIN s \/ i = Len(s) + 1
    BY AppendFacts
  <2> QED
    BY <2>1, AppendFacts DEF Elements
<1>2. \A i \in DOMAIN s : i \in DOMAIN Append(s, x) /\ Append(s, x)[i] = s[i]
  BY AppendFacts
<1>3. Len(s) + 1 \in DOMAIN Append(s, x) /\ Append(s, x)[Len(s) + 1] = x
  BY AppendFacts
<1> QED
  BY <1>1, <1>2, <1>3 DEF Elements

NoDuplicates(w) == \A i, j \in DOMAIN w : w[i] = w[j] => i = j

\* A container without duplicates loses its first node, and nothing else.
LEMMA RemoveFirstFacts ==
  ASSUME NEW S, NEW w \in Seq(S), w # <<>>
  PROVE  /\ First(w) \in S
         /\ RemoveFirst(w) \in Seq(S)
         /\ Elements(w) = Elements(RemoveFirst(w)) \cup {First(w)}
         /\ NoDuplicates(w) => /\ NoDuplicates(RemoveFirst(w))
                               /\ First(w) \notin Elements(RemoveFirst(w))
<1> DEFINE r == RemoveFirst(w)
<1>1. Len(w) \in Nat \ {0} /\ DOMAIN w = 1 .. Len(w)
  OBVIOUS
<1>2. CASE policy = "fifo"
  <2>1. r = Tail(w) /\ First(w) = w[1]
    BY <1>2 DEF RemoveFirst, First
  <2>2. /\ r \in Seq(S) /\ DOMAIN r = 1 .. Len(w) - 1
        /\ \A k \in DOMAIN r : r[k] = w[k + 1]
    BY <1>1, <2>1
  <2> HIDE DEF r
  <2>3. \A k \in DOMAIN r : k + 1 \in DOMAIN w /\ k + 1 # 1
    BY <1>1, <2>2
  <2>4. \A k \in DOMAIN w : k = 1 \/ (k - 1 \in DOMAIN r /\ r[k - 1] = w[k])
    BY <1>1, <2>2
  <2>5. Elements(w) = Elements(r) \cup {First(w)}
    <3>1. \A k \in DOMAIN w : w[k] \in Elements(r) \cup {First(w)}
      BY <1>1, <2>1, <2>4, <2>2 DEF Elements
    <3>2. \A k \in DOMAIN r : r[k] \in Elements(w)
      BY <2>2, <2>3 DEF Elements
    <3>3. First(w) \in Elements(w)
      BY <1>1, <2>1 DEF Elements
    <3> QED
      BY <3>1, <3>2, <3>3 DEF Elements
  <2>6. ASSUME NoDuplicates(w) PROVE NoDuplicates(r) /\ First(w) \notin Elements(r)
    <3>1. NoDuplicates(r)
      <4> SUFFICES ASSUME NEW i \in DOMAIN r, NEW j \in DOMAIN r, r[i] = r[j] PROVE i = j
        BY DEF NoDuplicates
      <4>1. i + 1 = j + 1
        BY <2>2, <2>3, <2>6 DEF NoDuplicates
      <4> QED
        BY <4>1, <1>1, <2>2
    <3>2. First(w) \notin Elements(r)
      BY <1>1, <2>1, <2>2, <2>3, <2>6 DEF Elements, NoDuplicates
    <3> QED
      BY <3>1, <3>2
  <2>7. First(w) \in S
    BY <1>1, <2>1
  <2> QED
    BY <2>2, <2>5, <2>6, <2>7 DEF r
<1>3. CASE policy # "fifo"
  <2>1. r = SubSeq(w, 1, Len(w) - 1) /\ First(w) = w[Len(w)]
    BY <1>3 DEF RemoveFirst, First
  <2>2. /\ r \in Seq(S) /\ DOMAIN r = 1 .. Len(w) - 1
        /\ \A k \in DOMAIN r : r[k] = w[k]
    BY <1>1, <2>1
  <2> HIDE DEF r
  <2>3. \A k \in DOMAIN r : k \in DOMAIN w /\ k # Len(w)
    BY <1>1, <2>2
  <2>4. \A k \in DOMAIN w : k = Len(w) \/ k \in DOMAIN r
    BY <1>1, <2>2
  <2>5. Elements(w) = Elements(r) \cup {First(w)}
    <3>1. \A k \in DOMAIN w : w[k] \in Elements(r) \cup {First(w)}
      BY <1>1, <2>1, <2>4, <2>2 DEF Elements
    <3>2. \A k \in DOMAIN r : r[k] \in Elements(w)
      BY <2>2, <2>3 DEF Elements
    <3>3. First(w) \in Elements(w)
      BY <1>1, <2>1 DEF Elements
    <3> QED
      BY <3>1, <3>2, <3>3 DEF Elements
  <2>6. ASSUME NoDuplicates(w) PROVE NoDuplicates(r) /\ First(w) \notin Elements(r)
    BY <1>1, <2>1, <2>2, <2>3, <2>6 DEF Elements, NoDuplicates
  <2>7. First(w) \in S
    BY <1>1, <2>1
  <2> QED
    BY <2>2, <2>5, <2>6, <2>7 DEF r
<1> QED
  BY <1>2, <1>3

-----------------------------------------------------------------------------
(* Types.  ASSUME MaxFailures = 0 stands for a table that never fails.       *)

\* The initial states and transitions of a system are outcomes.
LEMMA SystemType ==
  ASSUME TypeOK
  PROVE  /\ ts.init \in Seq(Promise!Outcomes)
         /\ \A s \in States : ts.succ[s] \in Seq(Promise!Outcomes)
BY TransitionSystemsAssumption DEF TypeOK

\* What the initial iterator gives is an outcome the promise knows.
LEMMA InitialOutcome ==
  ASSUME TypeOK, it \in DOMAIN ts.init
  PROVE  ts.init[it] \in Promise!Outcomes /\ ts.init[it].state \in States
<1>1. ts.init \in Seq(Promise!Outcomes)
  BY SystemType
<1>2. ts.init[it] \in Promise!Outcomes
  BY <1>1
<1> QED
  BY <1>2 DEF Promise!Outcomes

\* And so is what the iterator over the edges of a node gives.
LEMMA NextOutcome ==
  ASSUME TypeOK, pc = "edges", it \in DOMAIN Outgoing
  PROVE  /\ node \in Pointers /\ heap[node] \in Nodes
         /\ Outgoing[it] \in Promise!Outcomes /\ Outgoing[it].state \in States
<1>1. node \in DOMAIN heap
  BY DEF TypeOK, Pointers
<1>2. heap \in Seq(Nodes)
  BY DEF TypeOK, Nodes
<1>3. heap[node] \in Nodes
  BY <1>1, <1>2
<1>4. Outgoing \in Seq(Promise!Outcomes)
  BY <1>3, SystemType DEF Outgoing, Nodes
<1>5. Outgoing[it] \in Promise!Outcomes
  BY <1>4
<1> QED
  BY <1>1, <1>3, <1>5 DEF Promise!Outcomes, Pointers

\* What building a node and adding it to the graph do.
Adds(s) ==
  /\ heap' = Append(heap, [id |-> node_id, state |-> s])
  /\ node_id' = node_id + 1
  /\ found' = found \cup {NewNode}
  /\ nodeLines' = Append(nodeLines, [id |-> node_id, state |-> s])
  /\ waiting' = Append(waiting, NewNode)
  /\ failures' = failures
  /\ NodeFor(s) = NewNode

Meets(s) ==
  /\ UNCHANGED <<heap, node_id, found, nodeLines, waiting, failures>>
  /\ NodeFor(s) \in found
  /\ heap[NodeFor(s)].state = s

\* Building a node and adding it adds it, or meets the one the graph has.
LEMMA BuildFacts ==
  ASSUME MaxFailures = 0, TypeOK, NEW s \in States, Build(s), AddNode(s)
  PROVE  (IsNew(s) /\ Adds(s)) \/ (~ IsNew(s) /\ Meets(s))
<1>1. ~ (failures < MaxFailures)
  BY DEF TypeOK
<1>2. CASE IsNew(s)
  BY <1>1, <1>2 DEF Build, AddNode, Adds, NodeFor, Insert
<1>3. CASE ~ IsNew(s)
  <2>1. NodeFor(s) \in Equivalent(s)
    BY <1>3 DEF IsNew, NodeFor
  <2> QED
    BY <1>3, <2>1 DEF Build, AddNode, Meets, Equivalent
<1> QED
  BY <1>2, <1>3

\* Either keeps the types of the graph.
LEMMA BuildType ==
  ASSUME TypeOK, NEW s \in States, Adds(s) \/ Meets(s)
  PROVE  /\ heap' \in Seq(Nodes) /\ node_id' = Len(heap') /\ found' \subseteq Pointers'
         /\ waiting' \in Seq(Pointers') /\ nodeLines' \in Seq(Nodes)
         /\ Pointers \subseteq Pointers' /\ NodeFor(s) \in Pointers'
         /\ failures' = failures
         /\ \A n \in Pointers : heap'[n] = heap[n]
<1>1. CASE Adds(s)
  <2>1. [id |-> node_id, state |-> s] \in Nodes /\ heap \in Seq(Nodes) /\ nodeLines \in Seq(Nodes)
    BY DEF TypeOK, Nodes
  <2>2. /\ heap' \in Seq(Nodes) /\ Len(heap') = Len(heap) + 1
        /\ Pointers = 1 .. Len(heap) /\ Pointers' = 1 .. Len(heap) + 1
        /\ \A n \in Pointers : heap'[n] = heap[n]
    BY <1>1, <2>1, AppendFacts DEF Adds, Pointers
  <2>3. Len(heap) \in Nat
    BY <2>1
  <2>4. NewNode \in Pointers' /\ Pointers \subseteq Pointers'
    BY <2>2, <2>3 DEF NewNode
  <2>5. waiting \in Seq(Pointers')
    BY <2>4 DEF TypeOK
  <2> QED
    BY <1>1, <2>1, <2>2, <2>4, <2>5, AppendFacts DEF Adds, TypeOK
<1>2. CASE Meets(s)
  BY <1>2 DEF Meets, TypeOK, Pointers, Nodes
<1> QED
  BY <1>1, <1>2

\* The types hold initially.
LEMMA InitType == Init => TypeOK
<1> SUFFICES ASSUME Init PROVE TypeOK
  OBVIOUS
<1>1. finalized \in BOOLEAN
  BY DEF Init
<1>2. heap \in Seq(Nodes) /\ nodeLines \in Seq(Nodes) /\ edgeLines \in Seq(Lines)
  BY DEF Init
<1>3. waiting \in Seq(Pointers) /\ visited \in Seq(Pointers) /\ node_id = Len(heap)
  BY DEF Init
<1> QED
  BY <1>1, <1>2, <1>3, MaxFailuresAssumption DEF Init, TypeOK, Nodes, Lines

\* And every step of the exploration keeps them.
LEMMA TypeStep ==
  ASSUME MaxFailures = 0, TypeOK, [Next]_vars
  PROVE  TypeOK'
<1>1. CASE InitialNode
  <2>1. ts.init[it].state \in States
    BY <1>1, InitialOutcome DEF InitialNode
  <2>2. Adds(ts.init[it].state) \/ Meets(ts.init[it].state)
    BY <1>1, <2>1, BuildFacts DEF InitialNode
  <2>3. visited \in Seq(Pointers') /\ node \in Pointers' \cup {0}
    BY <2>1, <2>2, BuildType DEF TypeOK
  <2>4. finalized' \in BOOLEAN /\ failures' \in 0 .. MaxFailures /\ it' \in Nat \ {0}
    BY <1>1, <2>1, <2>2, BuildType DEF InitialNode, TypeOK
  <2>5. /\ heap' \in Seq(Nodes) /\ node_id' = Len(heap') /\ found' \subseteq Pointers'
        /\ waiting' \in Seq(Pointers') /\ nodeLines' \in Seq(Nodes)
    BY <2>1, <2>2, BuildType
  <2> QED
    BY <1>1, <2>3, <2>4, <2>5 DEF InitialNode, TypeOK, Nodes
<1>2. CASE NextNode
  <2> DEFINE s == Outgoing[it].state
  <2>1. node \in Pointers /\ heap[node] \in Nodes /\ s \in States
    BY <1>2, NextOutcome DEF NextNode
  <2>2. Adds(s) \/ Meets(s)
    BY <1>2, <2>1, BuildFacts DEF NextNode
  <2>3. visited \in Seq(Pointers') /\ node \in Pointers'
    BY <2>1, <2>2, BuildType DEF TypeOK
  <2>4. heap'[NodeFor(s)].id \in Nat
    <3>1. heap' \in Seq(Nodes) /\ NodeFor(s) \in DOMAIN heap'
      BY <2>1, <2>2, BuildType DEF Pointers
    <3>2. heap'[NodeFor(s)] \in Nodes
      BY <3>1
    <3> QED
      BY <3>2 DEF Nodes
  <2>5. [src |-> heap[node].id, tgt |-> heap'[NodeFor(s)].id, edge |-> it] \in Lines
    BY <2>1, <2>4 DEF TypeOK, Nodes, Lines
  <2>6. edgeLines' \in Seq(Lines)
    BY <1>2, <2>5, AppendFacts DEF NextNode, TypeOK, Lines
  <2>7. finalized' \in BOOLEAN /\ failures' \in 0 .. MaxFailures /\ it' \in Nat \ {0}
    BY <1>2, <2>1, <2>2, BuildType DEF NextNode, TypeOK
  <2>8. /\ heap' \in Seq(Nodes) /\ node_id' = Len(heap') /\ found' \subseteq Pointers'
        /\ waiting' \in Seq(Pointers') /\ nodeLines' \in Seq(Nodes)
    BY <2>1, <2>2, BuildType
  <2>9. node' = node /\ visited' = visited /\ pc' = "edges" /\ ts' = ts /\ policy' = policy
    BY <1>2 DEF NextNode
  <2>10. node' # 0
    BY <2>1, <2>9 DEF TypeOK, Pointers
  <2> QED
    BY <2>3, <2>6, <2>7, <2>8, <2>9, <2>10 DEF TypeOK, Nodes, Lines
<1>3. CASE Visit
  <2>1. First(waiting) \in Pointers /\ RemoveFirst(waiting) \in Seq(Pointers)
    BY <1>3, RemoveFirstFacts DEF Visit, TypeOK
  <2>2. 0 \notin Pointers
    BY DEF TypeOK, Pointers
  <2>3. /\ visited' \in Seq(Pointers) /\ waiting' \in Seq(Pointers)
        /\ node' \in Pointers /\ node' # 0 /\ it' = 1 /\ pc' = "edges"
        /\ ts' = ts /\ policy' = policy /\ UNCHANGED builder /\ UNCHANGED graph
    BY <1>3, <2>1, <2>2, AppendFacts DEF Visit, TypeOK
  <2>4. finalized' \in BOOLEAN
    BY <2>3 DEF TypeOK, graph
  <2> QED
    BY <2>3, <2>4 DEF TypeOK, Pointers, builder, graph
<1>4. CASE \/ RefuseInitial \/ EndInitial \/ RefuseNext \/ EndEdges
  BY <1>4 DEF RefuseInitial, EndInitial, RefuseNext, EndEdges, TypeOK, Pointers, builder, graph
<1>5. CASE InitialRaises \/ NextRaises \/ Done
  <2>1. /\ found' = {} /\ waiting' = <<>> /\ finalized' = TRUE /\ pc' \in {"done", "failed"}
        /\ UNCHANGED <<ts, policy, it, node, visited, heap, node_id, nodeLines, edgeLines, failures>>
    BY <1>5 DEF InitialRaises, NextRaises, Fail, Done, builder, TypeOK
  <2>2. finalized' \in BOOLEAN
    BY <2>1
  <2>3. waiting' \in Seq(Pointers)
    BY <2>1
  <2> QED
    BY <2>1, <2>2, <2>3 DEF TypeOK, Pointers
<1>6. CASE UNCHANGED vars
  BY <1>6 DEF vars, builder, graph, TypeOK, Pointers
<1> QED
  BY <1>1, <1>2, <1>3, <1>4, <1>5, <1>6 DEF Next

-----------------------------------------------------------------------------
(* The inductive invariant. *)

Running == pc \in {"initial", "waiting", "edges"}

\* The nodes are written as they are kept, under the rank of their creation, and
\* the table holds them all: one for each state.
Numbered ==
  /\ nodeLines = heap
  /\ \A n \in Pointers : heap[n].id = n - 1
  /\ \A m, n \in Pointers : heap[m].state = heap[n].state => m = n
  /\ Running => found = Pointers

\* The k-th transition of node n has been written.
Written(n, k) ==
  \E j \in DOMAIN edgeLines : edgeLines[j].src = n - 1 /\ edgeLines[j].edge = k

Handled(n, K) ==
  \A k \in DOMAIN ts.succ[heap[n].state] :
    k \in K /\ IsOk(ts.succ[heap[n].state][k]) => Written(n, k)

Sources == \A j \in DOMAIN edgeLines : edgeLines[j].src + 1 \in Pointers

\* Nothing has been written of a waiting node, and the current one is no longer waiting.
Fresh ==
  /\ NoDuplicates(waiting)
  /\ \A n \in Elements(waiting) : \A k \in Nat : ~ Written(n, k)
  /\ pc = "edges" =>
       /\ node \notin Elements(waiting)
       /\ \A k \in Nat : Written(node, k) => k < it

\* The edges of a node have been written, up to the iterator for the current one,
\* unless the node is waiting.
Progress ==
  Running => \A n \in Pointers :
    \/ n \in Elements(waiting)
    \/ pc = "edges" /\ n = node /\ Handled(n, 1 .. it - 1)
    \/ (pc = "edges" => n # node) /\ Handled(n, Nat)

\* The initial states have been kept, up to the iterator.
InitialKept ==
  Running => \A i \in DOMAIN ts.init :
    (pc = "initial" => i < it) /\ IsOk(ts.init[i]) =>
      \E n \in Pointers : heap[n].state = ts.init[i].state

IInv == TypeOK /\ Numbered /\ Sources /\ Fresh /\ Progress /\ InitialKept

\* The invariant holds initially.
LEMMA IInvInit == Init => IInv
<1> SUFFICES ASSUME Init PROVE IInv
  OBVIOUS
<1>1. Elements(waiting) = {} /\ NoDuplicates(waiting)
  BY DEF Init, Elements, NoDuplicates
<1>2. Pointers = {} /\ DOMAIN edgeLines = {} /\ nodeLines = heap /\ found = {}
  BY DEF Init, Pointers
<1>3. pc = "initial" /\ it = 1
  BY DEF Init
<1>4. InitialKept
  <2> SUFFICES ASSUME NEW i \in DOMAIN ts.init, i < 1 PROVE FALSE
    BY <1>3 DEF InitialKept
  <2>1. ts.init \in Seq(Promise!Outcomes)
    BY InitType, SystemType
  <2> QED
    BY <2>1
<1> QED
  BY <1>1, <1>2, <1>3, <1>4, InitType DEF IInv, Numbered, Sources, Fresh, Progress, Written

\* A node that is added comes last.
LEMMA AddsFacts ==
  ASSUME TypeOK, NEW s \in States, Adds(s)
  PROVE  /\ NewNode \notin Pointers /\ Pointers' = Pointers \cup {NewNode}
         /\ \A n \in Pointers : heap'[n] = heap[n]
         /\ heap'[NewNode].id = NewNode - 1 /\ heap'[NewNode].state = s
         /\ Elements(waiting') = Elements(waiting) \cup {NewNode}
         /\ NewNode \notin Elements(waiting)
         /\ NoDuplicates(waiting) => NoDuplicates(waiting')
<1> DEFINE x == [id |-> node_id, state |-> s]
<1>1. heap \in Seq(Nodes) /\ x \in Nodes /\ Len(heap) \in Nat
  BY DEF TypeOK, Nodes
<1>2. /\ DOMAIN heap' = 1 .. Len(heap) + 1 /\ DOMAIN heap = 1 .. Len(heap)
      /\ \A n \in DOMAIN heap : heap'[n] = heap[n]
      /\ heap'[Len(heap) + 1] = x
  BY <1>1, AppendFacts DEF Adds
<1>3. waiting \in Seq(Pointers) /\ NewNode \notin Pointers
  BY <1>1, <1>2 DEF TypeOK, Pointers, NewNode
<1>4. NewNode \notin Elements(waiting)
  BY <1>3 DEF Elements
<1>5. waiting \in Seq(Pointers \cup {NewNode}) /\ waiting' = Append(waiting, NewNode)
  BY <1>3 DEF Adds
<1>6. Elements(waiting') = Elements(waiting) \cup {NewNode}
  BY <1>5, AppendElements
<1>7. ASSUME NoDuplicates(waiting) PROVE NoDuplicates(waiting')
  <2>1. /\ DOMAIN waiting' = 1 .. Len(waiting) + 1 /\ DOMAIN waiting = 1 .. Len(waiting)
        /\ Len(waiting) \in Nat
        /\ \A i \in DOMAIN waiting : waiting'[i] = waiting[i]
        /\ waiting'[Len(waiting) + 1] = NewNode
    BY <1>5, AppendFacts
  <2>2. \A i \in DOMAIN waiting : waiting[i] # NewNode
    BY <1>4 DEF Elements
  <2>3. \A i \in DOMAIN waiting' : i \in DOMAIN waiting \/ i = Len(waiting) + 1
    BY <2>1
  <2> QED
    BY <1>7, <2>1, <2>2, <2>3 DEF NoDuplicates
<1>8. x.id = NewNode - 1 /\ x.state = s
  BY <1>1 DEF TypeOK, NewNode
<1> QED
  BY <1>2, <1>3, <1>4, <1>6, <1>7, <1>8 DEF Pointers, NewNode

\* Building a state keeps one node for each state, numbered from 0.
LEMMA NumberedBuild ==
  ASSUME TypeOK, Numbered, found = Pointers, NEW s \in States,
         (IsNew(s) /\ Adds(s)) \/ (~ IsNew(s) /\ Meets(s))
  PROVE  Numbered' /\ \E n \in Pointers' : heap'[n].state = s
<1>1. CASE IsNew(s) /\ Adds(s)
  <2>1. \A n \in Pointers : heap[n].state # s
    BY <1>1 DEF IsNew, Equivalent
  <2>2. nodeLines' = heap' /\ found' = Pointers'
    BY <1>1, AddsFacts DEF Adds, Numbered
  <2> DEFINE new == NewNode
  <2>6. /\ new \notin Pointers /\ Pointers' = Pointers \cup {new}
        /\ \A n \in Pointers : heap'[n] = heap[n]
        /\ heap'[new].id = new - 1 /\ heap'[new].state = s
    BY <1>1, AddsFacts
  <2> HIDE DEF new
  <2>3. \A n \in Pointers' : heap'[n].id = n - 1
    BY <2>6 DEF Numbered
  <2>4. \A m, n \in Pointers' : heap'[m].state = heap'[n].state => m = n
    BY <2>1, <2>6 DEF Numbered
  <2>5. new \in Pointers' /\ heap'[new].state = s
    BY <2>6
  <2> QED
    BY <2>2, <2>3, <2>4, <2>5 DEF Numbered
<1>2. CASE Meets(s)
  <2>1. NodeFor(s) \in Pointers' /\ heap'[NodeFor(s)].state = s
    BY <1>2 DEF Meets, Pointers
  <2> QED
    BY <1>2, <2>1 DEF Meets, Numbered, Pointers
<1> QED
  BY <1>1, <1>2

\* What waits, and what has been kept, after a state has been built.
LEMMA QueueBuild ==
  ASSUME TypeOK, NEW s \in States, Adds(s) \/ Meets(s)
  PROVE  /\ NoDuplicates(waiting) => NoDuplicates(waiting')
         /\ Elements(waiting') = Elements(waiting) \cup (Pointers' \ Pointers)
         /\ Pointers \subseteq Pointers'
         /\ \A n \in Pointers : heap'[n] = heap[n]
         /\ \A n \in Pointers' \ Pointers : n = Len(heap) + 1
<1>1. CASE Adds(s)
  <2> DEFINE new == NewNode
  <2>1. /\ new \notin Pointers /\ Pointers' = Pointers \cup {new}
        /\ \A n \in Pointers : heap'[n] = heap[n]
        /\ Elements(waiting') = Elements(waiting) \cup {new}
        /\ NoDuplicates(waiting) => NoDuplicates(waiting')
    BY <1>1, AddsFacts
  <2>2. new = Len(heap) + 1
    BY DEF NewNode
  <2> QED
    BY <2>1, <2>2
<1>2. CASE Meets(s)
  BY <1>2 DEF Meets, Pointers
<1> QED
  BY <1>1, <1>2

\* What has been written stays written.
LEMMA WrittenSame ==
  ASSUME edgeLines' = edgeLines, NEW n, NEW k
  PROVE  Written(n, k)' = Written(n, k)
BY DEF Written

\* Pointers are ranks, and edges name nodes by naturals.
LEMMA TypeFacts ==
  ASSUME TypeOK
  PROVE  /\ Len(heap) \in Nat /\ Pointers = 1 .. Len(heap) /\ edgeLines \in Seq(Lines)
         /\ \A j \in DOMAIN edgeLines : edgeLines[j].src \in Nat
<1>1. heap \in Seq(Nodes) /\ edgeLines \in Seq(Lines)
  BY DEF TypeOK, Nodes, Lines
<1>2. \A j \in DOMAIN edgeLines : edgeLines[j] \in Lines
  BY <1>1
<1> QED
  BY <1>1, <1>2 DEF Pointers, Lines

\* An iteration over the initial states.
LEMMA InitialNodeStep ==
  ASSUME MaxFailures = 0, IInv, InitialNode, TypeOK'
  PROVE  IInv'
<1> DEFINE s == ts.init[it].state
<1>1. s \in States /\ ((IsNew(s) /\ Adds(s)) \/ (~ IsNew(s) /\ Meets(s)))
  <2>1. TypeOK /\ it \in DOMAIN ts.init /\ Build(s) /\ AddNode(s)
    BY DEF InitialNode, IInv
  <2>2. s \in States
    BY <2>1, InitialOutcome
  <2> QED
    BY <2>1, <2>2, BuildFacts
<1>2. Numbered' /\ \E n \in Pointers' : heap'[n].state = s
  BY <1>1, NumberedBuild DEF IInv, Numbered, Running, InitialNode
<1>3. /\ NoDuplicates(waiting) => NoDuplicates(waiting')
      /\ Elements(waiting') = Elements(waiting) \cup (Pointers' \ Pointers)
      /\ Pointers \subseteq Pointers'
      /\ \A n \in Pointers : heap'[n] = heap[n]
      /\ \A n \in Pointers' \ Pointers : n = Len(heap) + 1
  BY <1>1, QueueBuild DEF IInv
<1>4. /\ pc = "initial" /\ pc' = "initial" /\ ts' = ts /\ edgeLines' = edgeLines
      /\ it' = it + 1 /\ it \in DOMAIN ts.init
  BY DEF InitialNode
<1>5. Sources'
  BY <1>3, <1>4 DEF IInv, Sources
<1>6. Fresh'
  <2>1. ASSUME NEW n \in Pointers' \ Pointers, NEW k \in Nat PROVE ~ Written(n, k)
    <3>1. \A j \in DOMAIN edgeLines : edgeLines[j].src + 1 # n
      BY <2>1 DEF IInv, Sources
    <3>2. /\ n = Len(heap) + 1 /\ Len(heap) \in Nat
          /\ \A j \in DOMAIN edgeLines : edgeLines[j].src \in Nat
      BY <1>3, <2>1, TypeFacts DEF IInv
    <3> QED
      BY <3>1, <3>2 DEF Written
  <2> QED
    BY <1>3, <1>4, <2>1, WrittenSame DEF IInv, Fresh
<1>7. Progress'
  BY <1>3, <1>4, WrittenSame DEF IInv, Progress, Running, Handled
<1>8. InitialKept'
  <2> SUFFICES ASSUME NEW i \in DOMAIN ts.init, i < it + 1, IsOk(ts.init[i])
               PROVE  \E n \in Pointers' : heap'[n].state = ts.init[i].state
    BY <1>4 DEF InitialKept, IsOk
  <2>1. CASE i = it
    BY <1>2, <2>1
  <2>2. CASE i # it
    <3>1. i < it
      <4>1. ts.init \in Seq(Promise!Outcomes) /\ it \in Nat
        BY SystemType DEF IInv, TypeOK
      <4> QED
        BY <2>2, <4>1
    <3> QED
      BY <1>3, <1>4, <3>1 DEF IInv, InitialKept, Running
  <2> QED
    BY <2>1, <2>2
<1> QED
  BY <1>2, <1>5, <1>6, <1>7, <1>8 DEF IInv

\* An iteration over the edges of a node.
LEMMA NextNodeStep ==
  ASSUME MaxFailures = 0, IInv, NextNode, TypeOK'
  PROVE  IInv'
<1> DEFINE s == Outgoing[it].state
           e == [src |-> heap[node].id, tgt |-> heap'[NodeFor(s)].id, edge |-> it]
<1>1. node \in Pointers /\ s \in States /\ ((IsNew(s) /\ Adds(s)) \/ (~ IsNew(s) /\ Meets(s)))
  <2>1. TypeOK /\ pc = "edges" /\ it \in DOMAIN Outgoing /\ Build(s) /\ AddNode(s)
    BY DEF NextNode, IInv
  <2>2. node \in Pointers /\ s \in States
    BY <2>1, NextOutcome
  <2> QED
    BY <2>1, <2>2, BuildFacts
<1>2. Numbered'
  BY <1>1, NumberedBuild DEF IInv, Numbered, Running, NextNode
<1>3. /\ NoDuplicates(waiting) => NoDuplicates(waiting')
      /\ Elements(waiting') = Elements(waiting) \cup (Pointers' \ Pointers)
      /\ Pointers \subseteq Pointers'
      /\ \A n \in Pointers : heap'[n] = heap[n]
      /\ \A n \in Pointers' \ Pointers : n = Len(heap) + 1
  BY <1>1, QueueBuild DEF IInv
<1>4. /\ pc = "edges" /\ pc' = "edges" /\ ts' = ts /\ node' = node
      /\ it' = it + 1 /\ it \in Nat /\ edgeLines' = Append(edgeLines, e)
  BY DEF NextNode, IInv, TypeOK
<1>5. e.src = node - 1 /\ e.edge = it /\ node - 1 \in Nat /\ node \in Nat
  <2>1. heap[node].id = node - 1
    BY <1>1 DEF IInv, Numbered
  <2>2. node - 1 \in Nat /\ node \in Nat
    BY <1>1, TypeFacts DEF IInv
  <2> QED
    BY <2>1, <2>2
<1>6. /\ DOMAIN edgeLines' = 1 .. Len(edgeLines) + 1 /\ DOMAIN edgeLines = 1 .. Len(edgeLines)
      /\ Len(edgeLines) \in Nat
      /\ \A j \in DOMAIN edgeLines : edgeLines'[j] = edgeLines[j]
      /\ edgeLines'[Len(edgeLines) + 1] = e
      /\ \A j \in DOMAIN edgeLines : edgeLines[j].src \in Nat
  <2>1. edgeLines \in Seq(Lines) /\ \A j \in DOMAIN edgeLines : edgeLines[j].src \in Nat
    BY TypeFacts DEF IInv
  <2> HIDE DEF e
  <2>2. edgeLines \in Seq(Lines \cup {e}) /\ e \in Lines \cup {e}
    BY <2>1
  <2> QED
    BY <1>4, <2>1, <2>2, AppendFacts
<1> HIDE DEF e
<1>7. ASSUME NEW n, NEW k
      PROVE  Written(n, k)' <=> Written(n, k) \/ (n - 1 = node - 1 /\ k = it)
  <2>1. \A j \in DOMAIN edgeLines' : j \in DOMAIN edgeLines \/ j = Len(edgeLines) + 1
    BY <1>6
  <2>2. DOMAIN edgeLines \subseteq DOMAIN edgeLines' /\ Len(edgeLines) + 1 \in DOMAIN edgeLines'
    BY <1>6
  <2> QED
    BY <1>5, <1>6, <2>1, <2>2 DEF Written
<1>8. Sources'
  <2>1. e.src + 1 \in Pointers'
    BY <1>1, <1>3, <1>5
  <2>2. \A j \in DOMAIN edgeLines' : j \in DOMAIN edgeLines \/ j = Len(edgeLines) + 1
    BY <1>6
  <2> QED
    BY <1>3, <1>6, <2>1, <2>2 DEF IInv, Sources
<1>9. Pointers \subseteq Nat /\ \A n \in Pointers' \ Pointers : n \in Nat /\ n \notin Pointers
  BY <1>3, TypeFacts DEF IInv
<1>10. Fresh'
  <2>1. ASSUME NEW n \in Pointers' \ Pointers, NEW k \in Nat PROVE ~ Written(n, k) /\ n # node
    <3>1. \A j \in DOMAIN edgeLines : edgeLines[j].src + 1 # n
      BY <2>1 DEF IInv, Sources
    <3>2. n \in Nat /\ n # node
      BY <1>1, <1>9, <2>1
    <3> QED
      BY <1>6, <3>1, <3>2 DEF Written
  <2>2. node \notin Elements(waiting')
    BY <1>1, <1>3, <1>4 DEF IInv, Fresh
  <2>3. \A n \in Elements(waiting') : n \in Nat /\ n # node
    <3>1. Elements(waiting) \subseteq Pointers
      BY DEF IInv, TypeOK, Elements
    <3> QED
      BY <1>3, <1>9, <2>2, <3>1
  <2>4. \A n \in Elements(waiting') : \A k \in Nat : ~ Written(n, k)'
    BY <1>1, <1>3, <1>7, <1>9, <2>1, <2>3 DEF IInv, Fresh
  <2>5. \A k \in Nat : Written(node, k)' => k < it + 1
    BY <1>4, <1>7 DEF IInv, Fresh
  <2> QED
    BY <1>3, <1>4, <2>2, <2>4, <2>5 DEF IInv, Fresh
<1>11. Progress'
  <2> DEFINE Kept(n, K) ==
        \A k \in DOMAIN ts.succ[heap'[n].state] :
          k \in K /\ IsOk(ts.succ[heap'[n].state][k]) => Written(n, k)'
  <2> SUFFICES ASSUME NEW n \in Pointers'
               PROVE  \/ n \in Elements(waiting')
                      \/ n = node /\ Kept(n, 1 .. it)
                      \/ n # node /\ Kept(n, Nat)
    <3>1. it' - 1 = it
      BY <1>4
    <3> QED
      BY <1>4, <3>1 DEF Progress, Handled, IsOk
  <2>1. ASSUME n \in Pointers, NEW K, Handled(n, K) PROVE Kept(n, K)
    BY <1>3, <1>4, <1>7, <2>1 DEF Handled
  <2>2. CASE n \in Pointers /\ n # node
    BY <1>3, <1>4, <2>1, <2>2 DEF IInv, Progress, Running
  <2>3. CASE n = node
    <3>1. Handled(n, 1 .. it - 1)
      BY <1>1, <1>4, <2>3 DEF IInv, Progress, Running, Fresh
    <3>2. Kept(n, 1 .. it - 1)
      BY <1>1, <2>1, <2>3, <3>1
    <3>3. \A k : k = it => Written(n, k)'
      BY <1>7, <2>3
    <3>4. \A k \in 1 .. it : k = it \/ k \in 1 .. it - 1
      BY <1>4
    <3> QED
      BY <2>3, <3>2, <3>3, <3>4
  <2>4. CASE n \notin Pointers
    BY <1>3, <2>4
  <2> QED
    BY <2>2, <2>3, <2>4
<1>12. InitialKept'
  BY <1>3, <1>4 DEF IInv, InitialKept, Running, IsOk
<1> QED
  BY <1>2, <1>8, <1>10, <1>11, <1>12 DEF IInv

\* The other steps leave the graph as it is, or free its nodes.
LEMMA OtherStep ==
  ASSUME IInv, TypeOK', UNCHANGED <<ts, heap, nodeLines, edgeLines>>,
         \/ RefuseInitial \/ EndInitial \/ Visit \/ RefuseNext \/ EndEdges
         \/ InitialRaises \/ NextRaises \/ Done \/ UNCHANGED vars
  PROVE  IInv'
<1>1. Pointers' = Pointers /\ \A n, k : Written(n, k)' = Written(n, k)
  BY DEF Pointers, Written
<1>2. Sources'
  BY <1>1 DEF IInv, Sources
<1>3. \A n, K : Handled(n, K) => Handled(n, K)'
  BY <1>1 DEF Handled, IsOk
<1>4. CASE RefuseInitial
  <2>1. /\ pc = "initial" /\ pc' = pc /\ found' = found /\ waiting' = waiting /\ node' = node
        /\ it' = it + 1 /\ ~ IsOk(ts.init[it])
    BY <1>4 DEF RefuseInitial, graph
  <2>2. \A i \in DOMAIN ts.init : i < it + 1 /\ IsOk(ts.init[i]) => i < it
    <3>1. ts.init \in Seq(Promise!Outcomes) /\ it \in Nat
      BY SystemType DEF IInv, TypeOK
    <3> QED
      BY <2>1, <3>1
  <2>3. Numbered' /\ Fresh' /\ Progress'
    BY <1>1, <1>3, <2>1 DEF IInv, Numbered, Fresh, Progress, Running
  <2>4. InitialKept'
    BY <1>1, <2>1, <2>2 DEF IInv, InitialKept, Running, IsOk
  <2> QED
    BY <1>2, <2>3, <2>4 DEF IInv
<1>5. CASE EndInitial
  <2>1. /\ pc = "initial" /\ pc' = "waiting" /\ found' = found /\ waiting' = waiting
        /\ it \notin DOMAIN ts.init
    BY <1>5 DEF EndInitial, graph
  <2>2. Numbered' /\ Fresh' /\ Progress'
    BY <1>1, <1>3, <2>1 DEF IInv, Numbered, Fresh, Progress, Running
  <2>3. \A i \in DOMAIN ts.init : i < it
    <3>1. ts.init \in Seq(Promise!Outcomes) /\ it \in Nat \ {0}
      BY SystemType DEF IInv, TypeOK
    <3> QED
      BY <2>1, <3>1
  <2>4. InitialKept'
    BY <1>1, <2>1, <2>3 DEF IInv, InitialKept, Running, IsOk
  <2> QED
    BY <1>2, <2>2, <2>4 DEF IInv
<1>6. CASE Visit
  <2>1. /\ pc = "waiting" /\ pc' = "edges" /\ found' = found /\ it' = 1
        /\ waiting # <<>> /\ waiting \in Seq(Pointers)
        /\ node' = First(waiting) /\ waiting' = RemoveFirst(waiting)
    BY <1>6 DEF Visit, graph, IInv, TypeOK
  <2>2. /\ node' \in Pointers /\ node' \notin Elements(waiting') /\ NoDuplicates(waiting')
        /\ Elements(waiting) = Elements(waiting') \cup {node'}
    BY <2>1, RemoveFirstFacts DEF IInv, Fresh
  <2>3. Numbered' /\ InitialKept'
    BY <1>1, <2>1 DEF IInv, Numbered, InitialKept, Running, IsOk
  <2>4. \A n \in Elements(waiting) : \A k \in Nat : ~ Written(n, k)
    BY DEF IInv, Fresh
  <2>5. Fresh'
    BY <1>1, <2>1, <2>2, <2>4 DEF Fresh, Written
  <2>6. Handled(node, 1 .. it - 1)'
    BY <2>1 DEF Handled
  <2>7. \A n \in Pointers : n \in Elements(waiting) \/ Handled(n, Nat)
    BY <2>1 DEF IInv, Progress, Running
  <2>8. Progress'
    BY <1>1, <1>3, <2>1, <2>2, <2>6, <2>7 DEF Progress, Running
  <2> QED
    BY <1>2, <2>3, <2>5, <2>8 DEF IInv
<1>7. CASE RefuseNext
  <2>1. /\ pc = "edges" /\ pc' = pc /\ found' = found /\ waiting' = waiting /\ node' = node
        /\ it' = it + 1 /\ it \in Nat /\ it \in DOMAIN Outgoing /\ ~ IsOk(Outgoing[it])
    BY <1>7 DEF RefuseNext, graph, IInv, TypeOK
  <2>2. Numbered' /\ Fresh' /\ InitialKept'
    BY <1>1, <2>1 DEF IInv, Numbered, Fresh, InitialKept, Running, IsOk
  <2>3. ASSUME Handled(node, 1 .. it - 1) PROVE Handled(node, 1 .. it - 1)'
    <3>1. it' - 1 = it /\ \A k \in 1 .. it : k = it \/ k \in 1 .. it - 1
      BY <2>1
    <3> QED
      BY <1>1, <2>1, <2>3, <3>1 DEF Handled, Outgoing, IsOk
  <2>4. Progress'
    BY <1>1, <1>3, <2>1, <2>3 DEF IInv, Progress, Running
  <2> QED
    BY <1>2, <2>2, <2>4 DEF IInv
<1>8. CASE EndEdges
  <2>1. /\ pc = "edges" /\ pc' = "waiting" /\ found' = found /\ waiting' = waiting /\ node' = node
        /\ it \in Nat \ {0} /\ it \notin DOMAIN Outgoing
    BY <1>8 DEF EndEdges, graph, IInv, TypeOK
  <2>2. Numbered' /\ Fresh' /\ InitialKept'
    BY <1>1, <2>1 DEF IInv, Numbered, Fresh, InitialKept, Running, IsOk
  <2>3. ASSUME Handled(node, 1 .. it - 1) PROVE Handled(node, Nat)'
    <3>1. heap[node] \in Nodes
      <4>1. heap \in Seq(Nodes) /\ node \in DOMAIN heap
        BY <2>1 DEF IInv, TypeOK, Nodes, Pointers
      <4> QED
        BY <4>1
    <3>2. Outgoing \in Seq(Promise!Outcomes)
      BY <3>1, SystemType DEF IInv, Outgoing, Nodes
    <3>3. \A k \in DOMAIN Outgoing : k \in 1 .. it - 1
      BY <2>1, <3>2
    <3> QED
      BY <1>1, <2>1, <2>3, <3>3 DEF Handled, Outgoing, IsOk
  <2>4. Progress'
    BY <1>1, <1>3, <2>1, <2>3 DEF IInv, Progress, Running
  <2> QED
    BY <1>2, <2>2, <2>4 DEF IInv
<1>9. CASE InitialRaises \/ NextRaises \/ Done
  <2>1. waiting' = <<>> /\ pc' \in {"done", "failed"}
    BY <1>9 DEF InitialRaises, NextRaises, Fail, Done
  <2>2. Elements(waiting') = {} /\ NoDuplicates(waiting')
    BY <2>1 DEF Elements, NoDuplicates
  <2> QED
    BY <1>1, <1>2, <2>1, <2>2 DEF IInv, Numbered, Fresh, Progress, InitialKept, Running
<1>10. CASE UNCHANGED vars
  BY <1>1, <1>2, <1>3, <1>10 DEF vars, graph, IInv, Numbered, Fresh, Progress, InitialKept, Running, IsOk
<1> QED
  BY <1>4, <1>5, <1>6, <1>7, <1>8, <1>9, <1>10

\* Every step of the exploration keeps the invariant.
LEMMA IInvStep ==
  ASSUME MaxFailures = 0, IInv, [Next]_vars
  PROVE  IInv'
<1>1. TypeOK'
  BY TypeStep DEF IInv
<1>2. CASE InitialNode
  BY <1>1, <1>2, InitialNodeStep
<1>3. CASE NextNode
  BY <1>1, <1>3, NextNodeStep
<1>4. CASE RefuseInitial \/ EndInitial \/ Visit \/ RefuseNext \/ EndEdges \/ UNCHANGED vars
  BY <1>1, <1>4, OtherStep DEF RefuseInitial, EndInitial, Visit, RefuseNext, EndEdges, vars,
     builder, graph
<1>5. CASE InitialRaises \/ NextRaises \/ Done
  BY <1>1, <1>5, OtherStep DEF InitialRaises, NextRaises, Fail, Done, builder
<1> QED
  BY <1>2, <1>3, <1>4, <1>5 DEF Next

\* The invariant holds of every state of every run.
LEMMA Invariant ==
  ASSUME MaxFailures = 0
  PROVE  Spec => []IInv
<1>1. IInv /\ [Next]_vars => IInv'
  BY IInvStep
<1> QED
  BY <1>1, IInvInit, PTL DEF Spec

\* The variables keep their types, and the identifiers are given in order.
THEOREM Types ==
  ASSUME MaxFailures = 0
  PROVE  Spec => []TypeOK
<1>1. IInv => TypeOK
  BY DEF IInv
<1> QED
  BY <1>1, Invariant, PTL

\* A node is written for each state that is visited.
THEOREM EveryVisitedWritten ==
  ASSUME MaxFailures = 0
  PROVE  Spec => []VisitedWritten
<1>1. IInv => VisitedWritten
  <2> SUFFICES ASSUME IInv, NEW i \in DOMAIN visited
               PROVE  heap[visited[i]] \in Promise!Elements(nodeLines)
    BY DEF VisitedWritten
  <2>1. visited \in Seq(Pointers) /\ nodeLines = heap
    BY DEF IInv, TypeOK, Numbered
  <2>2. visited[i] \in DOMAIN nodeLines
    BY <2>1 DEF Pointers
  <2> QED
    BY <2>1, <2>2 DEF Promise!Elements
<1> QED
  BY <1>1, Invariant, PTL

-----------------------------------------------------------------------------
(* The output is that of Exploration. *)

NodesBar == [i \in DOMAIN nodeLines |-> nodeLines[i].state]
EdgesBar == [i \in DOMAIN edgeLines |-> <<StateOf(edgeLines[i].src), edgeLines[i].edge>>]

\* An identifier names the state of its node.
LEMMA StateOfNode == IInv => \A n \in Pointers : StateOf(n - 1) = heap[n].state
<1> SUFFICES ASSUME IInv, NEW n \in Pointers PROVE StateOf(n - 1) = heap[n].state
  OBVIOUS
<1>1. \A i \in DOMAIN nodeLines : nodeLines[i].id = n - 1 <=> i = n
  BY TypeFacts DEF IInv, Numbered, Pointers
<1>2. n \in DOMAIN nodeLines
  BY DEF IInv, Numbered, Pointers
<1>3. (CHOOSE i \in DOMAIN nodeLines : nodeLines[i].id = n - 1) = n
  BY <1>1, <1>2
<1> QED
  BY <1>3 DEF StateOf, IInv, Numbered

\* The nodes of the output are those that have been kept.
LEMMA OutputNodes ==
  IInv => /\ NodesBar \in Seq(States) /\ Len(NodesBar) = Len(heap)
          /\ \A n \in Pointers : NodesBar[n] = heap[n].state
          /\ \A s : s \in Elements(NodesBar) <=> \E n \in Pointers : heap[n].state = s
<1> SUFFICES ASSUME IInv
             PROVE  /\ NodesBar \in Seq(States) /\ Len(NodesBar) = Len(heap)
                    /\ \A n \in Pointers : NodesBar[n] = heap[n].state
                    /\ \A s : s \in Elements(NodesBar) <=> \E n \in Pointers : heap[n].state = s
  OBVIOUS
<1>1. nodeLines = heap /\ heap \in Seq(Nodes) /\ Pointers = DOMAIN heap
  BY DEF IInv, TypeOK, Numbered, Nodes, Pointers
<1>2. \A n \in DOMAIN heap : heap[n].state \in States
  <2>1. \A n \in DOMAIN heap : heap[n] \in Nodes
    BY <1>1
  <2> QED
    BY <2>1 DEF Nodes
<1>3. NodesBar \in Seq(States) /\ Len(NodesBar) = Len(heap)
  BY <1>1, <1>2 DEF NodesBar
<1> QED
  BY <1>1, <1>3 DEF NodesBar, Elements

\* The edges of the output are those that have been written.
LEMMA OutputEdges ==
  IInv => /\ EdgesBar \in Seq(States \X Nat) /\ Len(EdgesBar) = Len(edgeLines)
          /\ \A j \in DOMAIN edgeLines :
               EdgesBar[j] = <<heap[edgeLines[j].src + 1].state, edgeLines[j].edge>>
          /\ \A n \in Pointers : \A k :
               <<heap[n].state, k>> \in Elements(EdgesBar) <=> Written(n, k)
<1> SUFFICES ASSUME IInv
             PROVE  /\ EdgesBar \in Seq(States \X Nat) /\ Len(EdgesBar) = Len(edgeLines)
                    /\ \A j \in DOMAIN edgeLines :
                         EdgesBar[j] = <<heap[edgeLines[j].src + 1].state, edgeLines[j].edge>>
                    /\ \A n \in Pointers : \A k :
                         <<heap[n].state, k>> \in Elements(EdgesBar) <=> Written(n, k)
  OBVIOUS
<1>1. /\ edgeLines \in Seq(Lines) /\ Pointers \subseteq Nat
      /\ \A j \in DOMAIN edgeLines : edgeLines[j].src \in Nat /\ edgeLines[j].edge \in Nat
      /\ \A j \in DOMAIN edgeLines : edgeLines[j].src + 1 \in Pointers
  <2>1. edgeLines \in Seq(Lines)
    BY TypeFacts DEF IInv
  <2>2. \A j \in DOMAIN edgeLines : edgeLines[j] \in Lines
    BY <2>1
  <2> QED
    BY <2>1, <2>2, TypeFacts DEF IInv, Sources, Lines
<1>2. \A n \in Pointers : heap[n].state \in States
  <2>1. heap \in Seq(Nodes)
    BY DEF IInv, TypeOK, Nodes
  <2>2. \A n \in Pointers : heap[n] \in Nodes
    BY <2>1 DEF Pointers
  <2> QED
    BY <2>2 DEF Nodes
<1>3. \A j \in DOMAIN edgeLines : StateOf(edgeLines[j].src) = heap[edgeLines[j].src + 1].state
  <2> SUFFICES ASSUME NEW j \in DOMAIN edgeLines
               PROVE  StateOf(edgeLines[j].src) = heap[edgeLines[j].src + 1].state
    OBVIOUS
  <2>1. (edgeLines[j].src + 1) - 1 = edgeLines[j].src
    BY <1>1
  <2> QED
    BY <1>1, <2>1, StateOfNode
<1>4. \A j \in DOMAIN edgeLines :
        EdgesBar[j] = <<heap[edgeLines[j].src + 1].state, edgeLines[j].edge>>
  BY <1>3 DEF EdgesBar
<1>5. EdgesBar \in Seq(States \X Nat) /\ Len(EdgesBar) = Len(edgeLines)
  <2>1. \A j \in DOMAIN edgeLines :
          <<StateOf(edgeLines[j].src), edgeLines[j].edge>> \in States \X Nat
    BY <1>1, <1>2, <1>3
  <2> QED
    BY <1>1, <2>1 DEF EdgesBar
<1>6. DOMAIN EdgesBar = DOMAIN edgeLines
  BY DEF EdgesBar
<1>7. ASSUME NEW n \in Pointers, NEW k
      PROVE  <<heap[n].state, k>> \in Elements(EdgesBar) <=> Written(n, k)
  <2>1. ASSUME NEW j \in DOMAIN edgeLines
        PROVE  EdgesBar[j] = <<heap[n].state, k>> <=>
                 edgeLines[j].src = n - 1 /\ edgeLines[j].edge = k
    <3>1. EdgesBar[j] = <<heap[n].state, k>> <=>
            heap[edgeLines[j].src + 1].state = heap[n].state /\ edgeLines[j].edge = k
      BY <1>4
    <3>2. heap[edgeLines[j].src + 1].state = heap[n].state <=> edgeLines[j].src + 1 = n
      BY <1>1 DEF IInv, Numbered
    <3> QED
      BY <1>1, <3>1, <3>2
  <2> QED
    BY <1>6, <2>1 DEF Elements, Written
<1> QED
  BY <1>4, <1>5, <1>7

\* A state that is built appears once in the output.
LEMMA NodesAppend ==
  ASSUME IInv, IInv', found = Pointers, NEW s \in States,
         (IsNew(s) /\ Adds(s)) \/ (~ IsNew(s) /\ Meets(s))
  PROVE  /\ NodesBar' = IF s \in Elements(NodesBar) THEN NodesBar ELSE Append(NodesBar, s)
         /\ IsNew(s) <=> s \notin Elements(NodesBar)
<1>1. IsNew(s) <=> s \notin Elements(NodesBar)
  BY OutputNodes DEF IsNew, Equivalent
<1>2. CASE IsNew(s) /\ Adds(s)
  <2>1. /\ NodesBar \in Seq(States) /\ Len(NodesBar) = Len(heap)
        /\ \A n \in Pointers : NodesBar[n] = heap[n].state
    BY OutputNodes
  <2>2. /\ NodesBar' \in Seq(States) /\ Len(NodesBar') = Len(heap')
        /\ \A n \in Pointers' : NodesBar'[n] = heap'[n].state
    <3>1. (IInv => /\ NodesBar \in Seq(States) /\ Len(NodesBar) = Len(heap)
                   /\ \A n \in Pointers : NodesBar[n] = heap[n].state)'
      BY OutputNodes, PTL
    <3> QED
      BY <3>1
  <2>3. /\ Pointers = 1 .. Len(heap) /\ Len(heap) \in Nat /\ Pointers' = 1 .. Len(heap')
        /\ \A n \in Pointers : heap'[n] = heap[n]
        /\ heap'[Len(heap) + 1].state = s /\ Len(heap') = Len(heap) + 1
    <3>1. heap \in Seq(Nodes) /\ [id |-> node_id, state |-> s] \in Nodes
      BY DEF IInv, TypeOK, Nodes
    <3>2. Len(heap') = Len(heap) + 1
      BY <1>2, <3>1, AppendFacts DEF Adds
    <3>3. heap' \in Seq(Nodes)
      BY <1>2, <3>1, AppendFacts DEF Adds
    <3>4. Pointers' = 1 .. Len(heap')
      BY <3>3 DEF Pointers
    <3> QED
      BY <1>2, <3>2, <3>4, AddsFacts, TypeFacts DEF IInv, NewNode
  <2>4. /\ Append(NodesBar, s) \in Seq(States) /\ Len(Append(NodesBar, s)) = Len(heap) + 1
        /\ \A n \in Pointers : Append(NodesBar, s)[n] = heap[n].state
        /\ Append(NodesBar, s)[Len(heap) + 1] = s
    BY <2>1, <2>3, AppendFacts
  <2>5. \A n \in 1 .. Len(heap) + 1 : n \in Pointers \/ n = Len(heap) + 1
    BY <2>3
  <2>6. \A n \in 1 .. Len(heap) + 1 : NodesBar'[n] = Append(NodesBar, s)[n]
    BY <2>2, <2>3, <2>4, <2>5
  <2> HIDE DEF NodesBar
  <2>7. NodesBar' = Append(NodesBar, s)
    BY <2>2, <2>3, <2>4, <2>6
  <2> QED
    BY <1>1, <1>2, <2>7
<1>3. CASE ~ IsNew(s) /\ Meets(s)
  BY <1>1, <1>3 DEF Meets, NodesBar
<1> QED
  BY <1>1, <1>2, <1>3

\* The edges written do not change with the nodes.
LEMMA EdgesSame ==
  ASSUME IInv, IInv', edgeLines' = edgeLines, \A n \in Pointers : heap'[n] = heap[n]
  PROVE  EdgesBar' = EdgesBar
<1>1. /\ EdgesBar \in Seq(States \X Nat) /\ Len(EdgesBar) = Len(edgeLines)
      /\ \A j \in DOMAIN edgeLines :
           EdgesBar[j] = <<heap[edgeLines[j].src + 1].state, edgeLines[j].edge>>
  BY OutputEdges
<1>2. (IInv => /\ EdgesBar \in Seq(States \X Nat) /\ Len(EdgesBar) = Len(edgeLines)
               /\ \A j \in DOMAIN edgeLines :
                    EdgesBar[j] = <<heap[edgeLines[j].src + 1].state, edgeLines[j].edge>>)'
  BY OutputEdges, PTL
<1>3. edgeLines \in Seq(Lines) /\ \A j \in DOMAIN edgeLines : edgeLines[j].src + 1 \in Pointers
  BY TypeFacts DEF IInv, Sources
<1>4. \A j \in DOMAIN edgeLines : EdgesBar'[j] = EdgesBar[j]
  BY <1>1, <1>2, <1>3
<1> HIDE DEF EdgesBar
<1> QED
  BY <1>1, <1>2, <1>3, <1>4

\* Every iteration that writes an edge appends it to the output.
LEMMA EdgesAppend ==
  ASSUME MaxFailures = 0, IInv, IInv', NextNode, \A n \in Pointers : heap'[n] = heap[n]
  PROVE  EdgesBar' = Append(EdgesBar, <<heap[node].state, it>>)
<1> DEFINE e == [src |-> heap[node].id, tgt |-> heap'[NodeFor(Outgoing[it].state)].id, edge |-> it]
           x == <<heap[node].state, it>>
<1>1. /\ EdgesBar \in Seq(States \X Nat) /\ Len(EdgesBar) = Len(edgeLines)
      /\ \A j \in DOMAIN edgeLines :
           EdgesBar[j] = <<heap[edgeLines[j].src + 1].state, edgeLines[j].edge>>
  BY OutputEdges
<1>2. /\ EdgesBar' \in Seq(States \X Nat) /\ Len(EdgesBar') = Len(edgeLines')
      /\ \A j \in DOMAIN edgeLines' :
           EdgesBar'[j] = <<heap'[edgeLines'[j].src + 1].state, edgeLines'[j].edge>>
  <2>1. (IInv => /\ EdgesBar \in Seq(States \X Nat) /\ Len(EdgesBar) = Len(edgeLines)
                 /\ \A j \in DOMAIN edgeLines :
                      EdgesBar[j] = <<heap[edgeLines[j].src + 1].state, edgeLines[j].edge>>)'
    BY OutputEdges, PTL
  <2> QED
    BY <2>1
<1>3. /\ node \in Pointers /\ heap[node].state \in States /\ it \in Nat
      /\ e.src + 1 = node /\ e.edge = it
  <2>1. node \in Pointers /\ heap[node] \in Nodes /\ it \in Nat
    BY NextOutcome DEF IInv, NextNode, TypeOK
  <2>2. heap[node].id = node - 1
    BY <2>1 DEF IInv, Numbered
  <2>3. node \in Nat
    BY <2>1, TypeFacts DEF IInv
  <2> QED
    BY <2>1, <2>2, <2>3 DEF Nodes
<1>4. edgeLines' = Append(edgeLines, e)
  BY DEF NextNode
<1> HIDE DEF e
<1>5. /\ edgeLines \in Seq(Lines \cup {e})
      /\ \A j \in DOMAIN edgeLines : edgeLines[j].src + 1 \in Pointers
  <2>1. edgeLines \in Seq(Lines)
    BY TypeFacts DEF IInv
  <2> QED
    BY <2>1 DEF IInv, Sources
<1>6. /\ DOMAIN edgeLines' = 1 .. Len(edgeLines) + 1 /\ DOMAIN edgeLines = 1 .. Len(edgeLines)
      /\ Len(edgeLines') = Len(edgeLines) + 1 /\ Len(edgeLines) \in Nat
      /\ \A j \in DOMAIN edgeLines : edgeLines'[j] = edgeLines[j]
      /\ edgeLines'[Len(edgeLines) + 1] = e
  BY <1>4, <1>5, AppendFacts
<1> DEFINE a == Append(EdgesBar, x)
<1>7. /\ a \in Seq(States \X Nat) /\ Len(a) = Len(edgeLines) + 1
      /\ \A j \in DOMAIN edgeLines : a[j] = EdgesBar[j]
      /\ a[Len(edgeLines) + 1] = x
  <2>1. x \in States \X Nat
    BY <1>3
  <2>2. DOMAIN EdgesBar = DOMAIN edgeLines
    BY DEF EdgesBar
  <2> QED
    BY <1>1, <2>1, <2>2, AppendFacts
<1> HIDE DEF a, x
<1>8. \A j \in DOMAIN edgeLines : EdgesBar'[j] = a[j]
  <2> SUFFICES ASSUME NEW j \in DOMAIN edgeLines PROVE EdgesBar'[j] = a[j]
    OBVIOUS
  <2>1. j \in DOMAIN edgeLines' /\ edgeLines'[j] = edgeLines[j]
    BY <1>6
  <2>2. heap'[edgeLines[j].src + 1] = heap[edgeLines[j].src + 1]
    BY <1>5
  <2> QED
    BY <1>1, <1>2, <1>7, <2>1, <2>2
<1>9. EdgesBar'[Len(edgeLines) + 1] = x
  <2>1. Len(edgeLines) + 1 \in DOMAIN edgeLines'
    BY <1>6
  <2> QED
    BY <1>2, <1>3, <1>6, <2>1 DEF x
<1> HIDE DEF EdgesBar
<1>10. EdgesBar' = a
  <2>1. \A j \in 1 .. Len(edgeLines) + 1 : j \in DOMAIN edgeLines \/ j = Len(edgeLines) + 1
    BY <1>6
  <2>2. \A j \in 1 .. Len(edgeLines) + 1 : EdgesBar'[j] = a[j]
    BY <1>7, <1>8, <1>9, <2>1
  <2> QED
    BY <1>2, <1>6, <1>7, <2>2
<1> QED
  BY <1>10 DEF a, x

OutcomeBar == IF pc = "done" THEN "complete" ELSE IF pc = "failed" THEN "interrupted" ELSE "none"

\* The initial states of the algorithm are initial states of its promise.
LEMMA InitImplements == Init => Promise!Init
BY DEF Init, Promise!Init

\* Every step of the algorithm is a step of its promise, or none.
LEMMA StepImplements ==
  ASSUME MaxFailures = 0, IInv, IInv', [Next]_vars
  PROVE  [Promise!Next]_(Promise!vars)
<1>1. /\ Promise!Elements(NodesBar) = Elements(NodesBar)
      /\ Promise!Elements(EdgesBar) = Elements(EdgesBar)
  BY DEF Promise!Elements, Elements
<1>2. CASE InitialNode
  <2> DEFINE s == ts.init[it].state
  <2>1. TypeOK /\ it \in DOMAIN ts.init /\ IsOk(ts.init[it]) /\ Build(s) /\ AddNode(s)
    BY <1>2 DEF InitialNode, IInv
  <2>2. s \in States
    BY <2>1, InitialOutcome
  <2>3. (IsNew(s) /\ Adds(s)) \/ (~ IsNew(s) /\ Meets(s))
    BY <2>1, <2>2, BuildFacts
  <2>4. found = Pointers
    BY <1>2 DEF InitialNode, IInv, Numbered, Running
  <2>5. /\ NodesBar' = IF s \in Elements(NodesBar) THEN NodesBar ELSE Append(NodesBar, s)
        /\ IsNew(s) <=> s \notin Elements(NodesBar)
    BY <2>2, <2>3, <2>4, NodesAppend
  <2>6. EdgesBar' = EdgesBar
    BY <1>2, <2>2, <2>3, QueueBuild, EdgesSame DEF InitialNode, IInv
  <2>7. OutcomeBar = "none" /\ OutcomeBar' = "none" /\ ts' = ts
    BY <1>2 DEF InitialNode, OutcomeBar
  <2>8. CASE s \in Elements(NodesBar)
    BY <2>5, <2>6, <2>7, <2>8 DEF Promise!vars, NodesBar, EdgesBar, OutcomeBar
  <2>9. CASE s \notin Elements(NodesBar)
    <3>1. Promise!ShowInitial
      BY <1>1, <2>1, <2>5, <2>6, <2>7, <2>9 DEF Promise!ShowInitial, Promise!With, Promise!IsOk,
         IsOk, NodesBar, EdgesBar, OutcomeBar
    <3> QED
      BY <3>1 DEF Promise!Next
  <2> QED
    BY <2>8, <2>9
<1>3. CASE NextNode
  <2> DEFINE s == Outgoing[it].state
             r == heap[node].state
  <2>1. TypeOK /\ pc = "edges" /\ it \in DOMAIN Outgoing /\ IsOk(Outgoing[it])
        /\ Build(s) /\ AddNode(s)
    BY <1>3 DEF NextNode, IInv
  <2>2. s \in States /\ node \in Pointers
    BY <2>1, NextOutcome
  <2>3. (IsNew(s) /\ Adds(s)) \/ (~ IsNew(s) /\ Meets(s))
    BY <2>1, <2>2, BuildFacts
  <2>4. found = Pointers
    BY <2>1 DEF IInv, Numbered, Running
  <2>5. NodesBar' = IF s \in Elements(NodesBar) THEN NodesBar ELSE Append(NodesBar, s)
    BY <2>2, <2>3, <2>4, NodesAppend
  <2>6. \A n \in Pointers : heap'[n] = heap[n]
    BY <2>1, <2>2, <2>3, QueueBuild
  <2>7. EdgesBar' = Append(EdgesBar, <<r, it>>)
    BY <1>3, <2>6, EdgesAppend
  <2>8. OutcomeBar = "none" /\ OutcomeBar' = "none" /\ ts' = ts
    BY <1>3 DEF NextNode, OutcomeBar
  <2>9. r \in Elements(NodesBar)
    BY <2>2, OutputNodes
  <2>10. <<r, it>> \notin Elements(EdgesBar)
    <3>1. ~ Written(node, it)
      BY <2>1 DEF IInv, Fresh, TypeOK
    <3> QED
      BY <2>2, <3>1, OutputEdges
  <2>11. it \in DOMAIN ts.succ[r] /\ Promise!IsOk(ts.succ[r][it]) /\ s = ts.succ[r][it].state
    BY <2>1 DEF Outgoing, IsOk, Promise!IsOk
  <2>12. Promise!ShowTransition
    <3> HIDE DEF r, s
    <3>1. \E t \in Promise!Elements(NodesBar) : \E k \in DOMAIN ts.succ[t] :
            /\ Promise!IsOk(ts.succ[t][k])
            /\ <<t, k>> \notin Promise!Elements(EdgesBar)
            /\ NodesBar' = IF ts.succ[t][k].state \in Promise!Elements(NodesBar)
                           THEN NodesBar ELSE Append(NodesBar, ts.succ[t][k].state)
            /\ EdgesBar' = Append(EdgesBar, <<t, k>>)
      BY <1>1, <2>5, <2>7, <2>9, <2>10, <2>11
    <3> QED
      BY <2>8, <3>1 DEF Promise!ShowTransition, Promise!With, NodesBar, EdgesBar, OutcomeBar
  <2> QED
    BY <2>12 DEF Promise!Next
<1>4. ASSUME UNCHANGED <<ts, heap, nodeLines, edgeLines>>,
             \/ RefuseInitial \/ EndInitial \/ Visit \/ RefuseNext \/ EndEdges
             \/ InitialRaises \/ NextRaises \/ Done \/ UNCHANGED vars
      PROVE  [Promise!Next]_(Promise!vars)
  <2>1. NodesBar' = NodesBar
    BY <1>4 DEF NodesBar
  <2>2. EdgesBar' = EdgesBar
    BY <1>4, EdgesSame
  <2>3. CASE RefuseInitial \/ EndInitial \/ Visit \/ RefuseNext \/ EndEdges \/ UNCHANGED vars
    <3>1. OutcomeBar' = OutcomeBar
      BY <2>3 DEF RefuseInitial, EndInitial, Visit, RefuseNext, EndEdges, vars, OutcomeBar
    <3> QED
      BY <1>4, <2>1, <2>2, <3>1 DEF Promise!vars, NodesBar, EdgesBar, OutcomeBar
  <2>4. CASE InitialRaises \/ NextRaises
    <3>1. OutcomeBar = "none" /\ OutcomeBar' = "interrupted"
      BY <2>4 DEF InitialRaises, NextRaises, Fail, OutcomeBar
    <3>2. \/ \E i \in DOMAIN ts.init : Promise!Raises(ts.init[i])
          \/ \E s \in Elements(NodesBar) : \E k \in DOMAIN ts.succ[s] : Promise!Raises(ts.succ[s][k])
      <4>1. CASE InitialRaises
        BY <4>1 DEF InitialRaises, Raises, Promise!Raises
      <4>2. CASE NextRaises
        <5>1. pc = "edges" /\ it \in DOMAIN Outgoing /\ Raises(Outgoing[it])
          BY <4>2 DEF NextRaises
        <5>2. heap[node].state \in Elements(NodesBar)
          BY <5>1, NextOutcome, OutputNodes DEF IInv
        <5> QED
          BY <5>1, <5>2 DEF Outgoing, Raises, Promise!Raises
      <4> QED
        BY <2>4, <4>1, <4>2
    <3>3. Promise!Interrupt
      BY <1>1, <1>4, <2>1, <2>2, <3>1, <3>2 DEF Promise!Interrupt, NodesBar, EdgesBar, OutcomeBar
    <3> QED
      BY <3>3 DEF Promise!Next
  <2>5. CASE Done
    <3>1. OutcomeBar = "none" /\ OutcomeBar' = "complete" /\ pc = "waiting" /\ waiting = <<>>
      BY <2>5 DEF Done, OutcomeBar
    <3>2. \A i \in DOMAIN ts.init :
            Promise!IsOk(ts.init[i]) => ts.init[i].state \in Elements(NodesBar)
      BY <3>1, OutputNodes DEF IInv, InitialKept, Running, IsOk, Promise!IsOk
    <3>3. \A n \in Pointers : Handled(n, Nat)
      <4>1. Elements(waiting) = {}
        BY <3>1 DEF Elements
      <4> QED
        BY <3>1, <4>1 DEF IInv, Progress, Running
    <3>4. \A s \in Elements(NodesBar) : \A k \in DOMAIN ts.succ[s] :
            Promise!IsOk(ts.succ[s][k]) => <<s, k>> \in Elements(EdgesBar)
      <4> SUFFICES ASSUME NEW n \in Pointers, NEW k \in DOMAIN ts.succ[heap[n].state],
                          IsOk(ts.succ[heap[n].state][k])
                   PROVE  <<heap[n].state, k>> \in Elements(EdgesBar)
        BY OutputNodes DEF IsOk, Promise!IsOk
      <4>1. k \in Nat
        <5>1. heap[n].state \in States
          <6>1. heap \in Seq(Nodes)
            BY DEF IInv, TypeOK, Nodes
          <6>2. heap[n] \in Nodes
            BY <6>1 DEF Pointers
          <6> QED
            BY <6>2 DEF Nodes
        <5>2. ts.succ[heap[n].state] \in Seq(Promise!Outcomes)
          BY <5>1, SystemType DEF IInv
        <5> QED
          BY <5>2
      <4>2. Written(n, k)
        BY <3>3, <4>1 DEF Handled
      <4> QED
        BY <4>2, OutputEdges
    <3>5. Promise!Complete
      BY <1>1, <1>4, <2>1, <2>2, <3>1, <3>2, <3>4 DEF Promise!Complete, NodesBar, EdgesBar,
         OutcomeBar
    <3> QED
      BY <3>5 DEF Promise!Next
  <2> QED
    BY <1>4, <2>3, <2>4, <2>5
<1>5. CASE \/ RefuseInitial \/ EndInitial \/ Visit \/ RefuseNext \/ EndEdges
           \/ InitialRaises \/ NextRaises \/ Done \/ UNCHANGED vars
  <2>1. UNCHANGED <<ts, heap, nodeLines, edgeLines>>
    BY <1>5 DEF RefuseInitial, EndInitial, Visit, RefuseNext, EndEdges, InitialRaises, NextRaises,
       Fail, Done, vars, builder, graph
  <2> QED
    BY <1>4, <1>5, <2>1
<1> QED
  BY <1>2, <1>3, <1>5 DEF Next

\* When no insertion fails, explore writes the graph of the reachable states.
THEOREM WritesTheGraph ==
  ASSUME MaxFailures = 0
  PROVE  Spec => WritesReachableGraph
<1>1. IInv /\ IInv' /\ [Next]_vars => [Promise!Next]_(Promise!vars)
  BY StepImplements
<1> QED
  BY <1>1, InitImplements, Invariant, PTL DEF Spec, WritesReachableGraph, Promise!Spec

-----------------------------------------------------------------------------
(* Distances. *)

\* The states that are built from the initial iterator.
Starts(t) == {o.state : o \in {p \in Elements(t.init) : IsOk(p)}}

\* u is built from a transition of s.
IsStep(t, s, u) ==
  \E k \in DOMAIN t.succ[s] : IsOk(t.succ[s][k]) /\ t.succ[s][k].state = u

\* A run of length m.
IsRun(t, p, m) ==
  /\ p \in [0 .. m -> States] /\ p[0] \in Starts(t)
  /\ \A k \in 1 .. m : IsStep(t, p[k - 1], p[k])

\* s is at distance at most n.
Near(t, s, n) == \E m \in 0 .. n : \E p \in [0 .. m -> States] : IsRun(t, p, m) /\ p[m] = s

\* Initial states are at any distance at most.
LEMMA NearStart ==
  ASSUME NEW t, NEW s \in States, s \in Starts(t), NEW n \in Nat
  PROVE  Near(t, s, n)
<1> DEFINE p == [k \in 0 .. 0 |-> s]
<1>1. p \in [0 .. 0 -> States] /\ p[0] = s
  OBVIOUS
<1> HIDE DEF p
<1>2. IsRun(t, p, 0)
  BY <1>1 DEF IsRun
<1>3. 0 \in 0 .. n /\ \E q \in [0 .. 0 -> States] : IsRun(t, q, 0) /\ q[0] = s
  BY <1>1, <1>2
<1> QED
  BY <1>3 DEF Near

\* A transition goes one further.
LEMMA NearStep ==
  ASSUME NEW t, NEW s \in States, NEW u \in States, NEW n \in Nat, Near(t, s, n), IsStep(t, s, u)
  PROVE  Near(t, u, n + 1)
<1>1. PICK m \in 0 .. n : \E p \in [0 .. m -> States] : IsRun(t, p, m) /\ p[m] = s
  BY DEF Near
<1>2. PICK p \in [0 .. m -> States] : IsRun(t, p, m) /\ p[m] = s
  BY <1>1
<1> DEFINE q == [k \in 0 .. m + 1 |-> IF k <= m THEN p[k] ELSE u]
<1>3. /\ q \in [0 .. m + 1 -> States]
      /\ \A k \in 0 .. m : q[k] = p[k]
      /\ q[m + 1] = u
  OBVIOUS
<1> HIDE DEF q
<1>4. ASSUME NEW k \in 1 .. m + 1 PROVE IsStep(t, q[k - 1], q[k])
  <2>1. CASE k = m + 1
    <3>1. q[k - 1] = s /\ q[k] = u
      BY <1>2, <1>3, <2>1
    <3> QED
      BY <3>1
  <2>2. CASE k # m + 1
    <3>1. k \in 1 .. m /\ q[k - 1] = p[k - 1] /\ q[k] = p[k]
      BY <1>3, <2>2
    <3> QED
      BY <1>2, <3>1 DEF IsRun
  <2> QED
    BY <2>1, <2>2
<1>5. q[0] = p[0] /\ m + 1 \in 0 .. n + 1
  BY <1>3
<1>6. IsRun(t, q, m + 1)
  BY <1>2, <1>3, <1>4, <1>5 DEF IsRun
<1> QED
  BY <1>3, <1>5, <1>6 DEF Near

\* A run that leaves the set H goes through a transition that leaves it, earlier.
LEMMA NearLeaves ==
  ASSUME NEW t, NEW H, Starts(t) \subseteq H, NEW u \in States, u \notin H,
         NEW n \in Nat, Near(t, u, n)
  PROVE  /\ n - 1 \in Nat
         /\ \E s \in H \cap States, v \in States \ H : Near(t, s, n - 1) /\ IsStep(t, s, v)
<1>1. PICK m \in 0 .. n : \E p \in [0 .. m -> States] : IsRun(t, p, m) /\ p[m] = u
  BY DEF Near
<1>2. PICK p \in [0 .. m -> States] : IsRun(t, p, m) /\ p[m] = u
  BY <1>1
<1> DEFINE T == {k \in 0 .. m : p[k] \notin H}
<1>3. T \in SUBSET Nat /\ T # {}
  <2>1. m \in T
    BY <1>2
  <2> QED
    BY <2>1
<1>4. PICK k \in T : \A j \in T : k <= j
  BY <1>3, Least
<1>5. k # 0
  BY <1>2, <1>4 DEF IsRun
<1>6. k \in 1 .. m /\ p[k] \in States \ H
  BY <1>4, <1>5
<1>7. k - 1 \in 0 .. m /\ p[k - 1] \in H \cap States
  <2>1. k - 1 \in 0 .. m
    BY <1>6
  <2>2. k - 1 \notin T
    BY <1>4, <1>6
  <2> QED
    BY <2>1, <2>2
<1>8. IsStep(t, p[k - 1], p[k])
  BY <1>2, <1>6 DEF IsRun
<1> DEFINE q == [j \in 0 .. k - 1 |-> p[j]]
<1>9. /\ q \in [0 .. k - 1 -> States]
      /\ \A j \in 0 .. k - 1 : q[j] = p[j]
  BY <1>6
<1> HIDE DEF q, T
<1>10. IsRun(t, q, k - 1)
  <2>1. q[0] = p[0]
    BY <1>6, <1>9
  <2>2. ASSUME NEW j \in 1 .. k - 1 PROVE IsStep(t, q[j - 1], q[j])
    <3>1. j \in 1 .. m /\ q[j - 1] = p[j - 1] /\ q[j] = p[j]
      BY <1>6, <1>9
    <3> QED
      BY <1>2, <3>1 DEF IsRun
  <2> QED
    BY <1>2, <1>9, <2>1, <2>2 DEF IsRun
<1>11. q[k - 1] = p[k - 1] /\ k - 1 \in 0 .. n - 1 /\ n - 1 \in Nat
  BY <1>6, <1>9
<1>12. Near(t, p[k - 1], n - 1)
  BY <1>9, <1>10, <1>11 DEF Near
<1> QED
  BY <1>6, <1>7, <1>8, <1>11, <1>12

-----------------------------------------------------------------------------
(* The order of the nodes with a FIFO container. *)

\* The nodes are visited in the order of their creation.
Queued ==
  /\ \A i \in DOMAIN visited : visited[i] = i
  /\ \A i \in DOMAIN waiting : waiting[i] = Len(visited) + i
  /\ Running => Len(visited) + Len(waiting) = Len(heap)
  /\ pc = "initial" => visited = <<>>
  /\ pc = "edges" => node = Len(visited)

\* A node carries an initial state, or a successor of a node that has been visited.
HasParent(n) ==
  \/ heap[n].state \in Starts(ts)
  \/ \E q \in DOMAIN visited : IsStep(ts, heap[q].state, heap[n].state)

\* The successors of the visited nodes have been kept, up to the iterator.
SuccessorsKept ==
  Running =>
    \A q \in DOMAIN visited : \A k \in DOMAIN ts.succ[heap[q].state] :
      /\ IsOk(ts.succ[heap[q].state][k])
      /\ pc = "edges" /\ q = node => k < it
      => \E n \in Pointers : heap[n].state = ts.succ[heap[q].state][k].state

\* A node is no nearer to the initial states than the nodes created before it.
Sorted ==
  \A m, n \in Pointers : \A l \in Nat :
    m < n /\ Near(ts, heap[n].state, l) => Near(ts, heap[m].state, l)

Layered ==
  /\ Queued
  /\ \A n \in Pointers : HasParent(n)
  /\ SuccessorsKept
  /\ Sorted

\* What the types say of the sequences.
LEMMA SequenceFacts ==
  ASSUME TypeOK
  PROVE  /\ Len(heap) \in Nat /\ Pointers = 1 .. Len(heap)
         /\ Len(visited) \in Nat /\ DOMAIN visited = 1 .. Len(visited)
         /\ Len(waiting) \in Nat /\ DOMAIN waiting = 1 .. Len(waiting)
         /\ \A n \in Pointers : heap[n] \in Nodes /\ heap[n].state \in States
<1>1. heap \in Seq(Nodes) /\ visited \in Seq(Pointers) /\ waiting \in Seq(Pointers)
  BY DEF TypeOK, Nodes
<1>2. \A n \in Pointers : heap[n] \in Nodes
  BY <1>1 DEF Pointers
<1> QED
  BY <1>1, <1>2 DEF Pointers, Nodes

\* The visited nodes are pointers, the current one the last of them.
LEMMA VisitedFacts ==
  ASSUME TypeOK, Queued
  PROVE  DOMAIN visited \subseteq Pointers
<1>1. ASSUME NEW i \in DOMAIN visited PROVE i \in Pointers
  <2>1. visited \in Seq(Pointers) /\ visited[i] = i
    BY DEF TypeOK, Queued
  <2> QED
    BY <2>1
<1> QED
  BY <1>1

\* Once the initial states are built, the first nodes carry them.
LEMMA StartsKept ==
  ASSUME TypeOK, InitialKept, Running, pc # "initial"
  PROVE  Starts(ts) \subseteq {heap[n].state : n \in Pointers}
BY DEF InitialKept, Starts, Elements

\* A new node, created for a successor of the current one, comes last.
LEMMA NewIsLast ==
  ASSUME TypeOK, InitialKept, Layered, pc = "edges",
         NEW s \in States, IsNew(s), found = Pointers,
         NEW l \in Nat, Near(ts, s, l), NEW m \in Pointers
  PROVE  Near(ts, heap[m].state, l)
<1> DEFINE H == {heap[n].state : n \in Pointers}
<1>1. Running /\ Starts(ts) \subseteq H
  BY StartsKept DEF Running
<1>2. s \notin H
  BY DEF IsNew, Equivalent
<1> HIDE DEF H
<1>3. /\ l - 1 \in Nat
      /\ \E h \in H \cap States, v \in States \ H : Near(ts, h, l - 1) /\ IsStep(ts, h, v)
  BY <1>1, <1>2, NearLeaves
<1>4. PICK h \in H \cap States, v \in States \ H : Near(ts, h, l - 1) /\ IsStep(ts, h, v)
  BY <1>3
<1>5. PICK p \in Pointers : heap[p].state = h
  BY <1>4 DEF H
<1>6. node = Len(visited)
  BY DEF Layered, Queued
<1>7. ~ (p < node)
  <2> SUFFICES ASSUME p < node PROVE FALSE
    OBVIOUS
  <2>1. p \in DOMAIN visited /\ p # node
    BY <1>6, SequenceFacts
  <2>2. PICK k \in DOMAIN ts.succ[h] : IsOk(ts.succ[h][k]) /\ ts.succ[h][k].state = v
    BY <1>4 DEF IsStep
  <2>3. \E n \in Pointers : heap[n].state = v
    BY <1>1, <1>5, <2>1, <2>2 DEF Layered, SuccessorsKept
  <2> QED
    BY <1>4, <2>3 DEF H
<1>8. CASE heap[m].state \in Starts(ts)
  BY <1>8, NearStart, SequenceFacts
<1>9. CASE \E q \in DOMAIN visited : IsStep(ts, heap[q].state, heap[m].state)
  <2>1. PICK q \in DOMAIN visited : IsStep(ts, heap[q].state, heap[m].state)
    BY <1>9
  <2>2. q \in Pointers /\ q <= p
    BY <1>6, <1>7, VisitedFacts, SequenceFacts DEF Layered
  <2>3. Near(ts, heap[q].state, l - 1)
    <3>1. CASE q = p
      BY <1>4, <1>5, <3>1
    <3>2. CASE q < p
      BY <1>3, <1>4, <1>5, <2>2, <3>2 DEF Layered, Sorted
    <3> QED
      BY <2>2, <3>1, <3>2, SequenceFacts
  <2>4. Near(ts, heap[m].state, (l - 1) + 1)
    BY <1>3, <2>1, <2>2, <2>3, NearStep, SequenceFacts
  <2> QED
    BY <2>4
<1> QED
  BY <1>8, <1>9 DEF Layered, HasParent

\* No node has been created.
LEMMA LayeredInit == Init => Layered
<1> SUFFICES ASSUME Init PROVE Layered
  OBVIOUS
<1>1. heap = <<>> /\ visited = <<>> /\ waiting = <<>> /\ pc = "initial"
  BY DEF Init
<1>2. Pointers = {} /\ DOMAIN visited = {} /\ DOMAIN waiting = {}
  BY <1>1 DEF Pointers
<1>3. Len(visited) + Len(waiting) = Len(heap)
  BY <1>1
<1> QED
  BY <1>1, <1>2, <1>3 DEF Layered, Queued, SuccessorsKept, Sorted

\* Building a state keeps the order, if a new node comes last and has a parent.
LEMMA LayeredBuild ==
  ASSUME TypeOK, Layered, pc \in {"initial", "edges"}, NEW s \in States,
         (IsNew(s) /\ Adds(s)) \/ (~ IsNew(s) /\ Meets(s)),
         UNCHANGED <<ts, pc, node, visited>>,
         s \in Starts(ts) \/ \E q \in DOMAIN visited : IsStep(ts, heap[q].state, s),
         IsNew(s) => \A m \in Pointers : \A l \in Nat :
                       Near(ts, s, l) => Near(ts, heap[m].state, l)
  PROVE  Queued' /\ (\A n \in Pointers' : HasParent(n)') /\ Sorted'
<1>1. CASE IsNew(s) /\ Adds(s)
  <2> DEFINE new == NewNode
  <2>1. /\ new \notin Pointers /\ Pointers' = Pointers \cup {new}
        /\ \A n \in Pointers : heap'[n] = heap[n]
        /\ heap'[new].state = s
    BY <1>1, AddsFacts
  <2>2. /\ new = Len(heap) + 1 /\ waiting' = Append(waiting, new)
        /\ Len(heap') = Len(heap) + 1
    BY <1>1 DEF Adds, NewNode, TypeOK
  <2> HIDE DEF new
  <2>3. \A q \in DOMAIN visited : q \in Pointers /\ heap'[q] = heap[q]
    BY <2>1, VisitedFacts DEF Layered
  <2>4. Queued'
    <3>1. /\ Len(waiting') = Len(waiting) + 1 /\ DOMAIN waiting' = 1 .. Len(waiting) + 1
          /\ \A i \in DOMAIN waiting : waiting'[i] = waiting[i]
          /\ waiting'[Len(waiting) + 1] = new
      BY <2>2, SequenceFacts
    <3>2. Len(visited) + Len(waiting) = Len(heap)
      BY DEF Layered, Queued, Running
    <3>3. \A i \in DOMAIN waiting' : waiting'[i] = Len(visited) + i
      <4> SUFFICES ASSUME NEW i \in DOMAIN waiting' PROVE waiting'[i] = Len(visited) + i
        OBVIOUS
      <4>1. CASE i \in DOMAIN waiting
        BY <3>1, <4>1 DEF Layered, Queued
      <4>2. CASE i = Len(waiting) + 1
        BY <2>2, <3>1, <3>2, <4>2, SequenceFacts
      <4> QED
        BY <3>1, <4>1, <4>2, SequenceFacts
    <3>4. Len(visited) + Len(waiting') = Len(heap')
      BY <2>2, <3>1, <3>2, SequenceFacts
    <3> QED
      BY <3>3, <3>4 DEF Layered, Queued
  <2>5. \A n \in Pointers' : HasParent(n)'
    BY <2>1, <2>3 DEF Layered, HasParent
  <2>6. Sorted'
    <3> SUFFICES ASSUME NEW m \in Pointers', NEW n \in Pointers', NEW l \in Nat,
                        m < n, Near(ts, heap'[n].state, l)
                 PROVE  Near(ts, heap'[m].state, l)
      BY DEF Sorted
    <3>1. m \in Pointers
      BY <2>1, <2>2, SequenceFacts
    <3>2. CASE n \in Pointers
      BY <2>1, <3>1, <3>2 DEF Layered, Sorted
    <3>3. CASE n = new
      BY <1>1, <2>1, <3>1, <3>3
    <3> QED
      BY <2>1, <3>2, <3>3
  <2> QED
    BY <2>4, <2>5, <2>6
<1>2. CASE Meets(s)
  BY <1>2 DEF Meets, Layered, Queued, HasParent, Sorted, Pointers, Running
<1> QED
  BY <1>1, <1>2

\* The initial nodes are at distance 0.
LEMMA InitialLayered ==
  ASSUME MaxFailures = 0, IInv, Layered, InitialNode
  PROVE  Layered'
<1> DEFINE s == ts.init[it].state
<1>1. s \in States /\ ((IsNew(s) /\ Adds(s)) \/ (~ IsNew(s) /\ Meets(s)))
  <2>1. TypeOK /\ it \in DOMAIN ts.init /\ Build(s) /\ AddNode(s)
    BY DEF InitialNode, IInv
  <2>2. s \in States
    BY <2>1, InitialOutcome
  <2> QED
    BY <2>1, <2>2, BuildFacts
<1>2. pc = "initial" /\ UNCHANGED <<ts, pc, node, visited>> /\ s \in Starts(ts)
  BY DEF InitialNode, Starts, Elements
<1>3. visited = <<>> /\ DOMAIN visited = {}
  BY <1>2 DEF Layered, Queued
<1>4. \A m \in Pointers : heap[m].state \in Starts(ts)
  BY <1>3 DEF Layered, HasParent
<1>5. \A m \in Pointers : \A l \in Nat : Near(ts, heap[m].state, l)
  BY <1>4, NearStart, SequenceFacts DEF IInv
<1>6. Queued' /\ (\A n \in Pointers' : HasParent(n)') /\ Sorted'
  BY <1>1, <1>2, <1>5, LayeredBuild DEF IInv
<1>7. SuccessorsKept'
  BY <1>2, <1>3 DEF SuccessorsKept
<1> QED
  BY <1>6, <1>7 DEF Layered

\* A successor of the current node is as far as any node, or kept already.
LEMMA NextLayered ==
  ASSUME MaxFailures = 0, IInv, Layered, NextNode
  PROVE  Layered'
<1> DEFINE s == Outgoing[it].state
<1>1. node \in Pointers /\ s \in States /\ ((IsNew(s) /\ Adds(s)) \/ (~ IsNew(s) /\ Meets(s)))
  <2>1. TypeOK /\ pc = "edges" /\ it \in DOMAIN Outgoing /\ Build(s) /\ AddNode(s)
    BY DEF NextNode, IInv
  <2>2. node \in Pointers /\ s \in States
    BY <2>1, NextOutcome
  <2> QED
    BY <2>1, <2>2, BuildFacts
<1>2. /\ pc = "edges" /\ pc' = "edges" /\ UNCHANGED <<ts, pc, node, visited>> /\ it' = it + 1
      /\ it \in DOMAIN ts.succ[heap[node].state] /\ IsOk(ts.succ[heap[node].state][it])
      /\ s = ts.succ[heap[node].state][it].state
  BY DEF NextNode, Outgoing
<1>3. node \in DOMAIN visited /\ IsStep(ts, heap[node].state, s)
  <2>1. node = Len(visited)
    BY <1>2 DEF Layered, Queued
  <2>2. node \in DOMAIN visited
    BY <1>1, <2>1, SequenceFacts DEF IInv
  <2> HIDE DEF s
  <2> QED
    BY <1>2, <2>2 DEF IsStep
<1>4. found = Pointers /\ Numbered' /\ \E n \in Pointers' : heap'[n].state = s
  BY <1>1, <1>2, NumberedBuild DEF IInv, Numbered, Running
<1> HIDE DEF s
<1>5. Queued' /\ (\A n \in Pointers' : HasParent(n)') /\ Sorted'
  <2>1. IsNew(s) => \A m \in Pointers : \A l \in Nat :
                      Near(ts, s, l) => Near(ts, heap[m].state, l)
    BY <1>1, <1>2, <1>4, NewIsLast DEF IInv
  <2> QED
    BY <1>1, <1>2, <1>3, <2>1, LayeredBuild DEF IInv
<1>6. SuccessorsKept'
  <2>1. Pointers \subseteq Pointers' /\ \A n \in Pointers : heap'[n] = heap[n]
    BY <1>1, QueueBuild DEF IInv
  <2> SUFFICES ASSUME NEW q \in DOMAIN visited, NEW k \in DOMAIN ts.succ[heap[q].state],
                      IsOk(ts.succ[heap[q].state][k]), q = node => k < it + 1
               PROVE  \E n \in Pointers' : heap'[n].state = ts.succ[heap[q].state][k].state
    <3>1. \A q \in DOMAIN visited : heap'[q] = heap[q]
      BY <2>1, VisitedFacts DEF IInv, Layered
    <3> QED
      BY <1>2, <3>1 DEF SuccessorsKept, IsOk
  <2>2. CASE q = node /\ k = it
    BY <1>2, <1>4, <2>2
  <2>3. CASE ~ (q = node /\ k = it)
    <3>1. q = node => k < it
      <4>1. it \in Nat /\ (q = node => ts.succ[heap[q].state] \in Seq(Promise!Outcomes))
        BY <1>1, SystemType, SequenceFacts DEF IInv, TypeOK
      <4> QED
        BY <2>3, <4>1
    <3>2. \E n \in Pointers : heap[n].state = ts.succ[heap[q].state][k].state
      BY <1>2, <3>1 DEF Layered, SuccessorsKept, Running
    <3> QED
      BY <2>1, <3>2
  <2> QED
    BY <2>2, <2>3
<1> QED
  BY <1>5, <1>6 DEF Layered

\* The first waiting node comes after the visited ones.
LEMMA VisitLayered ==
  ASSUME IInv, Layered, policy = "fifo", Visit
  PROVE  Layered'
<1>1. /\ waiting # <<>> /\ pc = "waiting" /\ pc' = "edges" /\ it' = 1
      /\ node' = waiting[1] /\ visited' = Append(visited, waiting[1])
      /\ waiting' = Tail(waiting) /\ UNCHANGED <<ts, heap>>
  BY DEF Visit, First, RemoveFirst, builder
<1>2. /\ Len(waiting) \in Nat \ {0} /\ waiting[1] = Len(visited) + 1
      /\ visited \in Seq(Pointers) /\ waiting \in Seq(Pointers) /\ waiting[1] \in Pointers
  <2>1. waiting \in Seq(Pointers) /\ visited \in Seq(Pointers)
    BY DEF IInv, TypeOK
  <2>2. Len(waiting) \in Nat \ {0} /\ 1 \in DOMAIN waiting
    BY <1>1, <2>1
  <2> QED
    BY <2>1, <2>2 DEF Layered, Queued
<1>3. /\ Len(visited') = Len(visited) + 1 /\ DOMAIN visited' = 1 .. Len(visited) + 1
      /\ \A i \in DOMAIN visited : i \in DOMAIN visited' /\ visited'[i] = visited[i]
      /\ visited'[Len(visited) + 1] = Len(visited) + 1
      /\ Len(visited) \in Nat /\ DOMAIN visited = 1 .. Len(visited)
  BY <1>1, <1>2, AppendFacts
<1>4. /\ Len(waiting') = Len(waiting) - 1 /\ DOMAIN waiting' = 1 .. Len(waiting) - 1
      /\ \A i \in DOMAIN waiting' : i + 1 \in DOMAIN waiting /\ waiting'[i] = waiting[i + 1]
  BY <1>1, <1>2
<1>5. Queued'
  <2>1. \A i \in DOMAIN visited' : visited'[i] = i
    BY <1>3 DEF Layered, Queued
  <2>2. \A i \in DOMAIN waiting' : waiting'[i] = Len(visited') + i
    BY <1>3, <1>4 DEF Layered, Queued
  <2>3. Len(visited') + Len(waiting') = Len(heap')
    BY <1>1, <1>2, <1>3, <1>4 DEF Layered, Queued, Running
  <2>4. node' = Len(visited')
    BY <1>1, <1>2, <1>3
  <2> QED
    BY <1>1, <2>1, <2>2, <2>3, <2>4 DEF Queued
<1>6. \A n \in Pointers' : HasParent(n)'
  BY <1>1, <1>3 DEF Layered, HasParent, Pointers
<1>7. SuccessorsKept'
  <2> SUFFICES ASSUME NEW q \in DOMAIN visited', NEW k \in DOMAIN ts.succ[heap[q].state],
                      IsOk(ts.succ[heap[q].state][k]), q = node' => k < 1
               PROVE  \E n \in Pointers : heap[n].state = ts.succ[heap[q].state][k].state
    BY <1>1 DEF SuccessorsKept, IsOk, Pointers
  <2>1. CASE q \in DOMAIN visited
    BY <1>1, <2>1 DEF Layered, SuccessorsKept, Running
  <2>2. CASE q = Len(visited) + 1
    <3>1. q \in Pointers /\ k < 1
      BY <1>1, <1>2, <2>2
    <3>2. ts.succ[heap[q].state] \in Seq(Promise!Outcomes)
      BY <3>1, SystemType, SequenceFacts DEF IInv
    <3> QED
      BY <3>1, <3>2
  <2> QED
    BY <1>3, <2>1, <2>2
<1>8. Sorted'
  BY <1>1 DEF Layered, Sorted, Pointers
<1> QED
  BY <1>5, <1>6, <1>7, <1>8 DEF Layered

\* The other steps create and visit no node.
LEMMA OtherLayered ==
  ASSUME IInv, Layered,
         \/ RefuseInitial \/ InitialRaises \/ EndInitial
         \/ RefuseNext \/ NextRaises \/ EndEdges \/ Done \/ UNCHANGED vars
  PROVE  Layered'
<1>1. /\ UNCHANGED <<ts, heap, node, visited>>
      /\ waiting' = waiting \/ (waiting' = <<>> /\ ~ Running')
      /\ Running' => Running
  BY DEF RefuseInitial, InitialRaises, EndInitial, RefuseNext, NextRaises, EndEdges, Done,
     Fail, vars, builder, Running
<1>2. /\ Running' => waiting' = waiting
      /\ pc' = "initial" => pc = "initial"
      /\ pc' = "edges" => pc = "edges"
  BY DEF RefuseInitial, InitialRaises, EndInitial, RefuseNext, NextRaises, EndEdges, Done,
     Fail, vars, builder, Running
<1>3. Queued'
  <2>1. \A i \in DOMAIN waiting' : waiting'[i] = Len(visited) + i
    BY <1>1 DEF Layered, Queued
  <2> QED
    BY <1>1, <1>2, <2>1 DEF Layered, Queued
<1>4. \A n \in Pointers' : HasParent(n)'
  BY <1>1 DEF Layered, HasParent, Pointers
<1>5. Sorted'
  BY <1>1 DEF Layered, Sorted, Pointers
<1>6. SuccessorsKept'
  <2> SUFFICES ASSUME Running', NEW q \in DOMAIN visited, NEW k \in DOMAIN ts.succ[heap[q].state],
                      IsOk(ts.succ[heap[q].state][k]), pc' = "edges" /\ q = node => k < it'
               PROVE  \E n \in Pointers : heap[n].state = ts.succ[heap[q].state][k].state
    BY <1>1 DEF SuccessorsKept, IsOk, Pointers
  <2>1. Running
    BY <1>1
  <2>2. pc = "edges" /\ q = node => k < it
    <3> SUFFICES ASSUME pc = "edges", q = node PROVE k < it
      OBVIOUS
    <3>1. /\ node \in Pointers /\ Outgoing = ts.succ[heap[q].state]
          /\ Outgoing \in Seq(Promise!Outcomes) /\ it \in Nat \ {0}
      BY SystemType, SequenceFacts DEF IInv, TypeOK, Outgoing
    <3>2. CASE RefuseNext
      <4>1. pc' = "edges" /\ it' = it + 1 /\ ~ IsOk(ts.succ[heap[q].state][it])
        BY <3>1, <3>2 DEF RefuseNext
      <4>2. k # it /\ k < it + 1
        BY <4>1
      <4> QED
        BY <3>1, <4>2
    <3>3. CASE EndEdges
      <4>1. it \notin DOMAIN Outgoing
        BY <3>3 DEF EndEdges
      <4> QED
        BY <3>1, <4>1
    <3>4. CASE UNCHANGED vars
      BY <3>4 DEF vars
    <3> QED
      BY <3>2, <3>3, <3>4 DEF RefuseInitial, InitialRaises, EndInitial, NextRaises, Done,
         Fail, Running
  <2> QED
    BY <2>1, <2>2 DEF Layered, SuccessorsKept
<1> QED
  BY <1>3, <1>4, <1>5, <1>6 DEF Layered

\* With a FIFO container the nodes are created and visited by increasing distance.
LEMMA LayeredInvariant ==
  ASSUME MaxFailures = 0
  PROVE  Spec => [](policy = "fifo" => Layered)
<1>1. IInv /\ (policy = "fifo" => Layered) /\ [Next]_vars => (policy = "fifo" => Layered)'
  <2> SUFFICES ASSUME IInv, policy = "fifo", Layered, [Next]_vars PROVE Layered'
    BY DEF Next, vars, InitialNode, RefuseInitial, InitialRaises, EndInitial, Visit, NextNode,
       RefuseNext, NextRaises, EndEdges, Done, Fail
  <2> QED
    BY InitialLayered, NextLayered, VisitLayered, OtherLayered DEF Next
<1> QED
  BY <1>1, Invariant, LayeredInit, PTL DEF Spec

\* The successors of some states.
LEMMA TargetsFacts ==
  ASSUME TypeOK, NEW S \in SUBSET States
  PROVE  Targets(S) = {u \in States : \E s \in S : IsStep(ts, s, u)}
<1>1. ASSUME NEW s \in S, NEW k \in DOMAIN ts.succ[s]
      PROVE  ts.succ[s][k] \in Promise!Outcomes /\ ts.succ[s][k].state \in States
  <2>1. ts.succ[s] \in Seq(Promise!Outcomes)
    BY SystemType
  <2>2. ts.succ[s][k] \in Promise!Outcomes
    BY <2>1
  <2> QED
    BY <2>2 DEF Promise!Outcomes
<1>2. ASSUME NEW u \in Targets(S) PROVE u \in States /\ \E s \in S : IsStep(ts, s, u)
  BY <1>1, <1>2 DEF Targets, IsStep, Promise!Elements
<1>3. ASSUME NEW u \in States, NEW s \in S, IsStep(ts, s, u) PROVE u \in Targets(S)
  BY <1>3 DEF Targets, IsStep, Promise!Elements
<1> QED
  BY <1>2, <1>3

\* The last transition of a run, or none.
LEMMA NearCases ==
  ASSUME NEW t, NEW u \in States, NEW n \in Nat, Starts(t) \subseteq States,
         Near(t, u, n), u \notin Starts(t)
  PROVE  n - 1 \in Nat /\ \E s \in States : Near(t, s, n - 1) /\ IsStep(t, s, u)
<1> DEFINE H == States \ {u}
<1>1. Starts(t) \subseteq H /\ u \notin H /\ States \ H = {u}
  OBVIOUS
<1> HIDE DEF H
<1>2. /\ n - 1 \in Nat
      /\ \E s \in H \cap States, v \in States \ H : Near(t, s, n - 1) /\ IsStep(t, s, v)
  BY <1>1, NearLeaves
<1> QED
  BY <1>1, <1>2

\* What is near is not far.
LEMMA NearMonotone ==
  ASSUME NEW t, NEW s, NEW n \in Nat, Near(t, s, n)
  PROVE  Near(t, s, n + 1)
<1>1. PICK m \in 0 .. n : \E p \in [0 .. m -> States] : IsRun(t, p, m) /\ p[m] = s
  BY DEF Near
<1>2. m \in 0 .. n + 1
  OBVIOUS
<1> QED
  BY <1>1, <1>2 DEF Near

\* Within counts transitions.
LEMMA WithinNear ==
  ASSUME TypeOK
  PROVE  \A n \in Nat : Within[n] = {s \in States : Near(ts, s, n)}
<1> DEFINE I == {o.state : o \in {p \in Promise!Elements(ts.init) : IsOk(p)}}
           f == [k \in Nat |-> {s \in States : Near(ts, s, k)}]
<1>1. I = Starts(ts) /\ I \subseteq States
  <2>1. I = Starts(ts)
    BY DEF Starts, Elements, Promise!Elements
  <2>2. ASSUME NEW k \in DOMAIN ts.init PROVE ts.init[k].state \in States
    <3>1. ts.init[k] \in Promise!Outcomes
      BY SystemType
    <3> QED
      BY <3>1 DEF Promise!Outcomes
  <2> QED
    BY <2>1, <2>2 DEF Promise!Elements
<1>2. f[0] = I
  <2>1. ASSUME NEW u \in States, Near(ts, u, 0) PROVE u \in I
    <3>1. 0 - 1 \notin Nat
      OBVIOUS
    <3>2. u \in Starts(ts)
      BY <1>1, <2>1, <3>1, NearCases
    <3> QED
      BY <1>1, <3>2
  <2>2. ASSUME NEW u \in I PROVE Near(ts, u, 0)
    BY <1>1, <2>2, NearStart
  <2> QED
    BY <1>1, <2>1, <2>2
<1>3. ASSUME NEW k \in Nat PROVE f[k + 1] = f[k] \cup Targets(f[k])
  <2>0. f[k] = {s \in States : Near(ts, s, k)} /\ f[k + 1] = {s \in States : Near(ts, s, k + 1)}
    OBVIOUS
  <2> HIDE DEF f
  <2>1. Targets(f[k]) = {u \in States : \E s \in f[k] : IsStep(ts, s, u)}
    BY <2>0, TargetsFacts
  <2>2. ASSUME NEW u \in f[k + 1] PROVE u \in f[k] \cup Targets(f[k])
    <3>1. CASE u \in Starts(ts)
      BY <2>0, <2>2, <3>1, NearStart
    <3>2. CASE u \notin Starts(ts)
      <4>1. (k + 1) - 1 = k
        OBVIOUS
      <4>2. \E s \in States : Near(ts, s, (k + 1) - 1) /\ IsStep(ts, s, u)
        BY <1>1, <2>0, <2>2, <3>2, NearCases
      <4> QED
        BY <2>0, <2>1, <2>2, <4>1, <4>2
    <3> QED
      BY <3>1, <3>2
  <2>3. ASSUME NEW u \in f[k] PROVE u \in f[k + 1]
    BY <2>0, <2>3, NearMonotone
  <2>4. ASSUME NEW u \in Targets(f[k]) PROVE u \in f[k + 1]
    BY <2>0, <2>1, <2>4, NearStep
  <2> QED
    BY <2>2, <2>3, <2>4
<1>4. f = [n \in Nat |-> IF n = 0 THEN I ELSE f[n - 1] \cup Targets(f[n - 1])]
  <2>1. \A n \in Nat : f[n] = IF n = 0 THEN I ELSE f[n - 1] \cup Targets(f[n - 1])
    <3> SUFFICES ASSUME NEW n \in Nat, n # 0 PROVE f[n] = f[n - 1] \cup Targets(f[n - 1])
      BY <1>2
    <3>1. n - 1 \in Nat /\ (n - 1) + 1 = n
      OBVIOUS
    <3> HIDE DEF f
    <3> QED
      BY <1>3, <3>1
  <2>2. f = [n \in Nat |-> f[n]]
    OBVIOUS
  <2> HIDE DEF f, I
  <2> QED
    BY <2>1, <2>2
<1>5. Within = [n \in Nat |-> IF n = 0 THEN I ELSE Within[n - 1] \cup Targets(Within[n - 1])]
  <2> HIDE DEF f
  <2> QED
    BY <1>4, Zenon DEF Within
<1> HIDE DEF f, I
<1> DEFINE T == {n \in Nat : Within[n] # f[n]}
<1>6. T = {}
  <2> SUFFICES ASSUME T # {} PROVE FALSE
    OBVIOUS
  <2>1. PICK k \in T : \A j \in T : k <= j
    BY Least
  <2>2. Within[0] = I /\ \A n \in Nat \ {0} : Within[n] = Within[n - 1] \cup Targets(Within[n - 1])
    BY <1>5
  <2>3. k \in Nat \ {0}
    BY <1>2, <2>1, <2>2
  <2>4. k - 1 \in Nat /\ k - 1 \notin T
    BY <2>1, <2>3
  <2>5. f[k] = f[k - 1] \cup Targets(f[k - 1])
    BY <1>4, <2>3
  <2> QED
    BY <2>1, <2>2, <2>3, <2>4, <2>5
<1> QED
  BY <1>6 DEF f

\* With a FIFO container, a state is visited after all those that are nearer to
\* the initial states: explore does the breadth-first search that options.cc names.
THEOREM VisitsBreadthFirst ==
  ASSUME MaxFailures = 0
  PROVE  Spec => []BreadthFirst
<1>1. IInv /\ (policy = "fifo" => Layered) => BreadthFirst
  <2> SUFFICES ASSUME IInv, Layered, NEW i \in DOMAIN visited, NEW j \in DOMAIN visited,
                      NEW n \in 0 .. Len(heap), i < j, heap[visited[j]].state \in Within[n]
               PROVE  heap[visited[i]].state \in Within[n]
    BY DEF BreadthFirst
  <2>1. n \in Nat /\ visited[i] = i /\ visited[j] = j /\ i \in Pointers /\ j \in Pointers
    BY VisitedFacts, SequenceFacts DEF IInv, Layered, Queued
  <2>2. Within[n] = {s \in States : Near(ts, s, n)}
    BY <2>1, WithinNear DEF IInv
  <2>3. Near(ts, heap[i].state, n)
    BY <2>1, <2>2 DEF Layered, Sorted
  <2> QED
    BY <2>1, <2>2, <2>3, SequenceFacts DEF IInv
<1> QED
  BY <1>1, Invariant, LayeredInvariant, PTL
=============================================================================
