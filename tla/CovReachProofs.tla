--------------------------- MODULE CovReachProofs ---------------------------
(***************************************************************************)
(* Proofs about CovReach, for every set of states and every transition     *)
(* system that satisfies TransitionSystemsAssumption: the variables keep   *)
(* their types, the verdict is right, the algorithm implements             *)
(* Reachability, the edges of the graph represent all the successors, and  *)
(* no stored node is redundant.                                            *)
(***************************************************************************)
EXTENDS CovReach, FiniteSetTheorems, SequenceTheorems, TLAPS

-----------------------------------------------------------------------------
(* Lemmas about the transition systems. *)

\* The fields of a transition system have their types.
LEMMA TransitionSystemType ==
  ASSUME NEW t \in TransitionSystems
  PROVE  /\ t.init \in Seq(States)
         /\ \A s \in States : t.succ[s] \in Seq(States)
         /\ IsPreorder(t) /\ IsSimulation(t) /\ IsMonotonous(t)
BY TransitionSystemsAssumption DEF IsTransitionSystem

\* Initial states are reachable, and so are the successors of reachable states.
LEMMA ReachableIsClosed ==
  ASSUME NEW t \in TransitionSystems
  PROVE  /\ Elements(t.init) \subseteq Reachable(t)
         /\ \A s \in Reachable(t) : Elements(t.succ[s]) \subseteq Reachable(t)
<1>1. Elements(t.init) \subseteq States
  BY TransitionSystemType DEF Elements
<1>2. ASSUME NEW s \in Reachable(t) PROVE Elements(t.succ[s]) \subseteq Reachable(t)
  <2>1. s \in States /\ \A S \in SUBSET States : IsClosed(t, S) => s \in S
    BY DEF Reachable
  <2>2. Elements(t.succ[s]) \subseteq States
    BY <2>1, TransitionSystemType DEF Elements
  <2> QED
    BY <2>1, <2>2 DEF Reachable, IsClosed
<1> QED
  BY <1>1, <1>2 DEF Reachable, IsClosed

\* What the covering algorithm relies on: a set of known states that has the
\* initial ones, is closed under successors and downward is everything.
LEMMA ClosedCoversReachable ==
  ASSUME NEW t \in TransitionSystems, NEW S \in SUBSET States, IsClosed(t, S)
  PROVE  Reachable(t) \subseteq S
BY DEF Reachable

-----------------------------------------------------------------------------
(* Lemmas about the waiting container and the graph. *)

\* Removing the first active element keeps the type of the container.
LEMMA RemoveFirstType ==
  ASSUME NEW S, NEW w \in Seq(S), NEW i \in DOMAIN w
  PROVE  RemoveFirst(w, i) \in Seq(S)
<1>1. i \in 1 .. Len(w)
  OBVIOUS
<1>2. SubSeq(w, i + 1, Len(w)) \in Seq(S)
  BY <1>1
<1>3. SubSeq(w, 1, i - 1) \in Seq(S)
  BY <1>1
<1> QED
  BY <1>2, <1>3 DEF RemoveFirst

\* It leaves every other active element where it was.
LEMMA RemoveFirstElements ==
  ASSUME NEW S, NEW w \in Seq(S), NEW i \in DOMAIN w, IsFirst(w, i)
  PROVE  /\ Elements(RemoveFirst(w, i)) \subseteq Elements(w)
         /\ (Elements(w) \cap active) \ {w[i]} \subseteq Elements(RemoveFirst(w, i))
<1>1. i \in 1 .. Len(w) /\ DOMAIN w = 1 .. Len(w)
  OBVIOUS
<1>2. CASE policy = "fifo"
  <2> DEFINE r == SubSeq(w, i + 1, Len(w))
  <2>1. RemoveFirst(w, i) = r
    BY <1>2 DEF RemoveFirst
  <2>2. /\ Len(r) = Len(w) - i
        /\ DOMAIN r = 1 .. Len(r)
        /\ \A k \in 1 .. Len(r) : r[k] = w[i + k]
    BY <1>1
  <2> HIDE DEF r
  <2>3. ASSUME NEW k \in 1 .. Len(w), w[k] \in active, w[k] # w[i]
        PROVE  \E l \in DOMAIN r : w[k] = r[l]
    <3>1. i < k
      BY <1>1, <1>2, <2>3 DEF IsFirst
    <3>2. k - i \in 1 .. Len(r) /\ i + (k - i) = k
      BY <1>1, <2>2, <3>1
    <3>3. w[k] = r[k - i]
      BY <2>2, <3>2
    <3> QED
      BY <2>2, <3>2, <3>3
  <2>4. ASSUME NEW k \in 1 .. Len(r) PROVE i + k \in DOMAIN w /\ r[k] = w[i + k]
    BY <1>1, <2>2
  <2>5. Elements(r) \subseteq Elements(w)
    BY <2>2, <2>4 DEF Elements
  <2>6. (Elements(w) \cap active) \ {w[i]} \subseteq Elements(r)
    BY <1>1, <2>3 DEF Elements
  <2> QED
    BY <2>1, <2>5, <2>6
<1>3. CASE policy # "fifo"
  <2> DEFINE r == SubSeq(w, 1, i - 1)
  <2>1. RemoveFirst(w, i) = r
    BY <1>3 DEF RemoveFirst
  <2>2. /\ Len(r) = i - 1
        /\ DOMAIN r = 1 .. Len(r)
        /\ \A k \in 1 .. Len(r) : r[k] = w[k]
    BY <1>1
  <2>3. ASSUME NEW k \in 1 .. Len(w), w[k] \in active, w[k] # w[i]
        PROVE  \E l \in DOMAIN r : w[k] = r[l]
    <3>1. k < i
      BY <1>1, <1>3, <2>3 DEF IsFirst
    <3>2. k \in DOMAIN r /\ w[k] = r[k]
      BY <1>1, <2>2, <3>1
    <3> QED
      BY <3>2
  <2> QED
    BY <1>1, <2>1, <2>2, <2>3 DEF Elements
<1> QED
  BY <1>2, <1>3

\* The elements of a concatenation.
LEMMA ConcatElements ==
  ASSUME NEW S, NEW T, NEW s \in Seq(S), NEW t \in Seq(T)
  PROVE  Elements(s \o t) = Elements(s) \cup Elements(t)
<1> DEFINE r == s \o t
<1>1. /\ s \in Seq(S \cup T) /\ t \in Seq(S \cup T)
      /\ DOMAIN s = 1 .. Len(s) /\ DOMAIN t = 1 .. Len(t)
      /\ Len(s) \in Nat /\ Len(t) \in Nat
  OBVIOUS
<1>2. /\ DOMAIN r = 1 .. Len(s) + Len(t)
      /\ \A i \in DOMAIN s : r[i] = s[i]
      /\ \A i \in DOMAIN t : r[Len(s) + i] = t[i]
  BY <1>1
<1> HIDE DEF r
<1>3. ASSUME NEW i \in DOMAIN r PROVE r[i] \in Elements(s) \cup Elements(t)
  <2>1. CASE i \in DOMAIN s
    BY <1>2, <2>1 DEF Elements
  <2>2. CASE i \notin DOMAIN s
    <3>1. i - Len(s) \in DOMAIN t /\ i = Len(s) + (i - Len(s))
      BY <1>1, <1>2, <2>2
    <3> QED
      BY <1>2, <3>1 DEF Elements
  <2> QED
    BY <2>1, <2>2
<1>4. ASSUME NEW i \in DOMAIN s PROVE s[i] \in Elements(r)
  BY <1>1, <1>2 DEF Elements
<1>5. ASSUME NEW i \in DOMAIN t PROVE t[i] \in Elements(r)
  BY <1>1, <1>2 DEF Elements
<1>6. Elements(r) = Elements(s) \cup Elements(t)
  BY <1>3, <1>4, <1>5 DEF Elements
<1> QED
  BY <1>6 DEF r

\* The elements of an extended sequence.
LEMMA AppendElements ==
  ASSUME NEW S, NEW s \in Seq(S), NEW x \in S
  PROVE  Elements(Append(s, x)) = Elements(s) \cup {x}
BY AppendProperties DEF Elements

\* Nodes are never forgotten, so sequences of nodes stay sequences of nodes.
LEMMA SeqMonotonous ==
  ASSUME NEW S, NEW T, S \subseteq T, NEW s \in Seq(S)
  PROVE  s \in Seq(T)
<1>1. s \in [1 .. Len(s) -> T]
  OBVIOUS
<1> QED
  BY <1>1

\* What appending the nodes of a list of states does to the table of states.
LEMMA NewNodesType ==
  ASSUME state \in Seq(States), NEW s \in Seq(States)
  PROVE  /\ state \o s \in Seq(States)
         /\ Nodes = 1 .. Len(state)
         /\ DOMAIN (state \o s) = Nodes \cup Ranks(s)
         /\ NewNodes(s) \in Seq(Ranks(s))
         /\ Len(NewNodes(s)) = Len(s)
         /\ \A i \in DOMAIN s : NewNodes(s)[i] = Len(state) + i
         /\ Elements(NewNodes(s)) = Ranks(s)
         /\ \A n \in Nodes : (state \o s)[n] = state[n]
         /\ \A i \in DOMAIN s : (state \o s)[Len(state) + i] = s[i]
         /\ Ranks(s) \cap Nodes = {}
<1> DEFINE r == state \o s
<1>1. /\ r \in Seq(States) /\ Len(r) = Len(state) + Len(s)
      /\ DOMAIN r = 1 .. Len(r) /\ DOMAIN s = 1 .. Len(s)
      /\ Nodes = 1 .. Len(state) /\ Len(state) \in Nat /\ Len(s) \in Nat
  BY DEF Nodes
<1>2. \A n \in 1 .. Len(state) : r[n] = state[n]
  BY <1>1
<1>3. \A i \in 1 .. Len(s) : r[Len(state) + i] = s[i]
  BY <1>1
<1>4. DOMAIN r = Nodes \cup Ranks(s)
  <2>1. ASSUME NEW n \in 1 .. Len(r), n \notin Nodes PROVE n \in Ranks(s)
    <3>1. n - Len(state) \in DOMAIN s /\ n = Len(state) + (n - Len(state))
      BY <1>1, <2>1
    <3> QED
      BY <3>1 DEF Ranks
  <2>2. Ranks(s) \subseteq 1 .. Len(r)
    BY <1>1 DEF Ranks
  <2>3. Nodes \subseteq 1 .. Len(r)
    BY <1>1
  <2> QED
    BY <1>1, <2>1, <2>2, <2>3
<1>5. Ranks(s) \cap Nodes = {}
  BY <1>1 DEF Ranks
<1>6. /\ NewNodes(s) \in [1 .. Len(s) -> Ranks(s)]
      /\ \A i \in DOMAIN s : NewNodes(s)[i] = Len(state) + i
  BY <1>1 DEF NewNodes, Ranks
<1>7. NewNodes(s) \in Seq(Ranks(s)) /\ Len(NewNodes(s)) = Len(s)
  BY <1>1, <1>6
<1>8. Elements(NewNodes(s)) = Ranks(s)
  BY <1>1, <1>6 DEF Elements, NewNodes, Ranks
<1> HIDE DEF r
<1>9. r = state \o s
  BY DEF r
<1> QED
  BY <1>1, <1>2, <1>3, <1>4, <1>5, <1>6, <1>7, <1>8, <1>9

\* Covering nodes keeps the type of the edges.
LEMMA CoverEdgesType ==
  ASSUME NEW E \in SUBSET Edge, NEW C, NEW n \in Nodes
  PROVE  CoverEdges(E, C, n) \in SUBSET Edge
BY DEF CoverEdges, Edge, EdgeTypes

\* The nodes a node covers are finitely many.
LEMMA CardinalityType ==
  ASSUME state \in Seq(States), NEW C \in SUBSET Nodes
  PROVE  Cardinality(C) \in Nat
<1>1. Nodes = 1 .. Len(state) /\ Len(state) \in Nat
  BY DEF Nodes
<1>2. IsFiniteSet(Nodes)
  BY <1>1, FS_Interval
<1> QED
  BY <1>2, FS_Subset, FS_CardinalityType

\* What the counters are.
Stats == [visited : Nat, leaf : Nat, nonleaf : Nat]

\* Increments keep the type of the counters.
LEMMA StatsType ==
  ASSUME NEW s \in Stats, NEW k \in Nat
  PROVE  /\ [s EXCEPT !.visited = @ + 1] \in Stats
         /\ [s EXCEPT !.leaf = @ + 1] \in Stats
         /\ [s EXCEPT !.nonleaf = @ + k] \in Stats
BY DEF Stats

-----------------------------------------------------------------------------
(* Type correctness. *)

\* A step of the algorithm keeps the types of the variables.
LEMMA TypeStep ==
  ASSUME TypeOK, [Next]_vars
  PROVE  TypeOK'
<1> USE DEF TypeOK
<1>t. ts \in TransitionSystems
  OBVIOUS
<1>i. /\ ts.init \in Seq(States)
      /\ \A s \in States : ts.succ[s] \in Seq(States)
  BY TransitionSystemType
<1>1. CASE ExpandInitialNodes
  <2>1. /\ state' = state \o ts.init
        /\ Nodes' = Nodes \cup Ranks(ts.init)
        /\ state' \in Seq(States)
    BY <1>1, <1>i, NewNodesType DEF ExpandInitialNodes, Nodes
  <2>2. NewNodes(ts.init) \in Seq(Nodes')
    BY <1>i, <2>1, NewNodesType, SeqMonotonous
  <2>3. waiting \in Seq(Nodes') /\ nodes \in Seq(Nodes')
    BY <2>1, SeqMonotonous
  <2>4. waiting' \in Seq(Nodes')
    BY <1>1, <2>2, <2>3 DEF ExpandInitialNodes
  <2>5. edges' \in SUBSET Edge'
    BY <1>1, <2>1 DEF ExpandInitialNodes, Edge
  <2> QED
    BY <1>1, <2>1, <2>3, <2>4, <2>5 DEF ExpandInitialNodes
<1>2. CASE Exhausted
  BY <1>2 DEF Exhausted, Nodes, Edge
<1>3. ASSUME NEW i \in DOMAIN waiting, Accept(i) PROVE TypeOK'
  <2>1. waiting' \in Seq(Nodes)
    BY <1>3, RemoveFirstType DEF Accept
  <2>2. stats' \in Stats
    BY <1>3, StatsType DEF Accept, Stats
  <2>3. Edge' = Edge /\ Nodes' = Nodes
    BY <1>3 DEF Accept, Edge, Nodes
  <2> QED
    BY <1>3, <2>1, <2>2, <2>3 DEF Accept, Stats
<1>4. ASSUME NEW i \in DOMAIN waiting, Expand(i) PROVE TypeOK'
  <2> DEFINE n == waiting[i]
             succ == ts.succ[state[n]]
  <2>1. n \in Nodes /\ state[n] \in States /\ succ \in Seq(States)
    BY <1>i DEF Nodes
  <2> HIDE DEF succ
  <2>2. /\ state' = state \o succ
        /\ Nodes' = Nodes \cup Ranks(succ)
        /\ state' \in Seq(States)
    BY <1>4, <2>1, NewNodesType DEF Expand, Nodes, succ
  <2>3. nodes' \in Seq(Nodes') /\ Len(nodes') \in Nat
    <3>1. /\ nodes' = NewNodes(succ) /\ Ranks(succ) \subseteq Nodes'
          /\ NewNodes(succ) \in Seq(Ranks(succ))
      BY <1>4, <2>1, <2>2, NewNodesType DEF Expand, succ
    <3> QED
      BY <3>1, SeqMonotonous
  <2>4. waiting' \in Seq(Nodes')
    BY <1>4, <2>2, RemoveFirstType, SeqMonotonous DEF Expand
  <2>5. edges' \in SUBSET Edge'
    <3>1. NewEdges(n, succ) \in SUBSET Edge'
      BY <2>1, <2>2 DEF NewEdges, Edge, EdgeTypes
    <3>2. edges \in SUBSET Edge'
      BY <2>2 DEF Edge
    <3> QED
      BY <1>4, <3>1, <3>2 DEF Expand, succ
  <2>6. active' \in SUBSET Nodes' /\ stored' \in SUBSET Nodes'
    BY <1>4, <2>2 DEF Expand, succ
  <2>7. stats' \in Stats
    BY <1>4, StatsType DEF Expand, Stats
  <2> QED
    BY <1>4, <2>2, <2>3, <2>4, <2>5, <2>6, <2>7 DEF Expand, Stats
<1>5. CASE SkipInactive
  <2>1. Nodes' = Nodes /\ Edge' = Edge /\ nodes' = nodes
    BY <1>5 DEF SkipInactive, Nodes, Edge
  <2>2. Len(nodes) \in Nat /\ DOMAIN nodes = 1 .. Len(nodes)
    OBVIOUS
  <2>3. pos' \in 1 .. Len(nodes') + 1
    BY <1>5, <2>1, <2>2 DEF SkipInactive
  <2> QED
    BY <1>5, <2>1, <2>3 DEF SkipInactive
<1>6. ASSUME NEW m \in stored, CoverNext(m) PROVE TypeOK'
  <2>1. edges' \in SUBSET Edge
    BY <1>6, CoverEdgesType DEF CoverNext
  <2>2. stats' \in Stats
    BY <1>6, StatsType DEF CoverNext, Stats
  <2>3. Edge' = Edge /\ Nodes' = Nodes
    BY <1>6 DEF CoverNext, Edge, Nodes
  <2>4. pos' \in 1 .. Len(nodes') + 1
    BY <1>6 DEF CoverNext
  <2>5. active' \in SUBSET Nodes /\ stored' \in SUBSET Nodes
    BY <1>6 DEF CoverNext
  <2> QED
    BY <1>6, <2>1, <2>2, <2>3, <2>4, <2>5 DEF CoverNext, Stats
<1>7. CASE KeepNext
  <2> DEFINE n == nodes[pos]
  <2>1. n \in Nodes
    BY <1>7 DEF KeepNext
  <2>2. waiting' \in Seq(Nodes)
    BY <1>7, <2>1 DEF KeepNext, Insert
  <2>3. edges' \in SUBSET Edge
    BY <1>7, <2>1, CoverEdgesType DEF KeepNext
  <2>4. Cardinality(CoveredNodes(n)) \in Nat
    BY CardinalityType DEF CoveredNodes
  <2>5. stats' \in Stats
    BY <1>7, <2>4, StatsType DEF KeepNext, Stats
  <2>6. Edge' = Edge /\ Nodes' = Nodes
    BY <1>7 DEF KeepNext, Edge, Nodes
  <2>7. pos' \in 1 .. Len(nodes') + 1
    BY <1>7 DEF KeepNext
  <2> QED
    BY <1>7, <2>2, <2>3, <2>5, <2>6, <2>7 DEF KeepNext, Stats
<1>8. CASE EndCovering
  BY <1>8 DEF EndCovering, Nodes, Edge
<1>9. CASE UNCHANGED vars
  BY <1>9 DEF vars, Nodes, Edge
<1> QED
  BY <1>1, <1>2, <1>3, <1>4, <1>5, <1>6, <1>7, <1>8, <1>9 DEF Next

\* The variables of run() keep their types: nodes are ranks of creation, the
\* position of the covering loop is in the list of nodes or just after it.
THEOREM TypeCorrect == Spec => []TypeOK
<1>1. Init => TypeOK
  BY DEF Init, TypeOK, Nodes, Edge, Policies
<1>2. TypeOK /\ [Next]_vars => TypeOK'
  BY TypeStep
<1> QED
  BY <1>1, <1>2, PTL DEF Spec

-----------------------------------------------------------------------------
(* The inductive invariant behind the verdict.                              *)

\* What the algorithm knows.
Known == {s \in States : Covered(s)}

\* The node table holds the active nodes.
Table == stored = active

\* The phases of run().
Phases ==
  /\ outcome = "none" <=> pc # "done"
  /\ pc # "covering" => nodes = <<>>

\* Nothing unreachable is ever built.
NodesReachable == \A n \in Nodes : state[n] \in Reachable(ts)

\* The initial states are known once their nodes are built.
InitialKnown == pc # "initial" => Elements(ts.init) \subseteq Known

\* A stored node is still to be looked at, or it is the accepting node found,
\* or it is not accepting and all its successors are known.
Handled(n) ==
  \/ n \in Elements(waiting) \cup Pending
  \/ outcome = "REACHABLE"
  \/ /\ state[n] \notin ts.accepting
     /\ Elements(ts.succ[state[n]]) \subseteq Known

NothingMissed == \A n \in stored : Handled(n)

\* The answers that have been given are right.
AnswerRight ==
  /\ outcome = "REACHABLE" => HasAcceptingRun(ts)
  /\ outcome = "UNREACHABLE" => Reachable(ts) \subseteq Known /\ ~ HasAcceptingRun(ts)

IInv ==
  /\ TypeOK
  /\ Table
  /\ Phases
  /\ NodesReachable
  /\ InitialKnown
  /\ NothingMissed
  /\ AnswerRight

\* If every stored node keeps a stored node above it, nothing known is lost.
LEMMA KnownKept ==
  ASSUME TypeOK, TypeOK', ts' = ts,
         \A m \in stored : \E n \in stored' : Le(ts, state[m], state'[n])
  PROVE  Known \subseteq Known'
<1>1. SUFFICES ASSUME NEW s \in States, NEW m \in stored, Le(ts, s, state[m])
               PROVE  Covered(s)'
  BY DEF Known, Covered
<1>2. PICK n \in stored' : Le(ts, state[m], state'[n])
  OBVIOUS
<1>3. state[m] \in States /\ state'[n] \in States
  <2>1. state \in Seq(States) /\ m \in DOMAIN state
    BY DEF TypeOK, Nodes
  <2>2. state' \in Seq(States) /\ n \in DOMAIN state'
    BY DEF TypeOK, Nodes
  <2> QED
    BY <2>1, <2>2
<1>4. IsPreorder(ts)
  BY TransitionSystemType DEF TypeOK
<1>5. Le(ts, s, state'[n])
  BY <1>1, <1>2, <1>3, <1>4 DEF IsPreorder
<1> QED
  BY <1>2, <1>5 DEF Covered

\* After a step, the states of the stored nodes are known.
LEMMA StoredKnown ==
  ASSUME TypeOK', NEW n \in stored'
  PROVE  state'[n] \in Known'
<1>1. state'[n] \in States
  <2>1. state' \in Seq(States) /\ n \in DOMAIN state'
    BY DEF TypeOK, Nodes
  <2> QED
    BY <2>1
<1>2. ts' \in TransitionSystems
  BY DEF TypeOK
<1>3. Le(ts', state'[n], state'[n])
  BY <1>1, <1>2, TransitionSystemType DEF IsPreorder
<1> QED
  BY <1>1, <1>3 DEF Known, Covered

\* No step loses a state that a stored node covers.
LEMMA KnownStep ==
  ASSUME TypeOK, Table, [Next]_vars
  PROVE  Known \subseteq Known'
<1>1. TypeOK'
  BY TypeStep
<1>2. ts' = ts
  BY DEF Next, vars, ExpandInitialNodes, Exhausted, Accept, Expand, SkipInactive,
         CoverNext, KeepNext, EndCovering
<1>3. \A m \in stored : m \in Nodes /\ state[m] \in States /\ Le(ts, state[m], state[m])
  <2>1. IsPreorder(ts)
    BY TransitionSystemType DEF TypeOK
  <2> QED
    BY <2>1 DEF TypeOK, Nodes, IsPreorder
<1>4. SUFFICES ASSUME NEW m \in stored
               PROVE  \E n \in stored' : Le(ts, state[m], state'[n])
  BY <1>1, <1>2, KnownKept
<1>5. CASE ExpandInitialNodes
  <2>1. state'[m] = state[m] /\ m \in stored'
    BY <1>3, <1>5, NewNodesType, TransitionSystemType DEF ExpandInitialNodes, TypeOK
  <2> QED
    BY <1>3, <2>1
<1>6. ASSUME NEW i \in DOMAIN waiting, Expand(i)
      PROVE  \E n \in stored' : Le(ts, state[m], state'[n])
  <2>1. ts.succ[state[waiting[i]]] \in Seq(States)
    BY TransitionSystemType DEF TypeOK, Nodes
  <2>2. state'[m] = state[m] /\ m \in stored'
    BY <1>3, <1>6, <2>1, NewNodesType DEF Expand, TypeOK
  <2> QED
    BY <1>3, <2>2
<1>7. ASSUME NEW k \in stored, CoverNext(k)
      PROVE  \E n \in stored' : Le(ts, state[m], state'[n])
  <2>1. state' = state /\ k \in stored'
    BY <1>7 DEF CoverNext, Covers
  <2>2. CASE m = nodes[pos]
    BY <1>7, <2>1, <2>2 DEF CoverNext, Covers
  <2>3. CASE m # nodes[pos]
    BY <1>3, <1>7, <2>1, <2>3 DEF CoverNext
  <2> QED
    BY <2>2, <2>3
<1>8. CASE KeepNext
  <2> DEFINE k == nodes[pos]
  <2>1. state' = state /\ k \in stored'
    BY <1>8 DEF KeepNext, CoveredNodes, Covers, Table
  <2>2. CASE m \in CoveredNodes(k)
    BY <1>8, <2>1, <2>2 DEF CoveredNodes, Covers
  <2>3. CASE m \notin CoveredNodes(k)
    BY <1>3, <1>8, <2>1, <2>3 DEF KeepNext
  <2> QED
    BY <2>2, <2>3
<1>9. CASE state' = state /\ stored' = stored
  BY <1>3, <1>9
<1> QED
  BY <1>5, <1>6, <1>7, <1>8, <1>9
     DEF Next, vars, Exhausted, Accept, SkipInactive, EndCovering

\* When nothing waits, what is known is closed: the cover relation is a
\* simulation, so the successors of a covered state are covered too.
LEMMA ExhaustedKnowsAll ==
  ASSUME IInv, pc = "waiting", IsEmpty(waiting)
  PROVE  Reachable(ts) \subseteq Known /\ ~ HasAcceptingRun(ts)
<1>1. ts \in TransitionSystems /\ IsPreorder(ts) /\ IsSimulation(ts) /\ IsMonotonous(ts)
  BY TransitionSystemType DEF IInv, TypeOK
<1>2. ASSUME NEW n \in stored
      PROVE  /\ state[n] \in States
             /\ state[n] \notin ts.accepting
             /\ Elements(ts.succ[state[n]]) \subseteq Known
  <2>1. n \notin Elements(waiting)
    BY DEF IInv, Table, Elements, IsEmpty
  <2>2. n \notin Pending
    BY DEF IInv, Phases, Pending
  <2>3. outcome = "none"
    BY DEF IInv, Phases
  <2>4. state[n] \in States
    BY DEF IInv, TypeOK, Nodes
  <2> QED
    BY <2>1, <2>2, <2>3, <2>4 DEF IInv, NothingMissed, Handled
<1>3. Known \in SUBSET States
  BY DEF Known
<1>4. ASSUME NEW s \in Known, NEW s1 \in Elements(ts.succ[s]) PROVE s1 \in Known
  <2>1. s \in States /\ s1 \in States
    BY TransitionSystemType DEF Known, Elements, IInv, TypeOK
  <2>2. PICK n \in stored : Le(ts, s, state[n])
    BY DEF Known, Covered
  <2>3. PICK b1 \in Elements(ts.succ[state[n]]) : Le(ts, s1, b1)
    BY <1>1, <1>2, <2>1, <2>2 DEF IsSimulation
  <2>4. PICK m \in stored : Le(ts, b1, state[m])
    BY <1>2 DEF Known, Covered
  <2>5. b1 \in States
    BY <1>2, <1>3
  <2>6. Le(ts, s1, state[m])
    BY <1>1, <1>2, <2>1, <2>3, <2>4, <2>5 DEF IsPreorder
  <2> QED
    BY <2>1, <2>6 DEF Known, Covered
<1>5. IsClosed(ts, Known)
  BY <1>4 DEF IsClosed, IInv, InitialKnown
<1>6. Reachable(ts) \subseteq Known
  BY <1>1, <1>3, <1>5, ClosedCoversReachable
<1>7. ASSUME NEW s \in Reachable(ts) PROVE s \notin ts.accepting
  <2>1. PICK n \in stored : Le(ts, s, state[n])
    BY <1>6 DEF Known, Covered
  <2>2. s \in States
    BY DEF Reachable
  <2> QED
    BY <1>1, <1>2, <2>1, <2>2 DEF IsMonotonous
<1> QED
  BY <1>6, <1>7 DEF HasAcceptingRun

\* A step keeps the invariant.
LEMMA IInvStep ==
  ASSUME IInv, [Next]_vars
  PROVE  IInv'
<1>t. TypeOK /\ TypeOK' /\ ts \in TransitionSystems
  BY TypeStep DEF IInv, TypeOK
<1>k. Known \subseteq Known'
  BY KnownStep DEF IInv
<1>i. /\ ts.init \in Seq(States)
      /\ \A s \in States : ts.succ[s] \in Seq(States)
      /\ Elements(ts.init) \subseteq Reachable(ts)
      /\ \A s \in Reachable(ts) : Elements(ts.succ[s]) \subseteq Reachable(ts)
  BY <1>t, TransitionSystemType, ReachableIsClosed
<1>s. \A n \in Nodes : state[n] \in States
  BY <1>t DEF TypeOK, Nodes
<1>1. CASE ExpandInitialNodes
  <2> DEFINE r == Ranks(ts.init)
  <2>1. /\ Nodes' = Nodes \cup r /\ r \cap Nodes = {}
        /\ \A n \in Nodes : state'[n] = state[n]
        /\ \A i \in DOMAIN ts.init : state'[Len(state) + i] = ts.init[i]
        /\ Elements(NewNodes(ts.init)) = r
    BY <1>1, <1>t, <1>i, NewNodesType DEF ExpandInitialNodes, TypeOK, Nodes
  <2>2. Table'
    BY <1>1 DEF ExpandInitialNodes, IInv, Table
  <2>3. Phases'
    BY <1>1 DEF ExpandInitialNodes, IInv, Phases
  <2>4. NodesReachable'
    <3>1. \A n \in r : state'[n] \in Elements(ts.init)
      BY <2>1 DEF Ranks, Elements
    <3> QED
      BY <1>1, <1>i, <2>1, <3>1 DEF ExpandInitialNodes, IInv, NodesReachable
  <2>5. InitialKnown'
    <3>1. ASSUME NEW i \in DOMAIN ts.init PROVE ts.init[i] \in Known'
      <4>1. Len(state) + i \in stored'
        BY <1>1 DEF ExpandInitialNodes, Ranks
      <4> QED
        BY <1>t, <2>1, <4>1, StoredKnown
    <3> QED
      BY <1>1, <3>1 DEF ExpandInitialNodes, InitialKnown, Elements
  <2>6. NothingMissed'
    <3>1. Elements(waiting') = Elements(waiting) \cup r
      <4>1. waiting \in Seq(Nodes) /\ NewNodes(ts.init) \in Seq(r)
        BY <1>t, <1>i, NewNodesType DEF TypeOK
      <4>2. waiting' = waiting \o NewNodes(ts.init)
        BY <1>1 DEF ExpandInitialNodes
      <4> QED
        BY <2>1, <4>1, <4>2, ConcatElements
    <3>2. Pending' = Pending
      BY <1>1 DEF ExpandInitialNodes, Pending
    <3>3. ASSUME NEW n \in stored' PROVE Handled(n)'
      <4>1. CASE n \in r
        BY <3>1, <4>1 DEF Handled
      <4>2. CASE n \in stored
        BY <1>1, <1>t, <1>k, <2>1, <3>1, <3>2, <4>2
           DEF ExpandInitialNodes, IInv, NothingMissed, Handled, TypeOK
      <4> QED
        BY <1>1, <4>1, <4>2 DEF ExpandInitialNodes
    <3> QED
      BY <3>3 DEF NothingMissed
  <2>7. AnswerRight'
    BY <1>1 DEF ExpandInitialNodes, IInv, Phases, AnswerRight
  <2> QED
    BY <1>t, <2>2, <2>3, <2>4, <2>5, <2>6, <2>7 DEF IInv
<1>2. CASE Exhausted
  <2>1. Reachable(ts) \subseteq Known /\ ~ HasAcceptingRun(ts)
    BY <1>2, ExhaustedKnowsAll DEF Exhausted
  <2>2. Table' /\ Phases' /\ NodesReachable' /\ InitialKnown'
    BY <1>2, <1>k DEF Exhausted, IInv, Table, Phases, NodesReachable, InitialKnown, Nodes
  <2>3. NothingMissed'
    <3>1. Elements(waiting) \cap stored = {} /\ Pending' = Pending
      BY <1>2 DEF Exhausted, IsEmpty, IInv, Table, Elements, Pending
    <3> QED
      BY <1>2, <1>k, <3>1 DEF Exhausted, IInv, Phases, NothingMissed, Handled
  <2>4. AnswerRight'
    BY <1>2, <1>k, <2>1 DEF Exhausted, AnswerRight
  <2> QED
    BY <1>t, <2>2, <2>3, <2>4 DEF IInv
<1>3. ASSUME NEW i \in DOMAIN waiting, Accept(i) PROVE IInv'
  <2>1. HasAcceptingRun(ts)
    <3>1. waiting[i] \in Nodes
      BY <1>t DEF TypeOK
    <3> QED
      BY <1>3, <3>1 DEF Accept, IInv, NodesReachable, HasAcceptingRun
  <2>2. Table' /\ Phases' /\ NodesReachable' /\ InitialKnown'
    BY <1>3, <1>k DEF Accept, IInv, Table, Phases, NodesReachable, InitialKnown, Nodes
  <2>3. NothingMissed' /\ AnswerRight'
    BY <1>3, <2>1 DEF Accept, NothingMissed, Handled, AnswerRight
  <2> QED
    BY <1>t, <2>2, <2>3 DEF IInv
<1>4. ASSUME NEW i \in DOMAIN waiting, Expand(i) PROVE IInv'
  <2> DEFINE n == waiting[i]
             succ == ts.succ[state[n]]
             r == Ranks(succ)
  <2>1. n \in Nodes /\ succ \in Seq(States)
    <3>1. waiting \in Seq(Nodes)
      BY <1>t DEF TypeOK
    <3> QED
      BY <1>i, <1>s, <3>1
  <2>2. /\ Nodes' = Nodes \cup r /\ r \cap Nodes = {}
        /\ \A k \in Nodes : state'[k] = state[k]
        /\ \A k \in DOMAIN succ : state'[Len(state) + k] = succ[k]
        /\ Elements(NewNodes(succ)) = r
    BY <1>4, <1>t, <2>1, NewNodesType DEF Expand, TypeOK, Nodes
  <2>3. /\ ts' = ts /\ outcome' = outcome /\ nodes' = NewNodes(succ) /\ pos' = 1
        /\ stored' = stored \cup r /\ active' = active \cup r
        /\ waiting' = RemoveFirst(waiting, i) /\ pc = "waiting" /\ pc' = "covering"
        /\ state[n] \notin ts.accepting
    BY <1>4 DEF Expand
  <2> HIDE DEF n, succ, r
  <2>4. Table' /\ Phases'
    BY <2>3 DEF IInv, Table, Phases
  <2>5. NodesReachable'
    <3>1. \A k \in r : state'[k] \in Elements(succ)
      BY <2>2 DEF r, Ranks, Elements
    <3>2. Elements(succ) \subseteq Reachable(ts)
      BY <1>i, <2>1 DEF succ, IInv, NodesReachable
    <3> QED
      BY <2>2, <2>3, <3>1, <3>2 DEF IInv, NodesReachable
  <2>6. InitialKnown'
    BY <1>k, <2>3 DEF IInv, InitialKnown
  <2>7. NothingMissed'
    <3>1. Pending' = r
      <4>1. Pending' = Elements(NewNodes(succ))
        BY <2>1, <2>3 DEF Pending, Elements, NewNodes
      <4> QED
        BY <2>2, <4>1
    <3>2. (Elements(waiting) \cap stored) \ {n} \subseteq Elements(waiting')
      <4>1. waiting \in Seq(Nodes) /\ IsFirst(waiting, i) /\ stored = active
        BY <1>4, <1>t DEF Expand, TypeOK, IInv, Table
      <4> QED
        BY <2>3, <4>1, RemoveFirstElements DEF n
    <3>3. Pending = {}
      BY <2>3 DEF Pending, IInv, Phases
    <3>4. Elements(succ) \subseteq Known'
      <4>1. ASSUME NEW k \in DOMAIN succ PROVE succ[k] \in Known'
        <5>1. Len(state) + k \in stored'
          BY <2>3 DEF r, Ranks
        <5> QED
          BY <1>t, <2>2, <5>1, StoredKnown
      <4> QED
        BY <4>1 DEF Elements
    <3>5. ASSUME NEW k \in stored' PROVE Handled(k)'
      <4>1. CASE k \in r
        BY <3>1, <4>1 DEF Handled
      <4>2. CASE k = n
        BY <2>1, <2>2, <2>3, <3>4, <4>2 DEF succ, Handled
      <4>3. CASE k \in stored /\ k # n
        <5>1. state'[k] = state[k]
          BY <1>t, <2>2, <4>3 DEF TypeOK
        <5> QED
          BY <1>k, <2>3, <3>2, <3>3, <4>3, <5>1 DEF IInv, NothingMissed, Handled
      <4> QED
        BY <2>3, <4>1, <4>2, <4>3
    <3> QED
      BY <3>5 DEF NothingMissed
  <2>8. AnswerRight'
    BY <2>3 DEF IInv, Phases, AnswerRight
  <2> QED
    BY <1>t, <2>4, <2>5, <2>6, <2>7, <2>8 DEF IInv
<1>5. CASE SkipInactive
  <2>1. Pending = Pending' \cup {nodes[pos]}
    BY <1>5, <1>t DEF SkipInactive, Pending, TypeOK
  <2>2. nodes[pos] \notin stored
    BY <1>5 DEF SkipInactive, IInv, Table
  <2>3. NothingMissed'
    BY <1>5, <1>k, <2>1, <2>2 DEF SkipInactive, IInv, NothingMissed, Handled
  <2>4. Table' /\ Phases' /\ NodesReachable' /\ InitialKnown' /\ AnswerRight'
    BY <1>5, <1>k DEF SkipInactive, IInv, Table, Phases, NodesReachable,
       InitialKnown, AnswerRight, Nodes
  <2> QED
    BY <1>t, <2>3, <2>4 DEF IInv
<1>6. ASSUME NEW m \in stored, CoverNext(m) PROVE IInv'
  <2>1. Pending = Pending' \cup {nodes[pos]}
    BY <1>6, <1>t DEF CoverNext, Pending, TypeOK
  <2>2. NothingMissed'
    BY <1>6, <1>k, <2>1 DEF CoverNext, IInv, NothingMissed, Handled
  <2>3. Table' /\ Phases' /\ NodesReachable' /\ InitialKnown' /\ AnswerRight'
    BY <1>6, <1>k DEF CoverNext, IInv, Table, Phases, NodesReachable,
       InitialKnown, AnswerRight, Nodes
  <2> QED
    BY <1>t, <2>2, <2>3 DEF IInv
<1>7. CASE KeepNext
  <2> DEFINE n == nodes[pos]
  <2>1. Pending = Pending' \cup {n}
    BY <1>7, <1>t DEF KeepNext, Pending, TypeOK
  <2>2. Elements(waiting') = Elements(waiting) \cup {n}
    <3>1. waiting \in Seq(Nodes) /\ n \in Nodes /\ waiting' = Append(waiting, n)
      BY <1>7, <1>t DEF KeepNext, Insert, TypeOK
    <3> QED
      BY <3>1, AppendElements
  <2>3. NothingMissed'
    BY <1>7, <1>k, <2>1, <2>2 DEF KeepNext, IInv, NothingMissed, Handled
  <2>4. Table' /\ Phases' /\ NodesReachable' /\ InitialKnown' /\ AnswerRight'
    BY <1>7, <1>k DEF KeepNext, IInv, Table, Phases, NodesReachable,
       InitialKnown, AnswerRight, Nodes
  <2> QED
    BY <1>t, <2>3, <2>4 DEF IInv
<1>8. CASE EndCovering
  <2>1. Pending = {} /\ Pending' = {}
    BY <1>8, <1>t DEF EndCovering, Pending, TypeOK
  <2>2. NothingMissed'
    BY <1>8, <1>k, <2>1 DEF EndCovering, IInv, NothingMissed, Handled
  <2>3. Table' /\ Phases' /\ NodesReachable' /\ InitialKnown' /\ AnswerRight'
    BY <1>8, <1>k DEF EndCovering, IInv, Table, Phases, NodesReachable,
       InitialKnown, AnswerRight, Nodes
  <2> QED
    BY <1>t, <2>2, <2>3 DEF IInv
<1>9. CASE UNCHANGED vars
  <2>1. Known' = Known /\ Pending' = Pending /\ Nodes' = Nodes
    BY <1>9 DEF vars, Known, Covered, Pending, Nodes
  <2> QED
    BY <1>9, <1>t, <2>1 DEF vars, IInv, Table, Phases, NodesReachable,
       InitialKnown, NothingMissed, Handled, AnswerRight
<1> QED
  BY <1>1, <1>2, <1>3, <1>4, <1>5, <1>6, <1>7, <1>8, <1>9 DEF Next

\* The initial states satisfy the invariant.
LEMMA IInvInit == Init => IInv
BY DEF Init, IInv, TypeOK, Nodes, Edge, Policies, Table, Phases, NodesReachable,
       InitialKnown, NothingMissed, AnswerRight

\* The invariant holds of every state of every run.
LEMMA Invariant == Spec => []IInv
<1>1. IInv /\ [Next]_vars => IInv'
  BY IInvStep
<1> QED
  BY <1>1, IInvInit, PTL DEF Spec

\* run() returns REACHABLE only if there is an accepting run, and UNREACHABLE
\* only if there is none, whatever the cover relation made it drop and redirect.
THEOREM VerdictCorrect == Spec => []Verdict
<1>1. IInv => Verdict
  BY DEF IInv, AnswerRight, Verdict
<1> QED
  BY <1>1, Invariant, PTL

-----------------------------------------------------------------------------
(* The algorithm implements Reachability. *)

\* Both modules speak of the same transition systems.
LEMMA SameSystems ==
  /\ \A t, a, b : R!Le(t, a, b) = Le(t, a, b)
  /\ \A t : R!Reachable(t) = Reachable(t)
  /\ \A t : R!HasAcceptingRun(t) = HasAcceptingRun(t)
BY DEF R!Le, Le, R!Reachable, Reachable, R!IsClosed, IsClosed, R!Elements,
       Elements, R!HasAcceptingRun, HasAcceptingRun

\* What is known is simulated by reachable states.
LEMMA KnownSimulated == IInv => Known \subseteq R!Simulated(ts)
<1>1. SUFFICES ASSUME IInv, NEW s \in States, NEW n \in stored, Le(ts, s, state[n])
               PROVE  \E r \in Reachable(ts) : Le(ts, s, r)
  BY SameSystems DEF Known, Covered, R!Simulated
<1>2. n \in Nodes
  BY <1>1 DEF IInv, TypeOK
<1> QED
  BY <1>1, <1>2 DEF IInv, NodesReachable

\* The initial states are those of Reachability.
LEMMA InitImplements == Init => R!Init
BY DEF Init, R!Init, Covered

\* Every step discovers states, gives an answer that may be given, or is none
\* of Reachability's business.
LEMMA StepImplements ==
  ASSUME IInv, IInv', [Next]_vars
  PROVE  [R!Next]_(R!vars)
<1>1. Known \subseteq Known'
  BY KnownStep DEF IInv
<1>2. Known' \subseteq R!Simulated(ts)'
  <2>1. (IInv => Known \subseteq R!Simulated(ts))'
    BY KnownSimulated, PTL
  <2> QED
    BY <2>1
<1>3. /\ Known = {s \in States : Covered(s)}
      /\ Known' = {s \in States : Covered(s)}'
  BY DEF Known
<1>4. CASE outcome' = outcome /\ ts' = ts /\ outcome = "none"
  <2>1. Known' \in SUBSET R!Simulated(ts)
    BY <1>2, <1>4 DEF R!Simulated
  <2>2. R!Discover
    BY <1>1, <1>3, <1>4, <2>1 DEF R!Discover
  <2> QED
    BY <2>2 DEF R!Next
<1>5. CASE Exhausted
  <2>1. Reachable(ts) \subseteq Known /\ ~ HasAcceptingRun(ts)
    BY <1>5, ExhaustedKnowsAll DEF Exhausted
  <2>2. Known' = Known
    BY <1>5 DEF Exhausted, Known, Covered
  <2>3. ts' = ts /\ outcome = "none" /\ outcome' = "UNREACHABLE"
    BY <1>5 DEF Exhausted, IInv, Phases
  <2> QED
    BY <1>3, <2>1, <2>2, <2>3, SameSystems DEF R!Next, R!AnswerUnreachable
<1>6. ASSUME NEW i \in DOMAIN waiting, Accept(i) PROVE R!AnswerReachable
  <2>1. ts' = ts /\ outcome = "none" /\ outcome' = "REACHABLE"
    BY <1>6 DEF Accept, IInv, Phases
  <2>2. HasAcceptingRun(ts)
    BY <2>1 DEF IInv, AnswerRight
  <2>3. Known' = Known
    BY <1>6 DEF Accept, Known, Covered
  <2> QED
    BY <1>3, <2>1, <2>2, <2>3, SameSystems DEF R!AnswerReachable
<1>7. CASE UNCHANGED vars
  BY <1>7 DEF vars, R!vars, Covered
<1>8. CASE \/ ExpandInitialNodes \/ SkipInactive \/ KeepNext \/ EndCovering
           \/ \E i \in DOMAIN waiting : Expand(i)
           \/ \E m \in stored : CoverNext(m)
  BY <1>4, <1>8 DEF IInv, Phases, ExpandInitialNodes, SkipInactive, KeepNext,
     EndCovering, Expand, CoverNext
<1> QED
  BY <1>5, <1>6, <1>7, <1>8 DEF Next, R!Next

\* The covering algorithm implements the reachability specification.
THEOREM Implementation == Spec => ImplementsReachability
<1>1. IInv /\ IInv' /\ [Next]_vars => [R!Next]_(R!vars)
  BY StepImplements
<1> QED
  BY <1>1, InitImplements, Invariant, PTL DEF Spec, R!Spec, ImplementsReachability

-----------------------------------------------------------------------------
(* The graph is a subsumption graph. *)

\* An edge links stored nodes and stands for a successor of its source.
EdgesSound ==
  \A e \in edges :
    /\ e.src \in stored /\ e.tgt \in stored
    /\ \E s \in Elements(ts.succ[state[e.src]]) :
         IF e.type = "actual" THEN s = state[e.tgt] ELSE Le(ts, s, state[e.tgt])

\* The successors of an expanded node are represented by its edges.
SuccessorsRepresented ==
  \A n \in Expanded : \A s \in Elements(ts.succ[state[n]]) :
    \E e \in edges : e.src = n /\ Le(ts, s, state[e.tgt])

\* The subsumption graph, split into what its edges say and what they cover.
LEMMA GraphParts == SubsumptionGraph <=> EdgesSound /\ SuccessorsRepresented
BY DEF SubsumptionGraph, EdgesSound, SuccessorsRepresented

\* What covering the nodes of C by n does to the edges: an edge that remains is
\* an old one, or it has been redirected to n; an edge whose source remains is
\* kept, or redirected to n.
LEMMA CoverEdgesMeaning ==
  ASSUME NEW E \in SUBSET Edge, NEW C, NEW n, n \notin C
  PROVE  /\ \A e \in CoverEdges(E, C, n) :
              /\ e.src \notin C /\ e.tgt \notin C
              /\ \/ e \in E
                 \/ \E d \in E : /\ d.tgt \in C /\ d.src = e.src
                                 /\ e.tgt = n /\ e.type = "abstract"
         /\ \A d \in E : d.src \notin C =>
              \E e \in CoverEdges(E, C, n) :
                /\ e.src = d.src
                /\ IF d.tgt \in C THEN e.tgt = n ELSE e = d
<1> DEFINE To(d) == IF d.tgt \in C THEN [d EXCEPT !.tgt = n, !.type = "abstract"] ELSE d
<1>1. CoverEdges(E, C, n) = {e \in {To(d) : d \in E} : e.src \notin C /\ e.tgt \notin C}
  BY DEF CoverEdges
<1>2. ASSUME NEW d \in E
      PROVE  /\ d.tgt \in C => To(d).src = d.src /\ To(d).tgt = n /\ To(d).type = "abstract"
             /\ d.tgt \notin C => To(d) = d
  BY DEF Edge
<1> HIDE DEF To
<1> QED
  BY <1>1, <1>2

\* Covering nodes by a bigger one keeps the edges sound, and loses no successor
\* of a node that remains.
LEMMA CoverEdgesSound ==
  ASSUME TypeOK, EdgesSound,
         NEW C \in SUBSET stored, NEW n \in stored \ C,
         \A k \in C : Le(ts, state[k], state[n]),
         edges' = CoverEdges(edges, C, n), stored' = stored \ C,
         ts' = ts, state' = state
  PROVE  /\ EdgesSound'
         /\ \A k \in stored \ C : \A s \in Elements(ts.succ[state[k]]) :
              (\E d \in edges : d.src = k /\ Le(ts, s, state[d.tgt]))
                => \E e \in edges' : e.src = k /\ Le(ts, s, state[e.tgt])
<1>t. /\ edges \in SUBSET Edge /\ IsPreorder(ts)
      /\ \A k \in Nodes : /\ state[k] \in States
                          /\ Elements(ts.succ[state[k]]) \subseteq States
      /\ \A k \in stored : k \in Nodes
      /\ \A d \in edges : d.src \in Nodes /\ d.tgt \in Nodes
  <2>1. IsPreorder(ts) /\ \A s \in States : ts.succ[s] \in Seq(States)
    BY TransitionSystemType DEF TypeOK
  <2>2. \A k \in Nodes : state[k] \in States
    BY DEF TypeOK, Nodes
  <2>3. \A k \in Nodes : Elements(ts.succ[state[k]]) \subseteq States
    BY <2>1, <2>2 DEF Elements
  <2>4. edges \in SUBSET Edge /\ \A k \in stored : k \in Nodes
    BY DEF TypeOK
  <2>5. \A d \in edges : d.src \in Nodes /\ d.tgt \in Nodes
    BY <2>4 DEF Edge
  <2> QED
    BY <2>1, <2>2, <2>3, <2>4, <2>5
<1>1. ASSUME NEW s \in States, NEW k \in C, Le(ts, s, state[k]) PROVE Le(ts, s, state[n])
  <2>1. state[k] \in States /\ state[n] \in States
    BY <1>t
  <2> QED
    BY <1>t, <1>1, <2>1 DEF IsPreorder
<1>2. ASSUME NEW e \in edges'
      PROVE  /\ e.src \in stored' /\ e.tgt \in stored'
             /\ \E s \in Elements(ts.succ[state[e.src]]) :
                  IF e.type = "actual" THEN s = state[e.tgt] ELSE Le(ts, s, state[e.tgt])
  <2>1. e.src \notin C /\ e.tgt \notin C
    BY <1>t, CoverEdgesMeaning
  <2>2. CASE e \in edges
    BY <2>1, <2>2 DEF EdgesSound
  <2>3. ASSUME NEW d \in edges, d.tgt \in C, d.src = e.src, e.tgt = n, e.type = "abstract"
        PROVE  /\ e.src \in stored' /\ e.tgt \in stored'
               /\ \E s \in Elements(ts.succ[state[e.src]]) : Le(ts, s, state[e.tgt])
    <3>1. PICK s \in Elements(ts.succ[state[d.src]]) :
            IF d.type = "actual" THEN s = state[d.tgt] ELSE Le(ts, s, state[d.tgt])
      BY DEF EdgesSound
    <3>2. s \in States /\ state[d.tgt] \in States
      BY <1>t
    <3>3. Le(ts, s, state[d.tgt])
      BY <1>t, <3>1, <3>2 DEF IsPreorder
    <3>4. Le(ts, s, state[n])
      BY <1>1, <2>3, <3>2, <3>3
    <3> QED
      BY <2>1, <2>3, <3>1, <3>4 DEF EdgesSound
  <2> QED
    BY <1>t, <2>2, <2>3, CoverEdgesMeaning
<1>3. ASSUME NEW k \in stored \ C, NEW s \in Elements(ts.succ[state[k]]),
             NEW d \in edges, d.src = k, Le(ts, s, state[d.tgt])
      PROVE  \E e \in edges' : e.src = k /\ Le(ts, s, state[e.tgt])
  <2>1. PICK e \in edges' : e.src = d.src /\ IF d.tgt \in C THEN e.tgt = n ELSE e = d
    BY <1>t, <1>3, CoverEdgesMeaning
  <2>2. s \in States
    BY <1>t
  <2> QED
    BY <1>1, <1>3, <2>1, <2>2
<1> QED
  BY <1>2, <1>3 DEF EdgesSound

\* A step that builds no node and no edge keeps the graph if it expands none.
LEMMA GraphKept ==
  ASSUME SubsumptionGraph, UNCHANGED <<ts, state, stored, edges>>, Expanded' \subseteq Expanded
  PROVE  SubsumptionGraph'
BY DEF SubsumptionGraph

\* A step keeps the subsumption graph.
LEMMA GraphStep ==
  ASSUME IInv, SubsumptionGraph, [Next]_vars
  PROVE  SubsumptionGraph'
<1>t. TypeOK /\ TypeOK' /\ ts \in TransitionSystems /\ stored = active
  BY TypeStep DEF IInv, TypeOK, Table
<1>i. /\ ts.init \in Seq(States)
      /\ \A s \in States : ts.succ[s] \in Seq(States)
      /\ IsPreorder(ts)
  BY <1>t, TransitionSystemType
<1>s. /\ \A n \in Nodes : state[n] \in States
      /\ stored \subseteq Nodes /\ waiting \in Seq(Nodes)
      /\ \A e \in edges : e.src \in Nodes /\ e.tgt \in Nodes
  <2>1. \A n \in Nodes : state[n] \in States
    BY <1>t DEF TypeOK, Nodes
  <2>2. edges \in SUBSET Edge /\ stored \subseteq Nodes /\ waiting \in Seq(Nodes)
    BY <1>t DEF TypeOK
  <2> QED
    BY <2>1, <2>2 DEF Edge
<1>g. EdgesSound /\ SuccessorsRepresented
  BY GraphParts
<1>1. CASE ExpandInitialNodes
  <2> DEFINE r == Ranks(ts.init)
  <2>1. /\ r \cap Nodes = {}
        /\ \A n \in Nodes : state'[n] = state[n]
        /\ Elements(NewNodes(ts.init)) = r
        /\ NewNodes(ts.init) \in Seq(r)
    BY <1>1, <1>t, <1>i, NewNodesType DEF ExpandInitialNodes, TypeOK
  <2>2. Elements(waiting') = Elements(waiting) \cup r
    <3>1. waiting' = waiting \o NewNodes(ts.init)
      BY <1>1 DEF ExpandInitialNodes
    <3> QED
      BY <1>s, <2>1, <3>1, ConcatElements
  <2>3. /\ ts' = ts /\ edges' = edges /\ stored' = stored \cup r
        /\ nodes' = nodes /\ pos' = pos
    BY <1>1 DEF ExpandInitialNodes
  <2> HIDE DEF r
  <2>4. EdgesSound'
    BY <1>g, <1>s, <2>1, <2>3 DEF EdgesSound
  <2>5. Expanded' \subseteq Expanded
    BY <1>s, <2>1, <2>2, <2>3 DEF Expanded, Pending
  <2>6. SuccessorsRepresented'
    <3>1. \A n \in Expanded : n \in Nodes
      BY <1>s DEF Expanded
    <3> QED
      BY <1>g, <1>s, <2>1, <2>3, <2>5, <3>1 DEF SuccessorsRepresented
  <2> QED
    BY <2>4, <2>6, GraphParts, PTL
<1>2. CASE Exhausted
  <2>1. Elements(waiting) \cap stored = {} /\ Pending' = Pending
    BY <1>2, <1>t DEF Exhausted, IsEmpty, Elements, Pending
  <2> QED
    BY <1>2, <2>1, GraphKept DEF Exhausted, Expanded
<1>3. ASSUME NEW i \in DOMAIN waiting, Accept(i) PROVE SubsumptionGraph'
  <2>1. (Elements(waiting) \cap stored) \ {waiting[i]} \subseteq Elements(waiting')
    BY <1>3, <1>s, <1>t, RemoveFirstElements DEF Accept
  <2>2. state[waiting[i]] \in ts.accepting /\ Pending' = Pending
    BY <1>3 DEF Accept, Pending
  <2> QED
    BY <1>3, <2>1, <2>2, GraphKept DEF Accept, Expanded
<1>4. ASSUME NEW i \in DOMAIN waiting, Expand(i) PROVE SubsumptionGraph'
  <2> DEFINE n == waiting[i]
             succ == ts.succ[state[n]]
             r == Ranks(succ)
  <2>1. n \in Nodes /\ n \in stored /\ succ \in Seq(States)
    BY <1>4, <1>i, <1>s, <1>t DEF Expand, IsFirst
  <2>2. /\ r \cap Nodes = {}
        /\ \A k \in Nodes : state'[k] = state[k]
        /\ \A k \in DOMAIN succ : state'[Len(state) + k] = succ[k]
        /\ Elements(NewNodes(succ)) = r
    BY <1>4, <1>t, <2>1, NewNodesType DEF Expand, TypeOK
  <2>3. /\ ts' = ts /\ nodes' = NewNodes(succ) /\ pos' = 1
        /\ stored' = stored \cup r /\ edges' = edges \cup NewEdges(n, succ)
        /\ waiting' = RemoveFirst(waiting, i) /\ pc = "waiting"
        /\ IsFirst(waiting, i)
    BY <1>4 DEF Expand
  <2>4. (Elements(waiting) \cap stored) \ {n} \subseteq Elements(waiting')
    BY <1>s, <1>t, <2>3, RemoveFirstElements
  <2>5. Pending = {} /\ Pending' = r
    <3> HIDE DEF n, succ, r
    <3>1. Pending' = Elements(NewNodes(succ))
      BY <2>1, <2>3 DEF Pending, Elements, NewNodes
    <3> QED
      BY <2>2, <2>3, <3>1 DEF Pending, IInv, Phases
  <2>6. \A s \in States : Le(ts, s, s)
    BY <1>i DEF IsPreorder
  <2>7. \A k \in DOMAIN succ : succ[k] \in States
    BY <2>1
  <2>8. /\ \A e \in NewEdges(n, succ) :
             /\ e.src = n /\ e.type = "actual"
             /\ \E k \in DOMAIN succ : e.tgt = Len(state) + k
        /\ \A k \in DOMAIN succ : \E e \in NewEdges(n, succ) : e.src = n /\ e.tgt = Len(state) + k
        /\ \A k \in DOMAIN succ : Len(state) + k \in r
    <3>1. r = {Len(state) + k : k \in DOMAIN succ}
      BY DEF Ranks
    <3>2. NewEdges(n, succ) = {[id |-> m, src |-> n, tgt |-> m, type |-> "actual"] : m \in r}
      BY DEF NewEdges
    <3> HIDE DEF n, succ, r
    <3>3. ASSUME NEW e \in NewEdges(n, succ)
          PROVE  /\ e.src = n /\ e.type = "actual"
                 /\ \E k \in DOMAIN succ : e.tgt = Len(state) + k
      <4>1. PICK m \in r : e = [id |-> m, src |-> n, tgt |-> m, type |-> "actual"]
        BY <3>2
      <4> QED
        BY <3>1, <4>1
    <3>4. ASSUME NEW k \in DOMAIN succ
          PROVE  \E e \in NewEdges(n, succ) : e.src = n /\ e.tgt = Len(state) + k
      <4> DEFINE m == Len(state) + k
                 e == [id |-> m, src |-> n, tgt |-> m, type |-> "actual"]
      <4>1. e \in NewEdges(n, succ) /\ e.src = n /\ e.tgt = m
        BY <3>1, <3>2
      <4> QED
        BY <4>1
    <3> QED
      BY <3>1, <3>3, <3>4
  <2>9. Elements(succ) = {succ[k] : k \in DOMAIN succ}
    BY DEF Elements
  <2>10. state'[n] = state[n]
    BY <2>1, <2>2
  <2>11. /\ succ = ts.succ[state[n]]
         /\ \A k \in Expanded' : k \in stored
         /\ \A k \in Expanded' : k # n => k \in Expanded
    BY <1>s, <2>2, <2>3, <2>4, <2>5 DEF Expanded
  <2> HIDE DEF n, succ, r
  <2>12. EdgesSound'
    <3>1. ASSUME NEW e \in edges
          PROVE  /\ e.src \in stored' /\ e.tgt \in stored'
                 /\ \E s \in Elements(ts'.succ[state'[e.src]]) :
                      IF e.type = "actual" THEN s = state'[e.tgt] ELSE Le(ts', s, state'[e.tgt])
      BY <1>g, <1>s, <2>2, <2>3 DEF EdgesSound
    <3>2. ASSUME NEW e \in NewEdges(n, succ)
          PROVE  /\ e.src \in stored' /\ e.tgt \in stored'
                 /\ \E s \in Elements(ts'.succ[state'[e.src]]) :
                      IF e.type = "actual" THEN s = state'[e.tgt] ELSE Le(ts', s, state'[e.tgt])
      <4>1. PICK k \in DOMAIN succ : e.tgt = Len(state) + k
        BY <2>8
      <4>2. e.src = n /\ e.type = "actual" /\ state'[e.tgt] = succ[k] /\ e.tgt \in r
        BY <2>2, <2>8, <4>1
      <4>3. succ[k] \in Elements(ts'.succ[state'[n]])
        BY <2>3, <2>9, <2>10, <2>11
      <4> QED
        BY <2>1, <2>3, <4>2, <4>3
    <3> QED
      BY <2>3, <3>1, <3>2 DEF EdgesSound
  <2>13. SuccessorsRepresented'
    <3>1. ASSUME NEW s \in Elements(succ)
          PROVE  \E e \in edges' : e.src = n /\ Le(ts', s, state'[e.tgt])
      BY <2>2, <2>3, <2>6, <2>7, <2>8, <2>9
    <3>2. ASSUME NEW k \in Expanded', k # n, NEW s \in Elements(ts'.succ[state'[k]])
          PROVE  \E e \in edges' : e.src = k /\ Le(ts', s, state'[e.tgt])
      <4>1. k \in Expanded /\ state'[k] = state[k]
        BY <1>s, <2>2, <2>11, <3>2
      <4>2. PICK e \in edges : e.src = k /\ Le(ts, s, state[e.tgt])
        BY <1>g, <2>3, <3>2, <4>1 DEF SuccessorsRepresented
      <4> QED
        BY <1>s, <2>2, <2>3, <4>2
    <3> QED
      BY <2>3, <2>10, <2>11, <3>1, <3>2 DEF SuccessorsRepresented
  <2> QED
    BY <2>12, <2>13, GraphParts, PTL
<1>5. CASE SkipInactive
  <2>1. Pending = Pending' \cup {nodes[pos]}
    BY <1>5, <1>t DEF SkipInactive, Pending, TypeOK
  <2>2. nodes[pos] \notin stored
    BY <1>5, <1>t DEF SkipInactive
  <2> QED
    BY <1>5, <2>1, <2>2, GraphKept DEF SkipInactive, Expanded
<1>6. ASSUME NEW m \in stored, CoverNext(m) PROVE SubsumptionGraph'
  <2> DEFINE n == nodes[pos]
  <2>1. Pending = Pending' \cup {n}
    BY <1>6, <1>t DEF CoverNext, Pending, TypeOK
  <2>2. /\ {n} \in SUBSET stored /\ m \in stored \ {n}
        /\ \A k \in {n} : Le(ts, state[k], state[m])
        /\ edges' = CoverEdges(edges, {n}, m) /\ stored' = stored \ {n}
        /\ ts' = ts /\ state' = state /\ waiting' = waiting
    BY <1>6, <1>t DEF CoverNext, Covers
  <2>3. /\ EdgesSound'
        /\ \A k \in stored \ {n} : \A s \in Elements(ts.succ[state[k]]) :
              (\E d \in edges : d.src = k /\ Le(ts, s, state[d.tgt]))
                => \E e \in edges' : e.src = k /\ Le(ts, s, state[e.tgt])
    BY <1>g, <1>t, <2>2, CoverEdgesSound
  <2> HIDE DEF n
  <2>4. Expanded' \subseteq Expanded /\ Expanded' \subseteq stored \ {n}
    BY <2>1, <2>2 DEF Expanded
  <2>5. SuccessorsRepresented'
    <3>1. ASSUME NEW k \in Expanded', NEW s \in Elements(ts.succ[state[k]])
          PROVE  \E e \in edges' : e.src = k /\ Le(ts, s, state[e.tgt])
      <4>1. \E d \in edges : d.src = k /\ Le(ts, s, state[d.tgt])
        BY <1>g, <2>4 DEF SuccessorsRepresented
      <4> QED
        BY <2>3, <2>4, <4>1
    <3> QED
      BY <2>2, <3>1 DEF SuccessorsRepresented
  <2> QED
    BY <2>3, <2>5, GraphParts, PTL
<1>7. CASE KeepNext
  <2> DEFINE n == nodes[pos]
             C == CoveredNodes(n)
  <2>1. Pending = Pending' \cup {n}
    BY <1>7, <1>t DEF KeepNext, Pending, TypeOK
  <2>2. /\ C \in SUBSET stored /\ n \in stored \ C
        /\ \A k \in C : Le(ts, state[k], state[n])
        /\ edges' = CoverEdges(edges, C, n) /\ stored' = stored \ C
        /\ ts' = ts /\ state' = state
    BY <1>7, <1>t DEF KeepNext, CoveredNodes, Covers
  <2>3. Elements(waiting') = Elements(waiting) \cup {n}
    <3>1. n \in Nodes /\ waiting' = Append(waiting, n)
      BY <1>7, <1>t DEF KeepNext, Insert, TypeOK
    <3> QED
      BY <1>s, <3>1, AppendElements
  <2> HIDE DEF C
  <2>4. /\ EdgesSound'
        /\ \A k \in stored \ C : \A s \in Elements(ts.succ[state[k]]) :
              (\E d \in edges : d.src = k /\ Le(ts, s, state[d.tgt]))
                => \E e \in edges' : e.src = k /\ Le(ts, s, state[e.tgt])
    BY <1>g, <1>t, <2>2, CoverEdgesSound
  <2>5. Expanded' \subseteq Expanded /\ Expanded' \subseteq stored \ C
    BY <2>1, <2>2, <2>3 DEF Expanded
  <2>6. SuccessorsRepresented'
    BY <1>g, <2>2, <2>4, <2>5 DEF SuccessorsRepresented
  <2> QED
    BY <2>4, <2>6, GraphParts, PTL
<1>8. CASE EndCovering
  <2>1. Pending = {} /\ Pending' = {}
    BY <1>8, <1>t DEF EndCovering, Pending, TypeOK
  <2> QED
    BY <1>8, <2>1, GraphKept DEF EndCovering, Expanded
<1>9. CASE UNCHANGED vars
  BY <1>9, GraphKept DEF vars, Expanded, Pending
<1> QED
  BY <1>1, <1>2, <1>3, <1>4, <1>5, <1>6, <1>7, <1>8, <1>9 DEF Next

\* At every step of the covering loop, and however often nodes have been
\* removed and edges redirected, the edges link nodes of the graph, each stands
\* for a successor of its source, and no successor of an expanded node is lost.
THEOREM GraphCorrect == Spec => []SubsumptionGraph
<1>1. Init => SubsumptionGraph
  BY DEF Init, SubsumptionGraph, Expanded
<1>2. IInv /\ SubsumptionGraph /\ [Next]_vars => SubsumptionGraph'
  BY GraphStep
<1> QED
  BY <1>1, <1>2, Invariant, PTL DEF Spec

-----------------------------------------------------------------------------
(* The graph has no redundant node, and the counters account for every node. *)

\* Nothing is in the graph before the initial nodes are built: all the nodes
\* that are not compared with the others are roots.
NothingBuilt == pc = "initial" => stored = {}

\* Of the stored nodes the covering loop is done with, none is covered.
Antichain == \A n, m \in stored \ Pending : ~ Covers(n, m)

\* Every node ever built is stored, or has been counted as covered.
Counted == Len(state) = Cardinality(stored) + stats.leaf + stats.nonleaf

\* The stored nodes are finitely many.
LEMMA StoredFinite ==
  ASSUME TypeOK
  PROVE  IsFiniteSet(stored) /\ Cardinality(stored) \in Nat
<1>1. Nodes = 1 .. Len(state) /\ Len(state) \in Nat
  BY DEF TypeOK, Nodes
<1>2. IsFiniteSet(Nodes) /\ stored \in SUBSET Nodes
  BY <1>1, FS_Interval DEF TypeOK
<1> QED
  BY <1>2, FS_Subset, FS_CardinalityType

\* Building the nodes of a list of states adds as many stored nodes.
LEMMA RanksCounted ==
  ASSUME TypeOK, NEW s \in Seq(States)
  PROVE  /\ Len(state \o s) = Len(state) + Len(s)
         /\ Cardinality(stored \cup Ranks(s)) = Cardinality(stored) + Len(s)
<1>1. /\ Len(state) \in Nat /\ Len(s) \in Nat /\ state \in Seq(States)
      /\ DOMAIN s = 1 .. Len(s)
  BY DEF TypeOK
<1> DEFINE a == Len(state) + 1
           b == Len(state) + Len(s)
<1>2. Ranks(s) = a .. b
  <2>1. ASSUME NEW k \in a .. b PROVE k \in Ranks(s)
    <3>1. k - Len(state) \in DOMAIN s /\ k = Len(state) + (k - Len(state))
      BY <1>1, <2>1
    <3> QED
      BY <3>1 DEF Ranks
  <2>2. Ranks(s) \subseteq a .. b
    BY <1>1 DEF Ranks
  <2> QED
    BY <2>1, <2>2
<1>3. IsFiniteSet(Ranks(s)) /\ Cardinality(Ranks(s)) = Len(s)
  <2>1. a \in Int /\ b \in Int /\ (IF a > b THEN 0 ELSE b - a + 1) = Len(s)
    BY <1>1
  <2> HIDE DEF a, b
  <2> QED
    BY <1>2, <2>1, FS_Interval
<1>4. stored \cap Ranks(s) = {}
  BY <1>1, NewNodesType DEF TypeOK
<1>5. Cardinality(stored \cup Ranks(s))
        = Cardinality(stored) + Cardinality(Ranks(s)) - Cardinality(stored \cap Ranks(s))
  BY <1>3, StoredFinite, FS_Union
<1>6. Cardinality(stored \cap Ranks(s)) = 0
  BY <1>4, FS_EmptySet
<1>7. Cardinality(stored \cup Ranks(s)) = Cardinality(stored) + Len(s)
  BY <1>1, <1>3, <1>5, <1>6, StoredFinite
<1> QED
  BY <1>1, <1>7

\* Removing stored nodes.
LEMMA RemovedCounted ==
  ASSUME TypeOK, NEW C \in SUBSET stored
  PROVE  /\ Cardinality(C) \in Nat
         /\ Cardinality(stored \ C) = Cardinality(stored) - Cardinality(C)
<1>1. IsFiniteSet(stored) /\ IsFiniteSet(C) /\ Cardinality(C) \in Nat
  BY StoredFinite, FS_Subset, FS_CardinalityType
<1>2. Cardinality(stored \ C) = Cardinality(stored) - Cardinality(stored \cap C)
  BY <1>1, FS_Difference
<1>3. stored \cap C = C
  OBVIOUS
<1> QED
  BY <1>1, <1>2, <1>3

\* Neither stored nor roots nor the states of the stored nodes change.
LEMMA AntichainKept ==
  ASSUME Antichain, ts' = ts, roots' = roots,
         \A n \in stored' \ Pending' : n \in stored \ Pending /\ state'[n] = state[n]
  PROVE  Antichain'
BY DEF Antichain, Covers

\* A step keeps the nodes comparable only where the code says so, and counted.
LEMMA RedundancyStep ==
  ASSUME IInv, NothingBuilt, Antichain, Counted, [Next]_vars
  PROVE  NothingBuilt' /\ Antichain' /\ Counted'
<1>t. TypeOK /\ TypeOK' /\ ts \in TransitionSystems /\ stored = active
  BY TypeStep DEF IInv, TypeOK, Table
<1>i. /\ ts.init \in Seq(States)
      /\ \A s \in States : ts.succ[s] \in Seq(States)
  BY <1>t, TransitionSystemType
<1>n. /\ Cardinality(stored) \in Nat /\ Len(state) \in Nat
      /\ stats.leaf \in Nat /\ stats.nonleaf \in Nat
  <2>1. state \in Seq(States) /\ stats \in [visited : Nat, leaf : Nat, nonleaf : Nat]
    BY <1>t DEF TypeOK
  <2> QED
    BY <1>t, <2>1, StoredFinite
<1>p. NothingBuilt'
  BY DEF Next, vars, ExpandInitialNodes, Exhausted, Accept, Expand, SkipInactive,
         CoverNext, KeepNext, EndCovering, NothingBuilt
<1>1. CASE ExpandInitialNodes
  <2>1. /\ ts' = ts /\ stored' = Ranks(ts.init) /\ Ranks(ts.init) \subseteq roots'
    BY <1>1 DEF ExpandInitialNodes, NothingBuilt
  <2>2. Antichain'
    BY <2>1 DEF Antichain, Covers
  <2>3. Counted'
    <3>1. /\ Len(state') = Len(state) + Len(ts.init) /\ Len(ts.init) \in Nat
          /\ Cardinality(stored') = Cardinality(stored) + Len(ts.init)
          /\ stats' = stats
      <4>1. /\ state' = state \o ts.init /\ stored' = stored \cup Ranks(ts.init)
            /\ stats' = stats
        BY <1>1 DEF ExpandInitialNodes
      <4>2. /\ Len(state \o ts.init) = Len(state) + Len(ts.init)
            /\ Cardinality(stored \cup Ranks(ts.init)) = Cardinality(stored) + Len(ts.init)
        BY <1>t, <1>i, RanksCounted
      <4>3. Len(ts.init) \in Nat
        BY <1>i
      <4> QED
        BY <4>1, <4>2, <4>3
    <3> QED
      BY <1>n, <3>1 DEF Counted
  <2> QED
    BY <1>p, <2>2, <2>3
<1>2. CASE Exhausted \/ EndCovering
  <2>1. Pending = {} /\ Pending' = {}
    BY <1>2, <1>t DEF Exhausted, EndCovering, Pending, TypeOK, IInv, Phases
  <2>2. Antichain'
    BY <1>2, <2>1, AntichainKept DEF Exhausted, EndCovering
  <2>3. Counted'
    BY <1>2 DEF Exhausted, EndCovering, Counted
  <2> QED
    BY <1>p, <2>2, <2>3
<1>3. ASSUME NEW i \in DOMAIN waiting, Accept(i) PROVE Antichain' /\ Counted'
  <2>1. Pending' = Pending
    BY <1>3 DEF Accept, Pending
  <2>2. Antichain'
    BY <1>3, <2>1, AntichainKept DEF Accept
  <2>3. stats'.leaf = stats.leaf /\ stats'.nonleaf = stats.nonleaf
    BY <1>3, <1>t DEF Accept, TypeOK
  <2>4. Counted'
    BY <1>3, <2>3 DEF Accept, Counted
  <2> QED
    BY <2>2, <2>4
<1>4. ASSUME NEW i \in DOMAIN waiting, Expand(i) PROVE Antichain' /\ Counted'
  <2> DEFINE succ == ts.succ[state[waiting[i]]]
             r == Ranks(succ)
  <2>1. succ \in Seq(States)
    <3>1. waiting[i] \in Nodes /\ state[waiting[i]] \in States
      BY <1>t DEF TypeOK, Nodes
    <3> QED
      BY <1>i, <3>1
  <2>2. /\ \A k \in Nodes : state'[k] = state[k]
        /\ Elements(NewNodes(succ)) = r
    BY <1>4, <1>t, <2>1, NewNodesType DEF Expand, TypeOK
  <2>3. /\ ts' = ts /\ roots' = roots /\ state' = state \o succ
        /\ nodes' = NewNodes(succ) /\ pos' = 1
        /\ stored' = stored \cup r /\ pc = "waiting"
    BY <1>4 DEF Expand
  <2>4. stats'.leaf = stats.leaf /\ stats'.nonleaf = stats.nonleaf
    BY <1>4, <1>t DEF Expand, TypeOK
  <2>5. Cardinality(stored \cup r) = Cardinality(stored) + Len(succ)
        /\ Len(state \o succ) = Len(state) + Len(succ) /\ Len(succ) \in Nat
    BY <1>t, <2>1, RanksCounted
  <2> HIDE DEF succ, r
  <2>6. Pending = {} /\ Pending' = r
    <3>1. Pending' = Elements(NewNodes(succ))
      BY <2>1, <2>3 DEF Pending, Elements, NewNodes
    <3> QED
      BY <2>2, <2>3, <3>1 DEF Pending, IInv, Phases
  <2>7. Antichain'
    BY <1>t, <2>2, <2>3, <2>6, AntichainKept DEF TypeOK
  <2>8. Counted'
    BY <1>n, <2>3, <2>4, <2>5 DEF Counted
  <2> QED
    BY <2>7, <2>8
<1>5. CASE SkipInactive
  <2>1. Pending = Pending' \cup {nodes[pos]}
    BY <1>5, <1>t DEF SkipInactive, Pending, TypeOK
  <2>2. nodes[pos] \notin stored
    BY <1>5, <1>t DEF SkipInactive
  <2>3. Antichain'
    BY <1>5, <2>1, <2>2, AntichainKept DEF SkipInactive
  <2>4. Counted'
    BY <1>5 DEF SkipInactive, Counted
  <2> QED
    BY <1>p, <2>3, <2>4
<1>6. ASSUME NEW m \in stored, CoverNext(m) PROVE Antichain' /\ Counted'
  <2> DEFINE n == nodes[pos]
  <2>1. Pending = Pending' \cup {n}
    BY <1>6, <1>t DEF CoverNext, Pending, TypeOK
  <2>2. Antichain'
    BY <1>6, <2>1, AntichainKept DEF CoverNext
  <2>3. stats'.leaf = stats.leaf + 1 /\ stats'.nonleaf = stats.nonleaf
    BY <1>6, <1>t DEF CoverNext, TypeOK
  <2>4. {n} \in SUBSET stored /\ stored' = stored \ {n} /\ state' = state
    BY <1>6, <1>t DEF CoverNext
  <2> HIDE DEF n
  <2>5. Cardinality(stored') = Cardinality(stored) - 1
    BY <1>t, <2>4, RemovedCounted, FS_Singleton
  <2>6. Counted'
    BY <1>n, <2>3, <2>4, <2>5 DEF Counted
  <2> QED
    BY <2>2, <2>6
<1>7. CASE KeepNext
  <2> DEFINE n == nodes[pos]
             C == CoveredNodes(n)
  <2>1. Pending = Pending' \cup {n}
    BY <1>7, <1>t DEF KeepNext, Pending, TypeOK
  <2>2. /\ C \in SUBSET stored /\ stored' = stored \ C /\ state' = state
        /\ ts' = ts /\ roots' = roots
        /\ \A m \in stored : m \in C <=> Covers(m, n)
        /\ \A m \in stored : ~ Covers(n, m)
    BY <1>7 DEF KeepNext, CoveredNodes
  <2>3. stats'.leaf = stats.leaf /\ stats'.nonleaf = stats.nonleaf + Cardinality(C)
    BY <1>7, <1>t DEF KeepNext, TypeOK
  <2> HIDE DEF n, C
  <2>4. Antichain'
    <3>1. ASSUME NEW k \in stored' \ Pending', NEW m \in stored' \ Pending', Covers(k, m)
          PROVE  FALSE
      BY <2>1, <2>2, <3>1 DEF Antichain
    <3> QED
      BY <2>2, <3>1 DEF Antichain, Covers
  <2>5. /\ Cardinality(stored') = Cardinality(stored) - Cardinality(C)
        /\ Cardinality(C) \in Nat
    BY <1>t, <2>2, RemovedCounted
  <2>6. Counted'
    BY <1>n, <2>2, <2>3, <2>5 DEF Counted
  <2> QED
    BY <1>p, <2>4, <2>6
<1>8. CASE UNCHANGED vars
  BY <1>8, <1>p DEF vars, Antichain, Covers, Pending, Counted
<1> QED
  BY <1>p, <1>1, <1>2, <1>3, <1>4, <1>5, <1>6, <1>7, <1>8 DEF Next

\* The node table and the filter of the waiting container agree, the covering
\* loop leaves no stored node below another one unless it is a root, and no
\* node is counted twice or not at all.
THEOREM NoRedundantNode == Spec => []NonRedundant
<1>1. Init => NothingBuilt /\ Antichain /\ Counted
  BY FS_EmptySet DEF Init, NothingBuilt, Antichain, Counted
<1>2. IInv /\ NothingBuilt /\ Antichain /\ Counted /\ [Next]_vars
        => NothingBuilt' /\ Antichain' /\ Counted'
  BY RedundancyStep
<1>3. IInv /\ Antichain /\ Counted => NonRedundant
  BY DEF IInv, Table, Antichain, Counted, NonRedundant
<1> QED
  BY <1>1, <1>2, <1>3, Invariant, PTL DEF Spec
=============================================================================
