---------------------------- MODULE Configurations ----------------------------
(***************************************************************************)
(* What a system of processes is (doc/file-format.md): tuples of locations *)
(* that move by global edges.  A global edge instantiates a               *)
(* synchronization, each constraint at most once, or is one asynchronous  *)
(* edge.                                                                   *)
(*                                                                         *)
(* A system is a record of its edges, a sequence of [pid, event, src, tgt] *)
(* with the locations of processes disjoint, of its synchronizations,     *)
(* sequences of constraints [pid, event, strength], and of the sequences  *)
(* of the initial locations of processes.                                  *)
(***************************************************************************)
EXTENDS Naturals, Sequences

CONSTANTS
  Processes,   \* 1 .. n
  Systems      \* the systems

VARIABLES system, vloc

Edges(sys) == {sys.edges[i] : i \in DOMAIN sys.edges}

IsOf(e, constraint) == e.pid = constraint.pid /\ e.event = constraint.event

Outgoing(sys, v, constraint) ==
  {e \in Edges(sys) : IsOf(e, constraint) /\ e.src = v[constraint.pid]}

IsAsynchronous(sys, e) ==
  \A i \in DOMAIN sys.syncs : \A j \in DOMAIN sys.syncs[i] : ~IsOf(e, sys.syncs[i][j])

\* A weak constraint must be instantiated when it can be, and only then.
Instantiates(sys, v, edges, sync) ==
  /\ edges # {}
  /\ \A j \in DOMAIN sync :
       LET taken == edges \cap Outgoing(sys, v, sync[j])
       IN \/ \E e \in taken : taken = {e}
          \/ sync[j].strength = "weak" /\ Outgoing(sys, v, sync[j]) = {}
  /\ \A e \in edges : \E j \in DOMAIN sync : e \in Outgoing(sys, v, sync[j])

IsGlobalEdge(sys, v, edges) ==
  \/ \E i \in DOMAIN sys.syncs : Instantiates(sys, v, edges, sys.syncs[i])
  \/ \E e \in edges : edges = {e} /\ e.src = v[e.pid] /\ IsAsynchronous(sys, e)

Target(v, edges) ==
  [p \in Processes |->
     IF \E e \in edges : e.pid = p THEN (CHOOSE e \in edges : e.pid = p).tgt ELSE v[p]]

InitialVlocs(sys) ==
  LET Initial(p) == {sys.initial[p][i] : i \in DOMAIN sys.initial[p]}
  IN {v \in [Processes -> UNION {Initial(p) : p \in Processes}] :
        \A p \in Processes : v[p] \in Initial(p)}

\* Before the first step, no process is anywhere.
Nowhere == [p \in Processes |-> "none"]

Init == system \in Systems /\ vloc = Nowhere

Start == vloc = Nowhere /\ vloc' \in InitialVlocs(system)

Move ==
  \E edges \in SUBSET Edges(system) :
    IsGlobalEdge(system, vloc, edges) /\ vloc' = Target(vloc, edges)

Next == (Start \/ Move) /\ UNCHANGED system

Spec == Init /\ [][Next]_<<system, vloc>>
=============================================================================
