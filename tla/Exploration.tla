----------------------------- MODULE Exploration -----------------------------
(***************************************************************************)
(* What `tchecker explore' promises: the graph that a reader of its output *)
(* draws is the reachable part of the transition system.  A state appears  *)
(* once, when a transition reaches it; a transition appears once, when its *)
(* source is already there.  The output is complete when the command       *)
(* returns; an evaluation error ends it early.                             *)
(*                                                                         *)
(* An outcome is what ts.initialize or ts.next does for one value of an    *)
(* iterator: it builds a state (STATE_OK), refuses (any other status), or  *)
(* raises an exception (an invalid evaluation in the virtual machine).  A  *)
(* system gives the outcomes of its initial states, and of the transitions *)
(* of each state, in the order of the iterators.                           *)
(***************************************************************************)
EXTENDS Naturals, Sequences

CONSTANTS
  States,             \* the states, up to the equality of the node table
  TransitionSystems   \* the transition systems that may be explored

Statuses == {"STATE_OK", "refused", "exception"}

Outcomes == [status : Statuses, state : States]

IsOk(o) == o.status = "STATE_OK"
Raises(o) == o.status = "exception"

Elements(s) == {s[i] : i \in DOMAIN s}

VARIABLES
  ts,       \* the transition system
  nodes,    \* the states of the graph, in the order they appear
  edges,    \* its edges <<s, k>>: the k-th transition of s, in the same order
  outcome   \* none, complete or interrupted

vars == <<ts, nodes, edges, outcome>>

With(s) == IF s \in Elements(nodes) THEN nodes ELSE Append(nodes, s)

Init ==
  /\ ts \in TransitionSystems
  /\ nodes = <<>>
  /\ edges = <<>>
  /\ outcome = "none"

ShowInitial ==
  /\ outcome = "none"
  /\ \E i \in DOMAIN ts.init :
       /\ IsOk(ts.init[i])
       /\ ts.init[i].state \notin Elements(nodes)
       /\ nodes' = With(ts.init[i].state)
  /\ UNCHANGED <<ts, edges, outcome>>

ShowTransition ==
  /\ outcome = "none"
  /\ \E s \in Elements(nodes) : \E k \in DOMAIN ts.succ[s] :
       /\ IsOk(ts.succ[s][k])
       /\ <<s, k>> \notin Elements(edges)
       /\ nodes' = With(ts.succ[s][k].state)
       /\ edges' = Append(edges, <<s, k>>)
  /\ UNCHANGED <<ts, outcome>>

Complete ==
  /\ outcome = "none"
  /\ \A i \in DOMAIN ts.init : IsOk(ts.init[i]) => ts.init[i].state \in Elements(nodes)
  /\ \A s \in Elements(nodes) : \A k \in DOMAIN ts.succ[s] :
       IsOk(ts.succ[s][k]) => <<s, k>> \in Elements(edges)
  /\ outcome' = "complete"
  /\ UNCHANGED <<ts, nodes, edges>>

Interrupt ==
  /\ outcome = "none"
  /\ \/ \E i \in DOMAIN ts.init : Raises(ts.init[i])
     \/ \E s \in Elements(nodes) : \E k \in DOMAIN ts.succ[s] : Raises(ts.succ[s][k])
  /\ outcome' = "interrupted"
  /\ UNCHANGED <<ts, nodes, edges>>

Next == ShowInitial \/ ShowTransition \/ Complete \/ Interrupt

Spec == Init /\ [][Next]_vars
=============================================================================
