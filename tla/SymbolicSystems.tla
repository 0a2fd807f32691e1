--------------------------- MODULE SymbolicSystems ---------------------------
(***************************************************************************)
(* What the reachability algorithms of TChecker see of a zone graph: the   *)
(* input of algorithm_t::run, and what it means to answer right about it.  *)
(*                                                                         *)
(* A symbolic state (locations, integer variables and zone) is an element  *)
(* of States.  A transition system is a record of its initial states and   *)
(* of the successors of each state, in the order of the iterators of the   *)
(* zone graph (repetitions included), of the cover relation of the nodes   *)
(* and of the accepting states.                                            *)
(***************************************************************************)
EXTENDS Naturals, Sequences

CONSTANTS
  States,             \* symbolic states
  TransitionSystems   \* the transition systems an algorithm may be run on

Elements(s) == {s[i] : i \in DOMAIN s}

(***************************************************************************)
(* What a run may assume of its input, the \pre of algorithm_t::run and    *)
(* the theory of the cover relations: the relation is a preorder, it is a  *)
(* simulation, and a state bigger than an accepting one is accepting.      *)
(***************************************************************************)
Le(t, a, b) == <<a, b>> \in t.le

IsPreorder(t) ==
  /\ \A a \in States : Le(t, a, a)
  /\ \A a, b, c \in States : Le(t, a, b) /\ Le(t, b, c) => Le(t, a, c)

IsSimulation(t) ==
  \A a, b \in States : Le(t, a, b) =>
    \A a1 \in Elements(t.succ[a]) :
      \E b1 \in Elements(t.succ[b]) : Le(t, a1, b1)

IsMonotonous(t) ==
  \A a, b \in States : Le(t, a, b) /\ a \in t.accepting => b \in t.accepting

IsTransitionSystem(t) ==
  /\ t \in [init : Seq(States), succ : [States -> Seq(States)],
            le : SUBSET (States \X States), accepting : SUBSET States]
  /\ IsPreorder(t) /\ IsSimulation(t) /\ IsMonotonous(t)

ASSUME TransitionSystemsAssumption ==
  \A t \in TransitionSystems : IsTransitionSystem(t)

\* The states reachable from the initial ones, without any algorithm.
IsClosed(t, S) ==
  /\ Elements(t.init) \subseteq S
  /\ \A s \in S : Elements(t.succ[s]) \subseteq S

Reachable(t) == {s \in States : \A S \in SUBSET States : IsClosed(t, S) => s \in S}

HasAcceptingRun(t) == \E s \in Reachable(t) : s \in t.accepting
=============================================================================
