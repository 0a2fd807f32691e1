---------------------------- MODULE Reachability ----------------------------
(***************************************************************************)
(* What a reachability algorithm promises, whatever it stores.  It knows a *)
(* set of symbolic states, those that some state it keeps simulates.  What *)
(* it knows is never forgotten and is always simulated by reachable states.*)
(* It answers REACHABLE only if there is an accepting run, and UNREACHABLE *)
(* only when it knows every reachable state and none is accepting.         *)
(***************************************************************************)
EXTENDS SymbolicSystems

VARIABLES
  ts,       \* the transition system
  known,    \* the states the algorithm knows to be simulated
  outcome   \* the answer

vars == <<ts, known, outcome>>

\* The states simulated by a reachable one.
Simulated(t) == {s \in States : \E r \in Reachable(t) : Le(t, s, r)}

Init ==
  /\ ts \in TransitionSystems
  /\ known = {}
  /\ outcome = "none"

Discover ==
  /\ outcome = "none"
  /\ known' \in SUBSET Simulated(ts)
  /\ known \subseteq known'
  /\ UNCHANGED <<ts, outcome>>

AnswerReachable ==
  /\ outcome = "none"
  /\ HasAcceptingRun(ts)
  /\ outcome' = "REACHABLE"
  /\ UNCHANGED <<ts, known>>

AnswerUnreachable ==
  /\ outcome = "none"
  /\ Reachable(ts) \subseteq known
  /\ ~ HasAcceptingRun(ts)
  /\ outcome' = "UNREACHABLE"
  /\ UNCHANGED <<ts, known>>

Next == Discover \/ AnswerReachable \/ AnswerUnreachable

Spec == Init /\ [][Next]_vars
=============================================================================
