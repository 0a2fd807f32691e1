----------------------------- MODULE MCCovReach -----------------------------
(* Two families of transition systems, small enough for TLC:                 *)
(*   - every system over a, b and c with one or two initial states and at    *)
(*     most two successors per state;                                        *)
(*   - every system over a, b, c and d where only the initial state a has two*)
(*     successors: a branch may cover what waits in the other one.           *)
EXTENDS CovReach

CONSTANTS a, b, c, d

MCStates == {a, b, c, d}

\* Preorders over the states in S; the other states are not compared.
OrdersOver(S) ==
  {r \in {q \cup {<<x, x>> : x \in MCStates} :
            q \in SUBSET {p \in S \X S : p[1] # p[2]}} :
     \A x, y, z \in S : <<x, y>> \in r /\ <<y, z>> \in r => <<x, z>> \in r}

\* The states in S are those reachable from a: the others would not matter.
Reaches(succ, S) ==
  /\ \A s \in MCStates \ S : succ[s] = <<>>
  /\ \A T \in SUBSET S :
       a \in T /\ (\A s \in T : Elements(succ[s]) \subseteq T) => T = S

\* Successor lists: none, one state, or two different states in either order.
Lists == {<<>>} \cup {<<x>> : x \in {a, b, c}}
           \cup {l \in {a, b, c} \X {a, b, c} : l[1] # l[2]}

Graphs3 == {succ \in [MCStates -> Lists] : Reaches(succ, {a, b, c})}

Graphs4 ==
  {succ \in [MCStates -> {<<>>, <<b, c>>} \cup {<<x>> : x \in MCStates}] :
     /\ \A s \in MCStates : succ[s] = <<b, c>> <=> s = a
     /\ Reaches(succ, MCStates)}

IsSystem(t) == IsSimulation(t) /\ IsMonotonous(t)

\* Two initial states only where there is an accepting one, to save time.
Systems3 ==
  {t \in [init : {<<a>>, <<a, b>>}, succ : Graphs3, le : OrdersOver({a, b, c}),
          accepting : {{}, {c}}] :
     (t.accepting = {} => t.init = <<a>>) /\ IsSystem(t)}

Systems4 ==
  {t \in [init : {<<a>>}, succ : Graphs4, le : OrdersOver(MCStates),
          accepting : {{}, {d}}] : IsSystem(t)}

MCTransitionSystems == Systems3 \cup Systems4
=============================================================================
