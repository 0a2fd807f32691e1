---------------------------- MODULE MCFlatSystem ----------------------------
(* Instances of FlatSystem: three processes of two locations at most. *)
EXTENDS FlatSystem

Edge(pid, event, src, tgt) == [pid |-> pid, event |-> event, src |-> src, tgt |-> tgt]
Constraint(pid, event, strength) == [pid |-> pid, event |-> event, strength |-> strength]

\* The edges of processes 1, 2, 3: two edges of the same event, a loop, a way back.
First == {<<Edge(1, "a", "p0", "p1"), Edge(1, "a", "p0", "p0")>>,
          <<Edge(1, "b", "p1", "p0"), Edge(1, "a", "p0", "p1")>>}
Second == {<<Edge(2, "a", "q0", "q1")>>,
           <<Edge(2, "a", "q0", "q1"), Edge(2, "b", "q0", "q1"), Edge(2, "a", "q0", "q0"), Edge(2, "b", "q1", "q0")>>}
Third == {<<Edge(3, "b", "r0", "r1"), Edge(3, "a", "r1", "r1")>>}

Syncs ==
  {<<Constraint(1, "a", "strong")>>}
    \cup {<<Constraint(1, "a", s), Constraint(2, "a", t)>> : s, t \in {"strong", "weak"}}
    \cup {<<Constraint(2, "b", s), Constraint(1, "a", t), Constraint(3, "b", t)>> : s, t \in {"strong", "weak"}}
Lists == {<<>>} \cup {<<s>> : s \in Syncs}
           \cup {<<s, t>> : s \in {u \in Syncs : Len(u) = 3},
                            t \in {u \in Syncs : Len(u) = 2 /\ u[2].strength = "weak"}}

Initials == {<<<<"p0", "p1">>, <<"q0", "q1">>, <<"r0", "r1">>>>, <<<<"p0">>, <<"q0", "q1">>, <<"r0">>>>,
             <<<<"p0">>, <<>>, <<"r0">>>>}

MCSystems == {[edges |-> f \o s \o t, syncs |-> l, initial |-> i] :
                f \in First, s \in Second, t \in Third, l \in Lists, i \in Initials}
=============================================================================
