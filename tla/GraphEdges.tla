----------------------------- MODULE GraphEdges -----------------------------
(***************************************************************************)
(* The edges of the subsumption graphs of covreach, as a set of records:   *)
(* id tells parallel edges apart, src and tgt are nodes, and the type says *)
(* whether the edge is a transition or stands for one.                     *)
(***************************************************************************)

EdgeTypes == {"actual", "abstract"}

\* Mutant: the edges into the covered nodes are removed, not redirected.
CoverEdgesRemoved(E, C, n) == {e \in E : e.src \notin C /\ e.tgt \notin C}

\* cover_node for every node of C: the edges into C are redirected to n as
\* abstract edges, then the edges from or into C are removed.
CoverEdges(E, C, n) ==
  {e \in {IF d.tgt \in C THEN [d EXCEPT !.tgt = n, !.type = "abstract"] ELSE d
            : d \in E} : e.src \notin C /\ e.tgt \notin C}
=============================================================================
