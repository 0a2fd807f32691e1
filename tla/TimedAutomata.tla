---------------------------- MODULE TimedAutomata ----------------------------
(***************************************************************************)
(* What a network of timed automata means, valuation by valuation: what    *)
(* clock bounds and zones are abstractions of.                             *)
(*                                                                         *)
(* Guards and invariants are sequences of constraints x - y op c.          *)
(* Statements are sequences of assignments x := y + c.  Clock 0 is 0.      *)
(***************************************************************************)
EXTENDS Integers, Sequences

CONSTANTS
  LocNumber,    \* locations are numbered from 0
  ClockNumber,  \* clocks too, the zero clock included
  Pid,          \* the process of a location
  Unit          \* valuations count time in fractions of a unit: this many in one

ASSUME NetworkAssumption ==
  /\ LocNumber \in Nat /\ ClockNumber \in Nat \ {0}
  /\ DOMAIN Pid = 0 .. LocNumber - 1
  /\ Unit \in Nat \ {0}

Locations == 0 .. LocNumber - 1
ClockIds == 0 .. ClockNumber - 1
Processes == {Pid[l] : l \in Locations}

Units(c) == Unit * c

Holds(d, op, c) ==
  CASE op = "<"  -> d < Units(c)
    [] op = "<=" -> d <= Units(c)
    [] op = "==" -> d = Units(c)
    [] op = ">=" -> d >= Units(c)
    [] op = ">"  -> d > Units(c)

Meets(v, constraints) ==
  \A i \in DOMAIN constraints :
    LET k == constraints[i] IN Holds(v[k.x] - v[k.y], k.op, k.c)

\* The valuation after a sequence of assignments.
After(v, statement) ==
  LET after[n \in 0 .. Len(statement)] ==
        IF n = 0 THEN v
        ELSE LET a == statement[n]
                 u == after[n - 1]
             IN [u EXCEPT ![a.x] = u[a.y] + Units(a.c)]
  IN after[Len(statement)]

-----------------------------------------------------------------------------
\* One location of each process.
Vlocs == {vloc \in [Processes -> Locations] : \A p \in Processes : Pid[vloc[p]] = p}

\* The edges that are taken together: one, or one of each of two processes, whose
\* statements are run one after another.
Vedges(edges) ==
  {<<e>> : e \in edges}
    \cup {s \in edges \X edges : Pid[s[1].src] # Pid[s[2].src]}

IsSource(vloc, vedge) ==
  \A i \in DOMAIN vedge : vloc[Pid[vedge[i].src]] = vedge[i].src

IsEnabled(v, vedge) == \A i \in DOMAIN vedge : Meets(v, vedge[i].guard)

Target(vloc, vedge) ==
  [p \in Processes |->
     IF \E i \in DOMAIN vedge : Pid[vedge[i].src] = p
     THEN vedge[CHOOSE i \in DOMAIN vedge : Pid[vedge[i].src] = p].tgt
     ELSE vloc[p]]

Statement(vedge) ==
  vedge[1].statement \o (IF Len(vedge) = 1 THEN <<>> ELSE vedge[2].statement)
=============================================================================
