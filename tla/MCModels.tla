------------------------------ MODULE MCModels ------------------------------
(* Three processes, of three, two and two locations, two clocks and an integer *)
(* variable with values 0 and 1.                                              *)
EXTENDS Models

x == 1
y == 2

MCPid == [l \in 0 .. 6 |-> IF l < 3 THEN 0 ELSE IF l < 5 THEN 1 ELSE 2]

Compare(clock, op, c) == [x |-> clock, y |-> 0, op |-> op, c |-> c]
Set(clock, other, c) == [x |-> clock, y |-> other, c |-> c]

Any == {0, 1}
Same == [n \in Any |-> n]
Increment == [n \in Any |-> IF n = 0 THEN 1 ELSE Failed]

Edge(l1, l2, test, guard, assign, statement) ==
  [src |-> l1, tgt |-> l2, test |-> test, guard |-> guard,
   assign |-> assign, statement |-> statement]

MCInvariant ==
  [l \in 0 .. 6 |-> IF l = 0 THEN <<Compare(x, "<=", 2)>>
                    ELSE IF l = 3 THEN <<Compare(y, "<=", 2)>> ELSE <<>>]

\* A process that waits for x in 1 .. 2 and counts, and one that y keeps in step.
Wait == Edge(0, 1, Any, <<Compare(x, ">=", 1)>>, Increment, <<Set(x, 0, 0)>>)
Tick == Edge(3, 4, Any, <<Compare(y, "==", 2)>>, Same, <<Set(y, 0, 0)>>)

-----------------------------------------------------------------------------
(* Zone graphs: two processes that share clocks and the integer variable, and copy *)
(* clocks; the third one stays where it is.                                       *)

Urge == Edge(1, 2, Any, <<Compare(x, "<", 2), Compare(y, ">", 1)>>, Same, <<Set(x, y, 1)>>)
Back == Edge(2, 0, {1}, <<>>, [n \in Any |-> 0], <<Set(x, 0, 1)>>)
Join == Edge(2, 1, Any, <<Compare(x, ">", 2)>>, Same, <<>>)
Stay == Edge(2, 0, Any, <<>>, Same, <<Set(x, y, 1)>>)
Rest == Edge(4, 3, {0}, <<Compare(y, "<=", 1)>>, Same, <<>>)
Tock == Edge(4, 3, Any, <<>>, Increment, <<Set(y, 0, 0)>>)

Tuple(l0, l1, l2) == [p \in 0 .. 2 |-> IF p = 0 THEN l0 ELSE IF p = 1 THEN l1 ELSE l2]

Network(committed, urgent, invariant) ==
  [initial |-> {Tuple(0, 3, 5), Tuple(2, 4, 5)},
   value |-> 0, values |-> Any,
   committed |-> committed, urgent |-> urgent,
   test |-> [l \in 0 .. 6 |-> IF l = 4 THEN {0} ELSE Any],
   invariant |-> invariant,
   edges |-> <<Wait, Urge, Back, Stay, Join, Tick, Rest, Tock>>,
   vedges |-> {<<Wait>>, <<Urge>>, <<Back>>, <<Stay>>, <<Tick>>, <<Rest>>, <<Join, Tock>>, <<Wait, Tick>>},
   zg |-> Classes, async_zg |-> {}]

Networks1 ==
  {Network({}, {}, MCInvariant), Network({2}, {4}, MCInvariant),
   Network({}, {4}, [MCInvariant EXCEPT ![0] = <<Compare(x, ">=", 1)>>])}

-----------------------------------------------------------------------------
(* Asynchronous zone graphs: x is of the first process, y of the second one.      *)

Return == Edge(1, 0, {1}, <<Compare(x, "<", 2)>>, [n \in Any |-> 0], <<Set(x, 0, 0)>>)
Keep == Edge(1, 0, Any, <<>>, Same, <<Set(x, 0, 0)>>)
Late == Edge(1, 0, Any, <<Compare(x, ">", 2)>>, [n \in Any |-> 0], <<>>)
Tack == Edge(4, 3, Any, <<Compare(y, ">", 1)>>, Same, <<>>)
Send == Edge(5, 6, Any, <<>>, Same, <<>>)
Done == Edge(6, 5, Any, <<>>, Same, <<>>)

AsyncNetwork(committed, urgent, invariant, others) ==
  [initial |-> {Tuple(0, 3, 5)},
   value |-> 0, values |-> Any,
   committed |-> committed, urgent |-> urgent,
   test |-> [l \in 0 .. 6 |-> IF l = 0 THEN {0} ELSE Any],
   invariant |-> invariant,
   edges |-> <<Wait, Return, Tick, Tack, Send, Done>> \o others,
   vedges |-> {<<Wait>>, <<Return>>, <<Tick>>, <<Tack>>, <<Send, Wait>>, <<Tick, Done>>,
               <<Tack, Send, Return>>} \cup {<<others[i]>> : i \in DOMAIN others},
   zg |-> {},
   async_zg |-> [semantics : Semantics, extra : {"extraLU+"}, scope : {"local"}]]

\* In the third network a process has an invariant on the clock of another, in the fourth
\* one it reads the variable of another: they are refused.
Networks2 ==
  {AsyncNetwork({}, {}, MCInvariant, <<>>),
   AsyncNetwork({1}, {6}, MCInvariant, <<Keep, Late>>),
   AsyncNetwork({}, {}, [MCInvariant EXCEPT ![5] = <<Compare(x, "<=", 1)>>], <<>>),
   AsyncNetwork({}, {}, MCInvariant, <<Edge(6, 5, {1}, <<>>, Same, <<>>)>>),
   AsyncNetwork({}, {}, [MCInvariant EXCEPT ![3] = <<Compare(y, ">=", 1)>>], <<>>),
   AsyncNetwork({}, {}, MCInvariant, <<Edge(4, 3, Any, <<>>, Same, <<Set(y, 0, 1)>>)>>)}

MCNetworks == Networks1 \cup Networks2

-----------------------------------------------------------------------------
(* Clock bounds: two processes, and expressions on several clocks.                *)

Constraint(clocks, op, c) == [x |-> clocks, y |-> {0}, op |-> op, c |-> c]
ToInt(clocks) == [kind |-> "int", x |-> clocks, y |-> {0}, c |-> 0]
ToClock(clocks, others) == [kind |-> "clock", x |-> clocks, y |-> others, c |-> 0]
ToSum(clocks, others, c) == [kind |-> "sum", x |-> clocks, y |-> others, c |-> c]
Unknown == Bounds!Unknown

SyntaxEdge(l1, l2, guard, statement) ==
  [src |-> l1, tgt |-> l2, guard |-> guard, statement |-> statement]

\* From location 0: any assignment.  From location 1: constraints on what they yield.
FirstEdges(statements) ==
  {SyntaxEdge(0, 1, g, s) : g \in {<<>>, <<Constraint({x}, "==", 1)>>}, s \in statements}

SecondEdges ==
  {SyntaxEdge(1, l, <<Constraint({y}, "<", 2), Constraint({x, y}, ">", 1)>>, <<>>) : l \in {0, 1}}
    \cup {SyntaxEdge(1, 0, <<Constraint({x}, ">=", 2)>>, <<ToInt({x})>>),
          SyntaxEdge(1, 1, <<Constraint({y}, "<=", Unknown)>>, <<ToInt({x})>>)}

OtherEdges ==
  {SyntaxEdge(3, 3, g, s) :
     g \in {<<>>, <<Constraint({y}, "==", 1)>>},
     s \in {<<>>, <<ToSum({x}, {y}, 1)>>}}

Invariants ==
  {[l \in 0 .. 6 |-> IF l = 1 THEN i ELSE <<>>] : i \in {<<>>, <<Constraint({x}, "<=", 1)>>}}

SyntaxesWith(statements) ==
  [invariant : Invariants,
   edges : FirstEdges(statements) \X SecondEdges \X OtherEdges]

\* At most one assignment of an edge reads a clock, and no copy of a clock.
MCSyntaxes ==
  SyntaxesWith({<<ToInt({x}), ToSum({y}, {x}, 1)>>, <<ToInt({x, y})>>,
                <<ToSum({x}, {y}, Unknown)>>, <<ToSum({x, y}, {y}, 1)>>,
                <<ToSum({x}, {x}, -1)>>})
    \cup {[invariant |-> i, edges |-> <<SyntaxEdge(0, 1, <<d>>, <<>>)>>] :
            i \in Invariants,
            d \in {[x |-> {x}, y |-> {y}, op |-> "<=", c |-> 1], Constraint({x}, "<", 29)}}

\* An edge that copies a clock (run models_copy), and one whose second assignment reads what
\* the first one wrote, which breaks BoundsSimulate (README, "Disagreements").
MCCopies == SyntaxesWith({<<ToClock({y}, {x})>>})
MCSequences == SyntaxesWith({<<ToSum({x}, {y}, 1), ToSum({y}, {x}, 1)>>})
NoNetwork == {}
=============================================================================
