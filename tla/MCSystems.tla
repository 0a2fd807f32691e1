------------------------------ MODULE MCSystems ------------------------------
(* Files of two processes: a header, then a few lines in any order.          *)
EXTENDS Systems

ProcessLine(p) == [kind |-> "process", name |-> p]
EventLine(e) == [kind |-> "event", name |-> e]
ClockLine(name, size) == [kind |-> "clock", name |-> name, size |-> size]
IntLine(name, size, min, max, init) ==
  [kind |-> "int", name |-> name, size |-> size, min |-> min, max |-> max, init |-> init]
LocationLine(p, l, attributes) ==
  [kind |-> "location", process |-> p, name |-> l, attributes |-> attributes]
EdgeLine(p, src, tgt, e, attributes) ==
  [kind |-> "edge", process |-> p, src |-> src, tgt |-> tgt, event |-> e,
   attributes |-> attributes]
SyncLine(constraints) == [kind |-> "sync", constraints |-> constraints]

Attr(key, value) == [key |-> key, value |-> value]
Is(p, e) == [process |-> p, event |-> e, strength |-> "strong"]
MayBe(p, e) == [process |-> p, event |-> e, strength |-> "weak"]

Initial == Attr("initial", "")

MCHeaders ==
  {<<ProcessLine("P"), EventLine("a")>>,
   <<ProcessLine("P"), ProcessLine("Q"), EventLine("a"), EventLine("b"),
     LocationLine("P", "l", <<Initial, Attr("labels", <<"red">>)>>),
     LocationLine("Q", "l", <<Attr("labels", <<"red", "blue">>)>>),
     EdgeLine("P", "l", "l", "a", <<>>)>>}

Declarations1 ==
  {ProcessLine("Q"), ProcessLine("P"), EventLine("b"), EventLine("c"),
   ClockLine("x", 1), ClockLine("y", 2), ClockLine("z", 0),
   IntLine("x", 1, -1, 1, 0), IntLine("i", 3, 0, 1, 1), IntLine("j", 2, 0, 1, 2),
   IntLine("j", 2, -2, 2, 0), IntLine("k", 2, -2, 1, 0), [kind |-> "error"]}

Locations1 ==
  {LocationLine("P", "l", <<Attr("urgent", "")>>),
   LocationLine("P", "m", <<Initial, Attr("invariant", "x")>>),
   LocationLine("Q", "m", <<Attr("labels", <<"blue", "green">>)>>),
   LocationLine("P", "n", <<Initial, Initial>>)}

Edges1 ==
  {EdgeLine("P", "l", "m", "a", <<Attr("provided", "x"), Attr("do", "i")>>),
   EdgeLine("Q", "l", "l", "b", <<Attr("colour", "red")>>),
   EdgeLine("Q", "l", "l", "a", <<Attr("provided", "syntax")>>)}

Syncs1 ==
  {SyncLine(<<Is("P", "a"), Is("Q", "b")>>), SyncLine(<<MayBe("P", "a"), Is("Q", "a")>>),
   SyncLine(<<Is("P", "a"), Is("P", "b")>>), SyncLine(<<MayBe("R", "a"), Is("P", "a")>>)}

MCLines == Declarations1 \cup Locations1 \cup Edges1 \cup Syncs1

\* A location that is committed and urgent.
MCBothLines == {LocationLine("P", "both", <<Attr("committed", ""), Attr("urgent", "")>>)}
=============================================================================
