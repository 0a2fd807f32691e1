------------------------------- MODULE MCZone -------------------------------
(* Two clocks, and bounds on 3 bits: the values of the bounds are -4 .. 2.   *)
(* Zones are computed with as long as their bounds are between -1 and 1.     *)
EXTENDS Zone

\* Strict constraints are those of one clock: they give strict differences as well.
MCConstraints ==
  {k \in [x : Clocks, y : Clocks, cmp : {LT, LE}, c : -2 .. 2] :
     k.x # k.y /\ (k.cmp = LT => 0 \in {k.x, k.y})}

MCResets == [x : Clocks \ {0}, y : Clocks, c : 0 .. 2]

\* Fewer zones, to compare them all: x <= 1 for clock 1, and x > 1 and x := 0.
MCComparable ==
  [x : {1}, y : {0}, cmp : {LE}, c : {1}]
    \cup [x : {0}, y : Clocks \ {0}, cmp : {LT}, c : {-1}]
    \cup [x : Clocks \ {0}, y : {0}, c : {0}]

OfClocks(c1, c2) == [x \in Clocks |-> IF x = 0 THEN 0 ELSE IF x = 1 THEN c1 ELSE c2]

\* l > u for a clock and l < u for the other, and clocks without a bound.
MCClockBounds ==
  {[l |-> OfClocks(1, 0),       u |-> OfClocks(0, 1)],
   [l |-> OfClocks(NoBound, 0), u |-> OfClocks(1, NoBound)]}

\* The solver gives x such an upper bound for x <= 3 after x := y + 5: extrapolations then
\* make a zone that is not positive (README, "Disagreements").
MCNegativeBounds == {[l |-> OfClocks(1, 1), u |-> OfClocks(-2, 1)]}
=============================================================================
