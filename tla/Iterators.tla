------------------------------- MODULE Iterators -------------------------------
(***************************************************************************)
(* The iterators over ranges of ranges (utils/iterator.hh).                *)
(*                                                                         *)
(* A range is the sequence of its elements, an iterator over it a          *)
(* position; the position after the last one is past the end.              *)
(***************************************************************************)
EXTENDS Naturals, Sequences

PastTheEnd(range) == Len(range) + 1

\* The elements of the range at the positions [kept]: a loop that skips the others.
Filtered(range, kept) ==
  LET filtered[n \in 0 .. Len(range)] ==
        IF n = 0 THEN <<>>
        ELSE IF n \in kept THEN Append(filtered[n - 1], range[n])
        ELSE filtered[n - 1]
  IN filtered[Len(range)]

-----------------------------------------------------------------------------
(* cartesian_iterator_t: one iterator for each range. *)

EmptyProduct == [ranges |-> <<>>, its |-> <<>>]

to_end(c) ==
  IF c.ranges = <<>> THEN c ELSE [c EXCEPT !.its[1] = PastTheEnd(c.ranges[1])]

push_back(c, range) ==
  LET d == [ranges |-> Append(c.ranges, range), its |-> Append(c.its, 1)]
  IN IF range = <<>> THEN to_end(d) ELSE d

at_end(c) == IF c.ranges = <<>> THEN TRUE ELSE c.its[1] = PastTheEnd(c.ranges[1])

\* operator++: the last iterator that is not on the last element of its range advances,
\* those after it start again.  The first one goes past the end when all are.
Advanced(c) ==
  LET ahead == {i \in DOMAIN c.its : c.its[i] < Len(c.ranges[i])}
      last == IF ahead = {} THEN 1 ELSE CHOOSE i \in ahead : \A j \in ahead : j <= i
  IN [c EXCEPT !.its = [i \in DOMAIN c.its |->
        IF i < last THEN c.its[i] ELSE IF i = last THEN c.its[i] + 1 ELSE 1]]

\* operator*, through values_iterator_t.
Values(c) == [i \in DOMAIN c.its |-> c.ranges[i][c.its[i]]]

Product(ranges) ==
  LET product[n \in 0 .. Len(ranges)] ==
        IF n = 0 THEN EmptyProduct ELSE push_back(product[n - 1], ranges[n])
  IN product[Len(ranges)]

-----------------------------------------------------------------------------
(* join_iterator_t: the elements of a sequence of ranges, one range after   *)
(* another.  [it] is the range, [pos] the position in it.                   *)

\* Mutant: an empty range ends the sequence.
StopAtEmptyRange(ranges, it) ==
  IF it \in DOMAIN ranges /\ ranges[it] # <<>> THEN [it |-> it, pos |-> 1]
  ELSE [it |-> PastTheEnd(ranges), pos |-> 0]

\* The first range that is not empty from it on.
AdvanceWhileEmptyRange(ranges, it) ==
  LET found == {i \in it .. Len(ranges) : ranges[i] # <<>>}
  IN IF found = {} THEN [it |-> PastTheEnd(ranges), pos |-> 0]
     ELSE [it |-> CHOOSE i \in found : \A j \in found : i <= j, pos |-> 1]

Join(ranges) == AdvanceWhileEmptyRange(ranges, 1)
JoinAtEnd(ranges, j) == j.it = PastTheEnd(ranges)
JoinValue(ranges, j) == ranges[j.it][j.pos]

JoinAdvanced(ranges, j) ==
  IF j.pos < Len(ranges[j.it]) THEN [j EXCEPT !.pos = @ + 1]
  ELSE AdvanceWhileEmptyRange(ranges, j.it + 1)
=============================================================================
