------------------------------ MODULE MCExplore ------------------------------
(* Two families of transition systems:                                       *)
(*   - over three states, with one or two initial states; a has two          *)
(*     transitions at most, b one, and c two, which may also be refused or   *)
(*     raise an exception, as the first initial state may;                   *)
(*   - over four states, a branches to the three others, and b, c and d are  *)
(*     linked by at most one transition each.                                *)
EXTENDS Explore, TLC

CONSTANTS a, b, c, d

MCStates == {a, b, c, d}

Ok(s) == [status |-> "STATE_OK", state |-> s]

Oks == {Ok(s) : s \in {a, b, c}}

Bad == {[status |-> "refused", state |-> a], [status |-> "exception", state |-> a]}

UpTo1(S) == {<<>>} \cup {<<x>> : x \in S}

Lists(S) == UpTo1(S) \cup (S \X S)

Inits == {<<Ok(a)>>, <<Ok(a), Ok(b)>>, <<Ok(a), Ok(a)>>} \cup {<<x, Ok(a)>> : x \in Bad}

Systems3 ==
  {[init |-> i, succ |-> (a :> x @@ b :> y @@ c :> z @@ d :> <<>>)] :
     i \in Inits, x \in Lists(Oks), y \in UpTo1(Oks), z \in Lists({Ok(a), Ok(b)} \cup Bad)}

Systems4 ==
  {[init |-> <<Ok(a)>>,
    succ |-> (a :> <<Ok(b), Ok(c), Ok(d)>> @@ b :> x @@ c :> y @@ d :> z)] :
     x, y, z \in UpTo1({Ok(b), Ok(c), Ok(d)})}

MCTransitionSystems == Systems3 \cup Systems4
=============================================================================
