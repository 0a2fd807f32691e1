------------------------------ MODULE FlatSystem ------------------------------
(***************************************************************************)
(* The enumeration of the tuples of initial locations, of the synchronous  *)
(* and asynchronous edges of a tuple of locations, and of its successors   *)
(* (flat_system/synchronizer.hh, flat_system/flat_system.hh).              *)
(*                                                                         *)
(* An algorithm goes through the initial tuples, and keeps one of them.    *)
(* It goes through the edges of the tuple it has; each yields a successor  *)
(* or is skipped; it goes on from one of the successors.                   *)
(***************************************************************************)
EXTENDS Iterators, FiniteSets

CONSTANTS
  Processes,   \* 1 .. n
  Systems      \* see Configurations

ASSUME ProcessesAssumption == IsFiniteSet(Processes) /\ Processes = 1 .. Cardinality(Processes)

EdgesOf(sys) == {sys.edges[i] : i \in DOMAIN sys.edges}
ConstraintsOf(sync) == {sync[j] : j \in DOMAIN sync}
Ends(edge) == {edge.src, edge.tgt}

\* What the builder of systems ensures: edges are told apart, processes do not share
\* locations, and a synchronization does not constrain a process twice.
IsSystem(sys) ==
  /\ sys.edges \in Seq(EdgesOf(sys))
  /\ \A i, j \in DOMAIN sys.edges : sys.edges[i] = sys.edges[j] => i = j
  /\ \A e \in EdgesOf(sys) : e.pid \in Processes
  /\ \A e, f \in EdgesOf(sys) : Ends(e) \cap Ends(f) # {} => e.pid = f.pid
  /\ sys.syncs \in Seq({sys.syncs[k] : k \in DOMAIN sys.syncs})
  /\ \A k \in DOMAIN sys.syncs :
       /\ sys.syncs[k] \in Seq(ConstraintsOf(sys.syncs[k]))
       /\ \A c \in ConstraintsOf(sys.syncs[k]) : c.pid \in Processes /\ c.strength \in {"strong", "weak"}
       /\ \A i, j \in DOMAIN sys.syncs[k] : sys.syncs[k][i].pid = sys.syncs[k][j].pid => i = j
  /\ sys.initial \in [Processes -> {sys.initial[p] : p \in Processes}]
  /\ \A p \in Processes :
       /\ sys.initial[p] \in Seq({sys.initial[p][i] : i \in DOMAIN sys.initial[p]})
       /\ \A i \in DOMAIN sys.initial[p], e \in EdgesOf(sys) : sys.initial[p][i] \in Ends(e) => e.pid = p

ASSUME SystemsAssumption == \A sys \in Systems : IsSystem(sys)

Directions == {"outgoing", "incoming"}

VARIABLES
  system,
  phase,       \* "initial", "edges"
  initials,    \* the iterator over initial tuples of locations
  vloc,        \* the tuple of locations whose edges are enumerated
  direction,   \* which edges are enumerated
  it,          \* the iterator over edges: [sync, product, async]
  produced,    \* what it was dereferenced to so far: [sync, vedge], sync 0 if none
  successors   \* [status, vloc], what next made of it

vars == <<system, phase, initials, vloc, direction, it, produced, successors>>

NoVloc == [p \in Processes |-> "none"]

-----------------------------------------------------------------------------
(* synchronizer_t.  The functions that tell outgoing edges from incoming    *)
(* ones are the argument d.                                                 *)

Loc(edge, d) == IF d = "outgoing" THEN edge.src ELSE edge.tgt

\* loc_event_outgoing_edges, loc_event_incoming_edges.
LocEventEdges(loc, event, d) ==
  Filtered(system.edges,
    {i \in DOMAIN system.edges : Loc(system.edges[i], d) = loc /\ system.edges[i].event = event})

\* loc_outgoing_event, loc_incoming_event.
LocHasEvent(loc, event, d) == \E e \in EdgesOf(system) : Loc(e, d) = loc /\ e.event = event

IsAsynchronous(pid, event) ==
  \A i \in DOMAIN system.syncs : \A j \in DOMAIN system.syncs[i] :
    ~(system.syncs[i][j].pid = pid /\ system.syncs[i][j].event = event)

\* location_edges_map_t, filled by the constructor of the synchronizer.
LocationEdges(loc, d) ==
  Filtered(system.edges,
    {i \in DOMAIN system.edges :
       Loc(system.edges[i], d) = loc /\ IsAsynchronous(system.edges[i].pid, system.edges[i].event)})

\* Mutant: weak constraints are not asked for anything.
EnabledByStrong(sync, v, d) ==
  \A j \in DOMAIN sync : sync[j].strength = "weak" \/ LocHasEvent(v[sync[j].pid], sync[j].event, d)

\* The filter of filter_enabled_syncs.
IsEnabled(sync, v, d) ==
  LET event(j) == LocHasEvent(v[sync[j].pid], sync[j].event, d)
  IN /\ \A j \in DOMAIN sync : sync[j].strength = "weak" \/ event(j)
     /\ \E j \in DOMAIN sync : event(j)

\* The first enabled synchronization from k on: a step of the filter iterator.
NextEnabled(k, v, d) ==
  LET enabled == {i \in k .. Len(system.syncs) : IsEnabled(system.syncs[i], v, d)}
  IN IF enabled = {} THEN PastTheEnd(system.syncs)
     ELSE CHOOSE i \in enabled : \A j \in enabled : i <= j

\* The ranges of a synchronization: those of weak constraints without edge are skipped.
Ranges(sync, v, d) ==
  LET range == [j \in DOMAIN sync |-> LocEventEdges(v[sync[j].pid], sync[j].event, d)]
  IN Filtered(range, {j \in DOMAIN sync : ~(sync[j].strength = "weak" /\ range[j] = <<>>)})

SyncAtEnd(i) == i.sync = PastTheEnd(system.syncs)

AsyncRanges(v, d) == [p \in Processes |-> LocationEdges(v[p], d)]

\* synchronizer_iterator_t.
ItAtEnd(i, v, d) == SyncAtEnd(i) /\ JoinAtEnd(AsyncRanges(v, d), i.async)

\* The iterators of the range of edges.  That of begin is left to fill its product.
BeginIt(v, d) ==
  [sync |-> NextEnabled(1, v, d), product |-> EmptyProduct, async |-> Join(AsyncRanges(v, d))]
EndIt(v, d) ==
  [sync |-> PastTheEnd(system.syncs), product |-> EmptyProduct,
   async |-> [it |-> PastTheEnd(AsyncRanges(v, d)), pos |-> 0]]

\* advance_while_empty_cartesian_product has a turn of its loop to do.
MustFill(i) == ~SyncAtEnd(i) /\ at_end(i.product)

Vedge(i, v, d) ==
  IF SyncAtEnd(i) THEN <<JoinValue(AsyncRanges(v, d), i.async)>> ELSE Values(i.product)

SyncOf(i) == IF SyncAtEnd(i) THEN 0 ELSE i.sync

\* operator++, but for the loop of advance_while_empty_cartesian_product.
AdvancedIt(i, v, d) ==
  IF SyncAtEnd(i) THEN [i EXCEPT !.async = JoinAdvanced(AsyncRanges(v, d), i.async)]
  ELSE LET product == Advanced(i.product)
       IN [i EXCEPT !.product = product,
                    !.sync = IF at_end(product) THEN NextEnabled(i.sync + 1, v, d) ELSE i.sync]

-----------------------------------------------------------------------------
(* flat_system_t::next: the edges are taken one after another, until one    *)
(* does not start from where its process is.                                *)

Ok(v) == [status |-> "STATE_OK", vloc |-> v]
Incompatible(v) == [status |-> "STATE_INCOMPATIBLE_EDGE", vloc |-> v]

\* Mutant: only the first process moves.
MovedFirst(v, vedge) ==
  IF v[vedge[1].pid] # vedge[1].src THEN Incompatible(v) ELSE Ok([v EXCEPT ![vedge[1].pid] = vedge[1].tgt])

Moved(v, vedge) ==
  LET after[n \in 0 .. Len(vedge)] ==
        IF n = 0 THEN Ok(v)
        ELSE LET r == after[n - 1]
                 e == vedge[n]
             IN IF r.status # "STATE_OK" THEN r
                ELSE IF r.vloc[e.pid] # e.src THEN Incompatible(r.vloc)
                ELSE Ok([r.vloc EXCEPT ![e.pid] = e.tgt])
  IN after[Len(vedge)]

-----------------------------------------------------------------------------
Init ==
  /\ system \in Systems
  /\ phase = "initial"
  /\ initials = Product(system.initial)
  /\ vloc = NoVloc /\ direction = "outgoing"
  /\ it = [sync |-> 0, product |-> EmptyProduct, async |-> [it |-> 0, pos |-> 0]]
  /\ produced = <<>> /\ successors = <<>>

Begin(v, d) ==
  /\ phase' = "edges"
  /\ vloc' = v /\ direction' = d
  /\ it' = BeginIt(v, d)
  /\ produced' = <<>> /\ successors' = <<>>

NextInitial ==
  /\ phase = "initial" /\ ~at_end(initials)
  /\ initials' = Advanced(initials)
  /\ UNCHANGED <<system, phase, vloc, direction, it, produced, successors>>

\* The tuple of the initial iterator becomes a tuple of locations.
Initialize ==
  /\ phase = "initial" /\ ~at_end(initials)
  /\ \E d \in Directions : Begin(Values(initials), d)
  /\ UNCHANGED <<system, initials>>

\* A turn of the loop of advance_while_empty_cartesian_product.
Fill ==
  /\ phase = "edges" /\ MustFill(it)
  /\ it' = [it EXCEPT !.product = Product(Ranges(system.syncs[it.sync], vloc, direction))]
  /\ UNCHANGED <<system, phase, initials, vloc, direction, produced, successors>>

\* The iterator is dereferenced, the successor computed, and the iterator advances.
Expand ==
  /\ phase = "edges" /\ ~MustFill(it) /\ ~ItAtEnd(it, vloc, direction)
  /\ LET vedge == Vedge(it, vloc, direction)
     IN /\ produced' = Append(produced, [sync |-> SyncOf(it), vedge |-> vedge])
        /\ successors' = IF direction = "outgoing" THEN Append(successors, Moved(vloc, vedge))
                         ELSE successors
  /\ it' = AdvancedIt(it, vloc, direction)
  /\ UNCHANGED <<system, phase, initials, vloc, direction>>

\* The algorithm goes on from a successor.
Follow ==
  /\ phase = "edges" /\ ~MustFill(it) /\ ItAtEnd(it, vloc, direction)
  /\ \E i \in DOMAIN successors, d \in Directions :
       successors[i].status = "STATE_OK" /\ Begin(successors[i].vloc, d)
  /\ UNCHANGED <<system, initials>>

Next == NextInitial \/ Initialize \/ Fill \/ Expand \/ Follow

Spec == Init /\ [][Next]_vars /\ WF_vars(Fill) /\ WF_vars(Expand)

-----------------------------------------------------------------------------
(* Properties. *)

AtEnd == phase = "edges" /\ ~MustFill(it) /\ ItAtEnd(it, vloc, direction)

InRange(c) == \A i \in DOMAIN c.its : c.its[i] \in 1 .. PastTheEnd(c.ranges[i])

TypeOK ==
  /\ phase \in {"initial", "edges"} /\ direction \in Directions
  /\ phase = "edges" => it.sync \in 1 .. PastTheEnd(system.syncs)
  /\ InRange(initials) /\ InRange(it.product)
  /\ \A i \in DOMAIN produced : produced[i].sync \in 0 .. Len(system.syncs)

Configured == INSTANCE Configurations

VedgeEdges(vedge) == {vedge[i] : i \in DOMAIN vedge}
ProducedBy(k) ==
  {VedgeEdges(produced[i].vedge) : i \in {j \in DOMAIN produced : produced[j].sync = k}}

\* When the iterator is at the end, it went through each instance of each synchronization,
\* and through each asynchronous edge, and through nothing else.
EnumeratesAll ==
  (AtEnd /\ direction = "outgoing") =>
    LET edges == Configured!Edges(system)
    IN /\ \A k \in DOMAIN system.syncs :
            ProducedBy(k) = {E \in SUBSET edges : Configured!Instantiates(system, vloc, E, system.syncs[k])}
       /\ ProducedBy(0) =
            {{e} : e \in {e \in edges : e.src = vloc[e.pid] /\ Configured!IsAsynchronous(system, e)}}

\* It goes through an instance of a synchronization once.
EnumeratesOnce ==
  \A i, j \in DOMAIN produced :
    (i # j /\ produced[i].sync = produced[j].sync) =>
      VedgeEdges(produced[i].vedge) # VedgeEdges(produced[j].vedge)

\* A tuple of edges can be taken from the tuple of locations it was enumerated for: no
\* successor is left with some processes moved and others not.
EdgesAreCompatible == \A i \in DOMAIN successors : successors[i].status = "STATE_OK"

Strong == \A k \in DOMAIN system.syncs : \A j \in DOMAIN system.syncs[k] : system.syncs[k][j].strength = "strong"

Back(edges) ==
  [p \in Processes |->
     IF \E e \in edges : e.pid = p THEN (CHOOSE e \in edges : e.pid = p).src ELSE vloc[p]]

LeadHere ==
  {edges \in SUBSET Configured!Edges(system) :
     /\ Configured!IsGlobalEdge(system, Back(edges), edges)
     /\ Configured!Target(Back(edges), edges) = vloc}

AllProduced == {VedgeEdges(produced[i].vedge) : i \in DOMAIN produced}

\* Where all the synchronizations are strong, the incoming edges are those that lead to
\* the tuple of locations.
IncomingEdgesLeadHere == (AtEnd /\ direction = "incoming" /\ Strong) => AllProduced = LeadHere

\* The nested iterators, whose ranges are filled while they move, enumerate the global
\* edges of a tuple of locations: all, each once, none that cannot be taken.
EnumeratesGlobalEdges ==
  TypeOK /\ EnumeratesAll /\ EnumeratesOnce /\ EdgesAreCompatible /\ IncomingEdgesLeadHere

\* The loop that fills the product of a synchronization ends (the product of an enabled
\* one is not empty), and so does every enumeration.
EnumerationsEnd == phase = "edges" ~> AtEnd

\* The position of an iterator over a product, in the order of enumeration.
Rank(c) ==
  LET rank[n \in 0 .. Len(c.its)] ==
        IF n = 0 THEN 0 ELSE rank[n - 1] * Len(c.ranges[n]) + c.its[n] - 1
  IN rank[Len(c.its)]

\* Initial tuples are gone through in the lexicographic order, without a gap: each once.
InitialTuplesInOrder ==
  [][initials' # initials => Rank(initials') = Rank(initials) + 1]_vars

\* The locations of processes are those of the initial tuples, all of them one after
\* another, then move along global edges only.
MovesAlongGlobalEdges == Configured!Spec /\ InitialTuplesInOrder

-----------------------------------------------------------------------------
(* Comments of the repository that the code does not keep (README,          *)
(* "Disagreements").                                                        *)

\* flat_system/synchronizer.hh:457: the end can be told by comparing with the
\* past-the-end iterator, if less efficiently than with at_end.
EndEqualsPastTheEnd == AtEnd => it = EndIt(vloc, direction)

\* flat_system/synchronizer.hh:629: the incoming edges are those that lead to the tuple of
\* locations.
WeakIncomingEdgesLeadHere == (AtEnd /\ direction = "incoming") => AllProduced = LeadHere
=============================================================================
