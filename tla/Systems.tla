------------------------------- MODULE Systems -------------------------------
(***************************************************************************)
(* How declarations become a system: processes, events, variables,         *)
(* locations, edges and synchronizations with their identifiers (system/,  *)
(* fsm/ and ta/), and how the system becomes a model, is copied, assigned  *)
(* and destroyed.                                                          *)
(*                                                                         *)
(* Locations and edges live on the heap.  The address of one is            *)
(* <<generation, identifier>>, where the generation is a number given to   *)
(* each system built or copied.  Expressions and statements are owned by   *)
(* the locations and edges: freed is the sequence of the deletions.        *)
(***************************************************************************)
EXTENDS Declarations

CONSTANTS
  Kinds,           \* the systems to build: "fsm", "ta"
  KeyMax,          \* the greatest key of an index
  VarIdMax,        \* the greatest identifier of a variable
  MaxGenerations,  \* how many systems are built or copied: a bound
  Null

ASSUME SystemsAssumption ==
  /\ Kinds \subseteq {"fsm", "ta"} /\ KeyMax \in Nat /\ MaxGenerations \in Nat
  /\ VarIdMax \in Nat /\ 2 * IntMax + 1 <= VarIdMax

VARIABLES
  kind,        \* the namespace whose builder is used
  position,    \* the declaration that the builder visits next
  systems,     \* the system of the model, and a copy
  generation,  \* how many systems there have been
  freed        \* the expressions and statements deleted

systemVars == <<kind, position, systems, generation, freed>>
vars == <<parserVars, systemVars>>

Slots == {"model", "copy"}

Seqs == INSTANCE SequencesExt
-----------------------------------------------------------------------------
(* Edges of a location (loc.hh). *)
NoEdges == [edges |-> <<>>, events |-> {}, map |-> << >>]

\* add_outgoing_edge, add_incoming_edge
AddedTo(r, event, edge) ==
  [edges |-> Append(r.edges, edge),
   events |-> r.events \cup {event},
   map |-> [e \in DOMAIN r.map \cup {event} |->
              (IF e \in DOMAIN r.map THEN r.map[e] ELSE <<>>)
                \o (IF e = event THEN <<edge>> ELSE <<>>)]]

\* outgoing_edges(event_id), incoming_edges(event_id)
EdgesOf(r, event) == IF event \in r.events THEN r.map[event] ELSE <<>>

\* clear_events_and_edges
Cleared(loc) == [loc EXCEPT !.outgoing = NoEdges, !.incoming = NoEdges]

-----------------------------------------------------------------------------
(* Indices and variables (index.hh, variables.hh). *)
Has(index, name) == \E i \in DOMAIN index : index[i] = name

\* autokey_index_t::key: keys are counted from 0.
Key(index, name) == (CHOOSE i \in DOMAIN index : index[i] = name) - 1

IsFull(index) == Len(index) = KeyMax

NextId(variables) ==
  IF variables = <<>> THEN 0
  ELSE LET last == variables[Len(variables)] IN last.id + last.size

\* Mutant: identifiers wrap around.
HasRoomAlways(variables, size) == TRUE

\* size_variables_t::declare: id + size < id when it wraps around.
HasRoom(variables, size) ==
  (NextId(variables) + size) % (VarIdMax + 1) >= NextId(variables)

Declared(variables, info) == Append(variables, [info EXCEPT !.id = NextId(variables)])

\* flattened(): the variables of size 1 that stand for each element.
Flattened(variables) ==
  UNION {{[name |-> <<variables[i].name, j>>, id |-> variables[i].id + j] :
            j \in 0 .. variables[i].size - 1} : i \in DOMAIN variables}

-----------------------------------------------------------------------------
(* A system (system.hh, fsm/details/system.hh, ta/details/system.hh). *)
ZeroClock == [id |-> 0, name |-> "0", size |-> 1]

NewSystem(g) ==
  [generation |-> g, events |-> <<>>, processes |-> <<>>, labels |-> <<>>,
   intvars |-> <<>>, clocks |-> IF kind = "ta" THEN <<ZeroClock>> ELSE <<>>,
   locs |-> <<>>, edges |-> <<>>, syncs |-> <<>>]

Address(system, i) == <<system.generation, i>>

\* location(process_name, name), through _locs_map
LocationOf(system, pid, name) ==
  CHOOSE i \in DOMAIN system.locs : system.locs[i].pid = pid /\ system.locs[i].name = name

\* add_location, whose checks a location that still has edges does not pass
AddedLocation(system, loc) ==
  IF loc.outgoing.edges # <<>> \/ loc.incoming.edges # <<>> THEN Null
  ELSE [system EXCEPT !.locs = Append(@, loc)]

\* add_edge, whose source and target are told where their edge is
AddedEdge(system, edge, src, tgt) ==
  LET e == Address(system, Len(system.edges) + 1)
      out == [system.locs EXCEPT ![src].outgoing = AddedTo(@, edge.event, e)]
  IN [system EXCEPT !.edges = Append(@, edge),
                    !.locs = [out EXCEPT ![tgt].incoming = AddedTo(@, edge.event, e)]]

\* asynchronous(pid, event_id)
Asynchronous(system, pid, event) ==
  \A i \in DOMAIN system.syncs : \A j \in DOMAIN system.syncs[i] :
    ~(system.syncs[i][j].pid = pid /\ system.syncs[i][j].event = event)

\* Mutant: the target is left in the original.
ResetSource(system, edge) == [edge EXCEPT !.src = Address(system, edge.src[2])]

\* clone_locations_and_edges: the copy of an edge is given the locations of the copy.
ResetEdge(system, edge) ==
  [edge EXCEPT !.src = Address(system, edge.src[2]), !.tgt = Address(system, edge.tgt[2])]

Cloned(system, g) ==
  LET empty == [system EXCEPT !.generation = g, !.locs = <<>>, !.edges = <<>>]
      CopyLocation(s, loc) == IF s = Null THEN Null ELSE AddedLocation(s, Cleared(loc))
      located == Seqs!FoldLeft(CopyLocation, empty, system.locs)
      CopyEdge(s, edge) == AddedEdge(s, ResetEdge(s, edge), edge.src[2], edge.tgt[2])
  IN IF located = Null THEN Null ELSE Seqs!FoldLeft(CopyEdge, located, system.edges)

\* Mutant: copies share the expressions of the original.
OwnedByAll(system) == [i \in DOMAIN system.locs |-> <<1, "invariant", i>>]

\* The expressions and statements that the destructor deletes, locations first.
Owned(system) ==
  [i \in DOMAIN system.locs |-> <<system.generation, "invariant", i>>]
    \o [i \in DOMAIN system.edges |-> <<system.generation, "guard", i>>]
    \o [i \in DOMAIN system.edges |-> <<system.generation, "statement", i>>]

-----------------------------------------------------------------------------
(* The builder visits the declarations in turn (system/builder.hh and the  *)
(* builders of fsm and ta).                                                *)
Init ==
  /\ ParserInit
  /\ kind \in Kinds /\ position = 0
  /\ systems = [s \in Slots |-> Null]
  /\ generation = 0 /\ freed = <<>>

Parse == (ReadLine \/ EndOfFile) /\ UNCHANGED systemVars

NewBuilder ==
  /\ phase = "parsed"
  /\ systems' = [systems EXCEPT !["model"] = NewSystem(1)]
  /\ phase' = "building" /\ position' = 1 /\ generation' = 1
  /\ UNCHANGED <<lines, declared, errors, kind, freed>>

Built == systems["model"]

Visiting(k) ==
  /\ phase = "building" /\ position \in DOMAIN declared
  /\ declared[position].kind = k

Becomes(system, newErrors) ==
  /\ systems' = [systems EXCEPT !["model"] = system]
  /\ errors' = errors + newErrors
  /\ position' = position + 1
  /\ UNCHANGED <<lines, declared, phase, kind, generation, freed>>

\* An exception: the visitor logs it, the builder deletes its system.
Abandon(deleted, newErrors) ==
  /\ systems' = [systems EXCEPT !["model"] = Null]
  /\ errors' = errors + newErrors
  /\ phase' = "failed"
  /\ freed' = freed \o deleted \o Owned(Built)
  /\ UNCHANGED <<lines, declared, kind, position, generation>>

VisitProcess ==
  /\ Visiting("process")
  /\ LET name == declared[position].name
     IN IF IsFull(Built.processes) THEN Abandon(<<>>, 1)
        ELSE Becomes([Built EXCEPT !.processes = Append(@, name)], 0)

VisitEvent ==
  /\ Visiting("event")
  /\ LET name == declared[position].name
     IN IF IsFull(Built.events) THEN Abandon(<<>>, 1)
        ELSE Becomes([Built EXCEPT !.events = Append(@, name)], 0)

\* An fsm has no clock: their declarations are ignored.
VisitClock ==
  /\ Visiting("clock")
  /\ LET d == declared[position]
     IN IF kind = "fsm" THEN Becomes(Built, 0)
        ELSE IF ~HasRoom(Built.clocks, d.size) THEN Abandon(<<>>, 1)
        ELSE Becomes([Built EXCEPT !.clocks =
                        Declared(@, [id |-> 0, name |-> d.name, size |-> d.size])], 0)

VisitInt ==
  /\ Visiting("int")
  /\ LET d == declared[position]
     IN IF ~HasRoom(Built.intvars, d.size) THEN Abandon(<<>>, 1)
        ELSE Becomes([Built EXCEPT !.intvars =
                        Declared(@, [id |-> 0, name |-> d.name, size |-> d.size,
                                     min |-> d.min, max |-> d.max, init |-> d.init])], 0)

\* The synchronization of a declaration, by identifiers.
VisitSync ==
  /\ Visiting("sync")
  /\ LET constraints == declared[position].constraints
         Ids(c) == [pid |-> Key(Built.processes, declared[c.process].name),
                    event |-> Key(Built.events, declared[c.event].name),
                    strength |-> c.strength]
     IN Becomes([Built EXCEPT !.syncs =
                   Append(@, [i \in DOMAIN constraints |-> Ids(constraints[i])])], 0)

\* Attribute key, or the default when it is absent or does not parse.
Value(attributes, key, default) ==
  IF key \in DOMAIN attributes /\ attributes[key] # "syntax" THEN attributes[key]
  ELSE default

SyntaxErrors(attributes, keys) ==
  Cardinality({key \in keys \cap DOMAIN attributes : attributes[key] = "syntax"})

\* add_label, for the labels that are not indexed yet
WithLabels(index, new) ==
  Seqs!FoldLeft(LAMBDA ls, l : IF Has(ls, l) THEN ls ELSE Append(ls, l), index, new)

VisitLocation ==
  /\ Visiting("location")
  /\ LET d == declared[position]
         attributes == d.attributes
         Flag(key) == kind = "ta" /\ key \in DOMAIN attributes
         labels == IF "labels" \in DOMAIN attributes THEN attributes["labels"] ELSE <<>>
         index == WithLabels(Built.labels, labels)
         invariant == <<Built.generation, "invariant", Len(Built.locs) + 1>>
         bad == SyntaxErrors(attributes, {"invariant"})
         loc == [pid |-> Key(Built.processes, declared[d.process].name), name |-> d.name,
                 initial |-> "initial" \in DOMAIN attributes,
                 committed |-> Flag("committed"), urgent |-> Flag("urgent"),
                 invariant |-> Value(attributes, "invariant", "1"),
                 labels |-> [i \in DOMAIN labels |-> Key(index, labels[i])],
                 outgoing |-> NoEdges, incoming |-> NoEdges]
     IN CASE Len(index) > KeyMax -> Abandon(<<invariant>>, bad + 1)
          \* the constructor of ta::loc_t throws once its base owns the invariant, which
          \* is then deleted by the destructor of the base, and by the visitor
          [] loc.committed /\ loc.urgent -> Abandon(<<invariant, invariant>>, bad + 1)
          [] OTHER -> Becomes(AddedLocation([Built EXCEPT !.labels = index], loc), bad)

VisitEdge ==
  /\ Visiting("edge")
  /\ LET d == declared[position]
         pid == Key(Built.processes, declared[d.process].name)
         src == LocationOf(Built, pid, declared[d.src].name)
         tgt == LocationOf(Built, pid, declared[d.tgt].name)
         edge == [pid |-> pid, src |-> Address(Built, src), tgt |-> Address(Built, tgt),
                  event |-> Key(Built.events, declared[d.event].name),
                  guard |-> Value(d.attributes, "provided", "1"),
                  statement |-> Value(d.attributes, "do", "nop")]
     IN Becomes(AddedEdge(Built, edge, src, tgt),
                SyntaxErrors(d.attributes, {"provided", "do"}))

-----------------------------------------------------------------------------
(* The model of a system (fsm/details/model.hh). *)

\* weakly_synchronized_events
WeaklySynchronized(system) ==
  UNION {{<<system.syncs[i][j].pid, system.syncs[i][j].event>> :
            j \in {j \in DOMAIN system.syncs[i] : system.syncs[i][j].strength = "weak"}} :
           i \in DOMAIN system.syncs}

\* has_guarded_weakly_synchronized_event: an edge whose guard is not a constant
HasGuardedWeaklySynchronizedEvent(system) ==
  \E i \in DOMAIN system.edges :
    /\ <<system.edges[i].pid, system.edges[i].event>> \in WeaklySynchronized(system)
    /\ system.edges[i].guard # "1"

\* typecheck: an expression here is a constant or the name of a variable.
IsTyped(system, expression) ==
  \/ expression \in {"1", "nop"}
  \/ \E i \in DOMAIN system.intvars : system.intvars[i].name = expression
  \/ \E i \in DOMAIN system.clocks : system.clocks[i].name = expression

\* compile_invariants, compile_guards and compile_statements
CompileErrors(system) ==
  Cardinality({i \in DOMAIN system.locs : ~IsTyped(system, system.locs[i].invariant)})
    + Cardinality({i \in DOMAIN system.edges : ~IsTyped(system, system.edges[i].guard)})
    + Cardinality({i \in DOMAIN system.edges : ~IsTyped(system, system.edges[i].statement)})

MakeModel ==
  /\ phase = "building" /\ position = Len(declared) + 1
  /\ IF HasGuardedWeaklySynchronizedEvent(Built) THEN Abandon(<<>>, 0)
     ELSE IF errors + CompileErrors(Built) > 0 THEN Abandon(<<>>, CompileErrors(Built))
     ELSE /\ phase' = "modelled"
          /\ UNCHANGED <<lines, declared, errors, systemVars>>

\* The copy constructor, and the assignment: what the target had is deleted.
CopySystem(from, to) ==
  /\ phase = "modelled" /\ generation < MaxGenerations
  /\ from # to /\ systems[from] # Null
  /\ systems' = [systems EXCEPT ![to] = Cloned(systems[from], generation + 1)]
  /\ generation' = generation + 1
  /\ freed' = freed \o (IF systems[to] = Null THEN <<>> ELSE Owned(systems[to]))
  /\ UNCHANGED <<parserVars, kind, position>>

DeleteSystem(s) ==
  /\ phase = "modelled" /\ systems[s] # Null
  /\ systems' = [systems EXCEPT ![s] = Null]
  /\ freed' = freed \o Owned(systems[s])
  /\ UNCHANGED <<parserVars, kind, position, generation>>

Next ==
  \/ Parse
  \/ NewBuilder
  \/ VisitProcess \/ VisitEvent \/ VisitClock \/ VisitInt
  \/ VisitSync \/ VisitLocation \/ VisitEdge
  \/ MakeModel
  \/ \E from, to \in Slots : CopySystem(from, to)
  \/ \E s \in Slots : DeleteSystem(s)

Spec == Init /\ [][Next]_vars

-----------------------------------------------------------------------------
Live == {s \in Slots : systems[s] # Null}

TypeOK ==
  /\ phase \in {"parsing", "parsed", "refused", "building", "modelled", "failed"}
  /\ position \in 0 .. Len(declared) + 1
  /\ errors \in Nat /\ generation \in 0 .. MaxGenerations
  /\ \A s \in Live :
       LET sys == systems[s]
           Ids(index) == 0 .. Len(index) - 1
       IN /\ \A i \in DOMAIN sys.locs :
               /\ sys.locs[i].pid \in Ids(sys.processes)
               /\ \A j \in DOMAIN sys.locs[i].labels : sys.locs[i].labels[j] \in Ids(sys.labels)
          /\ \A i \in DOMAIN sys.edges : sys.edges[i].event \in Ids(sys.events)

(* The lines of a file that speak of the system, and what they say. *)
LinesOf(k) == SelectSeq(lines, LAMBDA l : l.kind = k)
NamesOf(k) == LET ls == LinesOf(k) IN [i \in DOMAIN ls |-> ls[i].name]

Given(line, key) == \E i \in DOMAIN line.attributes : line.attributes[i].key = key
GivenValue(line, key, default) ==
  IF Given(line, key)
  THEN line.attributes[CHOOSE i \in DOMAIN line.attributes : line.attributes[i].key = key].value
  ELSE default

DescribedLocation(line) ==
  [process |-> line.process, name |-> line.name, initial |-> Given(line, "initial"),
   committed |-> kind = "ta" /\ Given(line, "committed"),
   urgent |-> kind = "ta" /\ Given(line, "urgent"),
   invariant |-> GivenValue(line, "invariant", "1"),
   labels |-> GivenValue(line, "labels", <<>>)]

DescribedEdge(line) ==
  [process |-> line.process, src |-> <<line.process, line.src>>,
   tgt |-> <<line.process, line.tgt>>, event |-> line.event,
   guard |-> GivenValue(line, "provided", "1"), statement |-> GivenValue(line, "do", "nop")]

\* The same by the names in a system.
NameAt(sys, address) ==
  LET loc == sys.locs[address[2]] IN <<sys.processes[loc.pid + 1], loc.name>>

LocationNames(sys, loc) ==
  [process |-> sys.processes[loc.pid + 1], name |-> loc.name, initial |-> loc.initial,
   committed |-> loc.committed, urgent |-> loc.urgent, invariant |-> loc.invariant,
   labels |-> [i \in DOMAIN loc.labels |-> sys.labels[loc.labels[i] + 1]]]

EdgeNames(sys, edge) ==
  [process |-> sys.processes[edge.pid + 1], src |-> NameAt(sys, edge.src),
   tgt |-> NameAt(sys, edge.tgt), event |-> sys.events[edge.event + 1],
   guard |-> edge.guard, statement |-> edge.statement]

ConstraintNames(sys, c) ==
  [process |-> sys.processes[c.pid + 1], event |-> sys.events[c.event + 1],
   strength |-> c.strength]

\* Every system of a model, the copies too, is the one that the file describes: its
\* locations, edges and synchronizations are those of the lines, in their order, whatever
\* the lines between them (the builders, clone_locations_and_edges).
ElementsDescribed ==
  phase = "modelled" => \A s \in Live :
    LET sys == systems[s]
        locations == LinesOf("location")
        edges == LinesOf("edge")
        syncs == LinesOf("sync")
    IN /\ sys.processes = NamesOf("process") /\ sys.events = NamesOf("event")
       /\ [i \in DOMAIN sys.locs |-> LocationNames(sys, sys.locs[i])]
            = [i \in DOMAIN locations |-> DescribedLocation(locations[i])]
       /\ [i \in DOMAIN sys.edges |-> EdgeNames(sys, sys.edges[i])]
            = [i \in DOMAIN edges |-> DescribedEdge(edges[i])]
       /\ [i \in DOMAIN sys.syncs |->
             [j \in DOMAIN sys.syncs[i] |-> ConstraintNames(sys, sys.syncs[i][j])]]
            = [i \in DOMAIN syncs |-> syncs[i].constraints]

\* What a location knows of its edges is what the edges say, event by event, and every
\* pointer of a system leads into that system: none dangles when another is deleted
\* (loc.hh, reset_src and reset_tgt of edge.hh).
EdgesAgree ==
  \A s \in Live :
    LET sys == systems[s]
        Ends(i, event) ==
          [out |-> SelectSeq([e \in DOMAIN sys.edges |-> Address(sys, e)],
                             LAMBDA a : /\ sys.edges[a[2]].src = Address(sys, i)
                                        /\ sys.edges[a[2]].event = event),
           in |-> SelectSeq([e \in DOMAIN sys.edges |-> Address(sys, e)],
                            LAMBDA a : /\ sys.edges[a[2]].tgt = Address(sys, i)
                                       /\ sys.edges[a[2]].event = event)]
    IN \A i \in DOMAIN sys.locs : \A event \in 0 .. Len(sys.events) - 1 :
         /\ EdgesOf(sys.locs[i].outgoing, event) = Ends(i, event).out
         /\ EdgesOf(sys.locs[i].incoming, event) = Ends(i, event).in

\* The elements of the variables have distinct identifiers, from 0 without a gap and within
\* the width of an identifier: they index valuations and zones (variables.hh).
ElementsNumbered ==
  \A s \in Live : \A variables \in {systems[s].intvars, systems[s].clocks} :
    LET flat == Flattened(variables)
    IN /\ {v.id : v \in flat} = 0 .. Cardinality(flat) - 1
       /\ Cardinality(flat) <= VarIdMax + 1

\* What a model is made of is what its file says, however often it has been copied.
DescribedByTheFile == TypeOK /\ ElementsDescribed /\ EdgesAgree /\ ElementsNumbered

\* A file that is well formed fails to build only for a reason that its lines show: too
\* many names or elements, a location that is committed and urgent, a text that does not
\* parse or has no type, a guarded edge with a weakly synchronized event.
Elements(k) ==
  Seqs!FoldLeft(LAMBDA n, l : n + l.size, 0, LinesOf(k))

IsKnown(value) ==
  \/ value \in {"1", "nop"}
  \/ \E i \in DOMAIN lines : /\ lines[i].kind \in {"int"} \cup (IF kind = "ta" THEN {"clock"} ELSE {})
                             /\ lines[i].name = value

IsBuildable ==
  LET locations == {DescribedLocation(lines[i]) :
                      i \in {i \in DOMAIN lines : lines[i].kind = "location"}}
      edges == {DescribedEdge(lines[i]) : i \in {i \in DOMAIN lines : lines[i].kind = "edge"}}
      syncs == LinesOf("sync")
  IN /\ Len(LinesOf("process")) <= KeyMax /\ Len(LinesOf("event")) <= KeyMax
     /\ Cardinality(UNION {{l.labels[i] : i \in DOMAIN l.labels} : l \in locations}) <= KeyMax
     /\ Elements("int") <= VarIdMax
     /\ kind = "ta" => Elements("clock") + 1 <= VarIdMax
     /\ \A l \in locations : IsKnown(l.invariant) /\ ~(l.committed /\ l.urgent)
     /\ \A e \in edges :
          /\ IsKnown(e.guard) /\ IsKnown(e.statement)
          /\ e.guard # "1" =>
               \A i \in DOMAIN syncs : \A j \in DOMAIN syncs[i].constraints :
                 syncs[i].constraints[j]
                   # [process |-> e.process, event |-> e.event, strength |-> "weak"]

FailsForAReason ==
  phase \in {"modelled", "failed"} => (phase = "modelled" <=> IsBuildable)

\* The lines decide whether there is a model: neither the first error that is met nor the
\* order of the builders does.
FileDecides == AcceptsWellFormed /\ FailsForAReason

\* Every expression and statement is deleted at most once, whatever fails on the way, and
\* none that a system still owns ("this takes ownership", add_location and add_edge).
FreedOnce ==
  /\ Cardinality({freed[i] : i \in DOMAIN freed}) = Len(freed)
  /\ \A s \in Live : \A i \in DOMAIN Owned(systems[s]) : ~Has(freed, Owned(systems[s])[i])
=============================================================================
