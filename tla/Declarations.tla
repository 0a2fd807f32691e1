---------------------------- MODULE Declarations ----------------------------
(***************************************************************************)
(* The parser of system files and the declarations it makes                *)
(* (system.yy, parsing/declaration.hh).                                    *)
(*                                                                         *)
(* A file is read line by line, each line being a record of the names it   *)
(* mentions.  A line that is accepted appends a declaration, which refers  *)
(* to earlier declarations by their place in the list, as pointers do in   *)
(* the code.  A line that is not accepted reports errors and is skipped:   *)
(* the rest of the file is read all the same, and refused at its end.      *)
(***************************************************************************)
EXTENDS Integers, Sequences, FiniteSets

CONSTANTS
  Lines,     \* the lines a file may hold
  Headers,   \* the sequences of lines a file may begin with
  MaxLines,  \* how many lines follow: a bound
  IntMax     \* values are in -IntMax - 1 .. IntMax, sizes in 0 .. 2 * IntMax + 1

ASSUME DeclarationsAssumption == MaxLines \in Nat /\ IntMax \in Nat \ {0}

VARIABLES
  lines,     \* the lines read so far
  declared,  \* _decl, and the maps by name that go with it
  errors,    \* log.error_count()
  phase      \* how far the program is

parserVars == <<lines, declared, errors, phase>>

-----------------------------------------------------------------------------
\* get_..._declaration(name): the places of the declarations of that name, one at most.
Named(kind, name) ==
  {i \in DOMAIN declared : declared[i].kind = kind /\ declared[i].name = name}

\* get_location_declaration(process, name)
LocationNamed(process, name) ==
  {i \in Named("location", name) : declared[declared[i].process].name = process}

The(set) == CHOOSE i \in set : TRUE

\* Attributes are a map from keys to values: a key that is there keeps its value.
Attributes(attributes) ==
  [key \in {attributes[i].key : i \in DOMAIN attributes} |->
     LET first == CHOOSE i \in DOMAIN attributes :
                    /\ attributes[i].key = key
                    /\ \A j \in 1 .. i - 1 : attributes[j].key # key
     IN attributes[first].value]

\* ... and each further instance of it is an error.
AttributeErrors(attributes) ==
  Len(attributes) - Cardinality({attributes[i].key : i \in DOMAIN attributes})

\* integer and uinteger: a value that is out of range is an error and is taken as 0.
Integer(n) == IF -IntMax - 1 <= n /\ n <= IntMax THEN n ELSE 0
Size(n) == IF 0 <= n /\ n <= 2 * IntMax + 1 THEN n ELSE 0
Ones(test) == IF test THEN 1 ELSE 0

-----------------------------------------------------------------------------
(* The classes of declarations.  A constructor throws when it would make something else. *)
ClockDeclaration(name, size) == [kind |-> "clock", name |-> name, size |-> size]
ClockThrows(d) == d.size < 1

IntDeclaration(name, size, min, max, init) ==
  [kind |-> "int", name |-> name, size |-> size, min |-> min, max |-> max, init |-> init]
IntThrows(d) == d.size < 1 \/ d.min > d.max \/ d.init < d.min \/ d.init > d.max

ProcessDeclaration(name) == [kind |-> "process", name |-> name]
EventDeclaration(name) == [kind |-> "event", name |-> name]

LocationDeclaration(name, process, attributes) ==
  [kind |-> "location", name |-> name, process |-> process, attributes |-> attributes]

EdgeDeclaration(process, src, tgt, event, attributes) ==
  [kind |-> "edge", process |-> process, src |-> src, tgt |-> tgt, event |-> event,
   attributes |-> attributes]
EdgeThrows(d) == declared[d.src].process # d.process \/ declared[d.tgt].process # d.process

SyncConstraint(process, event, strength) ==
  [process |-> process, event |-> event, strength |-> strength]

SyncDeclaration(constraints) == [kind |-> "sync", constraints |-> constraints]
SyncThrows(d) ==
  \/ d.constraints = <<>>
  \/ \E i, j \in DOMAIN d.constraints :
       i # j /\ d.constraints[i].process = d.constraints[j].process

-----------------------------------------------------------------------------
(* The rules of the grammar, each with its checks in their order. *)
Insert(declaration, newErrors) ==
  /\ declared' = Append(declared, declaration)
  /\ errors' = errors + newErrors

Reject(newErrors) == UNCHANGED declared /\ errors' = errors + newErrors

\* clock:size:name
Clock(line) ==
  LET early == Ones(Size(line.size) # line.size)
      d == ClockDeclaration(line.name, Size(line.size))
  IN IF Named("clock", line.name) # {} \/ Named("int", line.name) # {} \/ ClockThrows(d)
     THEN Reject(early + 1) ELSE Insert(d, early)

\* int:size:min:max:init:name
IntVariable(line) ==
  LET d == IntDeclaration(line.name, Size(line.size), Integer(line.min),
                          Integer(line.max), Integer(line.init))
      early == Ones(d.size # line.size) + Ones(d.min # line.min)
                 + Ones(d.max # line.max) + Ones(d.init # line.init)
  IN IF Named("int", line.name) # {} \/ Named("clock", line.name) # {} \/ IntThrows(d)
     THEN Reject(early + 1) ELSE Insert(d, early)

\* process:name
Process(line) ==
  IF Named("process", line.name) # {} THEN Reject(1)
  ELSE Insert(ProcessDeclaration(line.name), 0)

\* event:name
Event(line) ==
  IF Named("event", line.name) # {} THEN Reject(1)
  ELSE Insert(EventDeclaration(line.name), 0)

\* location:process:name{attributes}
Location(line) ==
  LET early == AttributeErrors(line.attributes)
      process == Named("process", line.process)
  IN IF LocationNamed(line.process, line.name) # {} \/ process = {} THEN Reject(early + 1)
     ELSE Insert(LocationDeclaration(line.name, The(process), Attributes(line.attributes)),
                 early)

\* edge:process:source:target:event{attributes}
Edge(line) ==
  LET early == AttributeErrors(line.attributes)
      process == Named("process", line.process)
      src == LocationNamed(line.process, line.src)
      tgt == LocationNamed(line.process, line.tgt)
      event == Named("event", line.event)
      d == EdgeDeclaration(The(process), The(src), The(tgt), The(event),
                           Attributes(line.attributes))
  IN IF {} \in {process, src, tgt, event} \/ EdgeThrows(d) THEN Reject(early + 1)
     ELSE Insert(d, early)

\* A constraint process@event or process@event? is left out, with an error, when a name
\* is not declared.
IsDeclared(c) == Named("process", c.process) # {} /\ Named("event", c.event) # {}

Constraint(c) ==
  SyncConstraint(The(Named("process", c.process)), The(Named("event", c.event)), c.strength)

\* sync:constraints
Sync(line) ==
  LET known == SelectSeq(line.constraints, IsDeclared)
      early == Len(line.constraints) - Len(known)
      d == SyncDeclaration([i \in DOMAIN known |-> Constraint(known[i])])
  IN IF SyncThrows(d) THEN Reject(early + 1) ELSE Insert(d, early)

\* error "\n": a line that is none of these.
SyntaxError(line) == Reject(1)

-----------------------------------------------------------------------------
ParserInit ==
  /\ lines = <<>> /\ declared = <<>> /\ errors = 0
  /\ phase = "parsing"

\* The lines that may come next: those of a header first, then any.
NextLines ==
  LET n == Len(lines)
      Extends(h) == n < Len(h) /\ lines = SubSeq(h, 1, n)
      Follows(h) == /\ n >= Len(h) /\ n < Len(h) + MaxLines
                    /\ h = SubSeq(lines, 1, Len(h))
  IN {h[n + 1] : h \in {h \in Headers : Extends(h)}}
       \cup (IF \E h \in Headers : Follows(h) THEN Lines ELSE {})

ReadLine ==
  /\ phase = "parsing"
  /\ \E line \in NextLines :
       /\ lines' = Append(lines, line)
       /\ CASE line.kind = "clock" -> Clock(line)
            [] line.kind = "int" -> IntVariable(line)
            [] line.kind = "process" -> Process(line)
            [] line.kind = "event" -> Event(line)
            [] line.kind = "location" -> Location(line)
            [] line.kind = "edge" -> Edge(line)
            [] line.kind = "sync" -> Sync(line)
            [] line.kind = "error" -> SyntaxError(line)
  /\ UNCHANGED phase

\* The end of the file: no declaration is left when there were errors.
EndOfFile ==
  /\ phase = "parsing"
  /\ IF errors > 0
     THEN phase' = "refused" /\ declared' = <<>>
     ELSE phase' = "parsed" /\ UNCHANGED declared
  /\ UNCHANGED <<lines, errors>>

-----------------------------------------------------------------------------
(* What a file means, line against line. *)

\* Each name is declared once, and before it is mentioned.
Once(i, Same(_)) == \A j \in DOMAIN lines \ {i} : ~Same(lines[j])
Before(i, Is(_)) == \E j \in 1 .. i - 1 : Is(lines[j])

IsVariable(name) ==
  [line \in {lines[i] : i \in DOMAIN lines} |->
     line.kind \in {"clock", "int"} /\ line.name = name]

Declares(i, kind, name) == Before(i, LAMBDA l : l.kind = kind /\ l.name = name)
DeclaresLocation(i, process, name) ==
  Before(i, LAMBDA l : l.kind = "location" /\ l.process = process /\ l.name = name)

DistinctKeys(attributes) ==
  \A i, j \in DOMAIN attributes : attributes[i].key = attributes[j].key => i = j

IsWellFormed(i) ==
  LET line == lines[i]
  IN CASE line.kind = "error" -> FALSE
       [] line.kind = "clock" ->
            /\ Once(i, LAMBDA l : IsVariable(line.name)[l])
            /\ line.size \in 1 .. 2 * IntMax + 1
       [] line.kind = "int" ->
            /\ Once(i, LAMBDA l : IsVariable(line.name)[l])
            /\ line.size \in 1 .. 2 * IntMax + 1
            /\ -IntMax - 1 <= line.min /\ line.min <= line.init
            /\ line.init <= line.max /\ line.max <= IntMax
       [] line.kind \in {"process", "event"} ->
            Once(i, LAMBDA l : l.kind = line.kind /\ l.name = line.name)
       [] line.kind = "location" ->
            /\ Once(i, LAMBDA l : /\ l.kind = "location"
                                  /\ l.process = line.process /\ l.name = line.name)
            /\ Declares(i, "process", line.process)
            /\ DistinctKeys(line.attributes)
       [] line.kind = "edge" ->
            /\ DeclaresLocation(i, line.process, line.src)
            /\ DeclaresLocation(i, line.process, line.tgt)
            /\ Declares(i, "event", line.event)
            /\ DistinctKeys(line.attributes)
       [] line.kind = "sync" ->
            /\ line.constraints # <<>>
            /\ \A j, k \in DOMAIN line.constraints :
                 /\ Declares(i, "process", line.constraints[j].process)
                 /\ Declares(i, "event", line.constraints[j].event)
                 /\ line.constraints[j].process = line.constraints[k].process => j = k

\* A file yields declarations if and only if each of its lines is well formed, wherever
\* its errors are and whatever line they hide (the skipped lines of system.yy).
AcceptsWellFormed ==
  phase # "parsing" =>
    (phase # "refused" <=> \A i \in DOMAIN lines : IsWellFormed(i))
=============================================================================
