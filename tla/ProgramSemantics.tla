--------------------------- MODULE ProgramSemantics ---------------------------
(***************************************************************************)
(* What programs mean, and what building and running them guarantees.      *)
(*                                                                         *)
(* The meaning is read off the tree the parser built: integers are         *)
(* unbounded, clocks have half-integral values.  A program "stops" where   *)
(* it divides by zero or leaves a range, and "overflows" where an integer  *)
(* is no integer_t: then nothing is said of what its run computes.         *)
(***************************************************************************)
EXTENDS VirtualMachine

CONSTANT ClockValues    \* the values of clocks that are tried, in halves of a unit

-----------------------------------------------------------------------------
(* Integer terms. *)

Is(value) == [outcome |-> "value", value |-> value]
Stops == [outcome |-> "stops", value |-> 0]
Overflows == [outcome |-> "overflows", value |-> 0]

Defined(r) == r.outcome = "value"
\* The result of an operation whose operands may have no value.
Both(l, r, result) == IF ~Defined(l) THEN l ELSE IF ~Defined(r) THEN r ELSE result

Fits(value) == IF value \in IntegerMin .. IntegerMax THEN Is(value) ELSE Overflows

ArithmeticValue(op, l, r) ==
  CASE op = "+" -> Fits(l + r)
    [] op = "-" -> Fits(l - r)
    [] op = "*" -> Fits(l * r)
    [] r = 0    -> Stops
    [] OTHER    -> LET q == CHOOSE q \in IntegerMin .. -IntegerMin :
                             \E m \in -Magnitude(r) + 1 .. Magnitude(r) - 1 :
                               l = r * q + m /\ (m = 0 \/ (m < 0) = (l < 0))
                   IN Both(Fits(q), Is(0), IF op = "/" THEN Fits(q) ELSE Is(l - r * q))

Compares(op, l, r) ==
  CASE op = "<" -> l < r  [] op = "<=" -> l <= r  [] op = "==" -> l = r
    [] op = "!=" -> l # r [] op = ">=" -> l >= r  [] op = ">" -> l > r

RECURSIVE TermValue(_, _)

ElementId(v, expr, ints) ==
  LET offset == TermValue(expr.offset, ints)
  IN IF ~Defined(offset) THEN offset
     ELSE IF offset.value \in 0 .. v.size - 1 THEN Is(v.id + offset.value) ELSE Stops

\* The identifier of the integer variable, or of the clock, that an lvalue stands for.
RECURSIVE Designates(_, _, _)
Designates(variables, expr, ints) ==
  CASE expr.class = "var"   -> Is(variables[expr.name].id)
    [] expr.class = "array" -> ElementId(variables[expr.variable.name], expr, ints)
    [] expr.class = "par"   -> Designates(variables, expr.expr, ints)

\* Integer predicates are terms of value 0 or 1.
TermValue(expr, ints) ==
  CASE expr.class = "int" -> Is(expr.value)
    [] expr.class = "par" -> TermValue(expr.expr, ints)
    [] expr.class \in {"var", "array"} ->
         LET id == Designates(IntVars, expr, ints)
         IN IF Defined(id) THEN Is(ints[id.value]) ELSE id
    [] expr.class = "unary" ->
         LET v == TermValue(expr.operand, ints)
         IN IF ~Defined(v) THEN v
            ELSE IF expr.op = "-" THEN Fits(-v.value) ELSE Is(Truth(v.value = 0))
    [] expr.class = "binary" ->
         LET l == TermValue(expr.left, ints)
             r == TermValue(expr.right, ints)
         IN Both(l, r, IF expr.op \in Predicates
                       THEN Is(Truth(Compares(expr.op, l.value, r.value)))
                       ELSE ArithmeticValue(expr.op, l.value, r.value))

-----------------------------------------------------------------------------
(* Formulas: conjunctions of integer terms and clock constraints. *)

RECURSIVE Stripped(_)
Stripped(expr) == IF expr.class = "par" THEN Stripped(expr.expr) ELSE expr

RECURSIVE Conjuncts(_)
Conjuncts(expr) ==
  LET e == Stripped(expr)
  IN IF e.class = "binary" /\ e.op = "&&" THEN Conjuncts(e.left) \o Conjuncts(e.right) ELSE <<e>>

IsClock(expr) ==
  LET e == Stripped(expr)
  IN (IF e.class = "array" THEN e.variable.name ELSE IF e.class = "var" THEN e.name ELSE "")
       \in DOMAIN Clocks

\* Clock constraints compare a clock, or a difference of clocks.
ComparedClocks(expr) ==
  LET l == Stripped(expr.left)
  IN IF IsClock(l) THEN <<l>>
     ELSE IF l.class = "binary" /\ l.op = "-" /\ IsClock(l.left) THEN <<l.left, l.right>>
     ELSE <<>>

IsClockConstraint(expr) ==
  expr.class = "binary" /\ expr.op \in Predicates /\ ComparedClocks(expr) # <<>>

ConstraintBound(expr, ints) ==
  LET bound == TermValue(expr.right, ints)
  IN IF Defined(bound) /\ expr.op \in {">", ">=", "=="} THEN Both(bound, Fits(-bound.value), bound)
     ELSE bound

ClockIdsOf(expr, ints) ==
  LET clocks == ComparedClocks(expr)
  IN [i \in DOMAIN clocks |-> Designates(Clocks, clocks[i], ints)]

ConjunctOutcome(expr, ints) ==
  IF IsClockConstraint(expr)
  THEN LET ids == ClockIdsOf(expr, ints)
       IN Both(ids[1], ids[Len(ids)], ConstraintBound(expr, ints))
  ELSE TermValue(expr, ints)

ConjunctHolds(expr, ints, clk) ==
  IF IsClockConstraint(expr)
  THEN LET ids == ClockIdsOf(expr, ints)
           left == clk[ids[1].value] - (IF Len(ids) = 2 THEN clk[ids[2].value] ELSE 0)
       IN Compares(expr.op, left, 2 * ConstraintBound(expr, ints).value)
  ELSE TermValue(expr, ints).value # 0

Outcomes(expr, ints) ==
  LET conjuncts == Conjuncts(expr)
  IN {ConjunctOutcome(conjuncts[i], ints).outcome : i \in DOMAIN conjuncts}

Holds(expr, ints, clk) ==
  LET conjuncts == Conjuncts(expr)
  IN \A i \in DOMAIN conjuncts : ConjunctHolds(conjuncts[i], ints, clk)

ClockValuations == {v \in [ClockIds -> ClockValues] : v[0] = 0}

MeetsConstraints(clk, constraints) ==
  \A i \in DOMAIN constraints :
    LET k == constraints[i]
        d == clk[k.x] - clk[k.y]
    IN IF k.cmp = Strict THEN d < 2 * k.value ELSE d <= 2 * k.value

-----------------------------------------------------------------------------
(* Statements: integers and clocks after them, or why there are none. *)

Runs(ints, clk) == [outcome |-> "value", ints |-> ints, clk |-> clk]
Without(r) == [outcome |-> r.outcome]

VariableOf(lvalue) == IF lvalue.class = "array" THEN lvalue.variable.name ELSE lvalue.name

\* What a clock is assigned: the value of a term, of a clock, or of their sum.
ClockValue(expr, ints, clk) ==
  LET e == Stripped(expr)
      term == IF IsClock(e) THEN Is(0)
              ELSE TermValue(IF e.class = "binary" /\ IsClock(e.right) THEN e.left ELSE e, ints)
      clock == IF IsClock(e) THEN Designates(Clocks, e, ints)
               ELSE IF e.class = "binary" /\ IsClock(e.right) THEN Designates(Clocks, e.right, ints)
               ELSE Is(0)
  IN Both(clock, term, IF term.value < 0 THEN Stops ELSE Is(2 * term.value + clk[clock.value]))

AfterAssign(stmt, s) ==
  LET name == VariableOf(stmt.lvalue)
  IN IF name \in DOMAIN IntVars
     THEN LET id == Designates(IntVars, stmt.lvalue, s.ints)
              v == TermValue(stmt.rvalue, s.ints)
              bounded == IF v.value \in IntVars[name].min .. IntVars[name].max THEN v ELSE Stops
              all == Both(id, v, bounded)
          IN IF Defined(all) THEN Runs([s.ints EXCEPT ![id.value] = v.value], s.clk) ELSE Without(all)
     ELSE LET id == Designates(Clocks, stmt.lvalue, s.ints)
              v == ClockValue(stmt.rvalue, s.ints, s.clk)
              all == Both(id, v, v)
          IN IF Defined(all) THEN Runs(s.ints, [s.clk EXCEPT ![id.value] = v.value]) ELSE Without(all)

RECURSIVE AfterStatement(_, _)
AfterStatement(stmt, s) ==
  CASE stmt.class = "nop"    -> s
    [] stmt.class = "assign" -> AfterAssign(stmt, s)
    [] OTHER -> LET first == AfterStatement(stmt.first, s)
                IN IF Defined(first) THEN AfterStatement(stmt.second, first) ELSE first

AfterResets(clk, resets) ==
  LET after[n \in 0 .. Len(resets)] ==
        IF n = 0 THEN clk
        ELSE LET r == resets[n]
                 c == after[n - 1]
             IN [c EXCEPT ![r.x] = c[r.y] + 2 * r.value]
  IN after[Len(resets)]

-----------------------------------------------------------------------------
(* Properties. *)

TypeOK ==
  /\ stage \in {"building", "abandoned", "ready", "running", "threw", "killed"}
  /\ errors \in Nat /\ turn \in Pids /\ DOMAIN ran \subseteq Pids
  /\ \A i \in DOMAIN typed :
       typed[i].type \in IF IsStatement(source[i]) THEN StatementTypes ELSE ExpressionTypes
  /\ intvars \in [IntIds -> IntegerMin .. IntegerMax]
  /\ \A i \in DOMAIN stack : stack[i] \in IntegerMin .. IntegerMax

\* Guards of the documented grammar.  The others (a clock, an array) are accepted too.
IsDocumented(pid) == IsStatement(source[pid]) \/ bool_valued(typed[pid].type)

\* A program whose type is bad was reported, once at least, and only such a program: the
\* type checker does not repeat an error, and must not lose one either (it reports one
\* where it is first seen).
BadIsReported ==
  (stage = "building" /\ code = <<>> /\ typed # <<>>) =>
    ((typed[1].type = "BAD") <=> (errors > 0))

\* Integer variables keep within their bounds, in the middle of a run that will fail too.
WithinBounds ==
  \A name \in DOMAIN IntVars :
    \A id \in IdsOf(IntVars[name]) : intvars[id] \in IntVars[name].min .. IntVars[name].max

\* The machine is left with an empty stack, however a run ends: run() asserts it of the
\* next one.  A run that returns leaves nothing behind its value: RET asserts it.
StackIsEmptyBetweenRuns ==
  /\ stage \in {"ready", "threw"} => stack = <<>>
  /\ (stage = "running" /\ Instruction = RET) => Len(stack) = 1

\* The listing of a program and its run agree on where instructions are.
RunsWhatIsListed == stage = "running" => pc \in Listing(code[turn])

\* What is run was checked, is read from where it starts, and leaves the machine and the
\* valuation in a state from which the next program may run.
RunsSafely ==
  TypeOK /\ BadIsReported /\ WithinBounds /\ StackIsEmptyBetweenRuns /\ RunsWhatIsListed

\* The run of a guard returns a value, and collects clock constraints, that hold together
\* exactly where the formula holds: >=, > and == turned round, == split in two, an early
\* return when a conjunct is false.
GuardMeansItsSource ==
  \A pid \in DOMAIN ran :
    (~IsStatement(source[pid]) /\ IsDocumented(pid) /\ Outcomes(source[pid], before) = {"value"}) =>
      \A clk \in ClockValuations :
        (ran[pid] # 0 /\ MeetsConstraints(clk, clkconstr)) <=> Holds(source[pid], before, clk)

\* The run of a statement leaves the integers, and collects resets that leave the clocks,
\* as its assignments one after another do: a reset is applied after the others, an
\* integer assignment at once.
StatementMeansItsSource ==
  \A pid \in DOMAIN ran :
    IsStatement(source[pid]) =>
      \A clk \in ClockValuations :
        LET after == AfterStatement(source[pid], Runs(before, clk))
        IN \/ after.outcome = "overflows"
           \/ after = Runs(intvars, AfterResets(clk, clkreset)) /\ ran[pid] = 1

\* A run ends in an exception, or dies, only where its program stops or overflows: no
\* program the type checker accepts has the machine run out of the stack, of the
\* variables or of the clocks.
RunsThatStopMust ==
  (stage \in {"threw", "killed"} /\ pc > 0 /\ IsDocumented(turn)) =>
    IF IsStatement(source[turn])
    THEN LET clk == CHOOSE v \in ClockValuations : TRUE
         IN AfterStatement(source[turn], Runs(before, clk)).outcome # "value"
    ELSE Outcomes(source[turn], before) # {"value"}

\* Type checker, compiler and machine together compute what the source of a program means.
MeansItsSource ==
  /\ Processes = 1 => GuardMeansItsSource /\ StatementMeansItsSource
  /\ RunsThatStopMust

\* Integer variables that a run reads or writes, and the clocks it outputs, are in the
\* map of accesses.
Foreseen(v, how) == access = EmptyMap \/ turn \in accessing_processes(access, v, how)
IntVariable(id) == [kind |-> "INTVAR", id |-> id]
ClockVariable(id) == [kind |-> "CLOCK", id |-> id]

MapHolds ==
  /\ (ValueAt /\ stage' = "running" /\ IsDocumented(turn)) => Foreseen(IntVariable(Top(0)), "READ")
  /\ (Assign /\ stage' = "running") => Foreseen(IntVariable(Top(1)), "WRITE")
  /\ (ClkConstr /\ stage' = "running") =>
       \A id \in {Top(1), Top(2)} \ {0} : Foreseen(ClockVariable(id), "READ")
  /\ (ClkReset /\ stage' = "running") =>
       /\ Foreseen(ClockVariable(Top(2)), "WRITE")
       /\ Top(1) # 0 => Foreseen(ClockVariable(Top(1)), "READ")

\* When the map says that no variable is shared, the processes run in whatever order with
\* the same effect: each writes what it would have written had it run first.
UnsharedRunsCommute ==
  (stage = "ready" /\ Processes > 1 /\ DOMAIN ran = Pids
     /\ access # EmptyMap /\ ~has_shared_variable(access)) =>
    \A pid \in Pids, v \in UNION {accessed_variables(access, p, "WRITE") : p \in Pids} :
      (v.kind = "INTVAR" /\ v \in accessed_variables(access, pid, "WRITE")) =>
        LET clk == CHOOSE c \in ClockValuations : TRUE
            after == AfterStatement(source[pid], Runs(initial, clk))
        IN after.outcome = "value" => intvars[v.id] = after.ints[v.id]

\* The static analysis misses no access of a run, hence the asynchronous model, which
\* refuses systems that share variables, orders no two processes that depend on each other.
AccessesAreForeseen == [][MapHolds]_vars /\ []UnsharedRunsCommute

-----------------------------------------------------------------------------
(* Statements of the repository that the code does not keep (README,        *)
(* "Disagreements").                                                        *)

\* vm/compilers.cc:302: a conjunction returns as soon as a conjunct is false.  (A guard
\* that fails is then one whose conjuncts before the failure hold.)
ReturnsAsSoonAsFalse ==
  (stage \in {"threw", "killed"} /\ pc > 0 /\ ~IsStatement(source[turn]) /\ IsDocumented(turn)) =>
    LET conjuncts == Conjuncts(source[turn])
        bad == CHOOSE i \in DOMAIN conjuncts :
                 /\ ~Defined(ConjunctOutcome(conjuncts[i], before))
                 /\ \A j \in 1 .. i - 1 : Defined(ConjunctOutcome(conjuncts[j], before))
    IN \A j \in 1 .. bad - 1 :
         IsClockConstraint(conjuncts[j]) \/ TermValue(conjuncts[j], before).value # 0

\* doc/file-format.md:387: an integer term is false iff it has value 0.
TermsAreFalseIffZero ==
  \A pid \in DOMAIN ran :
    (~IsStatement(source[pid]) /\ IsDocumented(pid) /\ clkconstr = <<>> /\ Outcomes(source[pid], before) = {"value"}) =>
      \A clk \in ClockValuations : Accepted(pid) <=> Holds(source[pid], before, clk)

\* doc/file-format.md:356: a guard is a conjunction of integer terms, predicates and clock
\* constraints.
GuardsHaveTruthValues == stage = "ready" => \A pid \in Pids : IsDocumented(pid)

\* vm/compilers.hh: the compiler throws std::invalid_argument, on a bad type, or
\* std::runtime_error.
CompilerThrowsWhatItSays ==
  (stage = "building" /\ Len(typed) = turn) =>
    ~Throws(IF IsStatement(source[turn]) THEN CompileStatement(typed[turn])
            ELSE CompileExpression(typed[turn]))
      \/ typed[turn].type = "BAD"

\* statement/typechecking.hh:30: errors are reported by calling function error.
TypecheckReportsErrors == (stage = "threw" /\ Len(code) < turn) => errors > 0

\* doc/file-format.md:432: a clock can be assigned the sum of a clock and an integer term.
SumsOfClocksAreAccepted ==
  (stage = "abandoned" /\ source[1].class = "assign") =>
    LET r == source[1].rvalue
    IN ~(/\ source[1].lvalue.class = "var" /\ source[1].lvalue.name \in DOMAIN Clocks
         /\ Clocks[source[1].lvalue.name].size = 1
         /\ r.class = "binary" /\ r.op = "+" /\ r.left.class = "var" /\ r.right.class = "int"
         /\ r.left.name \in DOMAIN Clocks /\ Clocks[r.left.name].size = 1)
=============================================================================
