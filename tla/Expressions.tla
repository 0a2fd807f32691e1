----------------------------- MODULE Expressions -----------------------------
(***************************************************************************)
(* Expressions and statements of guards, invariants and edges: what the    *)
(* grammar of programs builds, what the type checker makes of it, and the  *)
(* static analysis of what it accepts: constant values, ranges, variables  *)
(* that are read and written.                                              *)
(*                                                                         *)
(* An object is a record; "class" is its class, which visitors dispatch    *)
(* on.  Typed objects also have a type.  Strings of the source language    *)
(* are left out: a program is its syntax tree.                             *)
(***************************************************************************)
EXTENDS Integers, Sequences

CONSTANTS
  IntVars,    \* name -> [id, size, min, max], the declared integer variables
  Clocks,     \* name -> [id, size], the declared clocks; the zero clock has identifier 0
  Names,      \* the identifiers of programs, undeclared ones included
  Literals,   \* the integers written in programs
  Width       \* integer_t has Width bits

ASSUME DeclarationsAssumption ==
  /\ Literals \subseteq Nat
  /\ DOMAIN IntVars \cup DOMAIN Clocks \subseteq Names
  /\ \A n \in DOMAIN IntVars : IntVars[n].size >= 1 /\ IntVars[n].min <= IntVars[n].max
  /\ \A n \in DOMAIN Clocks : Clocks[n].size >= 1 /\ Clocks[n].id > 0

ASSUME WidthAssumption == Width \in Nat \ {0, 1}

-----------------------------------------------------------------------------
(* Expressions (expression/expression.hh) and statements. *)

IntExpression(value) == [class |-> "int", value |-> value]
VarExpression(name) == [class |-> "var", name |-> name]
ArrayExpression(variable, offset) == [class |-> "array", variable |-> variable, offset |-> offset]
ParExpression(expr) == [class |-> "par", expr |-> expr]
UnaryExpression(op, operand) == [class |-> "unary", op |-> op, operand |-> operand]
BinaryExpression(op, left, right) == [class |-> "binary", op |-> op, left |-> left, right |-> right]

ArithmeticOperators == {"+", "-", "*", "/", "%"}
Predicates == {"<", "<=", "==", "!=", ">=", ">"}

NopStatement == [class |-> "nop"]
AssignStatement(lvalue, rvalue) == [class |-> "assign", lvalue |-> lvalue, rvalue |-> rvalue]
SequenceStatement(first, second) == [class |-> "sequence", first |-> first, second |-> second]

-----------------------------------------------------------------------------
(* The grammar (program.yy): each rule yields what it builds from the trees *)
(* of its symbols.  Precedences decide which trees a rule can be given: a   *)
(* sum is a factor only between parentheses.                                *)

integer == {IntExpression(value) : value \in Literals}
variable_term == {VarExpression(name) : name \in Names}
lvalue_term(terms) ==
  variable_term \cup {ArrayExpression(v, t) : v \in variable_term, t \in terms}

Parenthesised(trees) == {ParExpression(t) : t \in trees}
Negated(primaries) == {UnaryExpression("-", t) : t \in primaries}
Products(lefts, primaries) ==
  {BinaryExpression(op, l, r) : op \in {"*", "/", "%"}, l \in lefts, r \in primaries}
Sums(lefts, products) ==
  {BinaryExpression(op, l, r) : op \in {"+", "-"}, l \in lefts, r \in products}

predicate_formula(lefts, rights) ==
  {BinaryExpression(op, l, r) : op \in Predicates, l \in lefts, r \in rights}
Not(atomic) == {UnaryExpression("!", f) : f \in atomic}
non_atomic_conjunctive_formula(atomic, conjunctive) ==
  {BinaryExpression("&&", l, r) : l \in atomic, r \in conjunctive}

assignment(lvalues, terms) == {AssignStatement(l, t) : l \in lvalues, t \in terms}
sequence_statement(sequences, statements) ==
  {SequenceStatement(f, s) : f \in sequences, s \in statements}

-----------------------------------------------------------------------------
(* Typed expressions (expression/typed_expression.hh). *)

ExpressionTypes ==
  {"BAD", "INTTERM", "INTVAR", "INTARRAY", "INTLVALUE", "CLKVAR", "CLKARRAY", "CLKLVALUE",
   "CLKDIFF", "INTCLKSUM", "ATOMIC_PREDICATE", "CLKCONSTR_SIMPLE", "CLKCONSTR_DIAGONAL",
   "CONJUNCTIVE_FORMULA"}

TypedInt(type, value) == [class |-> "int", type |-> type, value |-> value]
TypedVar(type, name, id, size) ==
  [class |-> "var", type |-> type, name |-> name, id |-> id, size |-> size]
TypedBoundedVar(type, name, id, size, min, max) ==
  [class |-> "bounded_var", type |-> type, name |-> name, id |-> id, size |-> size,
   min |-> min, max |-> max]
TypedArray(type, variable, offset) ==
  [class |-> "array", type |-> type, variable |-> variable, offset |-> offset, size |-> 1]
TypedPar(type, expr) == [class |-> "par", type |-> type, expr |-> expr]
TypedBinary(type, op, left, right) ==
  [class |-> "binary", type |-> type, op |-> op, left |-> left, right |-> right]
TypedUnary(type, op, operand) ==
  [class |-> "unary", type |-> type, op |-> op, operand |-> operand]
TypedSimpleClkconstr(type, op, left, right) ==
  [class |-> "simple_clkconstr", type |-> type, op |-> op, left |-> left, right |-> right]
TypedDiagonalClkconstr(type, op, left, right) ==
  [class |-> "diagonal_clkconstr", type |-> type, op |-> op, left |-> left, right |-> right]

\* typed_lvalue_expression_t: what a dynamic_cast of a parenthesised clock is not.
IsLvalue(expr) == expr.class \in {"var", "bounded_var", "array"}

\* The operands of clock constraints.  The clocks are cast to lvalues: [throws] when
\* one is between parentheses.
Clock(expr) == expr.left
FirstClock(expr) == expr.left.left
SecondClock(expr) == expr.left.right
IsDifference(expr) == expr.left.class = "binary"
CastsClocks(expr) ==
  IF expr.class = "simple_clkconstr" THEN IsLvalue(Clock(expr))
  ELSE IsDifference(expr) /\ IsLvalue(FirstClock(expr)) /\ IsLvalue(SecondClock(expr))
Bound(expr) == expr.right

-----------------------------------------------------------------------------
(* Type inference (expression/type_inference.cc). *)

integer_dereference(type) == type \in {"INTVAR", "INTARRAY"}
integer_valued(type) == type \in {"INTTERM", "INTVAR", "INTLVALUE"}
integer_assignable(type) == type \in {"INTVAR", "INTLVALUE"}
clock_dereference(type) == type \in {"CLKVAR", "CLKARRAY"}
clock_valued(type) == type \in {"CLKVAR", "CLKLVALUE"}
clock_assignable(type) == type \in {"CLKVAR", "CLKLVALUE"}
bool_valued(type) ==
  \/ integer_valued(type)
  \/ type \in {"CLKCONSTR_SIMPLE", "CLKCONSTR_DIAGONAL", "ATOMIC_PREDICATE", "CONJUNCTIVE_FORMULA"}

type_par(type) == type
type_land(left, right) ==
  IF bool_valued(left) /\ bool_valued(right) THEN "CONJUNCTIVE_FORMULA" ELSE "BAD"
type_lnot(type) ==
  IF integer_valued(type) \/ type = "ATOMIC_PREDICATE" THEN "ATOMIC_PREDICATE" ELSE "BAD"
type_binary_predicate(left, right) ==
  CASE ~integer_valued(right) -> "BAD"
    [] integer_valued(left)   -> "ATOMIC_PREDICATE"
    [] clock_valued(left)     -> "CLKCONSTR_SIMPLE"
    [] left = "CLKDIFF"       -> "CLKCONSTR_DIAGONAL"
    [] OTHER                  -> "BAD"
type_neq(left, right) ==
  IF integer_valued(left) /\ integer_valued(right) THEN "ATOMIC_PREDICATE" ELSE "BAD"
type_plus(left, right) ==
  CASE ~integer_valued(left)  -> "BAD"
    [] integer_valued(right)  -> "INTTERM"
    [] clock_valued(right)    -> "INTCLKSUM"
    [] OTHER                  -> "BAD"
type_minus(left, right) ==
  CASE integer_valued(left) /\ integer_valued(right) -> "INTTERM"
    [] clock_valued(left) /\ clock_valued(right)     -> "CLKDIFF"
    [] OTHER                                         -> "BAD"
type_binary_operator(left, right) ==
  IF integer_valued(left) /\ integer_valued(right) THEN "INTTERM" ELSE "BAD"
type_neg(type) == IF integer_valued(type) THEN "INTTERM" ELSE "BAD"

type_binary(op, left, right) ==
  CASE op = "&&"            -> type_land(left, right)
    [] op = "!="            -> type_neq(left, right)
    [] op \in {"<", "<=", "==", ">=", ">"} -> type_binary_predicate(left, right)
    [] op = "-"             -> type_minus(left, right)
    [] op = "+"             -> type_plus(left, right)
    [] op \in {"*", "/", "%"} -> type_binary_operator(left, right)
type_unary(op, type) == IF op = "-" THEN type_neg(type) ELSE type_lnot(type)

-----------------------------------------------------------------------------
(* Type checking of expressions (expression/typechecking.cc): the typed     *)
(* expression, and the number of errors that are reported.                  *)

Checked(expr, errors) == [expr |-> expr, errors |-> errors]

\* An error is reported where the type goes wrong, not where it is wrong already.
Report(type, operands) == IF type = "BAD" /\ "BAD" \notin operands THEN 1 ELSE 0

\* An identifier no variable has.
NoId == -1

VisitVar(expr) ==
  CASE expr.name \in DOMAIN IntVars ->
         LET v == IntVars[expr.name]
         IN Checked(TypedBoundedVar(IF v.size > 1 THEN "INTARRAY" ELSE "INTVAR",
                                    expr.name, v.id, v.size, v.min, v.max), 0)
    [] expr.name \in DOMAIN Clocks \ DOMAIN IntVars ->
         LET v == Clocks[expr.name]
         IN Checked(TypedVar(IF v.size > 1 THEN "CLKARRAY" ELSE "CLKVAR",
                             expr.name, v.id, v.size), 0)
    [] OTHER -> Checked(TypedVar("BAD", expr.name, NoId, 1), 1)

RECURSIVE Typecheck(_)

VisitArray(expr) ==
  LET variable == Typecheck(expr.variable)
      offset == Typecheck(expr.offset)
      type == CASE ~integer_valued(offset.expr.type)          -> "BAD"
                [] integer_dereference(variable.expr.type) -> "INTLVALUE"
                [] clock_dereference(variable.expr.type)   -> "CLKLVALUE"
                [] OTHER                                   -> "BAD"
  IN Checked(TypedArray(type, variable.expr, offset.expr),
             variable.errors + offset.errors + Report(type, {offset.expr.type}))

VisitPar(expr) ==
  LET sub == Typecheck(expr.expr)
      type == type_par(sub.expr.type)
  IN Checked(TypedPar(type, sub.expr), sub.errors + Report(type, {sub.expr.type}))

VisitBinary(expr) ==
  LET left == Typecheck(expr.left)
      right == Typecheck(expr.right)
      type == type_binary(expr.op, left.expr.type, right.expr.type)
  IN Checked(CASE type = "CLKCONSTR_SIMPLE" ->
                    TypedSimpleClkconstr(type, expr.op, left.expr, right.expr)
               [] type = "CLKCONSTR_DIAGONAL" ->
                    TypedDiagonalClkconstr(type, expr.op, left.expr, right.expr)
               [] OTHER -> TypedBinary(type, expr.op, left.expr, right.expr),
             left.errors + right.errors + Report(type, {left.expr.type, right.expr.type}))

VisitUnary(expr) ==
  LET operand == Typecheck(expr.operand)
      type == type_unary(expr.op, operand.expr.type)
  IN Checked(TypedUnary(type, expr.op, operand.expr),
             operand.errors + Report(type, {operand.expr.type}))

Typecheck(expr) ==
  CASE expr.class = "int"    -> Checked(TypedInt("INTTERM", expr.value), 0)
    [] expr.class = "var"    -> VisitVar(expr)
    [] expr.class = "array"  -> VisitArray(expr)
    [] expr.class = "par"    -> VisitPar(expr)
    [] expr.class = "binary" -> VisitBinary(expr)
    [] expr.class = "unary"  -> VisitUnary(expr)

-----------------------------------------------------------------------------
(* Typed statements (statement/typed_statement.hh) and their type checking  *)
(* (statement/typechecking.cc).  A statement that is not built ends the     *)
(* type checking with an exception.                                         *)

StatementTypes ==
  {"BAD", "NOP", "INTASSIGN", "CLKASSIGN_INT", "CLKASSIGN_CLK", "CLKASSIGN_SUM", "SEQ"}

TypedNop(type) == [class |-> "nop", type |-> type]
TypedAssign(type, lvalue, rvalue) ==
  [class |-> "assign", type |-> type, lvalue |-> lvalue, rvalue |-> rvalue]
TypedIntToClock(type, lvalue, rvalue) ==
  [class |-> "int_to_clock", type |-> type, lvalue |-> lvalue, rvalue |-> rvalue]
TypedClockToClock(type, lvalue, rvalue) ==
  [class |-> "clock_to_clock", type |-> type, lvalue |-> lvalue, rvalue |-> rvalue]
TypedSumToClock(type, lvalue, rvalue) ==
  [class |-> "sum_to_clock", type |-> type, lvalue |-> lvalue, rvalue |-> rvalue]
TypedSequence(type, first, second) ==
  [class |-> "sequence", type |-> type, first |-> first, second |-> second]

\* The constructors refuse an lvalue of several variables, and the null pointer that
\* the cast of a parenthesised clock yields.
AssignThrows(type, lvalue, rvalue) ==
  lvalue.size # 1 \/ (type = "CLKASSIGN_CLK" /\ ~IsLvalue(rvalue))

\* The clock and the value of y := c + x are the operands of the sum.  The sum is cast
\* to a binary expression, its clock to an lvalue.
SumClock(stmt) == stmt.rvalue.right
SumValue(stmt) == stmt.rvalue.left
CastsSum(stmt) == stmt.rvalue.class = "binary" /\ IsLvalue(stmt.rvalue.right)

type_assign(ltype, rtype) ==
  CASE integer_assignable(ltype) /\ integer_valued(rtype) -> "INTASSIGN"
    [] clock_assignable(ltype) /\ integer_valued(rtype)   -> "CLKASSIGN_INT"
    [] clock_assignable(ltype) /\ clock_valued(rtype)     -> "CLKASSIGN_CLK"
    [] clock_assignable(ltype) /\ rtype = "INTCLKSUM"     -> "CLKASSIGN_SUM"
    [] OTHER                                              -> "BAD"
type_seq(first, second) == IF first # "BAD" /\ second # "BAD" THEN "SEQ" ELSE "BAD"

CheckedStatement(stmt, errors, throws) == [stmt |-> stmt, errors |-> errors, throws |-> throws]

VisitAssign(stmt) ==
  LET l == Typecheck(stmt.lvalue)
      r == Typecheck(stmt.rvalue)
      type == type_assign(l.expr.type, r.expr.type)
      throws == AssignThrows(type, l.expr, r.expr)
  IN CheckedStatement(
       CASE type = "CLKASSIGN_INT" -> TypedIntToClock(type, l.expr, r.expr)
         [] type = "CLKASSIGN_CLK" -> TypedClockToClock(type, l.expr, r.expr)
         [] type = "CLKASSIGN_SUM" -> TypedSumToClock(type, l.expr, r.expr)
         [] OTHER                  -> TypedAssign(type, l.expr, r.expr),
       l.errors + r.errors
         + (IF throws THEN 0 ELSE Report(type, {l.expr.type, r.expr.type})),
       throws)

RECURSIVE TypecheckStatement(_)

VisitSequence(stmt) ==
  LET first == TypecheckStatement(stmt.first)
      second == TypecheckStatement(stmt.second)
      type == type_seq(first.stmt.type, second.stmt.type)
  IN IF first.throws THEN first
     ELSE IF second.throws THEN second
     ELSE CheckedStatement(TypedSequence(type, first.stmt, second.stmt),
                           first.errors + second.errors
                             + Report(type, {first.stmt.type, second.stmt.type}),
                           FALSE)

TypecheckStatement(stmt) ==
  CASE stmt.class = "nop"      -> CheckedStatement(TypedNop("NOP"), 0, FALSE)
    [] stmt.class = "assign"   -> VisitAssign(stmt)
    [] stmt.class = "sequence" -> VisitSequence(stmt)

-----------------------------------------------------------------------------
(* Static analysis (expression/static_analysis.cc,                          *)
(* statement/static_analysis.cc): the value of constant expressions, the    *)
(* ranges of others, the variables that are read and written.               *)

IntegerMin == -(2 ^ (Width - 1))
IntegerMax == 2 ^ (Width - 1) - 1

\* An operation that overflows wraps around.
Wrap(n) == ((n - IntegerMin) % 2 ^ Width) + IntegerMin

\* / and % round towards zero.
Magnitude(n) == IF n < 0 THEN -n ELSE n
Quotient(l, r) ==
  LET q == Magnitude(l) \div Magnitude(r) IN IF (l < 0) = (r < 0) THEN q ELSE -q
Remainder(l, r) == l - r * Quotient(l, r)

\* Division by zero, and the quotient that is no integer_t, kill the program.
Kills(op, l, r) == op \in {"/", "%"} /\ (r = 0 \/ (l = IntegerMin /\ r = -1))

Truth(b) == IF b THEN 1 ELSE 0

Applied(op, l, r) ==
  CASE op = "&&" -> Truth(l # 0 /\ r # 0)
    [] op = "<"  -> Truth(l < r)
    [] op = "<=" -> Truth(l <= r)
    [] op = "==" -> Truth(l = r)
    [] op = "!=" -> Truth(l # r)
    [] op = ">=" -> Truth(l >= r)
    [] op = ">"  -> Truth(l > r)
    [] op = "-"  -> Wrap(l - r)
    [] op = "+"  -> Wrap(l + r)
    [] op = "*"  -> Wrap(l * r)
    [] op = "/"  -> Quotient(l, r)
    [] op = "%"  -> Remainder(l, r)

-----------------------------------------------------------------------------
(* const_evaluate: a value, an exception ("variable"), or the end of the    *)
(* program ("killed").                                                      *)

Constant(value) == [outcome |-> "value", value |-> value]
NotConstant == [outcome |-> "variable", value |-> 0]
Killed == [outcome |-> "killed", value |-> 0]

RECURSIVE const_evaluate(_)

ConstUnary(expr) ==
  LET operand == const_evaluate(expr.operand)
  IN IF operand.outcome # "value" THEN operand
     ELSE Constant(IF expr.op = "-" THEN Wrap(-operand.value) ELSE Truth(operand.value = 0))

ConstBinary(expr) ==
  LET left == const_evaluate(expr.left)
      right == const_evaluate(expr.right)
  IN CASE left.outcome # "value"                    -> left
       [] right.outcome # "value"                   -> right
       [] Kills(expr.op, left.value, right.value) -> Killed
       [] OTHER -> Constant(Applied(expr.op, left.value, right.value))

const_evaluate(expr) ==
  CASE expr.class = "int"                           -> Constant(expr.value)
    [] expr.class \in {"var", "bounded_var", "array"} -> NotConstant
    [] expr.class = "par"                           -> const_evaluate(expr.expr)
    [] expr.class = "unary"                         -> ConstUnary(expr)
    [] OTHER                                        -> ConstBinary(expr)

-----------------------------------------------------------------------------
(* Variables.  A variable is its kind and its flat identifier.              *)

Variable(type, id) == [kind |-> IF integer_dereference(type) THEN "INTVAR" ELSE "CLOCK", id |-> id]
Identified(type, ids) == {Variable(type, id) : id \in ids}

IdsOf(v) == v.id .. v.id + v.size - 1

\* extract_lvalue_variable_ids.
LvalueIds(expr) ==
  IF expr.class # "array" THEN IdsOf(expr)
  ELSE LET offset == const_evaluate(expr.offset)
       IN IF offset.outcome = "value" /\ offset.value \in 0 .. expr.variable.size - 1
          THEN {expr.variable.id + offset.value}
          ELSE IdsOf(expr.variable)

\* extract_lvalue_base_variable_ids.
BaseVariables(expr) ==
  Identified(IF expr.class = "array" THEN expr.variable.type ELSE expr.type, LvalueIds(expr))

RECURSIVE extract_variables(_)

\* A constant offset is not compared with the size of the array.
ArrayVariables(expr) ==
  LET v == expr.variable
      offset == const_evaluate(expr.offset)
  IN extract_variables(expr.offset)
       \cup Identified(v.type, IF offset.outcome = "value" THEN {v.id + offset.value} ELSE IdsOf(v))

extract_variables(expr) ==
  CASE expr.class = "int"                   -> {}
    [] expr.class \in {"var", "bounded_var"} -> {Variable(expr.type, expr.id)}
    [] expr.class = "array"                 -> ArrayVariables(expr)
    [] expr.class = "par"                   -> extract_variables(expr.expr)
    [] expr.class = "unary"                 -> extract_variables(expr.operand)
    [] OTHER -> extract_variables(expr.left) \cup extract_variables(expr.right)

\* Mutant: the index of an assigned element is not read.
IgnoredOffset(expr) == {}

\* extract_lvalue_offset_variable_ids.
OffsetVariables(expr) == IF expr.class = "array" THEN extract_variables(expr.offset) ELSE {}

RECURSIVE ReadVariables(_), WrittenVariables(_)

ReadVariables(stmt) ==
  CASE stmt.class = "nop"      -> {}
    [] stmt.class = "sequence" -> ReadVariables(stmt.first) \cup ReadVariables(stmt.second)
    [] OTHER -> extract_variables(stmt.rvalue) \cup OffsetVariables(stmt.lvalue)

WrittenVariables(stmt) ==
  CASE stmt.class = "nop"      -> {}
    [] stmt.class = "sequence" -> WrittenVariables(stmt.first) \cup WrittenVariables(stmt.second)
    [] OTHER -> BaseVariables(stmt.lvalue)

\* The offsets the analysis evaluates, one of which may kill the program.
RECURSIVE Offsets(_)
Offsets(tree) ==
  CASE tree.class \in {"int", "var", "bounded_var", "nop"} -> {}
    [] tree.class = "array"    -> {tree.offset} \cup Offsets(tree.offset)
    [] tree.class = "par"      -> Offsets(tree.expr)
    [] tree.class = "unary"    -> Offsets(tree.operand)
    [] tree.class = "sequence" -> Offsets(tree.first) \cup Offsets(tree.second)
    [] tree.class \in {"assign", "int_to_clock", "clock_to_clock", "sum_to_clock"} ->
         Offsets(tree.lvalue) \cup Offsets(tree.rvalue)
    [] OTHER -> Offsets(tree.left) \cup Offsets(tree.right)

AnalysisDies(tree) == \E offset \in Offsets(tree) : const_evaluate(offset) = Killed

-----------------------------------------------------------------------------
(* The map of accesses (variables/access.hh): which process accesses which  *)
(* variable, and how.                                                       *)

EmptyMap == {}

Access(v, how, pid) == [variable |-> v, access |-> how, pid |-> pid]

Added(map, variables, how, pid) ==
  map \cup {Access(v, h, pid) : v \in variables, h \in {how, "ANY"}}

accessing_processes(map, v, how) ==
  {a.pid : a \in {b \in map : b.variable = v /\ b.access = how}}

accessed_variables(map, pid, how) ==
  {a.variable : a \in {b \in map : b.pid = pid /\ b.access = how}}

has_shared_variable(map) ==
  \E a, b \in map : a.variable = b.variable /\ a.access = b.access /\ a.pid # b.pid

\* add_accesses of a typed expression, and of a typed statement.
ExpressionAccesses(map, expr, pid) == Added(map, extract_variables(expr), "READ", pid)
StatementAccesses(map, stmt, pid) ==
  Added(Added(map, ReadVariables(stmt), "READ", pid), WrittenVariables(stmt), "WRITE", pid)
=============================================================================
