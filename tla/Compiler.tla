------------------------------- MODULE Compiler -------------------------------
(***************************************************************************)
(* The compilers of typed expressions and statements to bytecode           *)
(* (vm/compilers.cc), and the listing of bytecode (vm/vm.cc).  Bytecode is *)
(* a sequence of integers: instructions, each followed by its parameters.  *)
(***************************************************************************)
EXTENDS Expressions

RET == 0    RETZ == 1   FAILNOTIN == 2   PUSH == 3
VALUEAT == 4   ASSIGN == 5
LAND == 6   MINUS == 7   DIV == 8   EQ == 9   GE == 10   GT == 11   LT == 12   LE == 13
MUL == 14   MOD == 15   NE == 16   SUM == 17   NEG == 18   LNOT == 19
CLKCONSTR == 20   CLKRESET == 21   NOP == 22

\* Comparators of clock constraints.
Strict == 0
Weak == 1

\* What stands for an exception in the place where it is thrown.
InvalidArgument == 1000
BadCast == 1001

ZeroClock == TypedVar("CLKVAR", "0", 0, 1)

-----------------------------------------------------------------------------
BinaryInstruction(op) ==
  CASE op = "&&" -> LAND  [] op = "<"  -> LT  [] op = "<=" -> LE  [] op = "==" -> EQ
    [] op = "!=" -> NE    [] op = ">=" -> GE  [] op = ">"  -> GT  [] op = "-"  -> MINUS
    [] op = "+"  -> SUM   [] op = "*"  -> MUL [] op = "/"  -> DIV [] op = "%"  -> MOD

UnaryInstruction(op) == IF op = "-" THEN NEG ELSE LNOT

IsVariable(expr) ==
  /\ expr.class \in {"var", "bounded_var"}
  /\ expr.type \in {"CLKVAR", "INTVAR", "CLKARRAY", "INTARRAY"}

IsElement(expr) == expr.class = "array" /\ expr.type \in {"CLKLVALUE", "INTLVALUE"}

RECURSIVE Rvalue(_)

\* The address of an element: it fails when the offset is not in the array.
AddressOfElement(expr) ==
  <<PUSH, expr.variable.id>> \o Rvalue(expr.offset)
    \o <<FAILNOTIN, 0, expr.variable.size - 1, SUM>>

Lvalue(expr) ==
  CASE IsVariable(expr) -> <<PUSH, expr.id>>
    [] IsElement(expr)  -> AddressOfElement(expr)
    [] OTHER            -> <<InvalidArgument>>

CompileBinary(expr) ==
  Rvalue(expr.left) \o Rvalue(expr.right) \o <<BinaryInstruction(expr.op)>>

\* A conjunction returns when it is false.
RvalueBinary(expr) ==
  LET expected == CASE expr.op = "&&"          -> "CONJUNCTIVE_FORMULA"
                    [] expr.op \in Predicates -> "ATOMIC_PREDICATE"
                    [] OTHER                   -> "INTTERM"
  IN IF expr.type # expected THEN <<InvalidArgument>>
     ELSE CompileBinary(expr) \o (IF expr.op = "&&" THEN <<RETZ>> ELSE <<>>)

RvalueUnary(expr) ==
  IF expr.type # (IF expr.op = "-" THEN "INTTERM" ELSE "ATOMIC_PREDICATE")
  THEN <<InvalidArgument>>
  ELSE Rvalue(expr.operand) \o <<UnaryInstruction(expr.op)>>

Negation(bound) == TypedUnary(type_neg(bound.type), "-", bound)

CompileClockConstraint(first, second, cmp, bound) ==
  Lvalue(first) \o Lvalue(second) \o Rvalue(bound) \o <<CLKCONSTR, cmp, PUSH, 1>>

CompileClockPredicate(first, second, bound, op) ==
  CASE op = "<"  -> CompileClockConstraint(first, second, Strict, bound)
    [] op = "<=" -> CompileClockConstraint(first, second, Weak, bound)
    [] op = ">=" -> CompileClockConstraint(second, first, Weak, Negation(bound))
    [] op = ">"  -> CompileClockConstraint(second, first, Strict, Negation(bound))
    [] op = "==" -> CompileClockConstraint(first, second, Weak, bound)
                      \o CompileClockConstraint(second, first, Weak, Negation(bound)) \o <<LAND>>
    [] OTHER     -> <<InvalidArgument>>

RvalueSimple(expr) ==
  IF CastsClocks(expr)
  THEN CompileClockPredicate(Clock(expr), ZeroClock, Bound(expr), expr.op)
  ELSE <<BadCast>>

RvalueDiagonal(expr) ==
  IF CastsClocks(expr)
  THEN CompileClockPredicate(FirstClock(expr), SecondClock(expr), Bound(expr), expr.op)
  ELSE <<BadCast>>

RvalueVariable(expr) == Lvalue(expr) \o <<VALUEAT>>
RvalueElement(expr) == Lvalue(expr) \o <<VALUEAT>>
RvalueInt(expr) == <<PUSH, expr.value>>
RvaluePar(expr) == IF expr.type = "BAD" THEN <<InvalidArgument>> ELSE Rvalue(expr.expr)

Rvalue(expr) ==
  CASE expr.class = "int"                    -> RvalueInt(expr)
    [] expr.class \in {"var", "bounded_var"} -> RvalueVariable(expr)
    [] expr.class = "array"                  -> RvalueElement(expr)
    [] expr.class = "par"                    -> RvaluePar(expr)
    [] expr.class = "binary"                 -> RvalueBinary(expr)
    [] expr.class = "unary"                  -> RvalueUnary(expr)
    [] expr.class = "simple_clkconstr"       -> RvalueSimple(expr)
    [] expr.class = "diagonal_clkconstr"     -> RvalueDiagonal(expr)

Exceptions == {InvalidArgument, BadCast}

\* The first exception of a compilation, if any, ends it.
Throws(code) == \E i \in DOMAIN code : code[i] \in Exceptions
Thrown(code) ==
  LET i == CHOOSE i \in DOMAIN code :
             code[i] \in Exceptions /\ \A j \in 1 .. i - 1 : code[j] \notin Exceptions
  IN code[i]

CompileExpression(expr) ==
  IF expr.type = "BAD" THEN <<InvalidArgument>> ELSE Rvalue(expr) \o <<RET>>

-----------------------------------------------------------------------------
(* Statements. *)

\* The variable whose bounds an assignment checks.
BoundedVariable(lvalue) == IF lvalue.class = "array" THEN lvalue.variable ELSE lvalue

CompileIntAssign(lvalue, rvalue) ==
  LET v == BoundedVariable(lvalue)
  IN IF v.class # "bounded_var" THEN <<InvalidArgument>>
     ELSE Lvalue(lvalue) \o Rvalue(rvalue) \o <<FAILNOTIN, v.min, v.max, ASSIGN>>

CompileClockReset(lvalue, value, clock) ==
  Lvalue(lvalue) \o Lvalue(clock) \o Rvalue(value) \o <<CLKRESET>>

CompileAssign(stmt) ==
  IF stmt.type # "INTASSIGN" THEN <<InvalidArgument>>
  ELSE CompileIntAssign(stmt.lvalue, stmt.rvalue)

CompileIntToClock(stmt) == CompileClockReset(stmt.lvalue, stmt.rvalue, ZeroClock)

CompileClockToClock(stmt) == CompileClockReset(stmt.lvalue, TypedInt("INTTERM", 0), stmt.rvalue)

\* Mutant: the integer of the sum is lost.
CompileSumAsClock(stmt) ==
  IF CastsSum(stmt) THEN CompileClockReset(stmt.lvalue, TypedInt("INTTERM", 0), SumClock(stmt))
  ELSE <<BadCast>>

CompileSumToClock(stmt) ==
  IF CastsSum(stmt) THEN CompileClockReset(stmt.lvalue, SumValue(stmt), SumClock(stmt))
  ELSE <<BadCast>>

RECURSIVE CompileStep(_)
CompileStep(stmt) ==
  CASE stmt.class = "nop"            -> <<NOP>>
    [] stmt.class = "assign"         -> CompileAssign(stmt)
    [] stmt.class = "int_to_clock"   -> CompileIntToClock(stmt)
    [] stmt.class = "clock_to_clock" -> CompileClockToClock(stmt)
    [] stmt.class = "sum_to_clock"   -> CompileSumToClock(stmt)
    [] stmt.class = "sequence"       ->
         IF stmt.type = "BAD" THEN <<InvalidArgument>>
         ELSE CompileStep(stmt.first) \o CompileStep(stmt.second)

\* A statement returns 1.
CompileStatement(stmt) ==
  IF stmt.type = "BAD" THEN <<InvalidArgument>> ELSE CompileStep(stmt) \o <<PUSH, 1, RET>>

-----------------------------------------------------------------------------

\* output: the positions where the listing starts a line.
Parameters(instruction) ==
  CASE instruction = FAILNOTIN -> 2
    [] instruction \in {PUSH, CLKCONSTR} -> 1
    [] OTHER -> 0

Listing(code) ==
  LET lines[i \in 1 .. Len(code)] ==
        {i} \cup (IF code[i] = RET THEN {} ELSE lines[i + 1 + Parameters(code[i])])
  IN lines[1]
=============================================================================
