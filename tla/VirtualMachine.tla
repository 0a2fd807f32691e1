---------------------------- MODULE VirtualMachine ----------------------------
(***************************************************************************)
(* The life of the programs of a model: type checked, compiled, perhaps    *)
(* analysed, then run by the virtual machine (vm/vm.hh), one instruction   *)
(* per step.                                                               *)
(*                                                                         *)
(* Every process has one program: the guard of an edge, or its statement.  *)
(* The model compiles them one after another; the programs are then run,   *)
(* each once, in an order that the states of the system decide.            *)
(***************************************************************************)
EXTENDS Compiler

CONSTANTS
  Programs,     \* what the programs of the processes can be: sequences
  Valuations    \* the values of the integer variables to start from: id -> value

IntIds == UNION {IdsOf(IntVars[n]) : n \in DOMAIN IntVars}
ClockIds == {0} \cup UNION {IdsOf(Clocks[n]) : n \in DOMAIN Clocks}

VARIABLES
  source,     \* the programs, as the parser built them
  typed,      \* their typed clones, so far
  errors,     \* the errors logged
  code,       \* their bytecode, so far
  stage,      \* "building", "abandoned", "ready", "running", "threw" or "killed"
  access,     \* the map of accesses, when the model asked for it
  ran,        \* process -> what its run returned
  turn,       \* the process whose program is built, or run
  pc, stack,
  intvars,    \* the valuation the run works on
  before,     \* the valuation it was given
  initial,    \* the valuation the first run was given
  clkconstr, clkreset

building == <<source, typed, errors, code>>
machine == <<pc, stack, intvars, before, clkconstr, clkreset>>
vars == <<building, stage, access, ran, turn, machine, initial>>

Processes == Len(source)
Pids == 1 .. Processes
IsStatement(program) == program.class \in {"nop", "assign", "sequence"}

Init ==
  /\ source \in Programs
  /\ typed = <<>> /\ code = <<>> /\ errors = 0
  /\ stage = "building"
  /\ access = EmptyMap
  /\ ran = <<>>
  /\ turn = 1
  /\ pc = 0 /\ stack = <<>>
  /\ intvars \in Valuations
  /\ before = intvars /\ initial = intvars
  /\ clkconstr = <<>> /\ clkreset = <<>>

-----------------------------------------------------------------------------
(* The construction of the model (fsm/details/model.hh).  An exception of   *)
(* the type checker is not caught; those of the compiler are logged.        *)

Build ==
  LET program == source[turn]
      checked == IF IsStatement(program) THEN TypecheckStatement(program)
                 ELSE LET c == Typecheck(program)
                      IN CheckedStatement(c.expr, c.errors, FALSE)
  IN /\ stage = "building" /\ Len(typed) = turn - 1
     /\ errors' = errors + checked.errors
     /\ IF checked.throws
        THEN stage' = "threw" /\ UNCHANGED typed
        ELSE typed' = Append(typed, checked.stmt) /\ UNCHANGED stage
     /\ UNCHANGED <<source, code, access, ran, turn, machine, initial>>

Compile ==
  LET stmt == typed[turn]
      compiled == IF IsStatement(source[turn]) THEN CompileStatement(stmt) ELSE CompileExpression(stmt)
      total == errors + (IF Throws(compiled) THEN 1 ELSE 0)
  IN /\ stage = "building" /\ Len(typed) = turn
     /\ code' = Append(code, IF Throws(compiled) THEN <<>> ELSE compiled)
     /\ errors' = total
     /\ turn' = IF turn < Processes THEN turn + 1 ELSE turn
     /\ stage' = CASE turn < Processes -> stage
                   [] total > 0        -> "abandoned"
                   [] OTHER            -> "ready"
     /\ UNCHANGED <<source, typed, access, ran, machine, initial>>

\* The clock bounds and the asynchronous model analyse the programs first.
AccessesOf(pid) ==
  IF IsStatement(source[pid]) THEN StatementAccesses(EmptyMap, typed[pid], pid)
  ELSE ExpressionAccesses(EmptyMap, typed[pid], pid)

Analyse ==
  /\ stage = "ready" /\ ran = <<>> /\ access = EmptyMap
  /\ IF \E pid \in Pids : AnalysisDies(typed[pid])
     THEN stage' = "killed" /\ UNCHANGED access
     ELSE access' = UNION {AccessesOf(pid) : pid \in Pids} /\ UNCHANGED stage
  /\ UNCHANGED <<building, ran, turn, machine, initial>>

-----------------------------------------------------------------------------
(* vm_t::run *)

Call(pid) ==
  /\ stage = "ready" /\ pid \notin DOMAIN ran
  /\ stage' = "running"
  /\ turn' = pid
  /\ pc' = 1
  /\ before' = intvars
  /\ UNCHANGED <<building, access, ran, stack, intvars, clkconstr, clkreset, initial>>

Instruction == code[turn][pc]
Parameter(n) == code[turn][pc + n]

Top(n) == stack[Len(stack) - n]
Popped(n) == SubSeq(stack, 1, Len(stack) - n)

\* The instruction that is interpreted next, when the stack holds n values at least.
Fetch(instruction, n) ==
  stage = "running" /\ Instruction = instruction /\ Len(stack) >= n

Advance(parameters) == pc' = pc + parameters + 1
Unmoved == UNCHANGED <<building, access, turn, before, initial>>
Continue == UNCHANGED <<stage, ran>>

\* Mutant: the stack is left as it is.
ThrowOnly == stage' = "threw" /\ UNCHANGED <<ran, pc, stack, intvars, clkconstr, clkreset>>

\* An exception clears the stack.
Throw ==
  /\ stage' = "threw" /\ stack' = <<>>
  /\ UNCHANGED <<ran, pc, intvars, clkconstr, clkreset>>

Return(value) ==
  /\ stage' = "ready" /\ stack' = <<>>
  /\ ran' = [pid \in DOMAIN ran \cup {turn} |-> IF pid = turn THEN value ELSE ran[pid]]
  /\ UNCHANGED <<pc, intvars, clkconstr, clkreset>>

Ret == Fetch(RET, 1) /\ Return(Top(0)) /\ Unmoved

Retz ==
  /\ Fetch(RETZ, 1) /\ Unmoved
  /\ IF Top(0) = 0 THEN Return(0)
     ELSE Advance(0) /\ Continue /\ UNCHANGED <<stack, intvars, clkconstr, clkreset>>

FailNotIn ==
  /\ Fetch(FAILNOTIN, 1) /\ Unmoved
  /\ IF Top(0) \in Parameter(1) .. Parameter(2)
     THEN Advance(2) /\ Continue /\ UNCHANGED <<stack, intvars, clkconstr, clkreset>>
     ELSE Throw

Push ==
  /\ Fetch(PUSH, 0) /\ Unmoved
  /\ stack' = Append(stack, Parameter(1))
  /\ Advance(1) /\ Continue
  /\ UNCHANGED <<intvars, clkconstr, clkreset>>

ValueAt ==
  /\ Fetch(VALUEAT, 1) /\ Unmoved
  /\ IF Top(0) \in IntIds
     THEN /\ stack' = Append(Popped(1), intvars[Top(0)])
          /\ Advance(0) /\ Continue
          /\ UNCHANGED <<intvars, clkconstr, clkreset>>
     ELSE Throw

Assign ==
  /\ Fetch(ASSIGN, 2) /\ Unmoved
  /\ IF Top(1) \in IntIds
     THEN /\ intvars' = [intvars EXCEPT ![Top(1)] = Top(0)]
          /\ stack' = Popped(2)
          /\ Advance(0) /\ Continue
          /\ UNCHANGED <<clkconstr, clkreset>>
     ELSE Throw

OperatorOf(instruction) ==
  CHOOSE op \in ArithmeticOperators \cup Predicates \cup {"&&"} :
    BinaryInstruction(op) = instruction

Kill ==
  /\ stage' = "killed"
  /\ UNCHANGED <<ran, pc, stack, intvars, clkconstr, clkreset>>

Binary ==
  /\ \E instruction \in LAND .. SUM : Fetch(instruction, 2)
  /\ LET op == OperatorOf(Instruction)
     IN IF Kills(op, Top(1), Top(0)) THEN Kill
        ELSE /\ stack' = Append(Popped(2), Applied(op, Top(1), Top(0)))
             /\ Advance(0) /\ Continue
             /\ UNCHANGED <<intvars, clkconstr, clkreset>>
  /\ Unmoved

Unary ==
  /\ Fetch(NEG, 1) \/ Fetch(LNOT, 1)
  /\ stack' = Append(Popped(1), IF Instruction = NEG THEN Wrap(-Top(0)) ELSE Truth(Top(0) = 0))
  /\ Advance(0) /\ Continue /\ Unmoved
  /\ UNCHANGED <<intvars, clkconstr, clkreset>>

Nop ==
  /\ Fetch(NOP, 0) /\ Advance(0) /\ Continue /\ Unmoved
  /\ UNCHANGED <<stack, intvars, clkconstr, clkreset>>

ClkConstr ==
  /\ Fetch(CLKCONSTR, 3) /\ Unmoved
  /\ IF {Top(1), Top(2)} \subseteq ClockIds
     THEN /\ clkconstr' = Append(clkconstr, [x |-> Top(2), y |-> Top(1),
                                            cmp |-> IF Parameter(1) = 0 THEN Strict ELSE Weak,
                                            value |-> Top(0)])
          /\ stack' = Popped(3)
          /\ Advance(1) /\ Continue
          /\ UNCHANGED <<intvars, clkreset>>
     ELSE Throw

\* The constructor of a reset refuses to reset the zero clock, and a negative value.
ClkReset ==
  /\ Fetch(CLKRESET, 3) /\ Unmoved
  /\ IF {Top(1), Top(2)} \subseteq ClockIds /\ Top(2) # 0 /\ Top(0) >= 0
     THEN /\ clkreset' = Append(clkreset, [x |-> Top(2), y |-> Top(1), value |-> Top(0)])
          /\ stack' = Popped(3)
          /\ Advance(0) /\ Continue
          /\ UNCHANGED <<intvars, clkconstr>>
     ELSE Throw

Interpret ==
  \/ Ret \/ Retz \/ FailNotIn \/ Push \/ ValueAt \/ Assign
  \/ Binary \/ Unary \/ Nop \/ ClkConstr \/ ClkReset

Next == Build \/ Compile \/ Analyse \/ (\E pid \in Pids : Call(pid)) \/ Interpret

Spec == Init /\ [][Next]_vars /\ WF_vars(Next)

-----------------------------------------------------------------------------
(* fsm_t: a guard is satisfied, a statement applied, when its run returns 1. *)
Accepted(pid) == ran[pid] = 1
=============================================================================
