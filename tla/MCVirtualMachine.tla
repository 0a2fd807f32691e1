--------------------------- MODULE MCVirtualMachine ---------------------------
(* Instances of ProgramSemantics: programs of a few rules of the grammar.   *)
EXTENDS ProgramSemantics

MCIntVars == [n \in {"i", "t"} |->
                IF n = "i" THEN [id |-> 0, size |-> 1, min |-> 0, max |-> 2]
                ELSE [id |-> 1, size |-> 2, min |-> -1, max |-> 1]]
MCClocks == [n \in {"x", "y"} |->
               IF n = "x" THEN [id |-> 1, size |-> 1] ELSE [id |-> 2, size |-> 2]]

MCValuations ==
  {[id \in 0 .. 2 |-> CASE id = 0 -> 0 [] id = 1 -> 1  [] id = 2 -> -1],
   [id \in 0 .. 2 |-> CASE id = 0 -> 2 [] id = 1 -> -1 [] id = 2 -> 0]}

\* i, x, t, y, an undeclared name; 0 .. 3 with -4 .. 3 the integers.
Terminals == integer \cup variable_term
i == VarExpression("i")
Elements == lvalue_term({i, IntExpression(1), IntExpression(3)}) \ variable_term
\* Terms of one operator, and some terms of two.
Small == integer \cup {i, VarExpression("x")}
One == Parenthesised(Small) \cup Negated(Small) \cup Products(Terminals, Small) \cup Sums(Terminals, Small)
Ints == {i, IntExpression(2), ArrayExpression(VarExpression("t"), i)}
Factors == Products(Ints, {i, UnaryExpression("-", i)})
Two == Sums(Ints, Factors) \cup Products(Parenthesised(Sums(Ints, {i})), {i, IntExpression(2)})
         \cup Negated(Negated({i}))
Terms == Terminals \cup Elements \cup One \cup Two

\* Clocks, their differences, and some things that are not.
ClockTerms ==
  variable_term \cup Elements \cup Parenthesised({VarExpression("x")})
    \cup Sums({VarExpression("x")} \cup Elements, {VarExpression("x"), ArrayExpression(VarExpression("y"), i)})
Bounds == {i, IntExpression(1), ArrayExpression(VarExpression("t"), IntExpression(1)),
           BinaryExpression("-", i, IntExpression(3))}
Predicate == predicate_formula(ClockTerms, Bounds)
               \cup predicate_formula(Ints, Ints \cup {IntExpression(0)})
ClockAtoms == predicate_formula({VarExpression("x"), BinaryExpression("-", ArrayExpression(VarExpression("y"), IntExpression(0)), VarExpression("x"))}, {i})
Atoms == {i, BinaryExpression("/", IntExpression(1), i),
          ArrayExpression(VarExpression("t"), i), UnaryExpression("!", i)} \cup ClockAtoms
Conjunctions == non_atomic_conjunctive_formula(Atoms, Atoms)
Formulas ==
  Predicate \cup Not({f \in Predicate : f.right = i}) \cup Parenthesised({f \in Predicate : f.right = i})
    \cup Conjunctions
    \cup non_atomic_conjunctive_formula({i, BinaryExpression(">", VarExpression("x"), i)},
           {f \in Conjunctions : f.left \in {i} \cup ClockAtoms} \cup Parenthesised({f \in Conjunctions : f.right = i}))

Lvalues == variable_term \cup Elements
Rvalues == Terms \cup Sums({i, IntExpression(2), VarExpression("x")},
                           Elements \cup Parenthesised({VarExpression("x")}))
             \cup Parenthesised(Sums({i}, {VarExpression("x")}))
Assignments ==
  assignment({VarExpression("i"), VarExpression("t"), VarExpression("x")}, Rvalues)
    \cup assignment(Lvalues, {i, IntExpression(1), VarExpression("x"), BinaryExpression("+", i, VarExpression("x"))})
Basic ==
  assignment({i, VarExpression("x")}, {IntExpression(1), BinaryExpression("+", i, VarExpression("x")), BinaryExpression("-", i, IntExpression(1))})
    \cup assignment({ArrayExpression(VarExpression("t"), i), ArrayExpression(VarExpression("y"), IntExpression(1))}, {i, VarExpression("x")})
    \cup {NopStatement}
Sequences == sequence_statement(Basic, Basic)
Threes == sequence_statement({s \in Sequences : s.first.class # "nop" /\ s.first # s.second},
                             {AssignStatement(i, IntExpression(2)), AssignStatement(VarExpression("x"), i)})

One1(programs) == {<<p>> : p \in programs}
OneProcess == One1(Terms \cup Formulas \cup Assignments \cup {NopStatement} \cup Sequences \cup Threes)

\* Two processes: each a statement.
TwoProcesses ==
  LET s == Basic \cup assignment({ArrayExpression(VarExpression("t"), IntExpression(1)),
                                  ArrayExpression(VarExpression("t"), IntExpression(0))}, {i, IntExpression(1)})
  IN s \X s

MCPrograms == OneProcess \cup TwoProcesses
=============================================================================
