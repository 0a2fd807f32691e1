CONSTANTS
  Lines <- MCLines
  Headers <- MCHeaders
  MaxLines = 3
  IntMax = 1
  Kinds = {"fsm", "ta"}
  KeyMax = 2
  VarIdMax = 4
  MaxGenerations = 3
  Null = Null
SPECIFICATION Spec
INVARIANT FileDecides
INVARIANT DescribedByTheFile
INVARIANT FreedOnce
CHECK_DEADLOCK FALSE
