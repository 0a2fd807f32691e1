SPECIFICATION ModelSpec
CONSTANTS
  IntMax = 63
  Dim = 3
  LocNumber = 7
  ClockNumber = 3
  Pid <- MCPid
  Unit = 3
  Narrow = 6
  Wide = 11
  Limit = 3
  Length = 5
  LastValue = 5
  Networks <- MCNetworks
  Syntaxes <- MCSyntaxes
  Failed = Failed
INVARIANT TypeOK
INVARIANT LeastBounds
INVARIANT BoundsSimulate
INVARIANT StepExact
INVARIANT PathsKept
INVARIANT SyncExact
CHECK_DEADLOCK FALSE
