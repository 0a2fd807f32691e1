CONSTANTS
  s1 = s1
  s2 = s2
  Slots <- MCSlots
  Parts <- MCParts
  Enrolled <- MCEnrolled
  OutputMayThrow = FALSE
SPECIFICATION FairSpec
INVARIANT TypeOK
INVARIANT StoppedBeforeDestruction
INVARIANT Ownership
PROPERTY StopReturns
CHECK_DEADLOCK FALSE
