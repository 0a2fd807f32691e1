CONSTANTS
  IntMax = 7
  Dim = 3
  Limit = 1
  Constraints <- MCConstraints
  Resets <- MCResets
  Comparable <- MCComparable
  ClockBounds <- MCClockBounds
  Nothing = Nothing
SPECIFICATION Spec
INVARIANT Canonical
INVARIANT OperationsExact
INVARIANT ComparisonsExact
INVARIANT ExtrapolationSound
CHECK_DEADLOCK FALSE
