SPECIFICATION Spec
CONSTANTS
  IntVars <- MCIntVars
  Clocks <- MCClocks
  Names = {"i", "t", "x", "y", "u"}
  Literals = {0, 1, 2, 3}
  Width = 3
  Programs <- MCPrograms
  Valuations <- MCValuations
  ClockValues = {0, 1, 2, 3, 5}
INVARIANT RunsSafely
INVARIANT MeansItsSource
PROPERTY AccessesAreForeseen
CHECK_DEADLOCK FALSE
