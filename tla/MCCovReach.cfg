CONSTANTS
  a = a
  b = b
  c = c
  d = d
  States <- MCStates
  TransitionSystems <- MCTransitionSystems
SPECIFICATION FairSpec
INVARIANT TypeOK
INVARIANT Verdict
INVARIANT SubsumptionGraph
INVARIANT NonRedundant
PROPERTY ImplementsReachability
PROPERTY Termination
CHECK_DEADLOCK FALSE
