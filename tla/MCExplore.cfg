SPECIFICATION Spec
CONSTANTS
  a = a
  b = b
  c = c
  d = d
  States <- MCStates
  TransitionSystems <- MCTransitionSystems
  MaxFailures = 0
INVARIANT BreadthFirst
PROPERTY WritesReachableGraph
PROPERTY Ends
CHECK_DEADLOCK FALSE
