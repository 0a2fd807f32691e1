SPECIFICATION Spec
CONSTANTS
  Processes = {1, 2, 3}
  Systems <- MCSystems
INVARIANT EnumeratesGlobalEdges
PROPERTY MovesAlongGlobalEdges
PROPERTY EnumerationsEnd
CHECK_DEADLOCK FALSE
