CONSTANTS
  Nil = Nil
  Nodes <- MCNodes
  Edges <- MCEdges
  Key <- MCKey
  TableSize = 2
  NotAPosition = 2
SPECIFICATION FairSpec
INVARIANT Positions
INVARIANT Lists
PROPERTY ImplementsGraph
PROPERTY LoopsEnd
CHECK_DEADLOCK FALSE
