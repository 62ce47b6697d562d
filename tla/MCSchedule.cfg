CONSTANTS
  Node <- MCNode
  Edge <- MCEdge4
  NoNode = NoNode
  NoEdge = NoEdge
  Weights = {0, 2}
  Graphs <- MCGraphs
SPECIFICATION FairSpec
INVARIANTS
  TypeOK
  VerdictIsCycle
  OrderIsTopological
  EarliestSolves
  SlackIsNatural
  CriticalPathHasNoSlack
PROPERTY Terminates
CHECK_DEADLOCK FALSE
