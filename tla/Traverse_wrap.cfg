SPECIFICATION Spec
CONSTANTS
  Letter = {1, 2}
  NULL = 0
  Nodes = 3
  Markers = 4
  Node <- MCNode
  Graph <- MCGraph
INVARIANTS
  VisitedOnce
  ChildrenFirst
  MarkerFresh
PROPERTY
  Returns
