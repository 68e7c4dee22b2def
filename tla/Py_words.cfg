SPECIFICATION Spec
CONSTANTS
  Letter = {1, 2}
  NULL = 0
  q0 = 1
  Nodes = 10
  Word <- MCWord
  Universe <- MCUniverse
  Node <- MCNode
  Objects <- MCObjects
INVARIANTS
  HoldsAdded
  MinimalWhenFrozen
  IndicesExact
