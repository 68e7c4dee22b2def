SPECIFICATION ClosingSpec
CONSTANTS
  Letter = {1, 2}
  NULL = 0
  MaxLength = 2
  Nodes = 8
  Buckets = 2
  Added = 2
  Word <- MCWord
  Universe <- MCUniverse
  Node <- MCNode
  Fresh <- MCFresh
  Hash <- MCHash
PROPERTY
  FrozenByClose
