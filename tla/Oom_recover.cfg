SPECIFICATION OomSpec
CONSTANTS
  Letter = {1, 2}
  NULL = 0
  MaxLength = 3
  Nodes = 10
  Buckets = 2
  Added = 5
  Word <- MCWord
  Universe <- MCUniverse
  Node <- MCNode
  Fresh <- MCFresh
  Hash <- MCHash
  MaxLeaked = 1
  AddsAfterFailure = FALSE
INVARIANTS
  ReadableAfterFailure
  RecoveredByClear
  CountExact
PROPERTY
  ImplementsFallibleSet
