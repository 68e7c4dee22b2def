SPECIFICATION FairSpec
CONSTANTS
  Letter = {1, 2}
  NULL = 0
  MaxLength = 3
  Nodes = 10
  Buckets = 2
  Added = 1
  Word <- MCWord
  Universe <- MCUniverse
  Node <- MCNode
  Fresh <- MCFresh
  Hash <- MCHash
INVARIANTS
  TypeOK
  RegistryValid
  UnsharedTail
  NoDangling
  NoLeak
  Minimal
  GraphOfWords
  SummaryExact
  RegistryReady
PROPERTIES
  ImplementsWordSet
  CallsReturn
