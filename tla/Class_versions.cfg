SPECIFICATION ClassSpec
CONSTANTS
  Letter = {1, 2}
  NULL = 0
  MaxLength = 2
  Nodes = 9
  Buckets = 2
  Added = 6
  Word <- MCWord
  Universe <- MCUniverse
  Node <- MCNode
  Fresh <- MCFresh
  Hash <- MCHash
  Copies <- MCCopies
  AddsAfterRestore = FALSE
  Iterator = {it}
  Clients = {"stores", "counts", "iterates", "numbers"}
  IterateOverLoad = FALSE
  Adds <- MCAdds
  MaxVersion <- MCMaxVersion
INVARIANTS
  ConsistentUnlessRestored
  LoadedWhole
  SummaryExact
  StatsExact
  IteratorValid
  NumbersExact
PROPERTY
  ImplementsStoredSet
