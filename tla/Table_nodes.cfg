SPECIFICATION TableSpec
CONSTANTS
  Node = {1, 2, 3}
  Letter = {1, 2, 3}
  NULL = 0
  Width = 4
  InitialSize = 1
  MaxSize = 4
  HashValue = {0, 1, 2, 3, 4, 5, 6, 7, 8, 9, 10, 11, 12}
  Hash <- MCHash
  Edited <- MCEdited
INVARIANTS
  EquivalentFound
  CountExact
PROPERTIES
  ImplementsKeySet
  ImplementsChildMap
  CallsReturn
