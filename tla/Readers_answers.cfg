SPECIFICATION ReadersSpec
CONSTANTS
  EmptyWord = FALSE
  Wildcard = {1, 4}
  Universe <- MCUniverse
  Asked <- MCAsked
  Pattern <- MCPattern
INVARIANTS
  IndexIsRank
  WordHasIndex
  AnswersExact
  DumpIsAutomaton
  YieldsMatching
PROPERTY
  ReadersReturn
