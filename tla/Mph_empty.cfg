SPECIFICATION ReadersSpec
CONSTANTS
  EmptyWord = TRUE
  Wildcard = {}
  Universe <- MCUniverse
  Asked <- MCAsked
  Pattern = {}
PROPERTY
  CallsReturn
