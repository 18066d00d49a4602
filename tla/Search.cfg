SPECIFICATION SearchSpec
CONSTANTS
  Name <- Names
  Cache <- SortedCaches
  Dir <- Dirs
  NoDir = ""
  NoName = 0
  World <- Worlds
  MaxChange = 1
  MaxLen = 5
  MaxText = 4
INVARIANT LookupCorrect
INVARIANT FirstMatch
INVARIANT NotLoadedTwice
INVARIANT ScriptLibs
PROPERTY SearchReturns
CHECK_DEADLOCK FALSE
