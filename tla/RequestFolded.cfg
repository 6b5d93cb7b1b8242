SPECIFICATION RequestSpec
CONSTANTS
  Keys <- MCKeys
  EmptyKey = ""
  NoColon = "no colon"
  Values <- MCValues
  MAX_LINE = 4
  Json <- MCJson
  Names <- MCNames
  Heads <- MCHeads
  Bodies <- MCBodies
  MaxHeaderLines = 3
  MaxFields = 0
  MaxParts = 0
INVARIANTS
  ContinuationsFolded
CHECK_DEADLOCK FALSE
