SPECIFICATION RequestSpec
CONSTANTS
  Keys <- MCKeys
  EmptyKey = ""
  NoColon = "no colon"
  Values <- MCValues
  MAX_LINE = 4
  Json <- MCJson
  Names <- MCNames
  Heads <- MCHeads
  Bodies <- MCBodies
  MaxHeaderLines = 4
  MaxFields = 2
  MaxParts = 2
INVARIANTS
  HeaderLinesKept
  LineLimit
  CloseObeyed
  QueryParsed
  PartsParsed
  JsonFlattened
CHECK_DEADLOCK FALSE
