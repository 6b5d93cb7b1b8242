SPECIFICATION FairHttpSpec
CONSTANTS
  Wires <- ChunkedWires
  Requests = 1
  MaxHeader = 6
  MaxBody = 2
  ReadBlock = 3
  MaxPieces = 1
  Pipelining = FALSE
  Failing = FALSE
  Breaks = TRUE
PROPERTIES
  ConnectionEnds
CHECK_DEADLOCK FALSE
