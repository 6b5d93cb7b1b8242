SPECIFICATION FairHttpSpec
CONSTANTS
  Wires <- GoodWires
  Requests = 2
  MaxHeader = 6
  MaxBody = 2
  ReadBlock = 3
  MaxPieces = 1
  Pipelining = FALSE
  Failing = FALSE
  Breaks = FALSE
PROPERTIES
  ImplementsHttp
  EveryRequestAnswered
CHECK_DEADLOCK FALSE
