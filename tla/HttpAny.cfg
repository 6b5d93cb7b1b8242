SPECIFICATION HttpSpec
CONSTANTS
  Wires <- AllWires
  Requests = 2
  MaxHeader = 6
  MaxBody = 2
  ReadBlock = 3
  MaxPieces = 2
  Pipelining = TRUE
  Failing = TRUE
  Breaks = TRUE
INVARIANTS
  HttpTypeOK
  ServedInOrder
  BodiesArePrefixes
  BodiesWhole
  BodiesBounded
  HeadersBounded
  OutputInFrames
CHECK_DEADLOCK FALSE
