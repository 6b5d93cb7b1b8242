SPECIFICATION FairEchoSpec
CONSTANTS
  p1 = p1
  p2 = p2
  Listener = Listener
  Peers <- MCPeers
  Objects <- MCObjects
  NoPeer = NoPeer
  Fds = {3, 4, 5, 6}
  Held = {6}
  Addrs = {a1, a2}
  NoFd = NoFd
  NoAddr = NoAddr
  BufSize = 2
  MaxFaults <- MCMaxFaults
  Welcome = 2
  MaxIn <- MCMaxIn
  MaxRoom = 1
INVARIANTS
  OneHandlerEach
  HandlersOwnSockets
PROPERTIES
  NullNeedsFullTable
  ImplementsEcho
  AllAccepted
  GoneIsClosed
CHECK_DEADLOCK FALSE
