SPECIFICATION SocketSpec
CONSTANTS
  Objects = {o1, o2, o3}
  Fds = {3, 4, 5}
  Addrs = {a1, a2, a3}
  NoFd = NoFd
  NoAddr = NoAddr
SYMMETRY Symmetric
INVARIANTS
  DescriptorsOwned
  AddressesOwned
PROPERTY
  NoClientDescriptorLost
