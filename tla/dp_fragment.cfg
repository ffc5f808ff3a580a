SPECIFICATION Spec
CONSTANTS
  a = a
  lo = lo
  zero = zero
  hostA = hostA
  net = net
  Hosts <- AllHosts
  ZeroIP = zero
  Loopback <- LoopbackHosts
  Keys <- HostAndNet
  Covers <- Overlapping
  Octets <- Addresses
  LpmKey <- HostAndNetKeys
  Ports <- TwoPorts
  Packets <- AllPackets
  BurstCapacity = 1
  Levels <- OnOff
INVARIANTS
  BlacklistDropsFragments
