SPECIFICATION Spec
CONSTANTS
  h1 = h1
  h2 = h2
  gw = gw
  lo = lo
  net = net
  Malformed = Malformed
  IPs <- TwoHosts
  CIDRs <- Nets
  StaticSafe <- NoHosts
  Discoverable <- NoHosts
  MaxEntries = 2
  BlockTTL = 2
  janitorInterval = 1
  Failing <- NoFailure
  MaxStops = 1
INVARIANTS
  NoUntrackedBlock
