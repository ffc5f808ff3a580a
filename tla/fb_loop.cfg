SPECIFICATION FairSpec
CONSTANTS
  h1 = h1
  h2 = h2
  gw = gw
  lo = lo
  net = net
  Malformed = Malformed
  IPs <- AllHosts
  CIDRs <- Nets
  StaticSafe <- Loopback
  Discoverable <- Gateway
  MaxEntries = 2
  BlockTTL = 3
  janitorInterval = 2
  Failing <- AnyFailure
  MaxStops = 2
INVARIANTS
  TypeOK
  TrackedIsBlocked
  BlocksAccounted
  UnblockDelayBounded
PROPERTIES
  UnblockOnlyExpired
  ExemptNeverPushed
  ImplementsBlocklist
  AutoBlockExpires
