SPECIFICATION Spec
CONSTANTS
  d1 = d1
  m1 = m1
  l1 = l1
  Daemons <- OneDaemon
  Monitors <- OneMonitor
  Loaders <- OneLoader
  Maps <- TwoMaps
  LevelNames <- SomeNames
  Severities <- LowAndHigh
  RingSize = 1
  Overlap = TRUE
  MaxLoads = 2
  MaxKills = 1
INVARIANTS
  DaemonMissesNothing
