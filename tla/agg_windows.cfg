SPECIFICATION FairSpec
CONSTANTS
  r1 = r1
  Readers <- OneReader
  Meta <- Mixed
  numShards = 2
  shardIndex <- ByPort
  srcIPShardIndex <- ByHost
  maxFlowsPerShard = 1
  maxPortsPerSrcIP = 1
  overflowPortKey = 99
  outputBufferSize = 1
  minIATSamplesForVariance = 1
  MaxPackets = 3
  MaxRejected = 1
  MaxWindows = 1
INVARIANTS
  TypeOK
  CountersExact
  Conservation
  EntropyNotFromFuture
  NothingLeftBehind
  TrackersExact
  Bounded
PROPERTIES
  RunEnds
CHECK_DEADLOCK FALSE
