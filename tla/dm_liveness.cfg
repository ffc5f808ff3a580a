SPECIFICATION FairSpec
CONSTANTS
  f1 = f1
  f2 = f2
  f3 = f3
  f4 = f4
  Flows <- FourFlows
  Malicious <- ThreeMalicious
  outputBufferSize = 2
  alertBufferSize = 1
CHECK_DEADLOCK FALSE
INVARIANTS
  TypeOK
  NoAlertLost
PROPERTIES
  ShutdownCompletes
  AlertArrives
