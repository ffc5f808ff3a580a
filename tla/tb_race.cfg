SPECIFICATION Spec
CONSTANTS
  c1 = c1
  c2 = c2
  CPUs <- TwoCPUs
  NanosPerToken = 2
  BurstCapacity = 2
  MaxTime = 7
  MaxAdmitted = 7
  MaxEvictions = 1
INVARIANTS
  HardCap
CHECK_DEADLOCK FALSE
