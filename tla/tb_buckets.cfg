SPECIFICATION Spec
CONSTANTS
  c1 = c1
  c2 = c2
  CPUs <- TwoCPUs
  NanosPerToken = 2
  BurstCapacity = 2
  MaxTime = 9
  MaxAdmitted = 9
  MaxEvictions = 1
INVARIANTS
  TypeOK
  BalanceInRange
  RateBound
CHECK_DEADLOCK FALSE
PROPERTIES
  NeverStarved
