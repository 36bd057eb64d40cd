SPECIFICATION BreakerFairSpec
CONSTANTS
  Calls = {c1, c2, c3}
  FailureThreshold = 2
  SuccessThreshold = 2
  MaxConcurrentCalls = 2
  MaxFailureCount = 4
INVARIANTS
  ProbesAreLimited
  HalfOpenStartsClean
PROPERTIES
  HalfOpenEnds
CHECK_DEADLOCK FALSE
