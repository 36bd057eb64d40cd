SPECIFICATION BreakerSpec
CONSTANTS
  Calls = {c1, c2, c3}
  FailureThreshold = 5
  SuccessThreshold = 3
  MaxConcurrentCalls = 1
  MaxFailureCount = 6
SYMMETRY Symmetry
INVARIANTS
  HalfOpenLimitsConcurrency
CHECK_DEADLOCK FALSE
