SPECIFICATION Spec
CONSTANTS
  JobIDs = {j1, j2}
  Workers = {w1, w2}
  NoJob = NoJob
  MaxRetries = 3
  BufferSize = 2
INVARIANT FailedAfterAllRetries
CHECK_DEADLOCK FALSE
