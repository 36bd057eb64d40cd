SPECIFICATION FairSpec
CONSTANTS
  JobIDs = {j1, j2}
  Workers = {w1, w2}
  NoJob = NoJob
  MaxRetries = 2
  BufferSize = 1
  DBFaults = TRUE
  MaxRestarts = 2
INVARIANTS
  MemoryMatchesTable
  AcceptedIsDurable
  OneWorkerPerJob
  OnlyExhaustedJobsFail
PROPERTIES
  ImplementsLedger
  AcceptedJobsSettle
CHECK_DEADLOCK FALSE
