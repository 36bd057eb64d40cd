SPECIFICATION Spec
CONSTANTS
  JobIDs = {j1, j2, j3}
  Workers = {w1, w2}
  NoJob = NoJob
  MaxRetries = 2
  BufferSize = 2
  DBFaults = TRUE
  MaxRestarts = 1
INVARIANTS
  MemoryMatchesTable
  AcceptedIsDurable
  OneWorkerPerJob
  OnlyExhaustedJobsFail
  AttemptsBounded
  Inv
PROPERTIES
  ImplementsLedger
CHECK_DEADLOCK FALSE
