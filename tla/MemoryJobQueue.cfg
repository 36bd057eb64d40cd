SPECIFICATION FairSpec
CONSTANTS
  JobIDs = {j1, j2, j3}
  Workers = {w1, w2}
  NoJob = NoJob
  MaxRetries = 2
  BufferSize = 2
INVARIANTS
  JobsConserved
  RunningIsHeld
  StatusAgrees
  StopDrainsRunning
PROPERTIES
  ImplementsLedger
  AcceptedJobsSettle
  StopTerminates
CHECK_DEADLOCK FALSE
