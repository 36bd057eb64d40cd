SPECIFICATION FairSpec
CONSTANTS
  JobIDs = {j1, j2, j3}
  Workers = {w1}
  NoJob = NoJob
  MaxRetries = 2
  BufferSize = 1
  DBFaults = FALSE
  MaxRestarts = 0
PROPERTY AcceptedJobsAreProcessed
CHECK_DEADLOCK FALSE
