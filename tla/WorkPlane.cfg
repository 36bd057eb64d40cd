SPECIFICATION FairSpec
CONSTANTS
  Executions = {e1, e2}
  Workers = {w1}
  MaxConcurrent = 1
  Stoppable = {w1}
  Mortal = {w1}
  Unsendable = {e2}
  MaxRestarts = 1
  NoWorker = NoWorker
INVARIANTS
  DrainKeepsTracked
PROPERTIES
  QueuedIsReported
  OfflineIsNoticed
  BeatsBringBack
CHECK_DEADLOCK FALSE
