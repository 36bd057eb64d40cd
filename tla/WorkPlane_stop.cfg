SPECIFICATION FairSpec
CONSTANTS
  Executions = {e1}
  Workers = {w1}
  MaxConcurrent = 1
  Stoppable = {w1}
  Mortal = {}
  Unsendable = {}
  MaxRestarts = 0
  NoWorker = NoWorker
PROPERTIES
  StopReturns
CHECK_DEADLOCK FALSE
