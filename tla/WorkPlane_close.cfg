SPECIFICATION FairSpec
CONSTANTS
  Executions = {e1}
  Workers = {w1}
  MaxConcurrent = 1
  Stoppable = {}
  Mortal = {}
  Unsendable = {}
  MaxRestarts = 0
  NoWorker = NoWorker
PROPERTIES
  CloseReturns
CHECK_DEADLOCK FALSE
