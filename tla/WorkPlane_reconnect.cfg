SPECIFICATION FairSpec
CONSTANTS
  Executions = {e1}
  Workers = {w1}
  MaxConcurrent = 1
  Stoppable = {}
  Mortal = {}
  Unsendable = {}
  MaxRestarts = 1
  NoWorker = NoWorker
PROPERTIES
  ReconnectedIsKnown
CHECK_DEADLOCK FALSE
