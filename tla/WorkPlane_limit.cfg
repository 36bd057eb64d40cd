\* What fails here: every invariant below. Run TLC with -workers 1 -continue to see each.
SPECIFICATION Spec
CONSTANTS
  Executions = {e1, e2}
  Workers = {w1}
  MaxConcurrent = 1
  Stoppable = {w1}
  Mortal = {}
  Unsendable = {}
  MaxRestarts = 0
  NoWorker = NoWorker
INVARIANTS
  ConcurrencyIsBounded
  StopLosesNothing
CHECK_DEADLOCK FALSE
