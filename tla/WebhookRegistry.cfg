SPECIFICATION Spec
CONSTANTS
  w1 = w1
  w2 = w2
  p1 = p1
  p2 = p2
  p3 = p3
  None = None
  Workflows <- MCWorkflows
  Paths <- MCPaths
  PathsOf <- OwnPaths
  IDs = {i1, i2}
  Handlers = {h1, h2}
  Faults = TRUE
  Reposts = FALSE
  MaxRestarts = 1
SYMMETRY Symmetry
VIEW LiveState
INVARIANTS
  ServedIsStored
  Reconciled
