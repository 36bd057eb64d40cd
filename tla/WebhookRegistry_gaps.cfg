\* What fails here: every property below. Run TLC with -workers 1 -continue to
\* see each invariant, and without the invariants to see the action property.
SPECIFICATION Spec
CONSTANTS
  w1 = w1
  w2 = w2
  p1 = p1
  p2 = p2
  p3 = p3
  None = None
  Workflows <- MCWorkflows
  Paths <- MCPaths
  PathsOf <- SharedPaths
  IDs = {i1, i2}
  Handlers = {h1, h2}
  Faults = FALSE
  Reposts = TRUE
  MaxRestarts = 1
INVARIANTS
  InactiveIsNotServed
  ServedIsStored
  Reconciled
PROPERTY ReconciledByRestart
