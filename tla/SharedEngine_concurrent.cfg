SPECIFICATION Spec
CONSTANTS
  Runs = {r1, r2}
  NodesPerRun = 1
  Concurrency = 2
  EmptyCallees = FALSE
  MaxDepths = {0}
  Nobody = Nobody
SYMMETRY Symmetry
INVARIANTS
  ConcurrentRunsAreApart
CHECK_DEADLOCK FALSE
