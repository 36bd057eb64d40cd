SPECIFICATION Spec
CONSTANTS
  Runs = {r1, r2, r3}
  NodesPerRun = 2
  Concurrency = 1
  EmptyCallees = FALSE
  MaxDepths = {0, 10}
  Nobody = Nobody
SYMMETRY Symmetry
INVARIANTS
  ResultCoversTree
  AccumulatorIsOwn
  ContextIsNotAnothers
  DataIsOneRuns
CHECK_DEADLOCK FALSE
