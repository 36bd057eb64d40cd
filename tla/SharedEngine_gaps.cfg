\* What fails here: every invariant below. Run TLC with -workers 1 -continue to see each.
SPECIFICATION Spec
CONSTANTS
  Runs = {r1, r2, r3}
  NodesPerRun = 2
  Concurrency = 1
  EmptyCallees = TRUE
  MaxDepths = {0, 1}
  Nobody = Nobody
SYMMETRY Symmetry
INVARIANTS
  NodesGetTheirRun
  ResultCoversTree
  EdgesDoNotLeak
  NestingBounded
CHECK_DEADLOCK FALSE
