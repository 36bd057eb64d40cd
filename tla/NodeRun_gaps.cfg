\* What fails here: every invariant below. Run TLC with -workers 1 -continue to see each.
SPECIFICATION Spec
CONSTANTS
  Nodes <- MCNodes
  Workflows <- GapWorkflows
  Inputs <- MCInputs
  BatchSize = 2
  MaxIterations = 2
  Failures = FALSE
INVARIANTS
  LoopEdgesAreTaken
  BatchesAreSeparate
  LoopInputIsServed
  RetryBodyRuns
  FallbackArrives
