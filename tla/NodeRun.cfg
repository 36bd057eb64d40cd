SPECIFICATION Spec
CONSTANTS
  Nodes <- MCNodes
  Workflows <- MCWorkflows
  Inputs <- MCInputs
  BatchSize = 2
  MaxIterations = 2
  Failures = TRUE
INVARIANTS
  OrderIsTopological
  DeliveredIsRun
  LoopServesEveryItem
  RunsAreBounded
