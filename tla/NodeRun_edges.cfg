SPECIFICATION Spec
CONSTANTS
  Nodes <- MCNodes
  Workflows <- RoutingWorkflows
  Inputs <- MCInputs
  BatchSize = 2
  MaxIterations = 2
  Failures = FALSE
INVARIANT TakenIsCarried
