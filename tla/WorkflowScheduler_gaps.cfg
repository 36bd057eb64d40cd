\* What fails here: every invariant below. Run TLC with -workers 1 -continue to see each.
SPECIFICATION Spec
CONSTANTS
  IDs = {s1}
  Crons = {c1, c2}
  Goroutines = {g1, g2}
  MaxRuns = 2
  StorageSet = FALSE
  LoadErrors = FALSE
  MaxTicks = 2
  NoCron = NoCron
  NoID = NoID
SYMMETRY Symmetry
INVARIANTS
  OverlappingIsSkipped
  ReplacedIsSilent
  RescheduledIsTicking
  RunsGetTheirWorkflow
CHECK_DEADLOCK FALSE
