\* What fails here: every invariant below. Run TLC with -workers 1 -continue to see each.
SPECIFICATION Spec
CONSTANTS
  Nodes = {n1, n2}
  IDs = {s1}
  Stoppable = {n1}
  Readds = TRUE
  MaxElections = 2
INVARIANTS
  OneNodeAtATime
  AcceptedIsKept
  EnabledTicksOnLeader
  StoppedStaysStopped
  ElectorIsCurrent
  OnlyLeadersTick
CHECK_DEADLOCK FALSE
