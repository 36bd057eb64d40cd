SPECIFICATION FairSpec
CONSTANTS
  Nodes = {n1, n2}
  IDs = {s1}
  Stoppable = {n1}
  Readds = FALSE
  MaxElections = 3
INVARIANTS
  OnlyLeadersTick
PROPERTIES
  OneNodeTicks
  LeaderServes
CHECK_DEADLOCK FALSE
