SPECIFICATION FairSpec
CONSTANTS
  IDs = {s1}
  Crons = {c1, c2}
  Goroutines = {g1, g2}
  MaxRuns = 1
  StorageSet = TRUE
  LoadErrors = TRUE
  MaxTicks = 2
  NoCron = NoCron
  NoID = NoID
INVARIANTS
  RunsBounded
  EnabledIsTicking
  OnlyTrackedTicks
  HistoryAgrees
PROPERTIES
  TicksSettle
CHECK_DEADLOCK FALSE
