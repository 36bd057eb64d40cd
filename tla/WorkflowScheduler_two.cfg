SPECIFICATION Spec
CONSTANTS
  IDs = {s1, s2}
  Crons = {c1, c2}
  Goroutines = {g1, g2}
  MaxRuns = 1
  StorageSet = TRUE
  LoadErrors = TRUE
  MaxTicks = 3
  NoCron = NoCron
  NoID = NoID
SYMMETRY Symmetry
INVARIANTS
  Inv
  TypeOK
  RunsBounded
  EnabledIsTicking
  OnlyTrackedTicks
  GaugesAgree
  HistoryAgrees
CHECK_DEADLOCK FALSE
