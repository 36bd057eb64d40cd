SPECIFICATION StoreSpec
CONSTANTS
  Replicas = {n1, n2}
  Keys = {k1}
  Values = {v1, v2}
  Absent = Absent
  MaxLog = 4
SYMMETRY Symmetry
INVARIANTS
  NothingIsMissing
  NothingLingers
CHECK_DEADLOCK FALSE
