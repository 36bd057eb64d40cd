SPECIFICATION StoreSpec
CONSTANTS
  Replicas = {n1, n2}
  Keys = {k1}
  Values = {v1}
  Absent = Absent
  MaxLog = 3
SYMMETRY Symmetry
INVARIANTS
  ReplicasAgree
CHECK_DEADLOCK FALSE
