SPECIFICATION SubSpec
CONSTANTS
  k1 = k1
  k2 = k2
  k3 = k3
  Keys = {k1, k2, k3}
  Layouts <- ThreeRows
  ClientOps = {"update", "insert", "delete"}
  MaxOps = 2
  MaxOthers = 1
  MaxFaults = 0
INVARIANTS
  OtherRowsAreKept
CHECK_DEADLOCK FALSE
