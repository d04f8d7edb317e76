SPECIFICATION FairSpec
CONSTANTS
  t1 = t1
  t2 = t2
  t3 = t3
  A = A
  B = B
  NoTxn = NoTxn
  Txns = {t1, t2}
  Tables = {A, B}
  OpenOrder <- OpenCrosswise
  Ops <- Update
  ReadOnly = {}
  Level0 = TRUE
  Level1 = TRUE
  Serializable = TRUE
  MaxRedos = 0
  LeasesEnd = TRUE
  MayCrash = {t1}
  FaultKinds = {"load", "head"}
  MaxFaults = 1
  MaxVersion = 6
INVARIANTS
  EndedLeavesNoMarker
PROPERTIES
  EveryTransactionEnds
