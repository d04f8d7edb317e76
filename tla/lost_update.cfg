SPECIFICATION Spec
CONSTANTS
  t1 = t1
  t2 = t2
  t3 = t3
  A = A
  B = B
  NoTxn = NoTxn
  Txns = {t1, t2, t3}
  Tables = {A, B}
  OpenOrder <- OpenCrosswiseAndOne
  Ops <- AppendAThenUseB
  ReadOnly = {}
  Level0 = FALSE
  Level1 = TRUE
  Serializable = TRUE
  MaxRedos = 1
  LeasesEnd = FALSE
  MayCrash = {}
  FaultKinds = {}
  MaxFaults = 0
  MaxVersion = 6
INVARIANTS
  NoFileRemovedTwice
CHECK_DEADLOCK FALSE
