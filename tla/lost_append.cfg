SPECIFICATION Spec
CONSTANTS
  t1 = t1
  t2 = t2
  t3 = t3
  A = A
  B = B
  NoTxn = NoTxn
  Txns = {t1, t2}
  Tables = {A}
  OpenOrder <- OpenA
  Ops <- UpdateAndAppend
  ReadOnly = {}
  Level0 = TRUE
  Level1 = TRUE
  Serializable = TRUE
  MaxRedos = 2
  LeasesEnd = TRUE
  MayCrash = {}
  FaultKinds = {}
  MaxFaults = 0
  MaxVersion = 7
INVARIANTS
  AcknowledgedIsInTheLog
