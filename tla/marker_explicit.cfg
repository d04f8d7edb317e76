SPECIFICATION Spec
CONSTANTS
  t1 = t1
  t2 = t2
  t3 = t3
  A = A
  B = B
  NoTxn = NoTxn
  Txns = {t1, t2, t3}
  Tables = {A, B}
  OpenOrder <- OpenTwoTwoOne
  Ops <- ReadOneUpdateOther
  ReadOnly = {}
  Level0 = FALSE
  Level1 = TRUE
  Serializable = TRUE
  MaxRedos = 1
  LeasesEnd = FALSE
  MayCrash = {}
  FaultKinds = {"giveup"}
  MaxFaults = 1
  MaxVersion = 7
INVARIANTS
  AcknowledgedAreSerializable
  AcknowledgedIsInTheLog
  AbortedLeftNothing
CHECK_DEADLOCK FALSE
