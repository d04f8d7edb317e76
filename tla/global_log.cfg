SPECIFICATION FairSpec
CONSTANTS
  t1 = t1
  t2 = t2
  t3 = t3
  A = A
  B = B
  C = C
  Creator = Creator
  Engine = Engine
  NoWriter = NoWriter
  Txns = {t1, t2, t3}
  Tables = {A, B, C}
  OpenOrder <- OpenCrosswise
  Ops <- WriteSkew
  ReadOnly = {t3}
  Listed = {A, B, C}
  Serializable = TRUE
  Repair = TRUE
  RepairAfter = 2
  CheckAtBegin = TRUE
  MayCrash = {t2}
  SlowHolders = FALSE
  FaultKinds = {"read", "lock", "claim"}
  MaxFaults = 1
  MaxForeign = 1
  MaxVersion = 4
INVARIANTS
  LockIsExclusive
  GlobalLogIsACut
  AcknowledgedAreSerializable
PROPERTIES
  EntriesMoveForward
  EveryTransactionEnds
