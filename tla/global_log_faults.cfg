SPECIFICATION FairSpec
CONSTANTS
  t1 = t1
  t2 = t2
  t3 = t3
  A = A
  B = B
  C = C
  Creator = Creator
  Engine = Engine
  NoWriter = NoWriter
  Txns = {t1, t2, t3}
  Tables = {A, B}
  OpenOrder <- OpenOpposite
  Ops <- ReadersAndWriters
  ReadOnly = {t3}
  Listed = {A, B}
  Serializable = FALSE
  Repair = TRUE
  RepairAfter = 2
  CheckAtBegin = FALSE
  MayCrash = {t1, t2}
  SlowHolders = TRUE
  FaultKinds = {"head", "read", "lock", "claim", "publish", "unlock"}
  MaxFaults = 2
  MaxForeign = 0
  MaxVersion = 2
INVARIANTS
  TypeOK
  ListedVersionsExist
  NoLostUpdate
PROPERTIES
  EveryTransactionEnds
