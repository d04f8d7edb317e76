SPECIFICATION Spec
CONSTANTS
  t1 = t1
  t2 = t2
  t3 = t3
  A = A
  B = B
  C = C
  Creator = Creator
  Engine = Engine
  NoWriter = NoWriter
  Txns = {t1, t2, t3}
  Tables = {A}
  OpenOrder <- OpenA
  Ops <- AllUpdate
  ReadOnly = {}
  Listed = {A}
  Serializable = TRUE
  Repair = FALSE
  RepairAfter = 2
  CheckAtBegin = FALSE
  MayCrash = {t1}
  SlowHolders = FALSE
  FaultKinds = {}
  MaxFaults = 0
  MaxForeign = 0
  MaxVersion = 3
INVARIANTS
  LockIsExclusive
