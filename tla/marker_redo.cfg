SPECIFICATION Spec
CONSTANTS
  t1 = t1
  t2 = t2
  t3 = t3
  A = A
  B = B
  NoTxn = NoTxn
  Txns = {t1, t2}
  Tables = {A}
  OpenOrder <- OpenA
  Ops <- Update
  ReadOnly = {}
  Level0 = TRUE
  Level1 = TRUE
  Serializable = TRUE
  MaxRedos = 2
  LeasesEnd = TRUE
  MayCrash = {t1}
  FaultKinds = {"reserve", "load", "commit", "release"}
  MaxFaults = 1
  MaxVersion = 9
INVARIANTS
  TypeOK
  ReservedVersionIsOursOrEmpty
  NoFileRemovedTwice
  CommitsReadTheirPredecessors
PROPERTIES
  ImplementsVersionLog
