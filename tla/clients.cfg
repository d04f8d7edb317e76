SPECIFICATION ClientsSpec
CONSTANTS
  Chars = {1, 2}
  Tie = 2
  MaxLength = 3
  Numbers <- Z
  OtherNumbers = {2}
  Prefix = 2
  WriterPrefixes = {2, 3}
  MaxRows = 1
  NullStats = FALSE
  MinLong <- Longs16
  MaxLong = 15
  MinInt <- Int8
  MaxInt = 7
  Rate <- Units
  GivenSchemas <- SomeTables
  Atoms <- SomeAtoms
  MappedPartitions = FALSE
  Bankers = {"b1", "b2"}
  BankLayouts = {"Query", "MultiTable", "SeparateTables"}
  Amounts = {1, 2}
  Opening = 5
  WriteFaults = {"add"}
  MaxBankOps = 2
  Loops = 2
  LoadOrder <- Two
  ScaleTables <- Three
  UncheckedBegins = FALSE
  k1 = k1
  k2 = k2
  k3 = k3
  Keys = {k1, k2, k3}
  Layouts <- OneOrTwoFiles
  ClientOps = {"update", "insert", "delete"}
  MaxOps = 2
  MaxOthers = 1
  MaxFaults = 1
  ClockClients = {"client"}
  Resolution = 3
  RefreshAfter = 1
  Offsets <- SmallOffsets
  MaxSamples = 4
  MaxJumps = 2
  ClockMaxTime = 8
  m1 = m1
  m2 = m2
  LeaseClients = {m1, m2}
  NoClient = NoClient
  Lease = 4
  Grace = 1
  MarginCap = 2
  MaxUncertainty = 2
  LeaseMaxTime = 12
INVARIANTS
  ClientsTypeOK
  KeyRowsAreFound
  ReadsWhatWasWritten
  SchemaIsReadAsWritten
  RowsAreRefusedForAReason
  BooksMatchTheBalances
  RowsGoToTheirTable
  ReportsWhatWasCommitted
  SequentialUpdatesAreRedone
  OtherRowsStay
  EstimateHoldsTheTruth
  HolderStopsFirst
  BlockedForTheLeaseOnly
CHECK_DEADLOCK FALSE
SYMMETRY TwoHolders
