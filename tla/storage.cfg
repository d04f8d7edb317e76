SPECIFICATION StorageSpec
CONSTANTS
  p = p
  q = q
  c1 = c1
  c2 = c2
  Paths = {p, q}
  CkClients = {c1, c2}
  CkMax = 2
  Interval = 1
  Histories <- SomeHistories
  Parts = 2
  Expiry = 2
  HeadFaults = FALSE
  CkRetries = 2
  Creators = {"a", "b"}
  Droppers = {"x", "y"}
  Nobody = "nobody"
  Locations <- OldLocations
  DeleteFaults = FALSE
  TlCrashes = 1
  CreateRetries = 2
INVARIANTS
  StorageTypeOK
  SnapshotIsItsVersion
  CheckpointsAreSnapshots
  NoTableWithoutItsData
  DropCanBeCompleted
  CreatedTableIsTheirs
  EntryIsOfThisTable
PROPERTIES
  LastCheckpointMovesForward
CHECK_DEADLOCK FALSE
SYMMETRY TwoClients
