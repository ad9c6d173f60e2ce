SPECIFICATION Spec
CONSTANTS
  o1 = o1
  o2 = o2
  o3 = o3
  x1 = x1
  x2 = x2
  x3 = x3
  p1 = p1
  Objects = {o1, o2, o3}
  Contents = {x1, x2, x3}
  Paths = {p1}
  FilesOf <- MCFilesOf
  Vaults <- MCVaults
  FirstConnections <- MCFirstConnections
  Items = {i1, i2}
  Runs = {r1, r2}
  None = None
  PageSize = 1
  MaxEdits = 1
  MaxPuts = 1
  MaxCrashes = 1
INVARIANTS IndexerTypeOK OneRunAtATime VaultIndexed
PROPERTIES WatchersServed
CHECK_DEADLOCK FALSE
