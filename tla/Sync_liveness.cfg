SPECIFICATION FairSyncSpec
CONSTANTS
  a1 = a1
  a2 = a2
  d1 = d1
  d2 = d2
  d3 = d3
  None = None
  Accounts = {a1}
  Tasks = {d1, d2}
  AccountOf <- OneAccount
  Sockets = {}
  Pollers = {d1}
  Blobs <- SnapshotContents
  MaxSeq = 2
  PoolSize = 10
  Limit = 0
  Overclaim = 0
INVARIANTS
  LatestTrusted
PROPERTIES
  CursorMonotone
  ImplementsReplica
  Converges
