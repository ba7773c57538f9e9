SPECIFICATION SyncSpec
CONSTANTS
  a1 = a1
  a2 = a2
  d1 = d1
  d2 = d2
  d3 = d3
  None = None
  Accounts = {a1, a2}
  Tasks = {d1, d3}
  AccountOf <- TwoOwners
  Sockets = {d1}
  Pollers = {}
  Blobs <- SnapshotContents
  MaxSeq = 2
  PoolSize = 10
  Limit = 1
  Overclaim = 1
INVARIANTS
  CoverIsReal
  NudgeVisible
  Isolated
