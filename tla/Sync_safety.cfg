SPECIFICATION SyncSpec
CONSTANTS
  a1 = a1
  a2 = a2
  d1 = d1
  d2 = d2
  d3 = d3
  None = None
  Accounts = {a1}
  Tasks = {d1, d2}
  AccountOf <- OneAccount
  Sockets = {}
  Pollers = {}
  Blobs <- SnapshotContents
  MaxSeq = 3
  PoolSize = 10
  Limit = 1
  Overclaim = 0
SYMMETRY Symmetry
INVARIANTS
  SyncInv
  NoGap
  NothingLost
  HonestClaimAccepted
