SPECIFICATION FairLogSpec
CONSTANTS
  None = None
  Accounts = {a1, a2}
  Tasks = {t1, t2}
  Blobs = {b1}
  MaxSeq = 2
  PoolSize = 3
INVARIANTS
  LogInv
  CommittedKept
PROPERTIES
  CoversMonotone
  ImplementsJournal
  PutEnds
