SPECIFICATION FairSpec
CONSTANTS
  None = None
  s1 = s1
  s2 = s2
  garbage = garbage
  p1 = p1
  p2 = p2
  r1 = r1
  r2 = r2
  ServerOf <- SmallServerOf
  Processes = {p1, p2}
  Requests = {r1, r2}
  Secrets = {s1, s2}
  Environments <- SmallEnvironments
  Migrations = 2
INVARIANTS
  Inv
  OneSecret
  ServesMigrated
  OneManager
  ReadyMeansReached
  RefusedMeansUnknown
PROPERTIES
  WaitsEnd
  StopsUnlessHeld
