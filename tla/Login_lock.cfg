SPECIFICATION FairSpec
\* When a username is locked for good and no flow is left, every request is refused
\* and none changes the state: the system stops there.
CHECK_DEADLOCK FALSE
CONSTANTS
  None = None
  Usernames = {u1}
  AccountIds = {i1}
  Flows = {f1, f2}
  Handlers = {h1, h2}
  MaxFailures = 2
PROPERTIES
  LockEnds
