SPECIFICATION Spec
CONSTANTS
  MaxConns = 2
  MaxDrops = 1
  MaxCalls = 1
  MaxMounts = 1
  maxRetryCount = 3
  root = root
  ann = ann
  bob = bob
  Names = {root, ann, bob}
  Passwds <- MCPasswds
  NoName = NoName
  Absent = Absent
INVARIANT SyncAssertion
CHECK_DEADLOCK FALSE
