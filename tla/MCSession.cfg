SPECIFICATION Spec
CONSTANTS
  MaxConns = 2
  MaxDrops = 2
  MaxCalls = 2
  MaxMounts = 2
  maxRetryCount = 3
  root = root
  ann = ann
  bob = bob
  Names = {root, ann, bob}
  Passwds <- MCPasswds
  NoName = NoName
  Absent = Absent
PROPERTIES CallsSettle WorkersEnd
CHECK_DEADLOCK FALSE
INVARIANTS InStep NoMutualWait RowsFromPasswd
