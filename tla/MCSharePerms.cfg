SPECIFICATION Spec
CONSTANTS
  w1 = w1
  w2 = w2
  w3 = w3
  cu1 = cu1
  a = a
  b = b
  c = c
  Workers = {w1, w2, w3}
  ShareOf <- MCShareOf
  Names = {a, b, c}
  Depth = 2
  ClientUsers = {cu1}
  UidOf <- MCUidOf
  AnyUid = AnyUid
  DefaultPerms <- MCDefault
  GrantPerms <- MCGrants
  Tree0 <- MCTree
  Entered <- MCEntered
  UsedOps <- MCOps
  UsedPaths <- MCPaths
  MaxOps = 2
INVARIANTS ActsGranted RowsFollowFiles
SYMMETRY MCSymmetry
CHECK_DEADLOCK FALSE
