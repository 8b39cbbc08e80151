SPECIFICATION Spec
CONSTANTS
  Users = {u1, u2}
  Admins = {u1}
  Certs = {c1, c2}
  Names = {n1}
  Infos = {i1, i2}
  Uids = {0}
  Attempts = {a1, a2}
  Approvers = {v1, v2}
  Sessions = {s1}
  MaxClients = 2
  MaxStops = 1
  Empty = Empty
  None = None
INVARIANTS NoRequestLost ToldIsTrue ClientsFromRequests RowsFromOwner
SYMMETRY MCSymmetry
CHECK_DEADLOCK FALSE
