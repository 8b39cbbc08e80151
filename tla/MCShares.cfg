SPECIFICATION Spec
CONSTANTS
  Users = {1, 2}
  Names = {n1, n2}
  Perms = {r, w}
  Paths = {dir, file}
  Dirs = {dir}
  Editors = {e1, e2}
  Sessions = {s1}
  MaxKey = 3
  MaxSaves = 2
INVARIANTS ListComplete AccessAsShown SessionsFromForms StraysOnlyToNewer
SYMMETRY MCSymmetry
CHECK_DEADLOCK FALSE
