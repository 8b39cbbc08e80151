SPECIFICATION SetupSpec
CONSTANTS
  KeyPaths = {p1, p2}
  Emails = {e1, e2}
  Passwords = {w1}
  Logs = {l1}
  Ports = {2050}
  None = None
  MaxRuns = 2
  MaxConsole = 2
INVARIANTS NewPairServed AdminAsEntered
SYMMETRY MCSymmetry
CHECK_DEADLOCK FALSE
