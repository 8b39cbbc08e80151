SPECIFICATION Spec
\* An unmounted client stops.
CHECK_DEADLOCK FALSE
CONSTANTS
  h1 = h1
  h2 = h2
  a = a
  b = b
  i1 = i1
  i2 = i2
  Handles = {h1, h2}
  Paths = {a, b}
  Inodes = {i1, i2}
  MaxFake = 2
  MaxOff = 1
  MaxSize = 1
  BatchLimit = 1
  MaxWrites = 4
  Budgets <- MCBudgets
  None = None
  Garbage = Garbage
SYMMETRY Symmetry
INVARIANTS BufferFaithful AckedNotLost
  WritesFindTheirFile GarbageOnlyInTornWrite PassesOnlyWaitingWrites NeverStuck
PROPERTIES OrderKept CallsProgress
