SPECIFICATION Spec
CONSTANTS
  w1 = w1
  w2 = w2
  Workers = {w1, w2}
  a = a
  b = b
  Paths = {a, b}
  LongPaths = {b}
  i1 = i1
  i2 = i2
  Inodes = {i1, i2}
  Root = Root
  Reals = {3, 4, 5}
  MaxFake = 2
  None = None
  Closed = Closed
SYMMETRY Symmetry
INVARIANTS FdsOpen FdsDistinct ActsOnNamed
PROPERTIES LeakedNeverTouched ImplementsHandleTable
