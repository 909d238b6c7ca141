SPECIFICATION Spec
CONSTANTS
  a = a  b = b  c = c  f = f  g = g
  Paths = {a, b, c}
  Files = {f, g}
  NoFile = NoFile
  MaxPlans = 2
  MaxOutside = 1
  MaxCrashes = 1
SYMMETRY Symmetry
CHECK_DEADLOCK FALSE
INVARIANTS TypeOK
PROPERTIES NothingLost UndoRestores
