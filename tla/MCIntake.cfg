SPECIFICATION Spec
CONSTANTS
  c1 = c1  c2 = c2  x = x  y = y
  Callers = {c1, c2}
  Contents = {x, y}
  Gone = Gone
  MaxGens = 4
  MaxStagings = 2
  MaxRequests = 4
  MaxEvents = 1
SYMMETRY Symmetry
CHECK_DEADLOCK FALSE
INVARIANTS TypeOK FreshTransfer AdoptedOnce
