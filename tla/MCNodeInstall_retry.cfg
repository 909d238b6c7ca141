SPECIFICATION Spec
CONSTANTS
  MaxInstalls = 2
  MaxRequests = 1
  MaxVersion = 1
  Broken = {}
  MaxEvents = 0
CHECK_DEADLOCK FALSE
INVARIANTS RetryClearsErrors
