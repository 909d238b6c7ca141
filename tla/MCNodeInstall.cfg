SPECIFICATION Spec
CONSTANTS
  MaxInstalls = 2
  MaxRequests = 1
  MaxVersion = 2
  Broken = {2}
  MaxEvents = 1
CHECK_DEADLOCK FALSE
INVARIANTS TokenAgrees UpdateIsSound
PROPERTIES RipsAreSpared
