SPECIFICATION FairSpec
CONSTANTS
  r1 = r1  r2 = r2  loop = loop  now = now
  Requests = {r1, r2}
  NoRequest = NoRequest
  Polls = {loop, now}
  Loop = loop
  MaxAttempts = 1
  MaxFaults = 1
  MaxOutages = 1
CHECK_DEADLOCK FALSE
INVARIANTS TypeOK GivesUp OneRipPerRequest
PROPERTIES PendingIsServed
