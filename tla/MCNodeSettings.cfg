SPECIFICATION FairSpec
CONSTANTS
  s1 = s1  s2 = s2  d1 = d1  d2 = d2
  Slots = {s1, s2}
  Drives = {d1, d2}
  DefaultMap <- OneLink
  Roots = {p1, p2}
  DefaultRoot = p1
  r1 = r1  r2 = r2
  Routes = {r1, r2}
  Calls <- OneOfAll
  Loop = Loop
  None = None
  MaxAsks = 4
  MaxCrashes = 1
CHECK_DEADLOCK FALSE
INVARIANTS TypeOK DriveRippedOnce
PROPERTIES PathIsKept RequestIsServed
