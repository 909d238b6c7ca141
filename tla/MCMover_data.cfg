SPECIFICATION Spec
CONSTANTS
  j1 = j1  j2 = j2  fa = fa  fb = fb  t1 = t1  t2 = t2
  Jobs = {j1, j2}
  Folders = {fa}
  Files <- MCFiles
  FolderOf <- SameFolder
  NoJob = NoJob
  MaxWrites = 1
  MaxRequests = 1
  MaxCrashes = 1
  MaxToggles = 1
  LoopMayDie = TRUE
SYMMETRY Symmetry
CHECK_DEADLOCK FALSE
INVARIANTS TypeOK NoLoss
PROPERTIES PromiseKept
