SPECIFICATION FairSpec
CONSTANTS
  j1 = j1  j2 = j2  fa = fa  fb = fb  t1 = t1  t2 = t2
  Jobs = {j1, j2}
  Folders <- MCFolders
  Files = {t1}
  FolderOf <- OwnFolder
  NoJob = NoJob
  MaxWrites = 0
  MaxRequests = 2
  MaxCrashes = 1
  MaxToggles = 0
  LoopMayDie = FALSE
CHECK_DEADLOCK FALSE
INVARIANTS OneAtATime CompleteIsDelivered
PROPERTIES ForeignPartialKept QueuedIsSettled
