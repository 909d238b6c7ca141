SPECIFICATION FairSyncSpec
CONSTANTS
  j1 = j1  j2 = j2  loop = loop  now = now
  Jobs = {j1}
  Polls = {loop, now}
  Loop = loop
  MaxFaults = 2
  MaxRestarts = 1
INVARIANTS SyncTypeOK QueuedWasRipped
PROPERTIES HistorySettles CompleteIsQueued
