SPECIFICATION FairSpec
CONSTANTS
  Users = {u1}
  Worker = Worker
  N = 2
  MaxAsks = 2
CHECK_DEADLOCK FALSE
INVARIANTS WholeGroupIsQueued NothingForgotten
PROPERTIES RecordsOnlyGrow EveryDownloadEnds
