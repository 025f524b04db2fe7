\* Two files, two writes (of one file or of both), removals, a restart, a failing statement,
\* a list of one.
SPECIFICATION FairSpec
CONSTANTS
  Files = {f1, f2}
  Batch = 1
  Unreadable = {}
  SameSecond = FALSE
  MaxWrites = 2
  MaxTime = 2
  MaxRestarts = 1
  MaxFaults = 1
  None = None
INVARIANTS RowsMatchDisk MtimeVouchesForHash
PROPERTY EveryFileGetsHashed
CHECK_DEADLOCK FALSE
