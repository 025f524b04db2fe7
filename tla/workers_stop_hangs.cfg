\* Violated: the scope is stopped while emitExisting has more files than fit.
SPECIFICATION FairSpec
CONSTANTS
  Cap = 2
  Existing = 4
  MaxWrites = 0
  MaxRemoves = 0
  Faults = {}
PROPERTY StopCompletes
CHECK_DEADLOCK FALSE
