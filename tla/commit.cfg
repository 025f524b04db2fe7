\* A request and automode commit at the same time, statements fail, the process
\* ends and starts again.
SPECIFICATION Spec
CONSTANTS
  Files = {mdb, mxf}
  Index = mdb
  Hand = {h1}
  Automode = automode
  Faults = {"db", "crash"}
  Races = {"during"}
  MaxVersion = 1
  MaxMdb = 1
  MaxCommits = 2
  Returning = {mxf}
  Clicked = {mxf}
  None = None
INVARIANTS CommittedIsSent SendsOnce
CHECK_DEADLOCK FALSE
