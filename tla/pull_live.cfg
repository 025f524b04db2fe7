\* A click and automode pull at the same time, the network fails at will: what survives,
\* and that everything announced gets an outcome.
SPECIFICATION FairSpec
CONSTANTS
  old = old
  new = new
  Files = {1}
  IndexFiles = {}
  Versions = {old, new}
  Commits = {1, 2}
  Listing <- MCShared
  NBlocks = 1
  Hand = {h1}
  Automode = automode
  Faults = {"network"}
  MaxCrashes = 0
  Hole = Hole
  NoFile = NoFile
  None = None
INVARIANTS NoLeftoverPart PullingIsInProgress
PROPERTIES PulledFilesExist PullsOnlyAdvance PullSettles AnnouncedIsTakenUp
CHECK_DEADLOCK FALSE
