\* automode alone pulls, with every fault: what one pull at a time guarantees.
SPECIFICATION Spec
CONSTANTS
  old = old
  new = new
  Files = {1, 2}
  IndexFiles = {2}
  Versions = {old, new}
  Commits = {1, 2}
  Listing <- MCListing
  NBlocks = 2
  Hand = {}
  Automode = automode
  Faults = {"network", "mkdir", "db", "crash"}
  MaxCrashes = 2
  Hole = Hole
  NoFile = NoFile
  None = None
INVARIANTS TypeOK FinalNeverTorn
PROPERTIES PulledIsComplete UpsertedIsOnDisk ImplementsFolder
CHECK_DEADLOCK FALSE
