\* Violated: two pulls that write the same name mix their blocks.
SPECIFICATION Spec
CONSTANTS
  old = old
  new = new
  Files = {1, 2}
  IndexFiles = {2}
  Versions = {old, new}
  Commits = {1, 2}
  Listing <- MCListing
  NBlocks = 2
  Hand = {h1}
  Automode = automode
  Faults = {}
  MaxCrashes = 0
  Hole = Hole
  NoFile = NoFile
  None = None
INVARIANT FinalNeverTorn
CHECK_DEADLOCK FALSE
