\* Two authors, a commit with an index of each; Avid is opened twice or more; a fault.
SPECIFICATION FairSpec
CONSTANTS
  Own = own
  a1 = a1
  a2 = a2
  Received <- TwoAuthors
  Commits = {1, 2}
  From <- FirstOrSecond
  WithIndex = {1, 2}
  BusyWindow = 1
  RecentWindow = 3
  MaxWrites = 2
  MaxFaults = 1
  Fresh = FALSE
  None = None
INVARIANT TypeOK
PROPERTIES GateIsSafe AnnouncedIsTaken
CHECK_DEADLOCK FALSE
