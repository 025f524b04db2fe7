\* The author works on Windows: nothing else goes wrong.
SPECIFICATION FairSpec
CONSTANTS
  Media <- OneMedia
  Index = 3
  Twin <- OwnContents
  Last <- WrittenOnce
  Ids = {c1, c2}
  Automode = automode
  Hand = {click}
  Windows = {"sender"}
  Troubles = {}
  MaxTroubles = 1
  None = None
PROPERTY NothingToSendMeansInSync
CHECK_DEADLOCK FALSE
