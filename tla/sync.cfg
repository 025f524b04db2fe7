\* One media file, an index that is rewritten, two commits at once; announcements get lost, one more trouble.
SPECIFICATION FairSpec
CONSTANTS
  Media <- OneMedia
  Index = 3
  Twin <- OwnContents
  Last <- WrittenOnce
  Ids = {c1, c2}
  Automode = automode
  Hand = {click}
  Windows = {}
  Troubles = {"deletes", "network", "restart", "removes", "clicks"}
  MaxTroubles = 1
  None = None
PROPERTIES DeltaLeavesNothingOut ImplementsCopy CatchesUp MediaStopTravelling
CHECK_DEADLOCK FALSE
