\* More files than the channel holds, more changes while they are announced; a request
\* and automode pull when the process is told to end.
SPECIFICATION FairProcessSpec
CONSTANTS
  Cap = 2
  Existing = 3
  MaxWrites = 1
  MaxRemoves = 1
  Faults = {"nofolder"}
  Requests = {r1}
  Automode = auto
INVARIANTS ProcessTypeOK StoppedIsQuiet WorkersEndBeforeClose FanOutsEndBeforeClose
PROPERTIES EventsAreDrained FolderIsEmitted StopCompletesWithRoom ProcessEnds StuckTimersKeepNobody
CHECK_DEADLOCK FALSE
