\* Two requests at once, saves and selections, with pulls under way.
SPECIFICATION Spec
CONSTANTS
  Roots = {r1, r2}
  First = r1
  Req = {q1, q2}
  Faults = {"watcher", "db"}
  Kinds = {"select", "post"}
  Empty = Empty
  Mixed = Mixed
  NoFile = NoFile
  None = None
INVARIANTS RuntimeAgrees PageShowsRoot LoneSaveIsWhole InventoryIsOnDisk
PROPERTY SelectionIsApplied
SYMMETRY Interchangeable
CHECK_DEADLOCK FALSE
