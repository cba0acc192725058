SPECIFICATION FairSpec
CONSTANTS
  root = root
  cur = cur
  new = new
  sub = sub
  p1 = p1
  p2 = p2
  p3 = p3
  Root = root
  Paths = {p1, p2, p3}
  NoIndex = {sub}
  NoUpdate = {}
  TooBig = {p3}
  Modes = {"update"}
  TimeModulus = 1000
  EditsDuringRun = FALSE
  RenameSetsCtime = TRUE
  MaxNow = 2
  MaxEdits = 2
  MaxMoves = 2
  MaxInterrupts = 1
  WriteFaults = 1
  CommitFaults = 0
  BatchSize = 2
  MaxDocId = 6
  Dirs = {root, cur, sub}
  LeafDirs = {cur}
  Subdirs <- NestedTree
  DirOf <- AllInCur
  Bodies = {1, 2}
CHECK_DEADLOCK FALSE
INVARIANTS
  TypeOK
  StampsAreSound
  CompleteRunMirrors
PROPERTIES
  EventuallyMirrors
