SPECIFICATION Spec
CONSTANTS
  root = root
  cur = cur
  new = new
  sub = sub
  p1 = p1
  p2 = p2
  p3 = p3
  Root = root
  Paths = {p1, p2}
  NoIndex = {}
  NoUpdate = {cur}
  TooBig = {}
  Modes = {"update", "reindex", "rebuild"}
  TimeModulus = 1000
  EditsDuringRun = TRUE
  RenameSetsCtime = TRUE
  MaxNow = 2
  MaxEdits = 2
  MaxMoves = 1
  MaxInterrupts = 1
  WriteFaults = 0
  CommitFaults = 1
  BatchSize = 2
  MaxDocId = 3
  Dirs = {root, cur, new}
  LeafDirs = {cur, new}
  Subdirs <- MaildirTree
  DirOf <- NewThenCur
  Bodies = {1, 2}
CHECK_DEADLOCK FALSE
INVARIANTS
  ReindexMirrors
