SPECIFICATION Spec
CONSTANTS
  p1 = p1
  p2 = p2
  p3 = p3
  alias = alias
  missing = missing
  relative = relative
  md1 = md1
  md2 = md2
  Null = Null
  Paths = {p1, p2, p3}
  Bodies = {"b"}
  Dirs = {}
  MaxDocId = 4
  BatchSize = 2
  mu1 = mu1
  mu2 = mu2
  Procs = {mu1, mu2}
  CommandLines <- MCCommandLines
  RealPath <- MCRealPath
  Relative = {relative}
  Matching <- MCMatching
  Subdir <- MCSubdir
  MaxStarts = 2
  Indexings <- MCIndexings
  MaxTroubles = 2
  MaxFaults = 1
SYMMETRY Symmetry
CHECK_DEADLOCK FALSE
INVARIANTS
  TypeOK
PROPERTIES
  OkMeansDone
  RightCommandsSucceed
