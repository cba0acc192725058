SPECIFICATION Spec
CONSTANTS
  Paths = {p1, p2}
  Bodies = {b1}
  Dirs = {d1}
  MaxDocId = 3
  MaxStamp = 1
  BatchSize = 2
  WriteFaults = 1
  CommitFaults = 0
  MaxUnsaved = 3
SYMMETRY Symmetry
CHECK_DEADLOCK FALSE
INVARIANTS
  TypeOK
  BatchIsBounded
  DurableIsReadable
  DocidNamesOneMessage
PROPERTIES
  LossIsReported
