SPECIFICATION Spec
CONSTANTS
  m1 = m1
  m2 = m2
  Names = {m1, m2}
  Mdirs = {"inbox"}
  Flags = {"new", "seen"}
  Paths <- AllPaths
  Bodies = {b1}
  MsgIdOf <- OneMsgId
  Dirs = {}
  MaxMail = 3
  MaxKills = 1
  WriteFaults = 1
  BatchSize = 2
  MaxDocId = 2
SYMMETRY Symmetry
CHECK_DEADLOCK FALSE
INVARIANTS
  TypeOK
  ActsOnWhatWasMeantInSession
  AnswersAreTrue
  DocsHaveFiles
