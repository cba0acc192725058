SPECIFICATION Spec
CONSTANTS
  Null = Null
  NoInfo = NoInfo
  SameMaildir = SameMaildir
  t1 = t1
  t2 = t2
  t3 = t3
  t4 = t4
  i1 = i1
  i2 = i2
  i3 = i3
  BuildCrypto = TRUE
  Depth = 3
  Cleaned <- CleanNames
  Objects <- AllObjects
  NewlyNamed <- NewMaildirs
  IllFormed = {"odd"}
  Asciified <- AsciiNames
  AtCommas <- Splits
  Mails <- AllMails
  Paths <- ThePaths
  RealMdir <- Links
  Asked <- Requests
  MaxChanges = 2
CHECK_DEADLOCK FALSE
INVARIANTS
  WellFormed
  AnswersAreTrue
  TextIsSearchable
PROPERTIES
  MoveKeepsAll
