SPECIFICATION CacheSpec
CONSTANTS
  p1 = p1
  Paths = {p1}
  Bodies = {"list", "mine", "late"}
  Dirs = {}
  MaxDocId = 1
  MaxStamp = 1
  BatchSize = 2
  WriteFaults = 0
  CommitFaults = 1
  MaxUnsaved = 2
  Mails <- MCMails
  Group <- MCGroup
  MyAddresses = {"me@h"}
  LocalAddresses = {"root"}
  NoName = NoName
  Broken = Broken
  IntLimit = 4
  SaveFaults = 1
  Patterns <- MCPatterns
CHECK_DEADLOCK FALSE
INVARIANTS
  ContactsAreKept
  ListedWasSeen
  TxnFlagsAgree
PROPERTIES
  FlushIsDurable
