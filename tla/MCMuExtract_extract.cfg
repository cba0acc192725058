SPECIFICATION Spec
CONSTANTS
  Null = Null
  BuildCrypto = TRUE
  Depth = 3
  c1 = c1
  c2 = c2
  c3 = c3
  c4 = c4
  c5 = c5
  c6 = c6
  Cleaned <- CleanNames
  Objects <- AllObjects
  Mails <- AllMails
  Requests <- AllRequests
  Faults = {"write", "short", "close", "kill", "play"}
  Strangers <- Others
  MaxJobs = 2
  MaxEdits = 1
CHECK_DEADLOCK FALSE
INVARIANTS
  TypeOK
  SavedIsWhatWasAsked
  FlaggedHasAttachments
  VerifiedIsSigned
PROPERTIES
  NothingIsClobbered
