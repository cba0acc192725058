SPECIFICATION Spec
CONSTANTS
  BuildGuile = FALSE
  Malformed = Malformed
  MaxHeaders = 1
  MaxCopies = 1
  MaxServers = 2
  MaxAsked = 2
  MaxKills = 1
  MaxFaults = 1
  Commands <- MCCommands
CHECK_DEADLOCK FALSE
INVARIANTS
  ProcTypeOK
  FindsAreNotMixed
PROPERTIES
  DialogImplemented
  ConversationsSettle
