SPECIFICATION FairSpec
CONSTANTS
  MaxPooledSessions = 2
  VirtualIps = {1}
  MasterCloses = {1}
  MaxTokens = 1
  MayReauth = FALSE
  MayDispose = FALSE
CHECK_DEADLOCK FALSE
PROPERTY AcceptReturns
