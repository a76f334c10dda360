SPECIFICATION FairSpec
CONSTANTS
  MaxPooledSessions = 1
  VirtualIps = {1}
  MasterCloses = {}
  MaxTokens = 1
  MayReauth = FALSE
  MayDispose = TRUE
CHECK_DEADLOCK FALSE
PROPERTY StopReturns
