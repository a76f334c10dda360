SPECIFICATION Spec
CONSTANTS
  MaxPooledSessions = 2
  VirtualIps = {1, 2}
  MasterCloses = {1}
  MaxTokens = 1
  MayReauth = FALSE
  MayDispose = TRUE
CHECK_DEADLOCK FALSE
INVARIANTS TypeOK SlotsConsistent PlayersAreActive FreeSlotIsQuiet
PROPERTY MappingStaysDeleted
