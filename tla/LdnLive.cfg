SPECIFICATION FairSpec
CONSTANTS
  VirtualIps = {1}
  MaxInbox = 1
  ServerPushes = {"SyncNetwork"}
  Scans = {1}
  Calls <- StationCalls
PROPERTIES CallsReturn
