SPECIFICATION FairSpec
CONSTANTS
  VirtualIps = {1}
  MaxInbox = 1
  ServerPushes = {}
  Scans = {1}
  Calls <- HostCalls
PROPERTIES IdleConnectionTimesOut
