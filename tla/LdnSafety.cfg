SPECIFICATION Spec
CONSTANTS
  VirtualIps = {1}
  MaxInbox = 2
  ServerPushes = {"Disconnect"}
  Scans = {1}
  Calls <- ScanAndHostCalls
INVARIANTS TypeOK IndInv NoSelfDeadlock NetworkDisarmsTimeout TimeoutNeverSpins NoLostWakeup FinalizedIsQuiet
