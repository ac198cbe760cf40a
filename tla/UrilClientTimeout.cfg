SPECIFICATION FairSpec
CONSTANTS
  Calls = {s1, a1}
  SyncCalls = {s1}
  DefaultCalls = {}
  NestedCalls = {}
  IndCbs = {FALSE}
  DefaultCbs = {TRUE}
  NoCall = NoCall
  MaxPendingOps = 2
  ConnectAttempts = 1
  IdRanges = {3}
  MaxInits = 1
  MaxInds = 0
PROPERTIES
  AsyncIndependentOfTimeouts
CHECK_DEADLOCK FALSE
