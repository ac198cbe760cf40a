SPECIFICATION FairSpec
CONSTANTS
  Calls = {s1, a1}
  SyncCalls = {s1}
  DefaultCalls = {}
  NestedCalls = {s1}
  IndCbs = {TRUE, FALSE}
  DefaultCbs = {TRUE}
  NoCall = NoCall
  MaxPendingOps = 2
  ConnectAttempts = 1
  IdRanges = {3}
  MaxInits = 1
  MaxInds = 1
INVARIANTS
  QuietReleaseIsSafe
PROPERTIES
  CallbackReturns
  SyncCallReturns
CHECK_DEADLOCK FALSE
