SPECIFICATION FairSpec
CONSTANTS
  Calls = {s1, a1}
  SyncCalls = {s1}
  DefaultCalls = {}
  NestedCalls = {s1}
  IndCbs = {FALSE}
  DefaultCbs = {TRUE}
  NoCall = NoCall
  MaxPendingOps = 2
  ConnectAttempts = 2
  IdRanges = {1, 2, 3}
  MaxInits = 2
  MaxInds = 0
CONSTRAINT NotCrossed
INVARIANTS
  OneOwnAnswer
  SlotAccounting
  DeadWriteOnlyAfterGiveUp
  NestedSyncNeedsOtherThread
PROPERTIES
  CommandsKept
  ArrivedIsDelivered
CHECK_DEADLOCK FALSE
