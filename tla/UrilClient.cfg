SPECIFICATION Spec
CONSTANTS
  Calls = {s1, a1, d1}
  SyncCalls = {s1}
  DefaultCalls = {d1}
  NestedCalls = {}
  IndCbs = {TRUE}
  DefaultCbs = {TRUE, FALSE}
  NoCall = NoCall
  MaxPendingOps = 2
  ConnectAttempts = 1
  IdRanges = {4}
  MaxInits = 1
  MaxInds = 0
INVARIANTS
  TypeOK
  OneOwnAnswer
  SlotAccounting
  DeadWriteOnlyAfterGiveUp
PROPERTIES
  CommandsKept
CHECK_DEADLOCK FALSE
