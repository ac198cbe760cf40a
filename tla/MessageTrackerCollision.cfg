SPECIFICATION Spec
CONSTANTS
  Connections = {c1, c2}
  Threads = {t1}
  MaxUid = 1
  MaxInd = 0
  MaxAgain = 1
  NoConnection = NoConnection
INVARIANTS
  ResponseReachesItsRequester
CHECK_DEADLOCK FALSE
