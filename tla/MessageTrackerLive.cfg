SPECIFICATION FairSpec
CONSTANTS
  Connections = {c1, c2}
  Threads = {t1, t2}
  MaxUid = 1
  MaxInd = 1
  MaxAgain = 1
  NoConnection = NoConnection
INVARIANTS
  QuiescentDisconnectIsSafe
PROPERTIES
  AcceptedIsAnswered
CHECK_DEADLOCK FALSE
