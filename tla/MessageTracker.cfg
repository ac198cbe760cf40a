SPECIFICATION Spec
CONSTANTS
  Connections = {c1, c2}
  Threads = {t1, t2}
  MaxUid = 2
  MaxInd = 0
  MaxAgain = 1
  NoConnection = NoConnection
SYMMETRY Symmetric
INVARIANTS
  TypeOK
  AtMostOneResponse
  RoutedHomeUnlessCollision
PROPERTIES
  ServiceKept
CHECK_DEADLOCK FALSE
