SPECIFICATION FairSpec
CONSTANTS
  Requests = {r1, r2}
  RilThreads = {t1, t2}
  MsgIds <- SomeMsgIds
  MaxUnsol = 1
INVARIANTS
  TypeOK
  OneRequestUnderWay
  RaceNeedsTwoThreads
  ResponseFits
PROPERTIES
  AcceptedIsAnswered
CHECK_DEADLOCK FALSE
