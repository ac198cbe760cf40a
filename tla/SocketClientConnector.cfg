SPECIFICATION FairSpec
CONSTANTS
  c1 = c1
  c2 = c2
  Clients = {c1, c2}
  Transports = {"unix", "tcp"}
  MaxClientsCount = 1
  FrameLen = 2
  Buffer = 3
  MaxMessages <- TwoAndNone
  MaxResponses = 2
INVARIANTS
  TypeOK
  NoMessageMissed
  SentIsReceived
  AllToldBeforeDelete
  ListedIsAlive
  EndIsExplained
PROPERTIES
  WrittenIsDelivered
CHECK_DEADLOCK FALSE
