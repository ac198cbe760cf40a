SPECIFICATION Spec
CONSTANTS
  Null = Null
  Addrs <- SomeAddrs
  VendorCalls <- SomeCalls
  MaxAddrs = 4
  MaxCalls = 6
  MaxEntries = 2
  Payload = 1024
  AddrText = 46
  NameText = 32
  Word = 8
  RadioTechs <- SomeTechs
  MaxSent = 8
  MaxScanned = 4
  Usecs <- SomeUsecs
  Timeouts <- SomeTimeouts
INVARIANTS
  ResponseInPayload
CHECK_DEADLOCK FALSE
