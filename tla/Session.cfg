SPECIFICATION Spec
CONSTANTS
  c1 = c1
  c2 = c2
  NoClient = NoClient
  Client <- TwoClients
  MemSize <- OneAsksTooMuch
  BUF_SIZE = 30
  GB = 20
  Stale <- OneDigit
  MAX_LOADS = 2
  MAX_CONN = 4
INVARIANTS TypeOK SessionLasts
PROPERTIES QueuePairComesUp TeardownCompletes
CHECK_DEADLOCK FALSE
