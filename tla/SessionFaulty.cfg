SPECIFICATION FaultySpec
CONSTANTS
  c1 = c1
  c2 = c2
  NoClient = NoClient
  Client <- TwoClients
  MemSize <- BothAskTooMuch
  BUF_SIZE = 30
  GB = 20
  Stale <- OneDigit
  MAX_LOADS = 2
  MAX_CONN = 3
SYMMETRY Symmetry
INVARIANTS OneClientPerRegion RegionInBuffer
CHECK_DEADLOCK FALSE
