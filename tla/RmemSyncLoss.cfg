SPECIFICATION ConnectionLossSpec
CONSTANTS
  r1 = r1
  r2 = r2
  v1 = v1
  v2 = v2
  Req <- MCReq
  Val <- MCVal
  Frame = {1, 2, 3}
  NPages = 3
  IoRequests <- MCFaultyIoRequests
  MAX_REQ = 2
  CQE_SIZE = 2
  POLL_BATCH = 1
  ULONG = 4
  MERGE_REQ = FALSE
  rem_vaddr = 1
  REM_PAGES = 4
SYMMETRY Symmetry
PROPERTIES OkMeansMoved
CHECK_DEADLOCK FALSE
