SPECIFICATION FaultySpec
CONSTANTS
  r1 = r1
  r2 = r2
  v1 = v1
  v2 = v2
  Req <- MCReq
  Val = {v1}
  Frame = {1, 2, 3}
  NPages = 3
  IoRequests <- MCFaultyIoRequests
  MAX_REQ = 2
  CQE_SIZE = 2
  POLL_BATCH = 1
  ULONG = 4
  MERGE_REQ = TRUE
  rem_vaddr = 1
  REM_PAGES = 4
INVARIANTS OutstandingExact PostedPagesLive
PROPERTIES FsRequestsEnd
CHECK_DEADLOCK FALSE
