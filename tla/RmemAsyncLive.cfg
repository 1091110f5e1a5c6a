SPECIFICATION MCFairSpec
CONSTANTS
  r1 = r1
  r2 = r2
  r3 = r3
  t1 = t1
  t2 = t2
  v1 = v1
  v2 = v2
  Req = {r1, r2, r3}
  Thread = {t1, t2}
  Val = {v1}
  Frame = {1, 2, 3}
  NPages = 3
  IoRequests <- ScriptRequests
  MODE = "ASYNC"
  DEBUG_OUT_REQ = FALSE
  IO_REQ_SLOTS = 3
  REQ_POOL_SIZE = 5
  CQE_SIZE = 3
  MAX_REQ = 4
  REQ_ARR_SIZE = 3
  MERGE_REQ = TRUE
  MAP_FAILS = {2}
  rem_vaddr = 1
  REM_PAGES = 4
INVARIANTS OutstandingExact
PROPERTIES FsRequestsEnd
CHECK_DEADLOCK FALSE
