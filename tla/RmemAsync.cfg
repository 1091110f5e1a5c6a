SPECIFICATION MCFaultySpec
CONSTANTS
  r1 = r1
  r2 = r2
  r3 = r3
  t1 = t1
  t2 = t2
  v1 = v1
  v2 = v2
  Req = {r1, r2}
  Thread = {t1, t2}
  Val = {v1, v2}
  Frame = {1, 2, 3, 4}
  NPages = 3
  IoRequests <- SharedRequests
  MODE = "ASYNC"
  DEBUG_OUT_REQ = TRUE
  IO_REQ_SLOTS = 2
  REQ_POOL_SIZE = 3
  CQE_SIZE = 2
  MAX_REQ = 3
  REQ_ARR_SIZE = 3
  MERGE_REQ = TRUE
  MAP_FAILS = {}
  rem_vaddr = 1
  REM_PAGES = 4
SYMMETRY Symmetry
INVARIANTS TypeOK CallsStopOnlyAtLimit OutstandingExact DebugTableExact LinkStillValid
PROPERTIES BlockDeviceRefined
CHECK_DEADLOCK FALSE
