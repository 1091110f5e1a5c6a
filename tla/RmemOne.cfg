SPECIFICATION MCSpec
CONSTANTS
  r1 = r1
  r2 = r2
  t1 = t1
  t2 = t2
  v1 = v1
  v2 = v2
  Req = {r1, r2}
  Thread = {t1, t2}
  Val = {v1, v2}
  Frame = {1, 2, 3, 4}
  NPages = 3
  IoRequests <- OverlapRequests
  MODE = "ONE"
  DEBUG_OUT_REQ = FALSE
  IO_REQ_SLOTS = 2
  REQ_POOL_SIZE = 3
  CQE_SIZE = 2
  MAP_FAILS = {}
  rem_vaddr = 1
  REM_PAGES = 4
SYMMETRY Symmetry
INVARIANTS TypeOK StopsOnlyAtLimit CountsExact NoneForgotten
PROPERTIES BlockDeviceRefined
CHECK_DEADLOCK FALSE
