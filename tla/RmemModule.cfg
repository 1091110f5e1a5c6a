SPECIFICATION FairSpec
CONSTANTS
  N = 3
  DEVICE_BOUND = 4
  QueueId = {0, 1, 2, 3, 4}
  IbDevice = {d1, d2, d3}
  Right = {d1, d2}
  NoDevice = NoDevice
INVARIANTS TypeOK SessionsEnded NothingLeft LiveDiskHasSession
PROPERTIES InitReturns
CHECK_DEADLOCK FALSE
