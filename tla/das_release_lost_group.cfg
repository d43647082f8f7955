SPECIFICATION FairSpec
CONSTANTS
  NumRus = 2
  NumWorkers = 1
  Ports = {1}
  Keys = {k1}
  NumBufs = 3
  Bufs <- MCBufs
  PoolOf <- MCPoolOf
  RingCap = 4
  Asserts = FALSE
  TxMayFail = FALSE
  MaxFrame = 1
  MaxLost = 0
  MaxForeign = 0
  FOREIGN = FOREIGN
  NULL = NULL
ACTION_CONSTRAINT LowestFirst
PROPERTIES EveryGroupDelivered
