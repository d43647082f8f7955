SPECIFICATION FairSpec
CONSTANTS
  NumRus = 2
  NumWorkers = 1
  Ports = {0, 1}
  Keys = {k1, k2}
  NumBufs = 2
  Bufs <- MCBufs
  PoolOf <- MCPoolOf
  RingCap = 3
  Asserts = TRUE
  TxMayFail = FALSE
  MaxFrame = 0
  MaxLost = 0
  MaxForeign = 0
  FOREIGN = FOREIGN
  NULL = NULL
ACTION_CONSTRAINT LowestFirst
INVARIANTS SingleOwner WholeGroupsInRings
PROPERTIES EveryGroupDelivered
