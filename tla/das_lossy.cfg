SPECIFICATION Spec
CONSTANTS
  NumRus = 2
  NumWorkers = 0
  Ports = {0}
  Keys = {k1, k2}
  NumBufs = 3
  Bufs <- MCBufs
  PoolOf <- MCPoolOf
  RingCap = 4
  Asserts = FALSE
  TxMayFail = TRUE
  MaxFrame = 1
  MaxLost = 2
  MaxForeign = 1
  FOREIGN = FOREIGN
  NULL = NULL
ACTION_CONSTRAINT LowestFirst
INVARIANTS TypeOK CountMatchesCache SingleOwner SkewBoundedByLoss ErrorsBoundedByLoss
PROPERTIES RefinesMerge
