SPECIFICATION FairSpec
CONSTANTS
  NumRus = 2
  Ports = {0}
  Keys = {k1, k2}
  RING_SIZE = 3
  BATCH_SIZE = 2
  MaxFrame = 1
  MaxLost = 2
  NULL = NULL
INVARIANTS EnoughRoom LeakBoundedByLoss SkewBoundedByLoss
PROPERTIES EveryGroupDelivered RefinesMerge
