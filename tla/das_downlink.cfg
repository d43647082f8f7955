SPECIFICATION FairSpec
CONSTANTS
  NumRus = 3
  MaxWorkers = 1
  NumBufs = 5
  NumClones = 5
  RX_BURST_SIZE = 2
  TX_BURST_SIZE = 1
  TX_OUT_BUFS = 6
  RingCap = 2
  Kinds <- Treatments
  Deployments <- MCDeployments
  MaxPackets = 3
INVARIANTS OutputBounded RefsCounted SentOnceInOrder
PROPERTIES EveryPacketBroadcast
