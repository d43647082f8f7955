SPECIFICATION Spec
CONSTANTS
  NumRus = 2
  NUM_ANTENNA_PORTS = 3
  BURST_SIZE = 2
  NumBufs = 2
  Bitmaps <- AnyBitmap
  Kinds <- AllKinds
  Builds = {TRUE, FALSE}
  TxMayFail = TRUE
  Port0First = TRUE
  MaxPackets = 2
INVARIANTS PortsRoundTrip LeaksOnlyUnserved SsbOnAllAntennas
