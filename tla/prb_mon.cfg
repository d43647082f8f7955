SPECIFICATION FairSpec
CONSTANTS
  NUM_PRB = 2
  BURST_SIZE = 2
  Packets <- AllKinds
  Directions = {"dl", "ul"}
  MaxPackets = 2
  TxMayFail = TRUE
  Builds = {TRUE, FALSE}
INVARIANTS Transparent NothingCountedTwice
PROPERTIES EverySampleLeaves
