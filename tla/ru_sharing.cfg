SPECIFICATION FairSpec
CONSTANTS
  NumDus = 2
  Ports = {0, 4}
  Symbols = {1, 2}
  BURST_SIZE = 2
  PRACH_TURN = 1
  Scenarios <- AllScenarios
  MaxBufs = 6
  MaxFrame = 1
  NULL = NULL
INVARIANTS TypeOK NoMbufLost AnswersMatchRequests PrachOfAllDus
PROPERTIES RefinesMerge NothingLeftToSend
