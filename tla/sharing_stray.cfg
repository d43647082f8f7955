SPECIFICATION Spec
CONSTANTS
  NumDus = 2
  Ports = {0, 4}
  Symbols = {1, 2}
  BURST_SIZE = 2
  PRACH_TURN = 1
  Scenarios <- StrayScenario
  MaxBufs = 3
  MaxFrame = 0
  NULL = NULL
INVARIANTS MbufsConserved
