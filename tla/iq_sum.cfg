SPECIFICATION Spec
CONSTANTS
  NumRus = 2
  NumWorkers = 1
  Programs = {"dpdk", "xdp"}
  Chunk = 4
  Carrier = 9
  Lengths = {3, 6}
  NumGroups = 3
INVARIANTS
  InBounds
  DataIsExact
