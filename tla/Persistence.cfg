CONSTANTS
  Slots = {1, 2}
  Chunks = 2
  Contents = {1, 2, 3, 4}
  MaxWrites = 0
  MaxFaults = 1
  MaxEdits = 3
  MaxDepth = 1
  TickZero = FALSE
SPECIFICATION PFairSpec
INVARIANTS CurrentIsStored NothingMissesV3
PROPERTIES StorageCatchesUp
CHECK_DEADLOCK FALSE
