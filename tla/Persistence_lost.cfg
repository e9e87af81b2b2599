CONSTANTS
  Slots = {1, 2}
  Chunks = 2
  Contents = {1, 2, 3, 4}
  MaxWrites = 0
  MaxFaults = 0
  MaxEdits = 3
  MaxDepth = 1
  TickZero = FALSE
SPECIFICATION PSpec
INVARIANTS NeverALostEdit
CHECK_DEADLOCK FALSE
