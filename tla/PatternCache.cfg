CONSTANTS
  Slots = {1, 2}
  Chunks = 2
  Contents = {1, 2}
  MaxWrites = 2
  MaxFaults = 1
  MaxMoves = 1
SPECIFICATION CFairSpec
INVARIANT OnlyWholePatterns
PROPERTIES DoneMeansValid PlayedBufferIsSafe CurrentGetsCached
CHECK_DEADLOCK FALSE
