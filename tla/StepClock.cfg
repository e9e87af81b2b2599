CONSTANTS
  TicksPerQuarter = 4
  Divisions = {1, 2, 4}
  MaxTicks = 6
SPECIFICATION FairSpec
INVARIANT QueueIsSound
PROPERTIES BacklogDrains ImplementsQueue
