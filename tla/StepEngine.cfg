CONSTANTS
  a = a
  b = b
  c = c
  Patterns = {a, b, c}
  FirstPattern = a
  Divisions = {1, 3, 4}
  TimeSigs <- MCTimeSigs
  StepCount = 3
  ChainLength = 3
  MaxRepeat = 2
  ExhaustionFactor = 3
  Songs <- MCSongs
  MaxCalls = 4
SPECIFICATION FairSpec
INVARIANT PlayStateIsSound
PROPERTIES NeverPlaysSkipped BarsInOrder StopsOnlyWhenDone AdvanceTerminates ChainAdvancesUnlessEndSkipped
CHECK_DEADLOCK FALSE
