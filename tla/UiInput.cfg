SPECIFICATION InputSpec
CONSTANTS
  MatrixKeys     = {1}
  Plain          = {13}
  Bounce         = 2
  PollInterval   = 1
  ScanInterval   = 2
  DirectDebounce = 3
  MatrixDebounce = 3
  ArmRelease     = 1
  StartupIgnore  = 1
  LongPressTime  = 2
  IdleTime       = 8
  Elapsed        = {1}
  HeldAtStart    = {{}, {15}}
  MaxPushes      = 2
INVARIANT KeysAreSeen
PROPERTIES EventsArePushes
