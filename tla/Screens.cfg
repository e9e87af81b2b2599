SPECIFICATION ScreensSpec
CONSTANTS
  LedgerMax   = 4
  Bars        <- MCBars
  BarLengths  <- MCBarLengths
  Inputs      <- MCInputs
  Chords      <- MCChords
  BarsAtStart <- MCBarsAtStart
  PitchMin    = 58
  PitchMax    = 62
  BodyRows    = 3
  ViewRows    = 2
  Octave      = 2
  Lead        = 1
  CellLimit   = 2
  UnderDialog <- MCUnderDialog
  InputsPerPass = 2
  MaxEdits    = 1
  LastBar     = 2
  LastStep    = 2
  Patterns    = {1, 2}
  MainModes   = 2
  Digits      = 2
  SongsAtStart <- MCSongs
  MaxInputs   = 2
  MaxAway     = 1
  MaxSleeps   = 1
  TimingRows  = 4
  RouterRows  = 2
  SongRows    = 2
  ChainSlots  = 3
  Values      = {0, 1}
  Repeats     = 2
INVARIANTS EditorScreenIsTrue GridIsTrue MenuIsTrue
PROPERTIES EditReachesScreen OneOutline
