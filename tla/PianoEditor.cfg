SPECIFICATION Spec
CONSTANTS
  LedgerMax   = 8
  Bars        <- MCBars
  BarLengths  <- MCBarLengths
  Inputs      <- MCInputs
  Chords      <- MCChords
  BarsAtStart <- MCBarsAtStart
  Pitches     <- MCPitches
  Transpositions <- MCTransposed
  MaxEdits    = 2
INVARIANTS LedgerIsStored SongReadsBack RecRestoresNotes
PROPERTIES EditStaysInPlace
CHECK_DEADLOCK FALSE
