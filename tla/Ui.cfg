SPECIFICATION Spec
CONSTANTS
  Bars   <- MCBars
  Types  <- MCTypes
  MajorC = "major"
  None   = "none"
  Own    = "own"
INVARIANTS ScreensAreConsistent ScreenCopyIsDraft EscapesToGrid
PROPERTY MenusProtectNotes
