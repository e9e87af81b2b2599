CONSTANTS
  Capacity  = 3
  Masks     = {145, 137}
  MaxCalls  = 4
  MaxFaults = 2
SPECIFICATION Spec
INVARIANTS RestartKeepsLibrary
PROPERTIES FreeOrWhole
