CONSTANTS
  Highest = 10
  Chords <- MCChords
  Modes = {"Off", "Up", "Down", "UpDown", "DownUp", "Random", "AsPlayed"}
  MaxLoads = 2
SPECIFICATION FairSpec
INVARIANTS IndexInNotes HoldsChord
PROPERTIES ReachesEveryNote NoEndpointTwice
CHECK_DEADLOCK FALSE
