SPECIFICATION Spec
CONSTANTS
  Scenes <- MCScenes
  Grips <- MCGrips
  MaxCells = 2
INVARIANTS
  SleepIsSound
PROPERTIES
  LawfulMoves
CHECK_DEADLOCK FALSE
