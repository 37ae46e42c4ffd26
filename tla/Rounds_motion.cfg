SPECIFICATION FairSpec
CONSTANTS
  Scenes <- MCScenes
  Threshold = 2
  MaxSpeed = 4
  StepCells = 1
  Gravity = 1
  MaxTicks = 2
INVARIANTS
  MatterIsKept
  OrderIsImmaterialInLines
PROPERTIES
  LawfulSteps
  RoundsEnd
