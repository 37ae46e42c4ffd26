\* A boulder and a trunk that lie across the border of two regions.
SPECIFICATION Spec
CONSTANTS
  Kind = "torn"
  Scenes <- MCScenes
INVARIANTS
  FeaturesAreIdentical
CHECK_DEADLOCK FALSE
