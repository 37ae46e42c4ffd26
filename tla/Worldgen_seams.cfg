\* Two regions on either side of a border, in any order, in five stretches of ground.
SPECIFICATION Spec
CONSTANTS
  Kind = "sound"
  Scenes <- MCScenes
INVARIANTS
  SeamsAgree
  PlacesAgree
CHECK_DEADLOCK FALSE
