SPECIFICATION Spec
CONSTANTS
  Chunks = 2
  Size = 2
  Radius = 2
  Interest = 0
  Things = {t1, t2}
  MaxActs = 3
  MaxQueue = 1
  Nil = Nil
SYMMETRY Symmetry
INVARIANTS SeenIsRevealed
PROPERTIES MirrorIsFaithful
