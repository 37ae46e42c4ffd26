SPECIFICATION Spec
CONSTANTS
  Width = 12
  Height = 3
  ChunkSize = 3
  RegionSize = 1
  ViewRadius = 1
  Initial <- MCStrip
  Stand <- MCPair
  Duck <- MCSingle
  Species <- MCSpecies
  Throw <- MCThrow
  Spawns <- MCSpawns
  Hands <- MCHands
  Blocks = {"wood"}
  Players = {p1}
  MaxId = 7
  MaxIsland = 4
  MaxExtent = 3
  MaxMobs = 1
  MaxActs = 5
  Nil = Nil
INVARIANTS
  StampsMatchBodies
  RastersAreLoaded
  MindsMatchBodies
  NothingHangsForgotten
