\* Two regions competing for one load a tick, a player, failed reads and
\* writes: what must happen in the end.
SPECIFICATION FairSpec
CONSTANTS
  RegionCount = 2
  Regions <- MCRegions
  Players = {p1}
  Items = {}
  Origin <- MCOrigin
  HasStore = TRUE
  MaxRequest = 1
  MaxLoadsPerTick = 1
  MaxPendingLoads = 1
  UnloadGrace = 0
  AgeMod = 1
  Nil = Nil
PROPERTIES
  WantedRegionsLoad
  StopEnds
