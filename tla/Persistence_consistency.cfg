\* One player, two regions, one item: what a crash, a failed write or a stop
\* at any moment leaves on disk.
SPECIFICATION Spec
CONSTANTS
  RegionCount = 2
  Regions <- MCRegions
  Players = {p1}
  Items = {i1}
  Origin <- MCOrigin
  HasStore = TRUE
  MaxRequest = 1
  MaxLoadsPerTick = 1
  MaxPendingLoads = 1
  UnloadGrace = 0
  AgeMod = 1
  Nil = Nil
INVARIANTS
  TypeOK
  LoadsMatchRequests
  CleanStop
  OneSaveInFlight
PROPERTIES
  Refines
