\* Which cells sleep and which windows run, over every way to load, leave and resume two regions.
SPECIFICATION Spec
CONSTANTS
  ChunkSize = 2
  RegionSize = 3
  Regions <- MCPair
  Reach = 1
  Views <- MCComeAndGo
  Watched <- MCBorderCell
  Kinds = {"plain"}
  MaxWrites = 2
INVARIANTS
  TypeOK
  OwedIsAwake
  NoStaleStamp
  WindowsAreDisjoint
  WindowsHoldTheirReach
  DeferredAtMostATick
