---------------------------- MODULE MCPersistence ----------------------------
(***************************************************************************)
(* Small instances of Persistence for TLC.  Regions are 1, 2, ... in scan  *)
(* order; every item starts in region 1.                                   *)
(***************************************************************************)
EXTENDS Persistence

CONSTANT RegionCount

MCRegions == 1..RegionCount
MCOrigin == [i \in Items |-> 1]
=============================================================================
