------------------------------- MODULE MCWake --------------------------------
(***************************************************************************)
(* Small instances of Wake for TLC.                                        *)
(***************************************************************************)
EXTENDS Wake

(***************************************************************************)
(* Two regions of three by three chunks side by side.  Players near the    *)
(* middle simulate the chunk (2,1), which needs both regions, and (0,1) at *)
(* the border of the world; a player far to the right keeps the right      *)
(* region wanted.  The blocks of (0,1) and (5,1) are in the same phase.    *)
(* The watched cell is the corner of (2,1) at the border of the regions.   *)
(***************************************************************************)
MCPair == {<<0, 0>>, <<1, 0>>}
MCFarView == {5} \X (0..2)
MCNearView == ({2} \X (0..2)) \cup {<<0, 1>>}
MCComeAndGo == {MCFarView, MCFarView \cup MCNearView}
MCBorderCell == {<<5, 3>>}
=============================================================================
