------------------------------ MODULE MCBodies -------------------------------
(***************************************************************************)
(* Small instances of Bodies for TLC.                                      *)
(***************************************************************************)
EXTENDS Bodies

(***************************************************************************)
(* A strip of four chunks of three by three cells, each a region.  The     *)
(* floor has a gap, and over the gap a bar of wood stands on the last cell *)
(* of its left side and crosses the border of two regions.  A player sees  *)
(* the chunks next to the one they are in.                                 *)
(***************************************************************************)
MCStrip ==
  [p \in Cells |->
     CASE p[2] = 0 /\ p[1] \notin 5..7 -> "rock"
       [] p[2] = 1 /\ p[1] \in 4..6 -> "wood"
       [] OTHER -> "air"]
MCPair == {<<0, 0>>, <<1, 0>>}
MCSingle == {<<0, 0>>}
MCSpecies == {[frame |-> MCPair, of |-> "flesh", policy |-> "MOB", lives |-> TRUE],
              [frame |-> MCSingle, of |-> "rubber", policy |-> "BALL", lives |-> FALSE]}
MCThrow == <<2, 0>>
MCHands == {<<4, 0>>, <<5, 1>>, <<7, 1>>}
MCSpawns == {<<2, 1>>, <<9, 1>>}
=============================================================================
