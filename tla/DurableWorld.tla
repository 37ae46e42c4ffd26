---------------------------- MODULE DurableWorld ----------------------------
(***************************************************************************)
(* What the persistence of the server promises, with no threads, queues,   *)
(* caches or regions being loaded: there is a world being played, at most  *)
(* one photograph of it on its way to disk, and a saved world.  A save     *)
(* replaces the saved world by the photograph as a whole, and a process    *)
(* that dies comes back to the saved world.  Module Persistence is shown   *)
(* to implement this one.                                                  *)
(***************************************************************************)
EXTENDS Naturals

CONSTANTS Places,   \* regions of the world and players' inventories
          Items,    \* tokens that are moved between places
          Genesis,  \* the world a fresh seed generates
          AgeMod,   \* ages of the world are counted modulo AgeMod
          Nil

VARIABLES world,    \* the world being played
          cut,      \* the photograph being written, or Nil
          saved     \* the world on disk

vars == <<world, cut, saved>>

Worlds == [holds : [Places -> SUBSET Items], age : 0..(AgeMod - 1)]

Init ==
  /\ world = Genesis
  /\ cut = Nil
  /\ saved = Genesis

\* One item changes place.
Move ==
  /\ \E i \in Items, p, q \in Places :
       /\ p # q
       /\ i \in world.holds[p]
       /\ world' = [world EXCEPT !.holds[p] = @ \ {i}, !.holds[q] = @ \cup {i}]
  /\ UNCHANGED <<cut, saved>>

\* A tick passes, or a player sets the clock.
Age ==
  /\ \E a \in 0..(AgeMod - 1) : world' = [world EXCEPT !.age = a]
  /\ UNCHANGED <<cut, saved>>

\* The whole world is photographed, only when no photograph is pending.
Snapshot ==
  /\ cut = Nil
  /\ cut' = world
  /\ UNCHANGED <<world, saved>>

\* The photograph reaches the disk as a whole ...
Commit ==
  /\ cut # Nil
  /\ saved' = cut
  /\ cut' = Nil
  /\ UNCHANGED world

\* ... or not at all.
Abort ==
  /\ cut # Nil
  /\ cut' = Nil
  /\ UNCHANGED <<world, saved>>

\* The process dies, or stops: what is played next is what was saved.
Recover ==
  /\ world' = saved
  /\ cut' = Nil
  /\ UNCHANGED saved

Next == Move \/ Age \/ Snapshot \/ Commit \/ Abort \/ Recover

Spec == Init /\ [][Next]_vars

TypeOK ==
  /\ world \in Worlds
  /\ saved \in Worlds
  /\ cut \in {Nil} \cup Worlds
=============================================================================
