----------------------------- MODULE MCWorldgen -----------------------------
(***************************************************************************)
(* Seeds for TLC: what the noise and the draws come to in five stretches of *)
(* ground, each with two regions that share a border.  The seeds put every  *)
(* kind of feature across a border, and the probes lie on both sides of it, *)
(* in what is carved, grown and built there.                                *)
(***************************************************************************)
EXTENDS Worldgen

CONSTANT Kind       \* "sound" or "torn"

Seat(kind, x, y) ==
  [kind |-> kind, x |-> x, y |-> y, big |-> FALSE, heading |-> <<100, 0>>, count |-> 1,
   face |-> FALSE, chance |-> 0, roll |-> 0, pick |-> 0, deposit |-> 1, off |-> 0, to |-> x]
Big(seed) == [seed EXCEPT !.big = TRUE]
Heading(seed, h) == [seed EXCEPT !.heading = h]

Land(flat, land, ridge) == [flat |-> flat, land |-> land, ridge |-> ridge, detail |-> 10,
                            grain |-> 10, massif |-> 0, terrace |-> 0]
Climate(strange, rock, warm, damp, variant) ==
  [strange |-> strange, rock |-> rock, warm |-> warm, damp |-> damp, variant |-> variant]

Plain ==
  [regions |-> {}, seeds |-> <<>>, probes |-> {}, edge |-> 500,
   columns |-> <<Land(60, 50, 20), Land(70, 50, 20)>>,
   overhang |-> 0, warp |-> 10, wander |-> 10, curl |-> -20, swirl |-> 30, pocket |-> 0,
   jitter |-> << <<20, -30>>, <<-40, 10>> >>, coarse |-> << <<20, -30>>, <<-40, 10>> >>,
   climate |-> <<Climate(10, 0, 0, 0, 0), Climate(10, 0, 10, 20, 20)>>,
   mantle |-> 100, bedded |-> FALSE, sediment |-> 4, gas |-> TRUE]

\* A mine of two levels, a trunk and a cave with a pocket above it, across a
\* border under ground.
Drift ==
  [Plain EXCEPT
     !.regions = {<<0, -3>>, <<1, -3>>},
     !.climate = <<Climate(10, -20, 0, 0, 0), Climate(10, -20, 10, 20, 30)>>,
     !.seeds = <<Big([Seat("mine", 450, -1250) EXCEPT !.count = 2, !.face = TRUE]),
                 Big(Seat("trunk", -1900, -1330)), Heading(Seat("local", 300, -1100), <<97, 22>>),
                 Heading(Seat("shaft", 505, -1060), <<0, -100>>),
                 Seat("layer", 400, -1150), Seat("chamber", 512, -1480),
                 Big([Seat("vein", 505, -1215) EXCEPT !.deposit = 3]),
                 [Seat("vein", 514, -1400) EXCEPT !.deposit = 6],
                 [Seat("remnant", 511, -1470) EXCEPT !.roll = 10],
                 Seat("piece", 505, -1470), [Seat("piece", 528, -1480) EXCEPT !.pick = 5],
                 [Seat("piece", 490, -1470) EXCEPT !.pick = 1],
                 [Seat("remnant", 516, -1500) EXCEPT !.roll = 3]>>,
     !.probes = ({480, 504, 511, 512, 515, 530}
                   \X {-1330, -1242, -1246, -1382, -1215, -1400, -1446, -1455, -1508})
                \cup {<<346, -1150>>, <<420, -1100>>}]

\* A chamber over the border of two regions, with remnants on its floor.
Hall ==
  [Plain EXCEPT
     !.regions = {<<0, -4>>, <<0, -3>>}, !.swirl = 90,
     !.seeds = <<Big(Seat("chamber", 250, -1397))>>
       \o [n \in 1..12 |-> LET s == [Seat("remnant", 40 + 33 * n, IF n \in {7, 11} THEN -1300 ELSE -1520)
                                       EXCEPT !.roll = n - 1]
                           IN  IF n % 2 = 0 THEN Big(s) ELSE s]
       \o <<[Seat("piece", 250, -1560) EXCEPT !.pick = 1], Heading(Seat("shaft", 100, -1500), <<0, -100>>)>>,
     !.probes = ({73, 106, 139, 172, 184, 187, 205, 238, 271, 304, 320, 337, 370, 403, 436}
                   \X {-1300, -1500, -1535, -1536, -1537, -1540})
                \cup ({-168, 0, 511, 679} \X {-2200, -1600, -1400, -900})]

\* The surface beside a border: a mouth, trees and ground cover.
Wood ==
  [Plain EXCEPT
     !.regions = {<<-1, 0>>, <<0, 0>>}, !.edge = -40,
     !.climate = <<Climate(10, 0, -15, 20, 0), Climate(10, 0, -15, 25, 20)>>,
     !.seeds = <<[Seat("tree", -32, 0) EXCEPT !.off = 29], Big([Seat("tree", 0, 0) EXCEPT !.off = 3]),
                 Seat("cover", -1, 0), Big(Seat("cover", 2, 0)),
                 Heading(Seat("mouth", 60, 0), <<-70, -71>>)>>,
     !.probes = {-20, -3, -1, 0, 2, 6} \X {20, 80, 84, 88, 100, 140}]

\* A drowned shore above a mine with an adit.
Shore ==
  [Plain EXCEPT
     !.regions = {<<0, -1>>, <<0, 0>>}, !.edge = 300, !.sediment = 0, !.bedded = TRUE,
     !.columns = <<Land(60, 50, 20), Land(90, 25, 0)>>, !.overhang = 40,
     !.seeds = <<Big([Seat("mine", 250, -300) EXCEPT !.count = 1]),
                 Big(Heading(Seat("mouth", 40, 0), <<0, -100>>)), Big(Seat("cover", 320, 0))>>,
     !.probes = {20, 40, 44, 240, 250, 256, 320, 340} \X {-296, -290, -67, -20, -1, 0, 10, 70, 98}]

\* A trunk that comes from the rim of the right region's table.
Rim ==
  [Plain EXCEPT
     !.regions = {<<-1, 0>>, <<0, 0>>},
     !.climate = <<Climate(10, -20, -45, 0, 0), Climate(10, -20, -45, 20, 4)>>,
     !.seeds = <<Big([Heading(Seat("trunk", -1220, -500), <<90, 40>>) EXCEPT !.chance = 90])>>,
     !.probes = {-4, 4} \X {42, 90, 95}]

\* The same, and a boulder on the border, one spacing right of its anchor.
Torn == [Rim EXCEPT !.seeds = Append(@, Big([Seat("boulder", -600, 0) EXCEPT !.off = 597]))]

\* Each stretch under three pulls of the noise on the columns of a query, three
\* lucks in the draws that the place of a seat decides, and with the rows of a
\* query pulled as far as they go.
Pulled(scenes) == {[s EXCEPT !.wander = pull, !.curl = pull] : s \in scenes, pull \in {-95, 10, 95}}
Drawn(scenes) == {[s EXCEPT !.seeds = [i \in DOMAIN @ |-> [@[i] EXCEPT !.chance = luck]]] :
                    s \in scenes, luck \in {0, 35, 90}}
Sunk(scenes) == {[s EXCEPT !.warp = pull, !.swirl = pull] : s \in scenes, pull \in {-98, 98}}

Stretches == {Drift, Hall, Wood, Shore, Rim}

MCScenes == IF Kind = "sound" THEN Pulled(Drawn(Stretches) \cup Sunk(Stretches)) ELSE {Torn}
=============================================================================
