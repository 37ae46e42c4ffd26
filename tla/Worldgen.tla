------------------------------ MODULE Worldgen ------------------------------
(***************************************************************************)
(* The generation of regions (fallingsand_worldgen lib.rs).  A region is    *)
(* generated from the seed alone, over a window that is its own box and a   *)
(* margin about it, in a fixed order of stages; it keeps what falls into    *)
(* its box.  Regions are generated in any order and never look at each      *)
(* other: whatever crosses a border must come out the same on both sides.   *)
(*                                                                         *)
(* Cells are followed at scene.probes only.  What a region derives in its   *)
(* window, in its box or not, is kept with it in made.                      *)
(***************************************************************************)
EXTENDS Furnishing

CONSTANT Scenes      \* seeds and what is generated from them

VARIABLES
  region,     \* the region in the making, or <<>>
  stage,      \* what has been done for it
  table,      \* the place of every lattice cell of its window
  quarries,   \* the mines planned in its window
  carve,      \* what is cut out of its window, in order
  cells,      \* the material at each probe of its box
  derived,    \* every shape it has derived in its window
  builds,     \* what will be written over the cells, in order
  made        \* the finished regions: cells, fog, table and derived shapes

work == <<region, stage, table, quarries, carve, cells, derived, builds>>
vars == <<scene, work, made>>

REGION_SIZE == 512
MARGIN == 168
SURFACE_REVEAL_DEPTH == 28
FOG_TEXEL == 4

BoxOf(r) == [x |-> <<r[1] * REGION_SIZE, (r[1] + 1) * REGION_SIZE>>,
             y |-> <<r[2] * REGION_SIZE, (r[2] + 1) * REGION_SIZE>>]
WindowOf(r) ==
  LET widened(range) == <<range[1] - MARGIN, range[2] + MARGIN>>
  IN  [x |-> widened(BoxOf(r).x), y |-> widened(BoxOf(r).y)]
Inside(p, box) == /\ box.x[1] <= p[1] /\ p[1] < box.x[2]
                  /\ box.y[1] <= p[2] /\ p[2] < box.y[2]

Ground == [window |-> WindowOf(region), table |-> table, carve |-> carve]
Sorted(by, puts) == {[by |-> by, put |-> puts[n]] : n \in DOMAIN puts}
-----------------------------------------------------------------------------
(* What a cell is filled with                                               *)

Powders == {"sand", "gravel", "snow", "mud", "peat", "ash", "charcoal", "rubble", "sulfur",
            "saltpeter", "salt"}
HeavyGases == {"chokedamp", "toxic gas", "voidmist"}

Strata(sub, below) ==
  LET skin == sub.skin
      scaled(depth) == (depth * scene.mantle) \div 100
      cover == scaled(skin.coverDepth)
      soil == cover + scaled(skin.soilDepth)
      subsoil == soil + scaled(skin.subsoilDepth)
  IN  CASE skin.present /\ below <= cover -> skin.cover
        [] skin.present /\ cover < below /\ below <= soil -> skin.soil
        [] skin.present /\ soil < below /\ below <= subsoil -> skin.subsoil
        [] OTHER -> IF scene.bedded THEN sub.streak ELSE sub.stone

\* Powder that could run into a cave is replaced by the stone of the place.
Undercut(ground, x, y) ==
  Open(ground, x, y - 1) \/ Open(ground, x + 1, y) \/ Open(ground, x - 1, y)

AboveFloor(ground, x, y, cap) == \E step \in 1..cap : IsRock(ground, x, y - step)
BelowCeiling(ground, x, y, cap) == \E step \in 1..cap : IsRock(ground, x, y + step)

\* What fills an open cell.
Filled(ground, x, y, sub) ==
  LET held == IF sub.gas \in HeavyGases THEN AboveFloor(ground, x, y, 14)
              ELSE BelowCeiling(ground, x, y, 14)
  IN  IF sub.fluid # "none" /\ y <= sub.level THEN sub.fluid
      ELSE IF AboveFloor(ground, x, y, scene.sediment) THEN sub.sediment
      ELSE IF sub.gas # "none" /\ scene.gas /\ held THEN sub.gas
      ELSE "air"

Buried(ground, x, y, sub, below) ==
  LET rock == Strata(sub, below)
  IN  IF Open(ground, x, y) THEN Filled(ground, x, y, sub)
      ELSE IF rock \in Powders /\ Undercut(ground, x, y) THEN sub.stone ELSE rock

CellAt(ground, x, y) ==
  LET below == Below(x, y)
  IN  IF below <= 0 THEN (IF y <= SEA_LEVEL THEN "water" ELSE "air")
      ELSE Buried(ground, x, y, Sub(ground.table, x, y), below)
-----------------------------------------------------------------------------
(* The stages                                                               *)

Nothing == /\ region = <<>> /\ stage = "idle" /\ table = <<>> /\ quarries = <<>> /\ carve = <<>>
           /\ cells = <<>> /\ derived = {} /\ builds = <<>>

Init == scene \in Scenes /\ Nothing /\ made = <<>>

Enter(from, to) == stage = from /\ stage' = to /\ UNCHANGED <<scene, region, made>>

\* The surface of every column of the window, and the places under it.
Survey(r) ==
  /\ stage = "idle" /\ r \in scene.regions \ DOMAIN made
  /\ region' = r /\ stage' = "surveyed"
  /\ LET window == WindowOf(r)
         columns == {Height(x) : x \in {window.x[1], window.x[2] - 1}}
     IN  table' = Cells(window, Max(columns), Min(columns))
  /\ UNCHANGED <<scene, quarries, carve, cells, derived, builds, made>>

PlanMines ==
  /\ Enter("surveyed", "planned")
  /\ quarries' = Plan(table, WindowOf(region))
  /\ UNCHANGED <<table, carve, cells, derived, builds>>

CarveCaves ==
  /\ Enter("planned", "hollowed")
  /\ carve' = Build(table, WindowOf(region))
  /\ UNCHANGED <<table, quarries, cells, derived, builds>>

CarveMines ==
  /\ Enter("hollowed", "carved")
  /\ carve' = carve \o FlattenSeq([n \in DOMAIN quarries |-> CarveMine(quarries[n])])
  /\ derived' = Sorted("cut", carve')
  /\ UNCHANGED <<table, quarries, cells, builds>>

FillCells ==
  /\ Enter("carved", "filled")
  /\ cells' = [p \in {p \in scene.probes : Inside(p, BoxOf(region))} |-> CellAt(Ground, p[1], p[2])]
  /\ UNCHANGED <<table, quarries, carve, derived, builds>>

\* Growth takes the place of air and water only.
Overgrown(growth, p) ==
  LET first == SelectInSeq(growth, LAMBDA g : Holds(g.shape, p[1], p[2]))
  IN  IF cells[p] \in {"air", "water"} /\ first # 0 THEN growth[first].material ELSE cells[p]

Plant(growth) ==
  /\ cells' = [p \in DOMAIN cells |-> Overgrown(growth, p)]
  /\ derived' = derived \cup Sorted("growth", growth)

Grow ==
  /\ Enter("filled", "grown")
  /\ Plant(Growth(Ground))
  /\ UNCHANGED <<table, quarries, carve, builds>>

\* Ore takes the place of what hosts it; a halo keeps the ore of its own kind.
Ore(p, cell, vein) ==
  IF Holds(vein.core.shape, p[1], p[2]) THEN vein.core.material
  ELSE IF vein.halo.material # "none" /\ Holds(vein.halo.shape, p[1], p[2])
  THEN vein.halo.material ELSE cell

Mineralise(veins) ==
  /\ cells' = [p \in DOMAIN cells |->
                 FoldLeft(LAMBDA cell, vein : IF Hosts(Sub(table, p[1], p[2]), cell)
                                              THEN Ore(p, cell, vein) ELSE cell,
                          cells[p], veins)]
  /\ derived' = derived \cup Sorted("vein", [n \in DOMAIN veins |-> veins[n].core])
                        \cup Sorted("vein", [n \in DOMAIN veins |-> veins[n].halo])

SeedVeins ==
  /\ Enter("grown", "veined")
  /\ Mineralise(Veins(Ground, BoxOf(region)))
  /\ UNCHANGED <<table, quarries, carve, builds>>

FurnishMines ==
  /\ Enter("veined", "furnished")
  /\ builds' = FlattenSeq([n \in DOMAIN quarries |-> Furnish(quarries[n])])
  /\ UNCHANGED <<table, quarries, carve, cells, derived>>

LeaveRemnants ==
  /\ Enter("furnished", "marked")
  /\ builds' = builds \o Remnants(Ground)
  /\ UNCHANGED <<table, quarries, carve, cells, derived>>

PlacePieces ==
  /\ Enter("marked", "set")
  /\ builds' = builds \o SetPieces(Ground)
  /\ derived' = derived \cup Sorted("build", builds')
  /\ UNCHANGED <<table, quarries, carve, cells>>

WriteBuilds ==
  /\ Enter("set", "built")
  /\ cells' = [p \in DOMAIN cells |->
                 LET last == SelectLastInSeq(builds, LAMBDA b : Holds(b.shape, p[1], p[2]))
                 IN  IF last = 0 THEN cells[p] ELSE builds[last].material]
  /\ UNCHANGED <<table, quarries, carve, derived, builds>>

\* A texel is revealed when it is not far below the lowest column above it.
Reveals(p) ==
  LET base == <<(p[1] \div FOG_TEXEL) * FOG_TEXEL, (p[2] \div FOG_TEXEL) * FOG_TEXEL>>
      daylight == Min({Height(base[1] + d) : d \in 0..(FOG_TEXEL - 1)})
  IN  base[2] + FOG_TEXEL > daylight - SURFACE_REVEAL_DEPTH

Reveal ==
  /\ stage = "built"
  /\ made' = made @@ (region :> [cells |-> cells, derived |-> derived, table |-> table,
                                 fog |-> {p \in DOMAIN cells : Reveals(p)}])
  /\ region' = <<>> /\ stage' = "idle" /\ table' = <<>> /\ quarries' = <<>> /\ carve' = <<>>
  /\ cells' = <<>> /\ derived' = {} /\ builds' = <<>>
  /\ UNCHANGED scene

Next ==
  \/ \E r \in scene.regions : Survey(r)
  \/ PlanMines \/ CarveCaves \/ CarveMines \/ FillCells \/ Grow \/ SeedVeins
  \/ FurnishMines \/ LeaveRemnants \/ PlacePieces \/ WriteBuilds \/ Reveal

Spec == Init /\ [][Next]_vars

\* The names of a place as the server tells them, without any table.
LocationNames(x, y) ==
  LET place == PlaceAt(x, y) IN <<place[1], Roster[place[1]].members[place[2]].name>>
-----------------------------------------------------------------------------
(* Properties                                                               *)

Common(a, b) == <<Larger(a[1], b[1]), Smaller(a[2], b[2])>>
Clipped(shape, box) ==
  IF shape.slope # 0 \/ shape.every # 1 THEN shape
  ELSE [shape EXCEPT !.x = Common(@, <<box.x[1], box.x[2] - 1>>),
                     !.y = Common(@, <<box.y[1], box.y[2] - 1>>)]

\* Of the features of some seeds that r writes, r and s derive the same of what
\* falls into the box of s and the window of r.
Agree(r, s, seeds) ==
  LET shared == [x |-> Common(BoxOf(s).x, WindowOf(r).x), y |-> Common(BoxOf(s).y, WindowOf(r).y)]
      written == seeds \cap {d.put.of : d \in {d \in made[r].derived : Reaches(d.put.shape, BoxOf(r))}}
      crossing(t) == {[d EXCEPT !.put.shape = Clipped(@, shared)] :
                        d \in {d \in made[t].derived : /\ d.put.of \in written
                                                       /\ Reaches(d.put.shape, shared)}}
  IN  crossing(r) \subseteq crossing(s)

\* The seeds whose place two regions look up alike.  At the rim of a table, far
\* outside the window it is for, only some of the nine cells about a query are
\* known, and the nearest of them need not be the nearest of all.
PlacedAlike(r, s) ==
  LET place(t, seed) ==
        Place(made[t].table, seed.x,
              IF seed.kind \in {"tree", "cover", "boulder"} THEN Height(seed.x) ELSE seed.y)
  IN  {i \in DOMAIN scene.seeds : place(r, scene.seeds[i]) = place(s, scene.seeds[i])}

\* Every feature that crosses the border of two regions comes out the same on
\* both sides, whatever each of them has in its window, or else the two look up
\* the place of its seat differently: nothing but a rim of a table can tear it.
SeamsAgree ==
  \A r, s \in DOMAIN made : r # s => Agree(r, s, PlacedAlike(r, s))

\* What the documentation promises, rims or no: every feature that crosses a
\* border comes out the same on both sides (docs/Worldgen.md:6, "each
\* overlapping region re-derives the identical feature and keeps only its own
\* intersection").
FeaturesAreIdentical ==
  \A r, s \in DOMAIN made : r # s => Agree(r, s, DOMAIN scene.seeds)

\* The table of a region gives every point of its window the place that the
\* point has without a table, so that neighbours and the names told to players
\* agree on it, however far the noise carries a query.
PlacesAgree ==
  table # <<>> =>
    \A p \in scene.probes :
      Inside(p, WindowOf(region)) => Place(table, p[1], p[2]) = PlaceAt(p[1], p[2])
=============================================================================
