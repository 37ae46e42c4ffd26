----------------------------- MODULE Furnishing -----------------------------
(***************************************************************************)
(* What is put into the ground once it is carved: growth, veins, the        *)
(* timbers of mines, remnants and set pieces (fallingsand_worldgen          *)
(* structures.rs, flora.rs, veins.rs, mines.rs, remnants.rs, setpieces.rs). *)
(*                                                                         *)
(* A ground is what a region knows of its window: [window, table, carve].   *)
(* A find that may fail is a set of at most one coordinate.                 *)
(***************************************************************************)
EXTENDS Carving

Put(i, material, shape) == [of |-> i, material |-> material, shape |-> shape]
Fill(i, material, x1, x2, y1, y2) == Put(i, material, Box(x1, x2, y1, y2))

Highest(S) == IF S = {} THEN {} ELSE {Max(S)}
Lowest(S) == IF S = {} THEN {} ELSE {Min(S)}

Open(ground, x, y) == IsOpen(ground.carve, ground.window, x, y)
IsRock(ground, x, y) == Below(x, y) > 0 /\ ~Open(ground, x, y)

\* Site: the sky, a cave or stone.
At(ground, x, y) ==
  IF Below(x, y) <= 0 THEN "sky" ELSE IF Open(ground, x, y) THEN "cave" ELSE "stone"

HollowAbove(ground, x, y, need) == \A step \in 1..need : At(ground, x, y + step) = "cave"
HollowBelow(ground, x, y, need) == \A step \in 1..need : At(ground, x, y - step) = "cave"

FloorNear(ground, x, y, span, headroom) ==
  Highest({l \in (y - span)..(y + span) :
             At(ground, x, l) = "stone" /\ HollowAbove(ground, x, l, headroom)})

CeilingNear(ground, x, y, span, drop) ==
  Lowest({l \in (y - span)..(y + span) :
            At(ground, x, l) = "stone" /\ HollowBelow(ground, x, l, drop)})

Bench(ground, x, y, half, headroom) ==
  \A c \in (x - half)..(x + half) :
    At(ground, c, y) = "stone" /\ HollowAbove(ground, c, y, headroom)

\* The highest rock about the surface of a column.
GroundAt(ground, x) ==
  Highest({y \in (Height(x) - 16)..(Height(x) + 30) : IsRock(ground, x, y)})
-----------------------------------------------------------------------------
(* Growth: trees, ground cover and boulders, each from its column's anchor. *)

BaseTree == [trunk |-> "wood", foliage |-> "leaves", gills |-> "none", canopy |-> "broad",
  height |-> <<45, 80>>, width |-> <<3, 4>>, clear |-> 40, spread |-> 105, branches |-> <<5, 9>>]
Species ==
  [broadleaf |-> BaseTree,
   resinpine |-> [foliage |-> "needles", canopy |-> "conifer", height |-> <<80, 130>>,
     width |-> <<3, 3>>, clear |-> 22, spread |-> 52, branches |-> <<0, 0>>] @@ BaseTree,
   redwood |-> [trunk |-> "heartwood", height |-> <<300, 440>>, width |-> <<8, 12>>,
     clear |-> 66, spread |-> 42, branches |-> <<7, 12>>] @@ BaseTree,
   mangrove |-> [height |-> <<40, 78>>, clear |-> 30, spread |-> 115,
     branches |-> <<6, 10>>] @@ BaseTree,
   hawthorn |-> [height |-> <<26, 46>>, width |-> <<2, 3>>, clear |-> 32, spread |-> 110,
     branches |-> <<4, 7>>] @@ BaseTree,
   dwarfwillow |-> [height |-> <<14, 26>>, width |-> <<2, 2>>, clear |-> 28, spread |-> 120,
     branches |-> <<3, 5>>] @@ BaseTree,
   snag |-> [trunk |-> "charcoal", foliage |-> "charcoal", canopy |-> "bare",
     height |-> <<60, 110>>, width |-> <<2, 3>>, clear |-> 50, spread |-> 0,
     branches |-> <<3, 6>>] @@ BaseTree,
   sporecap |-> [trunk |-> "shroom stem", foliage |-> "shroom cap", gills |-> "glowcap",
     canopy |-> "cap", height |-> <<46, 96>>, width |-> <<4, 7>>, clear |-> 100,
     spread |-> 0, branches |-> <<0, 0>>] @@ BaseTree]

CROWN_REACH == 104

\* The crowns keep what is knit to the wood; the box of each is about the apex.
GrowBroad(i, kind, apex, top, radius) ==
  LET centre == top - radius \div 3
      ry == (88 * radius) \div 100
  IN  <<Fill(i, kind.foliage, apex - radius, apex + radius, centre - ry, centre + ry)>>

GrowConifer(i, kind, apex, top, height) ==
  LET span == ((100 - kind.clear) * height) \div 100
      widest == Smaller(Larger((kind.spread * height) \div 200, 3), CROWN_REACH)
  IN  IF span <= 0 THEN <<>>
      ELSE <<Fill(i, kind.foliage, apex - widest, apex + widest, top - span + 1, top)>>

GrowCap(i, s, kind, apex, top, width) ==
  LET radius == Larger(Draw(s, 3, 5) * width, 7)
      rise == Larger((55 * radius) \div 100, 4)
      rim == top - (80 * rise) \div 100
      under == rim - 5
      cap == Fill(i, kind.foliage, apex - radius, apex + radius, under, rim + rise)
      droop == Draw(s, 2, 5)
  IN  IF kind.gills = "none" THEN <<cap>>
      ELSE <<cap, Fill(i, kind.gills, apex - radius, apex + radius, under - droop, under - 1)>>

\* Trunk, branches and crown; a tree leans by at most eight in a hundred.
GrowTree(i, s, kind, x, floor) ==
  LET height == Draw(s, kind.height[1], kind.height[2])
      width == Draw(s, kind.width[1], kind.width[2])
      lean == Draw(s, -((8 * height) \div 100), (8 * height) \div 100)
      half == Larger((width + 1) \div 2, 1)
      root == floor + 1
      top == root + height
      apex == x + lean
      spread == Smaller((kind.spread * height) \div 200, CROWN_REACH)
      count == Draw(s, kind.branches[1], kind.branches[2])
      reach == Smaller(Draw(s, 6, 26), Larger(spread, 5))
      branch(n) ==
        LET step == Spread(n, count, (kind.clear * height) \div 100, height)
            base == x + (lean * step) \div height
            outward == IF n % 2 = 0 THEN <<base + 1, base + reach>> ELSE <<base - reach, base - 1>>
        IN  Fill(i, kind.trunk, outward[1], outward[2], root + step - 1,
                 root + step + (Draw(s, 15, 85) * reach) \div 100)
      crown == CASE kind.canopy = "bare" -> <<>>
                 [] kind.canopy = "broad" -> GrowBroad(i, kind, apex, top, Larger(spread, 4))
                 [] kind.canopy = "conifer" -> GrowConifer(i, kind, apex, top, height)
                 [] kind.canopy = "cap" -> GrowCap(i, s, kind, apex, top, width)
  IN  <<Fill(i, kind.trunk, Smaller(x, apex) - half, Larger(x, apex) + half, root, top - 1)>>
        \o [n \in 1..count |-> branch(n)] \o crown

Snapped(reference) == Larger(((reference + 4) \div 8) * 8, 8)

\* Trees and boulders stand up to a spacing right of their anchor's column.
Spaced(s, spacing) == spacing > 0 /\ s.x % Snapped(spacing) = 0
SeatOf(s, spacing) == s.x + Smaller(s.off, Snapped(spacing) - 1)

TreeOf(ground, i, s, skin, x) ==
  FlattenSeq(SetToSeq({GrowTree(i, s, Species[skin.tree], x, y) :
                         y \in {y \in GroundAt(ground, x) : y >= SEA_LEVEL - skin.wade}}))

CoverOf(ground, i, s, skin) ==
  SetToSeq({Fill(i, skin.groundCover, s.x, s.x, y + 1, y + Draw(s, 1, 3)) :
              y \in {y \in GroundAt(ground, s.x) : skin.submerged = (y < SEA_LEVEL)}})

BoulderOf(ground, i, s, skin, x) ==
  LET radius == Draw(s, 3, 12)
  IN  SetToSeq({Fill(i, skin.boulder, x - radius, x + radius, y, y + 2 * radius) :
                  y \in {y \in GroundAt(ground, x) : y >= SEA_LEVEL}})

GrowOn(ground, i, s, skin) ==
  CASE ~skin.present -> <<>>
    [] skin.present /\ s.kind = "tree" ->
         IF skin.tree = "none" \/ ~Spaced(s, skin.treeSpacing) THEN <<>>
         ELSE TreeOf(ground, i, s, skin, SeatOf(s, skin.treeSpacing))
    [] skin.present /\ s.kind = "cover" ->
         IF skin.groundCover = "none" THEN <<>> ELSE CoverOf(ground, i, s, skin)
    [] skin.present /\ s.kind = "boulder" ->
         IF ~Spaced(s, skin.boulderSpacing) THEN <<>>
         ELSE BoulderOf(ground, i, s, skin, SeatOf(s, skin.boulderSpacing))

GrowthAt(ground, i) ==
  LET s == scene.seeds[i] IN GrowOn(ground, i, s, Sub(ground.table, s.x, Height(s.x)).skin)

\* Every column of the window that anchors growth.
Growth(ground) ==
  LET anchors == SelectSeq([i \in DOMAIN scene.seeds |-> i],
                           LAMBDA i : /\ scene.seeds[i].kind \in {"tree", "cover", "boulder"}
                                      /\ Within(scene.seeds[i].x, ground.window.x))
  IN  ForEach(anchors, LAMBDA i : GrowthAt(ground, i))
-----------------------------------------------------------------------------
(* Veins: a core of ore and, about it, what tells of the ore.               *)

Deposit(material, hosts, lattice, radius, elongation, tell) ==
  [material |-> material, hosts |-> hosts, lattice |-> lattice, radius |-> radius,
   elongation |-> elongation, tell |-> tell]
Deposits ==
  <<Deposit("flint", {"carbonate"}, 168, <<2, 4>>, 10, "none"),
    Deposit("amber", {"soil"}, 464, <<1, 3>>, 10, "none"),
    Deposit("native copper", {"clastic", "igneous", "carbonate"}, 232, <<2, 5>>, 12, "verdigris"),
    Deposit("tin ore", {"crystalline", "igneous"}, 384, <<2, 4>>, 14, "none"),
    Deposit("coal", {"clastic", "soil"}, 152, <<4, 11>>, 50, "none"),
    Deposit("saltpeter", {"carbonate"}, 320, <<2, 5>>, 22, "none"),
    Deposit("iron ore", {"clastic", "igneous", "crystalline"}, 200, <<3, 7>>, 13, "rust"),
    Deposit("quartz", {"crystalline", "igneous"}, 304, <<3, 8>>, 32, "none"),
    Deposit("gold", {"crystalline"}, 560, <<1, 3>>, 24, "quartz"),
    Deposit("sulfur", {"igneous"}, 240, <<3, 7>>, 16, "none"),
    Deposit("lumen", {"crystalline", "flesh"}, 384, <<3, 8>>, 11, "quartz")>>

\* The veins that may reach a box (no margin), as pairs of a core and a halo.
Veins(ground, box) ==
  LET near(i) ==
        LET s == scene.seeds[i]
            d == Deposits[s.deposit]
            reach == d.radius[2] * ((d.elongation + 9) \div 10) + 4
            inReach(at, range) == Within(at \div d.lattice,
                                         <<(range[1] - reach) \div d.lattice,
                                           (range[2] - 1 + reach) \div d.lattice>>)
        IN  /\ inReach(s.x, box.x) /\ inReach(s.y, box.y)
            /\ Sub(ground.table, s.x, s.y).lithology \in d.hosts
      vein(i) ==
        LET s == scene.seeds[i]
            d == Deposits[s.deposit]
            ry == Draw(s, d.radius[1], d.radius[2])
            rx == (ry * d.elongation) \div 10
            about(material, percent) ==
              LET wide == Smaller((percent * rx) \div 100, rx + 1)
                  tall == Smaller((percent * ry) \div 100, ry + 1)
              IN  Fill(i, material, s.x - wide, s.x + wide, s.y - tall, s.y + tall)
        IN  [core |-> about(d.material, 100), halo |-> about(d.tell, 122)]
      seeded == SelectSeq([i \in DOMAIN scene.seeds |-> i],
                          LAMBDA i : scene.seeds[i].kind = "vein" /\ near(i))
  IN  [n \in DOMAIN seeded |-> vein(seeded[n])]
-----------------------------------------------------------------------------
(* The furniture of a mine: every level is cleared again before its timbers *)
(* stand, and where it has collapsed nothing but rubble is left.            *)

SET_SPACING == 24
SLEEPER_SPACING == 8
HEADFRAME == 14

\* What is cleared above the floor of a passage.
ClearSpan(clearance) == <<2, Smaller(11, clearance)>>

Rubble(i, level) ==
  [n \in DOMAIN level.collapses |->
     LET c == level.collapses[n]
     IN  Put(i, "rubble", Along(level, c.x[1], Smaller(c.x[2], level.to), 0, c.top))]

Timbers(i, level) ==
  LET hang == Larger(level.clearance \div 3, 2)
      standing(y1, y2) == [Along(level, level.from, level.to, y1, y2)
                             EXCEPT !.gaps = {level.collapses[n].x : n \in DOMAIN level.collapses}]
      every(spacing, first, count, y1, y2) ==
        [standing(y1, y2) EXCEPT !.every = spacing, !.first = first, !.count = count]
  IN  <<Put(i, "air", standing(ClearSpan(level.clearance)[1], ClearSpan(level.clearance)[2])),
        Put(i, "planks", every(SLEEPER_SPACING, 0, 1, 0, 0)),
        Put(i, "beam", every(SET_SPACING, -3, 7, level.clearance, level.clearance)),
        Put(i, "beam", every(SET_SPACING, 0, 1, level.clearance - hang, level.clearance - 1)),
        Put(i, "torch", every(SET_SPACING, 2, 1, level.clearance - 1, level.clearance - 1))>>

Stubs(i, level, prize) ==
  LET stub(s) ==
        LET end == s.x + s.direction * (s.length + 3)
            centre == FloorAt(level, s.x) + (8 * s.length) \div 100 + s.clearance \div 2
            face == Fill(i, prize, end - 7, end + 7, centre - 7, centre + 7)
        IN  <<Put(i, "air", OffStub(level, s, ClearSpan(s.clearance)[1], ClearSpan(s.clearance)[2]))>>
              \o (IF s.face THEN <<face>> ELSE <<>>)
  IN  FlattenSeq([n \in DOMAIN level.stubs |-> stub(level.stubs[n])])

RiserFurniture(i, r) ==
  <<Put(i, "air", Upright(r, -r.half, r.half, r.bottom + 2, r.top)),
    Put(i, "rope", Upright(r, 0, 0, r.bottom, r.top)),
    Put(i, "planks", Upright(r, -r.half, r.half, r.bottom, r.bottom))>>

Headframe(i, a) ==
  LET head == a.top - 4
      crown == head + HEADFRAME
      post == a.half + 1
      eave(side) == [Upright(a, IF side < 0 THEN -post - 4 ELSE post + 1,
                             IF side < 0 THEN -post - 1 ELSE post + 4, crown, crown + 1)
                       EXCEPT !.seat = a.x + side * post, !.slope = -1000 * side]
  IN  <<Put(i, "rope", Upright(a, 0, 0, a.bottom, crown)),
        Put(i, "beam", Upright(a, -post, -post, head - 8, crown)),
        Put(i, "beam", Upright(a, post, post, head - 8, crown)),
        Put(i, "beam", Upright(a, -post, post, crown, crown)),
        Put(i, "beam", eave(-1)), Put(i, "beam", eave(1))>>

Furnish(mine) ==
  LET level(l) == Rubble(mine.of, l) \o Timbers(mine.of, l) \o Stubs(mine.of, l, mine.prize)
  IN  FlattenSeq([n \in DOMAIN mine.levels |-> level(mine.levels[n])])
        \o FlattenSeq([n \in DOMAIN mine.risers |-> RiserFurniture(mine.of, mine.risers[n])])
        \o FlattenSeq([n \in DOMAIN mine.adits |-> Headframe(mine.of, mine.adits[n])])
-----------------------------------------------------------------------------
(* Remnants: twelve small marks of earlier visitors.                        *)

SEARCH == 68
WALL_SPAN == 26

\* The last open cell before the wall beside a cell of a cave.
WallBeside(ground, x, y) ==
  LET wall(d, side) == At(ground, x + side * d, y) = "stone"
      near == Lowest({d \in 1..WALL_SPAN : \E side \in {-1, 1} : wall(d, side)})
  IN  IF At(ground, x, y) # "cave" THEN {}
      ELSE {IF wall(d, 1) THEN x + d - 1 ELSE x - d + 1 : d \in near}

Firepit(i, s, ground, x, floor) ==
  LET half == Draw(s, 4, 8)
  IN  IF ~Bench(ground, x, floor, half, 10) THEN <<>>
      ELSE <<Fill(i, "ash", x - half + 2, x + half - 2, floor + 1, floor + 1),
             Fill(i, "rubble", x - half, x - half + 1, floor + 1, floor + 2),
             Fill(i, "rubble", x + half - 1, x + half, floor + 1, floor + 2)>>
           \o (IF s.big THEN <<Fill(i, "planks", x + half + 2, x + half + 2, floor + 1, floor + 1)>>
               ELSE <<>>)

Bones(i, s, x, floor) ==
  LET count == Draw(s, 4, 12)
      at(n) == Spread(n, count, x - 7, x + 8)
  IN  [n \in 1..count |-> Fill(i, "bone", at(n), at(n), floor + 1, floor + 1)]

Spoil(i, s, x, floor) ==
  LET half == Draw(s, 5, 12)
  IN  <<Fill(i, "rubble", x - half + 1, x + half - 1, floor + 1, floor + 6)>>

Pack(i, s, x, floor) ==
  LET width == Draw(s, 3, 6)
  IN  <<Fill(i, "planks", x, x + width - 1, floor + 1, floor + 1),
        Fill(i, "coal", x + width \div 2, x + width \div 2, floor + 2, floor + 2)>>
      \o (IF s.big THEN <<Fill(i, "torch", x + width + 1, x + width + 1, floor + 1, floor + 1),
                          Fill(i, "rope", x - 1, x - 1, floor + 1, floor + 1)>> ELSE <<>>)

Cache(i, s, x, floor, depth) ==
  LET prize == IF depth < 120 THEN "flint" ELSE IF depth < 300 THEN "bronze"
               ELSE IF depth < 550 THEN "iron" ELSE "steel"
      width == Draw(s, 2, 5)
  IN  <<Fill(i, "planks", x - 1, x + width, floor + 1, floor + 1),
        Fill(i, prize, x, x + width - 1, floor + 2, floor + 2)>>

RopeEnd(i, s, x, ceiling) == <<Fill(i, "rope", x, x, ceiling - Draw(s, 3, 11), ceiling - 1)>>

Torch(i, s, x, y, floor) ==
  IF s.big THEN <<Fill(i, "torch", x, x, y, y)>>
  ELSE <<Fill(i, "charcoal", x, x, floor + 1, floor + 1), Fill(i, "charcoal", x, x, y, y)>>

Tally(i, s, x, y) == <<Fill(i, "charcoal", x, x, y - 2, y + 2 * (Draw(s, 3, 9) - 1))>>

DigFace(i, s, x, y, prize) ==
  LET radius == Draw(s, 3, 7) IN <<Fill(i, prize, x - radius, x + radius, y - radius, y + radius)>>

Ladder(i, s, x, ceiling) ==
  LET drop == Draw(s, 6, 18)
  IN  <<Fill(i, "planks", x, x, ceiling - drop, ceiling)>>
      \o [n \in 1..(drop \div 3) |-> Fill(i, "planks", x - 2, x + 2, ceiling - 3 * n, ceiling - 3 * n)]

Cairn(i, s, x, floor, sub) ==
  LET cone == Fill(i, sub.stone, x - 3, x + 3, floor + 1, floor + Draw(s, 5, 14))
  IN  IF s.big THEN <<cone, Fill(i, "bone", x - 2, x + 2, floor - 2, floor - 2)>> ELSE <<cone>>

\* How much room the mark of a roll needs, above a floor or under a ceiling.
Room(roll) == CASE roll \in {0, 1, 3, 7, 8} -> 12 [] roll \in {2, 6} -> 10
                [] roll \in {4, 5} -> 11 [] roll \in {9, 10} -> 14 [] roll = 11 -> 13
Shoulder(roll) == CASE roll = 7 -> 4 [] roll = 8 -> 5 [] roll = 9 -> 6 [] OTHER -> 0

OnWall(i, s, wall, y, seat, prize) ==
  CASE s.roll = 7 -> Torch(i, s, wall, y, seat)
    [] s.roll = 8 -> Tally(i, s, wall, y)
    [] s.roll = 9 -> DigFace(i, s, wall, y, prize)

RemnantAt(ground, i, s, depth, sub, seat) ==
  CASE s.roll \in {0, 1} -> Firepit(i, s, ground, s.x, seat)
    [] s.roll = 2 -> Bones(i, s, s.x, seat)
    [] s.roll = 3 -> Spoil(i, s, s.x, seat)
    [] s.roll = 4 -> Pack(i, s, s.x, seat)
    [] s.roll = 5 -> Cache(i, s, s.x, seat, depth)
    [] s.roll = 6 -> RopeEnd(i, s, s.x, seat)
    [] s.roll \in {7, 8, 9} -> LET y == seat + Shoulder(s.roll)
                               IN  FlattenSeq(SetToSeq({OnWall(i, s, wall, y, seat, sub.prize) :
                                                          wall \in WallBeside(ground, s.x, y)}))
    [] s.roll = 10 -> Ladder(i, s, s.x, seat)
    [] s.roll = 11 -> Cairn(i, s, s.x, seat, sub)

RemnantIn(ground, i, s, depth, sub, found) ==
  IF depth < 12 \/ found = {} THEN <<>> ELSE RemnantAt(ground, i, s, depth, sub, Max(found))

Remnant(ground, i) ==
  LET s == scene.seeds[i]
  IN  RemnantIn(ground, i, s, Depth(s.x, s.y), Sub(ground.table, s.x, s.y),
                IF s.roll \in {6, 10} THEN CeilingNear(ground, s.x, s.y, SEARCH, Room(s.roll))
                ELSE FloorNear(ground, s.x, s.y, SEARCH, Room(s.roll)))

Remnants(ground) == ForEach(Seeds("remnant", ground.window), LAMBDA i : Remnant(ground, i))
-----------------------------------------------------------------------------
(* Set pieces: what waits behind a wall that somebody will dig through.     *)

Pocket(rocks, depth, room, half, rise, fill, crust, thickness) ==
  [rocks |-> rocks, depth |-> depth, room |-> room, half |-> half, rise |-> rise,
   fill |-> fill, crust |-> crust, thickness |-> thickness,
   stain |-> "none", drips |-> FALSE, heap |-> FALSE, hatch |-> FALSE]
AnyRock == {"soil", "carbonate", "clastic", "igneous", "crystalline", "fungal", "frozen", "flesh"}
Pieces ==
  <<[Pocket({"carbonate", "soil", "clastic"}, <<50, 479>>, 12, <<10, 26>>, <<10, 26>>,
            "water", "clay", 3) EXCEPT !.stain = "gypsum", !.drips = TRUE],
    [Pocket({"clastic"}, <<30, 399>>, 12, <<9, 22>>, <<12, 30>>, "sand", "sandstone", 2)
       EXCEPT !.heap = TRUE],
    [Pocket({"clastic", "carbonate"}, <<60, 499>>, 14, <<7, 14>>, <<14, 30>>,
            "sand", "sandstone", 4) EXCEPT !.hatch = TRUE],
    [Pocket({"soil", "clastic"}, <<80, 549>>, 12, <<8, 18>>, <<10, 22>>, "firedamp", "host", 3)
       EXCEPT !.stain = "sulfur"],
    [Pocket({"igneous"}, <<320, 1000>>, 12, <<9, 20>>, <<10, 24>>, "lava", "obsidian", 4)
       EXCEPT !.stain = "obsidian"],
    [Pocket({"clastic"}, <<180, 619>>, 12, <<8, 18>>, <<8, 20>>, "tar", "shale", 3)
       EXCEPT !.drips = TRUE],
    Pocket({"igneous", "carbonate"}, <<280, 779>>, 14, <<9, 20>>, <<6, 16>>, "brine", "gypsum", 0),
    Pocket({"frozen"}, <<50, 549>>, 12, <<9, 20>>, <<12, 28>>, "water", "blue ice", 5),
    Pocket(AnyRock, <<80, 519>>, 12, <<4, 8>>, <<4, 7>>, "gunpowder", "planks", 0)>>
SUMP == 7
KEG == 9

Lens(i, x, ceiling, half, rise, fill, crust, thickness) ==
  <<Fill(i, crust, x - half, x + half, ceiling, ceiling + thickness - 1),
    Fill(i, fill, x - half, x + half, ceiling + thickness, ceiling + thickness + rise - 1),
    Fill(i, crust, x - half, x + half, ceiling + thickness + rise, ceiling + thickness + rise)>>

\* The floor under a column of a ceiling, where a drip lands or a heap lies.
Landing(ground, x, ceiling) ==
  Highest({l \in (ceiling - 39)..(ceiling - 1) : At(ground, x, l) = "stone"})

Basin(i, x, floor, half, sink, fill, rim) ==
  <<Fill(i, rim, x - half, x + half, floor - sink, floor),
    Fill(i, fill, x - half + 1, x + half - 1, floor - sink + 1, floor)>>

Keg(i, s, x, floor) ==
  LET width == Draw(s, 4, 8)
      height == Draw(s, 4, 7)
  IN  <<Fill(i, "planks", x - 1, x + width, floor + 1, floor + height),
        Fill(i, "gunpowder", x, x + width - 1, floor + 2, floor + height - 1)>>
      \o (IF s.big THEN <<Fill(i, "torch", x + width + 3, x + width + 3, floor + 1, floor + 1)>>
          ELSE <<>>)

\* What fell from the ceiling lies on the floor below it.
Lands(i, fill, x1, x2, landing, height) ==
  SetToSeq({Fill(i, fill, x1, x2, y + 1, y + height) : y \in landing})

\* The lens of a pocket, and what gives it away below its ceiling.
Hidden(i, s, ground, piece, sub, x, ceiling, half) ==
  LET crust == IF piece.crust = "host" THEN sub.stone ELSE piece.crust
      landing == Landing(ground, x, ceiling)
  IN  Lens(i, x, ceiling, half, Draw(s, piece.rise[1], piece.rise[2]), piece.fill, crust, piece.thickness)
      \o (IF piece.hatch THEN <<Fill(i, "planks", x - 2, x + 2, ceiling, ceiling + 3)>> ELSE <<>>)
      \o (IF piece.stain = "none" THEN <<>>
          ELSE <<Fill(i, piece.stain, x - half, x + half, ceiling - 1, ceiling - 1)>>)
      \o (IF ~piece.drips THEN <<>> ELSE Lands(i, piece.fill, x, x, landing, 1))
      \o (IF ~piece.heap THEN <<>>
          ELSE Lands(i, piece.fill, x - half \div 2 + 1, x + half \div 2 - 1, landing, 5))

Sump(i, s, ground, piece, sub, floor, half) ==
  IF ~Bench(ground, s.x, floor, half, 12) THEN <<>>
  ELSE Basin(i, s.x, floor, half, Draw(s, piece.rise[1], piece.rise[2]),
             IF sub.lithology = "igneous" THEN "acid" ELSE piece.fill, piece.crust)

\* A keg and a sump stand on a floor, every other piece is behind a ceiling.
PieceIn(ground, i, s, depth, sub) ==
  LET fitting == SelectSeq([n \in DOMAIN Pieces |-> n],
                           LAMBDA n : /\ sub.lithology \in Pieces[n].rocks
                                      /\ Within(depth, Pieces[n].depth))
      chosen == fitting[1 + (s.pick % Len(fitting))]
      piece == Pieces[chosen]
      half == Draw(s, piece.half[1], piece.half[2])
      floors == FloorNear(ground, s.x, s.y, SEARCH, piece.room)
      ceilings == CeilingNear(ground, s.x, s.y, SEARCH, piece.room)
  IN  IF depth < 30 \/ fitting = <<>> THEN <<>>
      ELSE FlattenSeq(SetToSeq(
             CASE chosen = KEG -> {Keg(i, s, s.x, y) : y \in floors}
               [] chosen = SUMP -> {Sump(i, s, ground, piece, sub, y, half) : y \in floors}
               [] OTHER -> {Hidden(i, s, ground, piece, sub, s.x, y, half) : y \in ceilings}))

SetPiece(ground, i) ==
  LET s == scene.seeds[i]
  IN  PieceIn(ground, i, s, Depth(s.x, s.y), Sub(ground.table, s.x, s.y))

SetPieces(ground) == ForEach(Seeds("piece", ground.window), LAMBDA i : SetPiece(ground, i))
=============================================================================
