------------------------------ MODULE Carving ------------------------------
(***************************************************************************)
(* What is hollowed out of the ground before it is filled: worms, chambers, *)
(* mouths, shafts, layers and mines (fallingsand_worldgen caves.rs,         *)
(* mines.rs).                                                               *)
(*                                                                         *)
(* scene.seeds lists the anchors of the lattices whose draws bring a        *)
(* feature about.  Each has a kind, a seat (x, y) and the extreme that its  *)
(* ranges come to: all low, or all high (big); draws of a place along a     *)
(* span are spread evenly over it.  chance, in percent, is the draw that    *)
(* the place of the seat has to exceed for a worm or a chamber.  A feature is a sequence of shapes, a    *)
(* round shape is its bounding box, and a worm goes straight.               *)
(***************************************************************************)
EXTENDS Places

\* A box whose y follows a slope (thousandths) of its column: the anchor, one
\* of every so many, from first to first + count - 1 columns beside it.
Box(x1, x2, y1, y2) ==
  [x |-> <<x1, x2>>, y |-> <<y1, y2>>, seat |-> 0, slope |-> 0, bias |-> 0,
   every |-> 1, first |-> 0, count |-> 1, gaps |-> {}]

Within(v, range) == range[1] <= v /\ v <= range[2]

Holds(shape, x, y) ==
  LET column == ((x - shape.first) \div shape.every) * shape.every
      rise == (shape.slope * (column - shape.seat) + shape.bias) \div 1000
  IN  /\ (x - shape.first) % shape.every < shape.count
      /\ Within(column, shape.x)
      /\ \A gap \in shape.gaps : ~Within(column, gap)
      /\ Within(y - rise, shape.y)

\* Whether a shape may hold a cell of a window, given as half-open ranges.
Reaches(shape, window) ==
  LET slack == (Size(shape.slope) * (shape.x[2] - shape.x[1])) \div 1000 + 1
  IN  /\ shape.x[1] + shape.first < window.x[2]
      /\ shape.x[2] + shape.first + shape.count > window.x[1]
      /\ shape.y[1] - slack < window.y[2] /\ shape.y[2] + slack >= window.y[1]

Draw(seed, low, high) == IF seed.big THEN high ELSE low
Spread(i, n, from, to) == from + (i * (to - from)) \div (n + 1)
-----------------------------------------------------------------------------
(* The lattices: where an anchor may be, and how far what it seats reaches. *)

PITCH == [local |-> 1064, trunk |-> 2832, chamber |-> 904, mouth |-> 1536, shaft |-> 640,
          mine |-> 2200, remnant |-> 96, piece |-> 200]
REACH == [local |-> 900, trunk |-> 3600, chamber |-> 1200, mouth |-> 380, shaft |-> 460,
          mine |-> 1240, remnant |-> 0, piece |-> 0]

\* Mutation: only the anchors inside the window.
InReachOfNone(kind, at, range) == Within(at, range)

\* The columns or rows of anchors from which a range is reached.
InReach(kind, at, range) ==
  Within(at \div PITCH[kind],
         <<(range[1] - REACH[kind]) \div PITCH[kind], (range[2] + REACH[kind]) \div PITCH[kind]>>)

Seeds(kind, window) ==
  SelectSeq([i \in DOMAIN scene.seeds |-> i],
            LAMBDA i : LET s == scene.seeds[i]
                       IN  /\ s.kind = kind
                           /\ InReach(kind, s.x, window.x)
                           /\ kind = "mouth" \/ InReach(kind, s.y, window.y))

\* One cut of the feature that the seed i brings about.
Cut(i, open, shape) == [of |-> i, open |-> open, shape |-> shape]
Cuts(i, shapes) == [n \in DOMAIN shapes |-> Cut(i, TRUE, shapes[n])]
ForEach(seeds, Feature(_)) == FlattenSeq([n \in DOMAIN seeds |-> Feature(seeds[n])])

\* What a region has carved: the last cut that holds a cell of the window decides.
IsOpen(carve, window, x, y) ==
  /\ window.x[1] <= x /\ x < window.x[2] /\ window.y[1] <= y /\ y < window.y[2]
  /\ LET last == SelectLastInSeq(carve, LAMBDA c : Holds(c.shape, x, y))
     IN  last # 0 /\ carve[last].open
-----------------------------------------------------------------------------
(* Worms                                                                    *)

Worm(x, y, heading, radius, length, squash) ==
  [x |-> x, y |-> y, heading |-> heading, radius |-> radius, length |-> length, squash |-> squash]

\* A turn by one radian to either side; headings are unit vectors in percent.
Turn(h, side) ==
  <<(54 * h[1] - side * 84 * h[2]) \div 100, (side * 84 * h[1] + 54 * h[2]) \div 100>>

Ahead(worm, distance) ==
  <<worm.x + (worm.heading[1] * distance) \div 100, worm.y + (worm.heading[2] * distance) \div 100>>

\* A capsule, cut off below its centre: the lowest slice stays as a floor.
Stamp(at, radius, squash) ==
  LET ry == Larger((100 * radius) \div squash, 1)
  IN  Box(at[1] - radius, at[1] + radius, at[2] - (62 * ry) \div 100, at[2] + ry)

\* Five steps of the code are one stride, no longer than the worm is wide.
Trail(worm, root, reach, window) ==
  LET stride == 2 * worm.radius
      at(n) == Ahead(worm, n * stride)
      inReach == SelectSeq([n \in 1..(worm.length \div stride) |-> at(n)],
                           LAMBDA p : Size(p[1] - root[1]) <= reach /\ Size(p[2] - root[2]) <= reach)
      near == SelectSeq(inReach,
                        LAMBDA p : Reaches(Box(p[1] - worm.radius, p[1] + worm.radius,
                                               p[2] - 2 * worm.radius, p[2] + 2 * worm.radius), window))
  IN  [n \in DOMAIN near |-> Stamp(near[n], worm.radius, worm.squash)]

\* A worm and its one generation of branches, all within reach of the root.
RunBranch(seed, worm, root, reach, window) ==
  LET count == Draw(seed, 1, 3)
      child(n) ==
        LET at == Ahead(worm, Spread(n, count, worm.length \div 6, (4 * worm.length) \div 5))
        IN  Worm(at[1], at[2], Turn(worm.heading, IF n % 2 = 0 THEN 1 ELSE -1),
                 Larger((Draw(seed, 52, 74) * worm.radius) \div 100, 5),
                 (Draw(seed, 35, 62) * worm.length) \div 100, worm.squash)
  IN  FlattenSeq([n \in 1..count |-> Trail(child(n), root, reach, window)])
        \o Trail(worm, root, reach, window)

\* How likely the place of a seat lets a worm start there: less and less above
\* the sea, by one over a cube.
WormChance(sub, y) ==
  LET above == Larger(y - SEA_LEVEL, 0) \div 10
  IN  (27000 * Smaller(sub.worms, 100)) \div (27000 + above * above * above)

CarveWorms(kind, table, window) ==
  LET feature(i) ==
        LET s == scene.seeds[i]
            length == IF kind = "trunk" THEN Draw(s, 4200, 9000) ELSE Draw(s, 700, 1900)
            squash == IF s.heading[2] < -50 THEN 90 ELSE 140
            worm == Worm(s.x, s.y, s.heading, Draw(s, 7, 22), length, squash)
        IN  IF s.chance >= WormChance(Sub(table, s.x, s.y), s.y) THEN <<>>
            ELSE Cuts(i, RunBranch(s, worm, <<s.x, s.y>>, REACH[kind], window))
  IN  ForEach(Seeds(kind, window), feature)
-----------------------------------------------------------------------------
(* Chambers, mouths, shafts and layers                                      *)

RaisePillars(i, s, rx, ry) ==
  LET count == Draw(s, 1, 4)
      radius == Draw(s, 4, 11)
      pillar(n) == LET px == Spread(n, count, s.x - (75 * rx) \div 100, s.x + (75 * rx) \div 100)
                   IN  Cut(i, FALSE, Box(px - radius, px + radius, s.y - ry - 4, s.y + ry + 4))
  IN  IF ry < 40 THEN <<>> ELSE [n \in 1..count |-> pillar(n)]

OpenExits(i, s, window) ==
  LET count == Draw(s, 2, 4)
      heading(n) == << <<100, 0>>, <<-97, 24>>, <<0, -100>>, <<70, 71>> >>[n]
      exit(n) == Worm(s.x, s.y, heading(n), Draw(s, 7, 12), Draw(s, 400, 900), 125)
  IN  FlattenSeq([n \in 1..count |->
                    Cuts(i, RunBranch(s, exit(n), <<s.x, s.y>>, REACH.chamber, window))])

CarveChambers(table, window) ==
  LET feature(i) ==
        LET s == scene.seeds[i]
            rx == Draw(s, 60, 220)
            ry == Larger((Draw(s, 34, 62) * rx) \div 100, 26)
        IN  IF \/ s.y > Height(s.x) - 90
               \/ 100 * s.chance >= 30 * Sub(table, s.x, s.y).chambers THEN <<>>
            ELSE <<Cut(i, TRUE, Box(s.x - rx - 4, s.x + rx + 4, s.y - ry - 4, s.y + ry + 4))>>
                   \o RaisePillars(i, s, rx, ry) \o OpenExits(i, s, window)
  IN  ForEach(Seeds("chamber", window), feature)

\* A mouth starts above its column's surface and goes down.
CarveMouths(window) ==
  LET feature(i) ==
        LET s == scene.seeds[i]
            radius == Draw(s, 7, 13)
            top == Height(s.x)
        IN  Cuts(i, RunBranch(s, Worm(s.x, top + radius, s.heading, radius, Draw(s, 220, 460), 90),
                              <<s.x, top>>, REACH.mouth, window))
  IN  ForEach(Seeds("mouth", window), feature)

CarveShafts(window) ==
  LET feature(i) ==
        LET s == scene.seeds[i]
        IN  IF s.y > Height(s.x) - 40 THEN <<>>
            ELSE Cuts(i, RunBranch(s, Worm(s.x, s.y, s.heading, Draw(s, 4, 7), Draw(s, 240, 420), 75),
                                   <<s.x, s.y>>, REACH.shaft, window))
  IN  ForEach(Seeds("shaft", window), feature)

LAYER == 46

\* A layer opens where the noise of its level lets it: the columns of its seed.
CarveLayers(window) ==
  LET levels == (window.y[1] \div LAYER)..((window.y[2] + LAYER - 1) \div LAYER)
      present == SelectSeq([i \in DOMAIN scene.seeds |-> i],
                           LAMBDA i : /\ scene.seeds[i].kind = "layer"
                                      /\ scene.seeds[i].y \div LAYER \in levels)
      feature(i) ==
        LET s == scene.seeds[i]
            floor == (s.y \div LAYER) * LAYER + Draw(s, -52, 52) - Draw(s, 1, 5)
        IN  <<Cut(i, TRUE, Box(Larger(s.x, window.x[1]), Smaller(s.to, window.x[2] - 1),
                               floor, floor + Draw(s, 12, 28) + Draw(s, 6, 18)))>>
  IN  ForEach(present, feature)

\* Everything the caves open in a window, in the order of the code.
Build(table, window) ==
  CarveWorms("local", table, window) \o CarveWorms("trunk", table, window)
    \o CarveChambers(table, window)
    \o CarveMouths(window) \o CarveShafts(window) \o CarveLayers(window)
-----------------------------------------------------------------------------
(* Mines: one seat, one to four levels, all of it laid out from its draws.  *)

Diggable == {"soil", "carbonate", "clastic", "igneous", "crystalline", "fungal"}

FloorAt(level, x) == level.floor + (level.slope * (x - level.seat) + 500) \div 1000

\* A box that follows the slope of a level, from its floor up.
Along(level, x1, x2, y1, y2) ==
  [Box(x1, x2, level.floor + y1, level.floor + y2)
     EXCEPT !.seat = level.seat, !.slope = level.slope, !.bias = 500]

LayLevel(s, index) ==
  LET half == Draw(s, 200, 700)
      from == s.x + Draw(s, -(half \div 3), half \div 3) - half
      to == from + 2 * half
      clearance == Draw(s, 13, 19)
      breaks == Draw(s, 0, 4)
      collapse(n) == LET at == Spread(n, breaks, from, to)
                     IN  [x |-> <<at, at + Draw(s, 8, 30)>>,
                          top |-> IF n % 2 = 0 THEN clearance ELSE (2 * clearance) \div 3]
      spurs == Draw(s, 2, 7)
      stub(n) == [x |-> Spread(n, spurs, from, to), direction |-> IF n % 2 = 0 THEN 1 ELSE -1,
                  length |-> Draw(s, 30, 130), clearance |-> Draw(s, 11, 15), face |-> s.face]
  IN  [seat |-> s.x, floor |-> s.y - index * Draw(s, 70, 140), from |-> from, to |-> to,
       clearance |-> clearance, slope |-> Draw(s, -25, 25),
       collapses |-> [n \in 1..breaks |-> collapse(n)],
       stubs |-> [n \in 1..spurs |-> stub(n)]]

\* A riser joins two levels that overlap, an adit the top one and the surface.
LayOut(i, prize) ==
  LET s == scene.seeds[i]
      levels == [n \in 1..s.count |-> LayLevel(s, n - 1)]
      riser(n) ==
        LET upper == levels[n]
            lower == levels[n + 1]
            x == Spread(1, 1, Larger(upper.from, lower.from), Smaller(upper.to, lower.to))
        IN  [x |-> x, half |-> Draw(s, 4, 8), bottom |-> FloorAt(lower, x),
             top |-> FloorAt(upper, x) + upper.clearance]
      joined == SelectSeq([n \in 1..(s.count - 1) |-> n],
                          LAMBDA n : Smaller(levels[n].to, levels[n + 1].to)
                                     - Larger(levels[n].from, levels[n + 1].from) >= 24)
      portal == Spread(1, 2, levels[1].from, levels[1].to)
      rise == Height(portal) - (FloorAt(levels[1], portal) + levels[1].clearance)
      adit == [x |-> portal, half |-> Draw(s, 4, 7), bottom |-> FloorAt(levels[1], portal),
               top |-> Height(portal) + 4]
  IN  [of |-> i, levels |-> levels, prize |-> prize,
       risers |-> [n \in DOMAIN joined |-> riser(joined[n])],
       adits |-> IF 0 < rise /\ rise <= 900 THEN <<adit>> ELSE <<>>]

Plan(table, window) ==
  LET feature(i) ==
        LET s == scene.seeds[i]
            sub == Sub(table, s.x, s.y)
            depth == Depth(s.x, s.y)
        IN  IF sub.lithology \in Diggable /\ 90 <= depth /\ depth < 460
            THEN <<LayOut(i, sub.prize)>> ELSE <<>>
  IN  ForEach(Seeds("mine", window), feature)

\* A dead end rises eight in a hundred away from its level.
OffStub(level, stub, y1, y2) ==
  LET end == stub.x + stub.direction * stub.length
  IN  [Box(Smaller(stub.x, end), Larger(stub.x, end),
           FloorAt(level, stub.x) + y1, FloorAt(level, stub.x) + y2)
         EXCEPT !.seat = stub.x, !.slope = 80 * stub.direction]

Upright(shaft, x1, x2, bottom, top) == Box(shaft.x + x1, shaft.x + x2, bottom, top)

CarveMine(mine) ==
  LET level(l) ==
        <<Along(l, l.from, l.to, 0, l.clearance)>>
          \o [n \in DOMAIN l.stubs |-> OffStub(l, l.stubs[n], 0, l.stubs[n].clearance)]
      shaft(r) == Upright(r, -r.half, r.half, r.bottom, r.top)
  IN  Cuts(mine.of, FlattenSeq([n \in DOMAIN mine.levels |-> level(mine.levels[n])])
                      \o [n \in DOMAIN mine.risers |-> shaft(mine.risers[n])]
                      \o [n \in DOMAIN mine.adits |-> shaft(mine.adits[n])])
=============================================================================
