------------------------------- MODULE Places -------------------------------
(***************************************************************************)
(* The ground of the world and the lattice of places in it                  *)
(* (fallingsand_worldgen terrain.rs, lattice.rs).                           *)
(*                                                                         *)
(* The variable scene is the seed: what the noise fields and the hashed     *)
(* draws come to.  A field of x alone takes one value to the left of an     *)
(* edge and one to the right of it; a field of both takes one value, or,    *)
(* where it is read at the anchors of the lattice, one for the even and one *)
(* for the odd ones.  Noise is in percent, depth in thousandths, and        *)
(* lattice coordinates are in hundredths of a cell.                         *)
(***************************************************************************)
EXTENDS Biomes

VARIABLE scene

SEA_LEVEL == 0
DEPTH_HALF == 2200
CELL_WIDTH == 300
SKIN_DEPTH == 70
BIOME_SPAN == 5

Larger(a, b) == IF a > b THEN a ELSE b
Smaller(a, b) == IF a < b THEN a ELSE b
Between(v, lo, hi) == Larger(lo, Smaller(v, hi))
Size(v) == IF v < 0 THEN -v ELSE v

\* The noise that is a function of x.
Column(x) == scene.columns[IF x < scene.edge THEN 1 ELSE 2]

SHORE == << <<0, -300>>, <<18, -150>>, <<30, -18>>, <<44, 52>>, <<70, 132>>, <<100, 300>> >>

Smooth(u) == u * u * (300 - 2 * u)

\* Between two knots the height follows 3u^2 - 2u^3.
Rise(a, b, u) == a[2] + ((b[2] - a[2]) * (Smooth(u) \div 100)) \div 10000

Spline(t) ==
  LET high == Min({i \in 2..Len(SHORE) : t <= SHORE[i][1]})
      a == SHORE[high - 1]
      b == SHORE[high]
  IN  Rise(a, b, ((t - a[1]) * 100) \div (b[1] - a[1]))

Massif(t, rugged) == ((Smooth(t) \div 10000) * 3 * (30 + (70 * rugged) \div 100)) \div 100

Raw(c) ==
  LET rugged == 100 - c.flat
      amplitude == 18 + (rugged * rugged * 240) \div 10000
  IN  Spline(c.land) + (c.ridge * amplitude) \div 100 + (14 * c.detail + 4 * c.grain) \div 100
        + Massif(Between(((c.massif - 86) * 100) \div 14, 0, 100), rugged)

Shaped(fraction) ==
  LET riser == fraction * fraction * fraction
      tread == (100 - fraction) * (100 - fraction) * (100 - fraction)
  IN  (100 * (riser \div 100)) \div Larger(1, (riser + tread) \div 100)

Terraced(raw, step, fraction, terracing) ==
  (raw \div step) * step
    + ((fraction + ((Shaped(fraction) - fraction) * terracing) \div 100) * step) \div 100

Surface(c, raw, step, terracing) ==
  IF terracing = 0 THEN raw
  ELSE Terraced(raw, step, ((raw % step) * 100) \div step, terracing) + (4 * c.grain) \div 100

HeightOf(c) ==
  Surface(c, Raw(c), 46 + ((c.terrace + 100) * 120) \div 200,
       (90 * Between(100 - (Size(c.flat - 68) * 100) \div 15, 0, 100)) \div 100)
Height(x) == HeightOf(Column(x))

\* How far a point is under the ground, with the overhangs near the surface.
Overhung(base, flat) ==
  LET fade == 200 - Smaller(Size(base), 200)
      lip == (scene.overhang * 30 * (100 - flat)) \div 10000
  IN  base + (lip * fade * fade) \div 40000
Below(x, y) == Overhung(Height(x) - y, Column(x).flat)

\* What depth and depth_to_above agree on: the warped cells under the surface.
Warped(above) ==
  LET fade == Smaller(above, 200)
  IN  Larger(above + (((scene.warp * 460) \div 100) * fade * fade) \div 40000, 0)
Seated(x, y) == Warped(Larger(Height(x) - y, 0))

ToDepth(above) == (1000 * above) \div (above + DEPTH_HALF)
Depth(x, y) == ToDepth(Seated(x, y))

Params(x, climate, depth) ==
  LET d == depth \div 10
      tail == Between(((Size(climate.strange) - 30) * 100) \div 70, 0, 100)
      percent(v) == Between(v, 0, 100)
  IN  [depth |-> d, land |-> Column(x).land, relief |-> Column(x).flat,
       rock |-> percent(50 + climate.rock),
       heat |-> percent(50 + (climate.warm * (200 + 3 * d)) \div 200 + (d * d * 34) \div 10000),
       wet |-> percent(50 + (climate.damp * (100 + (d * 8) \div 10)) \div 100),
       weird |-> percent((tail * tail + (d * d * 3) \div 10) \div 100),
       variant |-> percent(50 + climate.variant)]
-----------------------------------------------------------------------------
(* The jittered lattice of anchors in warped (x, above) space.              *)

RowOf(above) ==
  IF above < SKIN_DEPTH THEN (100 * above) \div SKIN_DEPTH
  ELSE 100 + (100 * (above - SKIN_DEPTH)) \div CELL_WIDTH

AboveOf(row) ==
  IF row < 100 THEN (row * SKIN_DEPTH) \div 100
  ELSE SKIN_DEPTH + ((row - 100) * CELL_WIDTH) \div 100

Swirled(seated) ==
  LET fade == Smaller((100 * seated) \div 460, 100)
  IN  Larger(seated + (3 * scene.swirl * fade * fade) \div 10000, 0)

Coords(x, y) ==
  LET wandered == x + (190 * scene.wander + 300 * scene.curl) \div 100
  IN  <<(100 * wandered) \div CELL_WIDTH, RowOf(Swirled(Seated(x, y)))>>

Anchor(jitter, span, c) ==
  LET j == jitter[1 + ((c[1] + c[2]) % 2)]
  IN  <<(100 * c[1] + 50 + j[1]) * span, (100 * c[2] + 50 + j[2]) * span>>

Distance(a, b) == (a[1] - b[1]) * (a[1] - b[1]) + (a[2] - b[2]) * (a[2] - b[2])

Nine == << <<-1, -1>>, <<0, -1>>, <<1, -1>>, <<-1, 0>>, <<0, 0>>, <<1, 0>>,
          <<-1, 1>>, <<0, 1>>, <<1, 1>> >>

\* The cell, of the nine about a point, whose anchor is the nearest and passes.
NearestCell(jitter, span, p, Known(_)) ==
  LET base == <<p[1] \div (100 * span), p[2] \div (100 * span)>>
      distance(c) == Distance(Anchor(jitter, span, c), p)
      cells == SelectSeq([i \in 1..9 |-> <<base[1] + Nine[i][1], base[2] + Nine[i][2]>>],
                         Known)
      nearer(best, c) == IF best = <<>> THEN <<c>>
                         ELSE IF distance(c) < distance(best[1]) THEN <<c>> ELSE best
  IN  FoldLeft(nearer, <<>>, cells)

SampleAt(cell, at) ==
  LET above == AboveOf(Larger(at[2], 0))
      fade == Smaller((100 * above) \div 420, 100)
      depth == ToDepth(above) + (75 * scene.pocket * fade * fade) \div 1000000
  IN  Params((at[1] * CELL_WIDTH) \div 100, scene.climate[1 + (cell[1] % 2)], Between(depth, 0, 1000))

\* The biome of a buried anchor is the one of the nearest coarse anchor.
BiomeAt(at) ==
  LET coarse == NearestCell(scene.coarse, BIOME_SPAN, at, LAMBDA c : TRUE)[1]
  IN  PickBiome(SampleAt(coarse, Anchor(scene.coarse, BIOME_SPAN, coarse)), FALSE)

InBiome(biome, params) == <<biome, PickSub(biome, params)>>
Settled(at, params) ==
  InBiome(IF AboveOf(at[2]) < SKIN_DEPTH THEN PickBiome(params, TRUE) ELSE BiomeAt(at), params)

PlaceOf(cell) ==
  LET at == Anchor(scene.jitter, 1, cell) IN Settled(at, SampleAt(cell, at))

PlaceAt(x, y) == PlaceOf(NearestCell(scene.jitter, 1, Coords(x, y), LAMBDA c : TRUE)[1])

\* Mutation: the table leaves out how far the noise may carry a query.
CellsUnwarped(window, highest, lowest) ==
  LET us == (window.x[1] \div CELL_WIDTH - 1)..(window.x[2] \div CELL_WIDTH + 1)
      row(above) == RowOf(Larger(above, 0)) \div 100
      vs == (row(lowest - window.y[2]) - 1)..(row(highest - window.y[1]) + 1)
  IN  [c \in us \X vs |-> PlaceOf(c)]

\* The table of a region: the place of every lattice cell its window may need.
Cells(window, highest, lowest) ==
  LET us == ((window.x[1] - 490) \div CELL_WIDTH - 1)..((window.x[2] + 490) \div CELL_WIDTH + 1)
      row(above) == RowOf(Larger(above, 0)) \div 100
      vs == (row(lowest - window.y[2] - 700) - 1)..(row(highest - window.y[1] + 700) + 1)
  IN  [c \in us \X vs |-> PlaceOf(c)]

\* The place as a region looks it up, with the direct way out of its table.
Place(table, x, y) ==
  LET cell == NearestCell(scene.jitter, 1, Coords(x, y), LAMBDA c : c \in DOMAIN table)
  IN  IF cell = <<>> THEN PlaceAt(x, y) ELSE table[cell[1]]

Member(place) == Roster[place[1]].members[place[2]]
Sub(table, x, y) == Member(Place(table, x, y))
=============================================================================
