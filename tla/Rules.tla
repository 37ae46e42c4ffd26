-------------------------------- MODULE Rules --------------------------------
(***************************************************************************)
(* The rules of the cellular automaton: what the effects pass and the       *)
(* movement pass do to one cell (fallingsand_sim rules.rs, chemistry.rs,    *)
(* powder.rs, liquid.rs, gas.rs, motion.rs), and the marks that decide      *)
(* which cells the next tick evaluates.                                     *)
(*                                                                         *)
(* A grid stands for the loaded chunks around one block; outside of it      *)
(* nothing is loaded.  Velocities are integers, UNIT of them to a cell;     *)
(* factors are fractions rounded as Q16::apply rounds.  Every draw of a     *)
(* random number is a choice, except the draws that the code seeds from the *)
(* cell itself, which are fixed for a behaviour (grip).  A chunk's sim rect *)
(* is the hull of its marks; here the marks alone are evaluated, so that a  *)
(* cell that should have been marked is never evaluated by luck.            *)
(***************************************************************************)
EXTENDS Integers, Sequences, FiniteSets, FiniteSetsExt, SequencesExt, Functions

CONSTANTS
  Scenes,    \* functions from a grid of positions to materials
  Grips,     \* what the draws that the code seeds from a cell may come to
  MaxCells   \* MAX_SPEED_CELLS, the cells a component crosses in a tick

VARIABLES
  scene,  \* the scene the behaviour started from
  grip,   \* the draws seeded from the cell: its side, holds, starts and drift
  cells,  \* position -> cell
  sim,    \* marks of the current tick (Chunk.sim)
  prev,   \* marks of the tick before (Chunk.prev_sim)
  pc,     \* "rest" between ticks, else the pass
  todo,   \* the positions the pass still has to evaluate
  rows    \* the rows that are scanned from the right in this tick

vars == <<scene, grip, cells, sim, prev, pc, todo, rows>>
-----------------------------------------------------------------------------
(* Materials and numbers.                                                  *)

UNIT == 4        \* SUBCELL_UNITS_PER_CELL
GRAVITY == 2     \* GRAVITY_DV
SETTLE == 2
AGITATED == 2 * GRAVITY
LAUNCH == 4      \* DOWNHILL_LAUNCH, the root of 2 * GRAVITY * UNIT
MaxRaw == MaxCells * UNIT

Phase(m) ==
  CASE m = "air" -> "empty"
    [] m \in {"smoke", "steam", "fire"} -> "gas"
    [] m \in {"oil", "lit oil", "water", "lava"} -> "liquid"
    [] m \in {"charcoal", "lit charcoal", "ash", "sand"} -> "powder"
    [] OTHER -> "solid"

Density == [air |-> 2, smoke |-> 1, steam |-> 1, fire |-> 1, oil |-> 4, water |-> 6,
            lava |-> 12, charcoal |-> 5, ash |-> 3, sand |-> 9,
            stone |-> 12, obsidian |-> 12, flesh |-> 6]
             @@ ("lit oil" :> 4) @@ ("lit charcoal" :> 5)
Materials == DOMAIN Density

Hot == {"fire", "lit oil", "lit charcoal", "lava"}
Lit == ("oil" :> "lit oil") @@ ("charcoal" :> "lit charcoal")
Smoulders == {"charcoal", "lit charcoal"}   \* a positive fraction burns without air
Layers == [sand |-> 2, charcoal |-> 1, ash |-> 1] @@ ("lit charcoal" :> 1)   \* repose_layers
Decays == [steam |-> "water", smoke |-> "air"]

\* What becomes of a cell and of its neighbour; most pairs do not react.
Products(m, n) ==
  CASE <<m, n>> = <<"lava", "water">> -> {<<"obsidian", "steam">>}
    [] <<m, n>> = <<"water", "lava">> -> {<<"steam", "obsidian">>}
    [] OTHER -> {}

Sign(v) == IF v > 0 THEN 1 ELSE IF v < 0 THEN -1 ELSE 0
Size(v) == IF v < 0 THEN -v ELSE v
Clamp(v, bound) == IF v > bound THEN bound ELSE IF v < -bound THEN -bound ELSE v
DivideSigned(a, b) == Sign(a) * ((Size(a) + b \div 2) \div b)
Keep(v, num, den) == DivideSigned(v * num, den)
Root(n) == CHOOSE r \in 0..n : r * r <= n /\ (r + 1) * (r + 1) > n
Length(vx, vy) == Root(vx * vx + vy * vy)
Larger(a, b) == IF a > b THEN a ELSE b
Smaller(a, b) == IF a < b THEN a ELSE b
-----------------------------------------------------------------------------
(* A world is the cells and the marks that are being made.                 *)

Grid == DOMAIN scene
Cell(m) == [m |-> m, vx |-> 0, vy |-> 0, moved |-> FALSE, stressed |-> FALSE, id |-> 0]
Move(p, dx, dy) == <<p[1] + dx, p[2] + dy>>
Neighbors == << <<0, -1>>, <<-1, 0>>, <<1, 0>>, <<0, 1>> >>
Beside(p) == {Move(p, d[1], d[2]) : d \in ToSet(Neighbors)} \cap Grid
Around(p) == {q \in Grid : Size(q[1] - p[1]) <= 1 /\ Size(q[2] - p[2]) <= 1}

World == [cells |-> cells, sim |-> sim]
Mark(w, p) == [w EXCEPT !.sim = @ \cup {p}]

\* Mutation: a write wakes the cells in its row only.
SetTight(w, p, c) ==
  [cells |-> [w.cells EXCEPT ![p] = c],
   sim   |-> w.sim \cup {q \in Around(p) : q[2] = p[2]}]

Set(w, p, c) ==
  [cells |-> [w.cells EXCEPT ![p] = c], sim |-> w.sim \cup Around(p)]

\* A cell that a body owns stays with the body, whatever it becomes.
Transform(w, p, c) ==
  LET id == w.cells[p].id
  IN  Set(w, p, IF id = 0 THEN c ELSE [c EXCEPT !.id = id, !.vx = 0, !.vy = 0])
SetProduct(w, p, m) == Transform(w, p, Cell(m))

Swap(w, from, to) ==
  LET stamp(c) == [c EXCEPT !.moved = TRUE, !.stressed = FALSE]
  IN  Set(Set(w, from, stamp(w.cells[to])), to, stamp(w.cells[from]))

WriteVelocity(w, p, vx, vy, settled) ==
  LET still == settled /\ Length(vx, vy) < SETTLE
      x == IF still THEN 0 ELSE Clamp(vx, MaxRaw)
      y == IF still THEN 0 ELSE Clamp(vy, MaxRaw)
      cell == w.cells[p]
  IN  IF <<cell.vx, cell.vy>> # <<x, y>> THEN Set(w, p, [cell EXCEPT !.vx = x, !.vy = y])
      ELSE IF <<x, y>> # <<0, 0>> THEN Mark(w, p)
      ELSE w
-----------------------------------------------------------------------------
(* Who may enter what.                                                     *)

Fluid(c) == c.id = 0 /\ Phase(c.m) \in {"empty", "liquid", "gas"}

Admits(m, dy, c) ==
  /\ Fluid(c)
  /\ \/ Density[c.m] < Density[m]
     \/ dy > 0 /\ Density[c.m] > Density[m]
     \/ dy = 0 /\ c.m = "air"

CanEnter(w, m, dy, p) == p \in Grid /\ Admits(m, dy, w.cells[p])

Busy(c) == c.m # "air" /\ c.moved

\* How motion::entry and liquid::entry answer.
Entry(w, m, dy, p) ==
  IF p \notin Grid THEN "blocked"
  ELSE LET c == w.cells[p]
       IN  CASE Phase(m) = "liquid" /\ ~Fluid(c) -> "blocked"
             [] Phase(m) # "liquid" /\ ~Admits(m, dy, c) -> "blocked"
             [] OTHER -> IF Busy(c) THEN "busy" ELSE "open"
-----------------------------------------------------------------------------
(* Chemistry: each operator gives the outcomes of its draws, as pairs of a  *)
(* world and whether the cell is done with for this pass.                   *)

Exposed(w, p) == \E q \in Beside(p) : Phase(w.cells[q].m) \in {"empty", "gas"}

React(w, p) ==
  LET m == w.cells[p].m
      hits == {<<q, out>> \in Beside(p) \X UNION {Products(m, n) : n \in Materials} :
                 out \in Products(m, w.cells[q].m)}
      decay == IF m \in DOMAIN Decays THEN {Decays[m]} ELSE {}
  IN  {<<SetProduct(SetProduct(w, p, h[2][1]), h[1], h[2][2]), TRUE>> : h \in hits}
        \cup {<<SetProduct(w, p, d), TRUE>> : d \in decay}
        \cup {<<IF hits # {} \/ decay # {} THEN Mark(w, p) ELSE w, FALSE>>}

Ignite(w, p) ==
  LET m == w.cells[p].m
  IN  IF \/ {q \in Beside(p) : w.cells[q].m \in Hot} = {}
         \/ ~Exposed(w, p) /\ m \notin Smoulders
      THEN {<<w, FALSE>>}
      ELSE {<<Mark(w, p), FALSE>>,
            <<Transform(Mark(w, p), p, [w.cells[p] EXCEPT !.m = Lit[m]]), TRUE>>}

BurnOut(w, p) ==
  {SetProduct(w, p, m) : m \in {"smoke"} \cup (IF w.cells[p].m = "lit charcoal" THEN {"ash"} ELSE {})}

Emit(w, p) == {w} \cup {SetProduct(w, q, "fire") : q \in {r \in Beside(p) : w.cells[r].m = "air"}}

Burn(w, p) ==
  LET m == w.cells[p].m
      water == SelectSeq(Neighbors, LAMBDA d : LET q == Move(p, d[1], d[2])
                                               IN  q \in Grid /\ w.cells[q].m = "water")
      base == CHOOSE b \in DOMAIN Lit \cup {"smoke"} : IF m = "fire" THEN b = "smoke" ELSE b \in DOMAIN Lit /\ Lit[b] = m
      smoulders == m \in Smoulders
      burns(v) == IF Exposed(v, p) \/ smoulders
                    THEN {<<o, TRUE>> : o \in BurnOut(v, p)} \cup {<<Mark(v, p), FALSE>>}
                    ELSE {<<Transform(v, p, [v.cells[p] EXCEPT !.m = base]), TRUE>>}
  IN  IF water # <<>>
        THEN LET q == Move(p, Head(water)[1], Head(water)[2])
             IN  IF m = "fire" THEN {<<SetProduct(w, p, "steam"), TRUE>>}
                 ELSE {<<SetProduct(o, q, "steam"), TRUE>> : o \in BurnOut(w, p)}
        ELSE UNION {burns(v) : v \in IF m = "fire" THEN {w} ELSE Emit(w, p)}

\* One after the other, until one of them is done with the cell.
Chemistry(w, p) ==
  LET m == w.cells[p].m
      then(outcomes, next(_)) == UNION {IF o[2] THEN {o} ELSE next(o[1]) : o \in outcomes}
      burnt == IF m \in Hot \ {"lava"} THEN Burn(w, p) ELSE {<<w, FALSE>>}
      lit == then(burnt, LAMBDA v : IF m \in DOMAIN Lit THEN Ignite(v, p) ELSE {<<v, FALSE>>})
  IN  then(lit, LAMBDA v : React(v, p))
-----------------------------------------------------------------------------
(* Forces on powders.                                                      *)

\* The side a grain that rests is deflected to, or 0: its own draws say how
\* many open slopes it holds on, and which drop farther off it starts for.
Static(w, p, m, vx) ==
  LET passable(s) == CanEnter(w, m, 0, Move(p, s, 0))
      downhill(s) == CanEnter(w, m, -1, Move(p, s, -1))
      drop(s) == /\ passable(s)
                 /\ CanEnter(w, m, 0, Move(p, 2 * s, 0))
                 /\ CanEnter(w, m, -1, Move(p, 2 * s, -1))
      preferred == IF vx = 0 THEN grip.side ELSE Sign(vx)
      open == SelectSeq(<<preferred, -preferred>>, LAMBDA s : passable(s) /\ downhill(s))
      far == SelectSeq(<<preferred, -preferred>>, drop)
  IN  CASE open # <<>> /\ grip.holds < Len(open) -> open[grip.holds + 1]
        [] open = <<>> /\ grip.starts < Len(far) -> far[grip.starts + 1]
        [] OTHER -> 0

\* The sides that a grain with these velocities may be deflected to, or 0.
Topple(w, p, m, vx, vy) ==
  LET passable(s) == CanEnter(w, m, 0, Move(p, s, 0))
      downhill(s) == CanEnter(w, m, -1, Move(p, s, -1))
      above == Move(p, 0, 1)
      loaded == above \in Grid /\ Phase(w.cells[above].m) = "powder"
      preferred == IF vx = 0 THEN {-1, 1} ELSE {Sign(vx)}
      tries(s) == SelectSeq(<<s, -s>>, passable)
      kinetic(s) ==
        CASE tries(s) = <<>> -> {0}
          [] downhill(tries(s)[1]) -> {tries(s)[1]}
          [] Len(tries(s)) = 1 -> {0, tries(s)[1]}
          [] downhill(tries(s)[2]) -> ToSet(tries(s))
          [] OTHER -> {0} \cup ToSet(tries(s))
  IN  CASE Size(vx) >= AGITATED \/ Size(vy) >= AGITATED -> UNION {kinetic(s) : s \in preferred}
        [] loaded \/ passable(-1) # passable(1) -> {Static(w, p, m, vx)}
        [] OTHER -> {0}

FluxCap(m) == Layers[m] * GRAVITY

\* What a grain passes on to what bears it: [world, kept, saturated], or none.
TransferLoad(w, p, m, vy) ==
  LET below == Move(p, 0, -1)
      support == w.cells[below]
      cap == FluxCap(m)
      carried == GRAVITY + Larger(-vy, 0)
      retain(v, sent) ==
        {[w |-> v, kept |-> Clamp(Larger(carried - sent, 0), cap),
          saturated |-> carried - sent > cap]}
      sends == Smaller(carried, cap)
      room == Larger(FluxCap(support.m) + Smaller(support.vy, 0), 0)
      put == Smaller((sends * Density[m]) \div Density[support.m], room)
  IN  IF below \notin Grid THEN {}
      ELSE IF support.id # 0 THEN retain(w, sends)
      ELSE IF Phase(support.m) # "powder" \/ ~support.stressed THEN {}
      ELSE retain(IF put > 0 THEN Set(w, below, [support EXCEPT !.vy = @ - put]) ELSE w,
                  (put * Density[support.m]) \div Density[m])

Buoyant(m, ambient) ==
  LET submerged == Clamp(Larger(Density[m] - ambient, 0), Density[m])
  IN  (GRAVITY * submerged + Density[m] \div 2) \div Density[m]

PowderEffects(w, p) ==
  LET cell == w.cells[p]
      below == Move(p, 0, -1)
      above == Move(p, 0, 1)
      grounded == ~CanEnter(w, cell.m, -1, below)
      ambient == IF below \in Grid /\ Phase(w.cells[below].m) \in {"liquid", "gas"}
                   THEN Density[w.cells[below].m] ELSE Density["air"]
      wet == above \in Grid /\ Phase(w.cells[above].m) = "liquid"
      drag(v) == IF wet THEN Keep(v, 3, 4) ELSE v
      vx == drag(IF grounded THEN Keep(cell.vx, 1, 2) ELSE cell.vx)
      vy == drag(IF grounded THEN cell.vy ELSE cell.vy - Buoyant(cell.m, ambient))
      toppled == IF ~grounded THEN {vx}
                 ELSE {vx + s * Larger(Keep(Size(vy), 1, 2), AGITATED) :
                         s \in Topple(w, p, cell.m, vx, vy)}
      load == IF grounded THEN TransferLoad(w, p, cell.m, vy) ELSE {}
      rest(x) ==
        IF load # {}
          THEN LET l == CHOOSE t \in load : TRUE
               IN  Set(l.w, p, [cell EXCEPT !.vx = x, !.vy = -l.kept, !.stressed = TRUE,
                                            !.moved = @ \/ ~l.saturated])
          ELSE IF cell.stressed
                 THEN Set(w, p, [cell EXCEPT !.vx = x, !.vy = vy, !.stressed = FALSE])
                 ELSE WriteVelocity(w, p, x, vy, grounded)
  IN  {rest(x) : x \in toppled}
-----------------------------------------------------------------------------
(* Forces on liquids and gases.                                            *)

Heavier(m, c) == Density[m] > Density[c.m]

FallsFreely(w, m, p) ==
  p \in Grid /\ Fluid(w.cells[p]) /\ Phase(w.cells[p].m) # "liquid" /\ Heavier(m, w.cells[p])

LiquidEffects(w, p) ==
  LET cell == w.cells[p]
      below == Move(p, 0, -1)
      falling == FallsFreely(w, cell.m, below)
      vy == IF falling THEN cell.vy - GRAVITY ELSE cell.vy
      gliding == ~falling /\ vy = 0 /\ below \in Grid /\ Phase(w.cells[below].m) = "liquid"
      ahead == Move(p, Sign(cell.vx), 0)
      stopped == cell.vx # 0 /\ (ahead \notin Grid \/ ~Fluid(w.cells[ahead]))
      drag(v) == Keep(v, 7, 8)
  IN  {IF gliding
         THEN WriteVelocity(w, p, IF stopped THEN 0 ELSE Keep(cell.vx, 3, 4), vy, TRUE)
         ELSE WriteVelocity(w, p, drag(cell.vx), drag(vy), ~falling)}

GasEffects(w, p) ==
  LET cell == w.cells[p]
      capped == ~CanEnter(w, cell.m, 1, Move(p, 0, 1))
      vy == IF capped THEN cell.vy ELSE cell.vy + GRAVITY
  IN  {WriteVelocity(w, p, Keep(cell.vx, 3, 4) + grip.drift, Keep(vy, 3, 4), capped)}

EffectCell(w, p) ==
  LET forces(v) ==
        CASE w.cells[p].id # 0 -> {v}
          [] Phase(w.cells[p].m) = "powder" -> PowderEffects(v, p)
          [] Phase(w.cells[p].m) = "liquid" -> LiquidEffects(v, p)
          [] Phase(w.cells[p].m) = "gas" -> GasEffects(v, p)
          [] OTHER -> {v}
  IN  UNION {IF o[2] THEN {o[1]} ELSE forces(o[1]) : o \in Chemistry(w, p)}
-----------------------------------------------------------------------------
(* Travel.                                                                 *)

\* A mover goes through a liquid: both keep the common motion, and what is
\* left of their relative motion goes on ahead and to a side.
ThroughLiquid(w, from, to) ==
  LET a == w.cells[from]
      b == w.cells[to]
      ma == Density[a.m]
      mb == Density[b.m]
      center(x, y) == DivideSigned(ma * x + mb * y, ma + mb)
      rx == a.vx - b.vx
      ry == a.vy - b.vy
      exchange == IF Phase(a.m) = "liquid" /\ to[2] < from[2] /\ ma > mb
                    THEN Root((2 * GRAVITY * UNIT * (ma - mb) * mb) \div (ma * (ma + mb)))
                    ELSE 0
      out(side) ==
        LET wx == Keep(rx, 1, 2) - side * Keep(ry, 1, 2)
            wy == Keep(ry, 1, 2) + side * Keep(rx, 1, 2)
            vx == center(a.vx, b.vx) + DivideSigned(mb * wx, ma + mb) + side * exchange
            vy == center(a.vy, b.vy) + DivideSigned(mb * wy, ma + mb)
            behind == [b EXCEPT
              !.vx = center(a.vx, b.vx) - DivideSigned(ma * wx, ma + mb)
                       - DivideSigned(ma * side * exchange, mb),
              !.vy = center(a.vy, b.vy) - DivideSigned(ma * wy, ma + mb)]
        IN  [w |-> Swap(Set(Set(w, from, [a EXCEPT !.vx = vx, !.vy = vy]), to, behind), from, to),
             turn |-> <<vx, vy>>]
  IN  {out(side) : side \in {-1, 1}}

\* swap_dynamic and swap_moving: the worlds after a step, and the new heading
\* if there is one.
StepInto(w, from, to) ==
  LET a == w.cells[from]
      b == w.cells[to]
  IN  IF /\ Phase(b.m) = "liquid"
         /\ Phase(a.m) = "powder" \/ (Phase(a.m) = "liquid" /\ a.m # b.m)
        THEN ThroughLiquid(w, from, to)
        ELSE {[w |-> Swap(w, from, to), turn |-> <<>>]}

StepCells(v) ==
  {Sign(v) * Smaller(Size(v) \div UNIT + up, MaxCells) :
     up \in IF Size(v) % UNIT > 0 THEN {0, 1} ELSE {0}}

Courses(vx, vy) == StepCells(vx) \X StepCells(vy)

\* The axis whose turn it is, so that the way follows the velocity.
Axis(t) ==
  LET far == [i \in 1..2 |-> Size(t.steps[i])]
  IN  IF t.done[1] = far[1] THEN 2
      ELSE IF t.done[2] = far[2] \/ t.done[1] * far[2] <= t.done[2] * far[1] THEN 1
      ELSE 2

Arrived(t) == t.left = 0 \/ \A i \in 1..2 : t.done[i] = Size(t.steps[i])

\* Mutation: a new heading brings new steps with it.
OnwardAnew(t, next, course) ==
  [t EXCEPT !.at = next, !.steps = course, !.done = <<0, 0>>, !.blocked = <<0, 0>>,
            !.left = Size(course[1]) + Size(course[2])]

Onward(t, next, course) ==
  [t EXCEPT !.at = next, !.steps = course, !.done = <<0, 0>>, !.blocked = <<0, 0>>,
            !.left = @ - 1]

\* One turn of traverse's loop.
Advance(w, t) ==
  LET i == Axis(t)
      sign == Sign(t.steps[i])
      next == IF i = 1 THEN Move(t.at, sign, 0) ELSE Move(t.at, 0, sign)
      answer == Entry(w, w.cells[t.at].m, IF i = 1 THEN 0 ELSE sign, next)
      stop == [t EXCEPT !.done[i] = Size(t.steps[i])]
  IN  CASE answer = "busy" -> {<<Mark(w, t.at), stop>>}
        [] answer = "blocked" -> {<<w, [stop EXCEPT !.blocked[i] = sign]>>}
        [] OTHER ->
             UNION {IF s.turn = <<>>
                      THEN {<<s.w, [t EXCEPT !.at = next, !.done[i] = @ + 1, !.left = @ - 1]>>}
                      ELSE {<<s.w, Onward(t, next, c)>> : c \in Courses(s.turn[1], s.turn[2])}
                    : s \in StepInto(w, t.at, next)}

RECURSIVE Travel(_)
Travel(ways) ==
  IF \A way \in ways : Arrived(way[2]) THEN ways
  ELSE Travel(UNION {IF Arrived(way[2]) THEN {way} ELSE Advance(way[1], way[2]) : way \in ways})

Traverse(w, p, vx, vy) ==
  Travel({<<w, [at |-> p, steps |-> c, done |-> <<0, 0>>, blocked |-> <<0, 0>>,
                left |-> Size(c[1]) + Size(c[2])]>> : c \in Courses(vx, vy)})
-----------------------------------------------------------------------------
(* Movement of powders and gases that have a velocity.                     *)

\* transfer_momentum: the world, and the velocity the mover keeps.
TransferMomentum(w, m, target, horizontal, sign, v) ==
  LET b == w.cells[target]
      bv == IF horizontal THEN b.vx ELSE b.vy
      closing == (v - bv) * sign
      ma == Density[m]
      mb == Density[b.m]
      received == bv + sign * DivideSigned(closing * ma, ma + mb)
      struck == [b EXCEPT !.vx = IF horizontal THEN received ELSE @,
                          !.vy = IF horizontal THEN @ ELSE received,
                          !.moved = TRUE]
  IN  IF closing <= 0 THEN <<w, v>>
      ELSE <<Set(w, target, struck), v - sign * DivideSigned(closing * mb, ma + mb)>>

\* One direction in which the mover may have run into something.
Collide(acc, d, at, cell) ==
  LET target == Move(at, d[1], d[2])
      horizontal == d[1] # 0
      v == IF horizontal THEN acc.vx ELSE acc.vy
      sign == IF horizontal THEN d[1] ELSE d[2]
      hit == acc.w.cells[target]
      after == CASE Phase(hit.m) \in {"powder", "liquid", "gas"} ->
                      TransferMomentum(acc.w, cell.m, target, horizontal, sign, v)
                 [] Phase(hit.m) = Phase(cell.m) -> <<acc.w, Sign(v) * (Size(v) \div 2)>>
                 [] OTHER -> <<acc.w, -Keep(v, 1, 4)>>
  IN  IF \/ v * sign <= 0 \/ target \notin Grid
         \/ CanEnter(acc.w, cell.m, d[2], target)
         \/ hit.id # 0
      THEN acc
      ELSE [w |-> after[1], vx |-> IF horizontal THEN after[2] ELSE acc.vx,
            vy |-> IF horizontal THEN acc.vy ELSE after[2]]

MoveFreely(w, p) ==
  LET cell == w.cells[p]
      down == IF Phase(cell.m) = "gas" THEN 1 ELSE -1
      end(way) ==
        LET at == way[2].at
            now == way[1].cells[at]
            hit == FoldLeft(LAMBDA acc, d : Collide(acc, d, at, cell),
                            [w |-> way[1], vx |-> now.vx, vy |-> now.vy], Neighbors)
            settled == ~CanEnter(hit.w, cell.m, down, Move(at, 0, down))
        IN  WriteVelocity(hit.w, at, hit.vx, hit.vy, settled)
  IN  {end(way) : way \in Traverse(w, p, cell.vx, cell.vy)}
-----------------------------------------------------------------------------
(* Movement of liquids.                                                    *)

ExchangesInto(w, m, p) == p \in Grid /\ Fluid(w.cells[p]) /\ Heavier(m, w.cells[p])

RelaxInterface(w, p) ==
  LET m == w.cells[p].m
      above == Move(p, 0, 1)
      side == IF (p[2] + (IF m = "water" THEN 0 ELSE 1)) % 2 = 0 THEN 1 ELSE -1
      target == Move(p, side, 0)
      under == Move(target, 0, -1)
      supported == /\ ExchangesInto(w, m, target)
                   /\ under \in Grid
                   /\ ~Fluid(w.cells[under]) \/ Density[w.cells[under].m] >= Density[m]
  IN  IF ~ExchangesInto(w, m, above) \/ ~supported THEN {w}
      ELSE IF Entry(w, m, 0, target) = "open" THEN {Swap(w, p, target), Mark(w, p)}
      ELSE {Mark(w, p)}

Relax(w, p) ==
  LET cell == w.cells[p]
      tries(s) == SelectSeq(<< <<0, -1>>, <<s, -1>>, <<-s, -1>> >>,
                            LAMBDA d : ExchangesInto(w, cell.m, Move(p, d[1], d[2])))
      go(d) ==
        LET target == Move(p, d[1], d[2])
            other == w.cells[target]
            swapped == Swap(w, p, target)
        IN  CASE Entry(w, cell.m, d[2], target) # "open" -> {Mark(w, p)}
              [] Phase(other.m) = "liquid" ->
                   {Mark(w, p)} \cup {s.w : s \in ThroughLiquid(w, p, target)}
              [] OTHER ->
                   {Mark(w, p),
                    IF d[1] = 0 THEN swapped
                    ELSE Set(swapped, target, [cell EXCEPT !.vx = d[1] * LAUNCH, !.vy = 0])}
  IN  UNION {IF tries(s) = <<>> THEN RelaxInterface(w, p) ELSE go(Head(tries(s))) : s \in {-1, 1}}

\* The velocity of a liquid that fell on something, for each side it prefers.
RedirectImpact(w, at, vx, vy) ==
  LET speed == Keep(Length(vx, vy), 3, 4)
      open(s) == SelectSeq(<<s, -s>>, LAMBDA t : Entry(w, w.cells[at].m, 0, Move(at, t, 0)) = "open")
  IN  {IF open(s) = <<>> THEN <<0, 0>> ELSE <<Head(open(s)) * speed, 0>> :
         s \in IF vx = 0 THEN {-1, 1} ELSE {Sign(vx)}}

Struck(w, p) == p \in Grid /\ w.cells[p].id # 0

MoveLiquid(w, p) ==
  LET cell == w.cells[p]
      ends(v, t) ==
        LET now == v.cells[t.at]
            vx == IF t.blocked[1] # 0 /\ ~Struck(v, Move(t.at, t.blocked[1], 0))
                    THEN -Keep(now.vx, 3, 4) ELSE now.vx
            vy == IF t.blocked[2] > 0 /\ ~Struck(v, Move(t.at, 0, 1)) THEN 0 ELSE now.vy
            settled == ~FallsFreely(v, now.m, Move(t.at, 0, -1))
            velocities ==
              IF t.blocked[2] < 0
                THEN IF Struck(v, Move(t.at, 0, -1)) THEN {<<now.vx, now.vy>>}
                     ELSE RedirectImpact(v, t.at, now.vx, now.vy)
                ELSE {<<vx, vy>>}
        IN  {WriteVelocity(v, t.at, u[1], u[2], settled) : u \in velocities}
  IN  IF <<cell.vx, cell.vy>> = <<0, 0>> THEN Relax(w, p)
      ELSE UNION {ends(way[1], way[2]) : way \in Traverse(w, p, cell.vx, cell.vy)}
-----------------------------------------------------------------------------
(* Movement of gases.                                                      *)

\* A gas under a ceiling looks to both sides: a busy cell keeps it awake.
FlowAside(w, p, s) ==
  LET m == w.cells[p].m
      beside == Move(p, s, 0)
      diagonal == Move(p, s, 1)
      side == Entry(w, m, 0, beside)
      up == Entry(w, m, 1, diagonal)
  IN  CASE side = "blocked" -> {<<w, FALSE>>}
        [] side = "busy" \/ up = "busy" -> {<<Mark(w, p), FALSE>>}
        [] OTHER -> {<<Swap(w, p, IF up = "open" THEN diagonal ELSE beside), TRUE>>,
                     <<Mark(w, p), TRUE>>}

Flow(w, p) ==
  LET above == Move(p, 0, 1)
      up == Entry(w, w.cells[p].m, 1, above)
      sides(s) == UNION {IF o[2] THEN {o[1]} ELSE {q[1] : q \in FlowAside(o[1], p, -s)} :
                           o \in FlowAside(w, p, s)}
  IN  CASE up = "open" -> {Swap(w, p, above)}
        [] up = "busy" -> {Mark(w, p)}
        [] OTHER -> sides(-1) \cup sides(1)

MoveCell(w, p) ==
  LET cell == w.cells[p]
      moving == <<cell.vx, cell.vy>> # <<0, 0>>
  IN  CASE cell.id # 0 -> {w}
        [] cell.id = 0 /\ cell.moved -> {Mark(w, p)}
        [] OTHER ->
             CASE Phase(cell.m) = "powder" /\ moving -> MoveFreely(w, p)
               [] Phase(cell.m) = "liquid" -> MoveLiquid(w, p)
               [] Phase(cell.m) = "gas" -> IF moving THEN MoveFreely(w, p) ELSE Flow(w, p)
               [] OTHER -> {w}
-----------------------------------------------------------------------------
(* A tick: every cell of the marks before it has its effects, then every    *)
(* cell of those and of the marks since is moved, in the order of the scan. *)

Rows == {p[2] : p \in Grid}

Init ==
  /\ scene \in Scenes
  /\ grip \in Grips
  /\ cells = [p \in Grid |-> [Cell(scene[p]) EXCEPT !.id = IF scene[p] = "flesh" THEN 1 ELSE 0]]
  /\ sim = Grid
  /\ prev = {}
  /\ pc = "rest"
  /\ todo = {}
  /\ rows = {}

BeginTick ==
  /\ pc = "rest" /\ sim # {}
  /\ rows' \in {{}, Rows, {y \in Rows : y % 2 = 0}}
  /\ cells' = [p \in Grid |-> IF p \in sim \cup prev THEN [cells[p] EXCEPT !.moved = FALSE]
                                                    ELSE cells[p]]
  /\ prev' = sim /\ sim' = {}
  /\ pc' = "effects"
  /\ todo' = sim
  /\ UNCHANGED <<scene, grip>>

\* The scan goes up row by row, each from its own side.
First(P) ==
  LET row == {p \in P : \A q \in P : p[2] <= q[2]}
  IN  CHOOSE p \in row : \A q \in row : IF p[2] \in rows THEN p[1] >= q[1] ELSE p[1] <= q[1]

Evaluate(pass, Rule(_, _)) ==
  /\ pc = pass /\ todo # {}
  /\ LET p == First(todo)
     IN  /\ \E w \in Rule(World, p) : cells' = w.cells /\ sim' = w.sim
         /\ todo' = todo \ {p}
  /\ UNCHANGED <<scene, grip, prev, pc, rows>>

EndEffects ==
  /\ pc = "effects" /\ todo = {}
  /\ pc' = "movement" /\ todo' = sim \cup prev
  /\ UNCHANGED <<scene, grip, cells, sim, prev, rows>>

EndTick ==
  /\ pc = "movement" /\ todo = {}
  /\ pc' = "rest" /\ rows' = {}
  /\ UNCHANGED <<scene, grip, cells, sim, prev, todo>>

Next ==
  \/ BeginTick
  \/ Evaluate("effects", EffectCell)
  \/ EndEffects
  \/ Evaluate("movement", MoveCell)
  \/ EndTick

Spec == Init /\ [][Next]_vars
-----------------------------------------------------------------------------
(* What the rules promise.                                                 *)

\* Every cell has a material, a velocity within the bound and its stamps.
TypeOK ==
  /\ scene \in Scenes
  /\ \A p \in Grid : cells[p] \in
       [m : Materials, vx : -MaxRaw..MaxRaw, vy : -MaxRaw..MaxRaw,
        moved : BOOLEAN, stressed : BOOLEAN, id : {0, 1}]
  /\ sim \subseteq Grid /\ prev \subseteq Grid /\ todo \subseteq Grid
  /\ pc \in {"rest", "effects", "movement"}

\* The one rule that looks two cells aside, further than a write marks.
LooksFar(p) ==
  /\ Phase(cells[p].m) = "powder"
  /\ \E s \in {-1, 1} : Move(p, 2 * s, 0) \in Grid

Unmoved(p) == EffectCell(World, p) = {World} /\ MoveCell(World, p) = {World}

\* Every value has its type, and sleeping is sound: between ticks, a cell that
\* no mark keeps awake is one that both passes would leave as it is, without a
\* mark of its own, so that nothing is lost by not evaluating it
\* (docs/Simulation.md).  Grains that look two cells aside for a drop are left
\* out: what they look at may change without waking them.
SleepIsSound ==
  /\ TypeOK
  /\ pc = "rest" => \A p \in Grid \ sim : LooksFar(p) \/ Unmoved(p)

Apart(p, q) == Size(p[1] - q[1]) + Size(p[2] - q[2])
Reach(p) ==
  LET steps(v) == Smaller((Size(v) + UNIT - 1) \div UNIT, MaxCells)
  IN  Larger(1, steps(cells[p].vx) + steps(cells[p].vy))

\* The two passes keep to their parts.  A pass never carries off a cell that a
\* body owns, nor its ownership.  A movement only swaps matter: it makes and
\* ends none.  And what has been swapped in this tick, and is stamped for it,
\* is not displaced by another mover before the tick is over.  A mover that is
\* turned aside on its way gets no farther than its first course would have,
\* and touches nothing beyond the cells next to its way.
LawfulMoves ==
  [][/\ \A p \in Grid : cells'[p].id = cells[p].id
     /\ pc = "movement" =>
          /\ \A m \in Materials : Quantify(Grid, LAMBDA p : cells'[p].m = m)
                                  = Quantify(Grid, LAMBDA p : cells[p].m = m)
          /\ \A p \in Grid : cells[p].moved /\ cells[p].m # "air" => cells'[p].m = cells[p].m
          /\ \A p \in Grid : cells'[p] # cells[p] => Apart(p, First(todo)) <= Reach(First(todo)) + 1]_vars
=============================================================================
