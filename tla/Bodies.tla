------------------------------- MODULE Bodies --------------------------------
(***************************************************************************)
(* Who owns which cells.  A rigid body is a raster of cells stamped with   *)
(* its id; some bodies have a mind: the avatar of a player or a mob.       *)
(* Digging, burning, unloading and death all reach a body from outside,    *)
(* and terrain that loses its support becomes a body (fallingsand_sim      *)
(* body/mod.rs, island.rs, state.rs; fallingsand_server regions.rs,        *)
(* mobs.rs, lifecycle.rs, species/mod.rs).                                 *)
(*                                                                         *)
(* One tick of lib.rs: input, regions, the cellular automaton, physics,    *)
(* hazards, materialization.  Where bodies go is left to chance here; the  *)
(* module Rounds is about that.  Shades, velocities and masses are left    *)
(* out: every cell weighs the same.                                        *)
(***************************************************************************)
EXTENDS Integers, FiniteSets, FiniteSetsExt, Functions

CONSTANTS
  Width, Height,   \* cells of the world
  ChunkSize,       \* cells along the side of a chunk
  RegionSize,      \* chunks along the side of a region
  ViewRadius,      \* chunks simulated around a view anchor, margin included
  Initial,         \* [Cells -> Materials], what the generator makes
  Stand, Duck,     \* offsets of an avatar's cells, tall and low
  Species,         \* what can be summoned
  Throw,           \* offset of what is summoned from who summons it
  Spawns,          \* where players enter or revive
  Hands,           \* cells that players dig, build in and set on fire
  Blocks,          \* materials they build with
  Players,
  MaxId,           \* last body id, 2^32 - 1 in the code
  MaxIsland,       \* cells of the largest island that detaches, 2048
  MaxExtent,       \* its width and height at most, 48
  MaxMobs,         \* mobs that are summoned at most
  MaxActs,         \* bound on what players, fire and gravity do
  Nil

ASSUME SizeAssumption ==
  /\ {Width, Height, ChunkSize, RegionSize, MaxId} \subseteq Nat \ {0}
  /\ {ViewRadius, MaxIsland, MaxExtent, MaxMobs, MaxActs} \subseteq Nat

Cells == (0..(Width - 1)) \X (0..(Height - 1))
Shift(p, o) == <<p[1] + o[1], p[2] + o[2]>>
At(p, offsets) == {Shift(p, o) : o \in offsets}
Cardinals == {<<1, 0>>, <<-1, 0>>, <<0, 1>>, <<0, -1>>}
Beside(p) == At(p, Cardinals)

ChunkOf(p) == <<p[1] \div ChunkSize, p[2] \div ChunkSize>>
RegionOf(c) == <<c[1] \div RegionSize, c[2] \div RegionSize>>
Home(p) == RegionOf(ChunkOf(p))
Regions == {Home(p) : p \in Cells}

\* Solid, unless it is air, smoke or ash; ash is a powder.
Materials == {"air", "ash", "rock", "wood", "flesh", "rubber", "corpse"}
Bondable(m) == m \in {"rock", "wood", "flesh", "rubber", "corpse"}
Bonds(a, b) == a = b /\ Bondable(a)
Obstructs(m) == m # "air"
Holds(m) == m \in {"rock", "wood", "flesh"}   \* hard enough to hold its neighbours

ASSUME InitialAssumption ==
  /\ Initial \in [Cells -> Materials]
  /\ Spawns \subseteq Cells
  /\ Hands \subseteq Cells
  /\ Blocks \subseteq Materials \ {"air"}

\* How a body moves and ends.  Debris and balls turn, minds do not; only
\* debris becomes terrain where it rests.
Policies == {"DEBRIS", "BALL", "MOB", "PLAYER"}
Turns(b) == b.policy \in {"DEBRIS", "BALL"}
Settles(b) == b.policy = "DEBRIS"

\* A species has a life just when it moves as a mob does: a frog has one, a
\* ball and a balloon have none.
ASSUME SpeciesAssumption ==
  /\ Species \subseteq [frame : (SUBSET (Int \X Int)) \ {{}}, of : {m \in Materials : Bondable(m)},
                        policy : Policies, lives : BOOLEAN]
  /\ \A s \in Species : s.policy # "PLAYER" /\ (s.lives <=> s.policy = "MOB")

Figures == {Stand, Duck} \cup {s.frame : s \in Species}

\* What simulates the surroundings of an avatar reaches past its body.
ASSUME FigureAssumption ==
  /\ {Stand, Duck} \subseteq (SUBSET (Int \X Int)) \ {{}}
  /\ Throw \in Int \X Int
  /\ \A figure \in {Stand, Duck} : \A o, q \in figure :
       /\ o[1] - q[1] <= ViewRadius * ChunkSize
       /\ o[2] - q[2] <= ViewRadius * ChunkSize

\* What cannot be split without parting neighbours.
Joined(S) ==
  \A X \in SUBSET S : X # {} /\ X # S => \E x \in X, y \in S \ X : y \in Beside(x)

\* Every figure is in one piece, and no region fits into an island that moves.
ASSUME ShapeAssumption ==
  /\ \A figure \in Figures : Joined(figure)
  /\ MaxIsland < (ChunkSize * RegionSize) * (ChunkSize * RegionSize)

Ids == 1..MaxId

VARIABLES
  pc,         \* the phase of the tick
  loaded,     \* regions in the simulation
  simulated,  \* chunks the last tickets simulate
  mat,        \* the material of each cell, loaded or stored
  owner,      \* the body a cell is stamped with, 0 for none
  bodies,     \* id -> [slots: cell -> material, policy, parked]
  mobs,       \* body ids of the mobs
  players,    \* player -> Nil or where its life stands
  next,       \* next body id
  seeds,      \* cells that lost a support: unseated and pending
  parkedSeeds,\* <<chunk, cell>>: seeds that wait for a chunk
  fractures,  \* bodies that broke in this tick, with their parts
  acts        \* what was done so far

terrainVars == <<mat, owner>>
vars == <<pc, loaded, simulated, terrainVars, bodies, mobs, players, next, seeds,
          parkedSeeds, fractures, acts>>

Entering(at) == [life |-> "entering", at |-> at]
Dead(at) == [life |-> "dead", at |-> at]
Reviving(at, death) == [life |-> "reviving", at |-> at, death |-> death]
Alive(id) == [life |-> "alive", body |-> id]
Lives == [life : {"entering", "dead"}, at : Cells]
           \cup [life : {"reviving"}, at : Cells, death : Cells]
           \cup [life : {"alive"}, body : Ids]

ASSUME NilIsNoLife == Nil \notin Lives

Is(p, life) == players[p] # Nil /\ players[p].life = life
Avatars == {players[p].body : p \in {q \in Players : Is(q, "alive")}}

Loaded(p) == p \in Cells /\ Home(p) \in loaded
Raster(b) == DOMAIN b.slots

Xs(S) == {p[1] : p \in S}
Ys(S) == {p[2] : p \in S}
MinCorner(S) == <<Min(Xs(S)), Min(Ys(S))>>
MaxCorner(S) == <<Max(Xs(S)), Max(Ys(S))>>

\* The sum of a coordinate over S: how many cells lie at 1 or beyond, at 2 or
\* beyond, and so on.
Total(S, i) ==
  LET sum[k \in 0..(Width + Height)] ==
        IF k = 0 THEN 0 ELSE sum[k - 1] + Cardinality({p \in S : p[i] >= k})
  IN  sum[Width + Height]

\* Centre of mass, rounded to the nearest cell.
Mean(S, i) == (2 * Total(S, i) + Cardinality(S)) \div (2 * Cardinality(S))
Anchor(b) == <<Mean(Raster(b), 1), Mean(Raster(b), 2)>>

ViewAnchor(p) ==
  CASE Is(p, "alive") -> Anchor(bodies[players[p].body])
    [] Is(p, "reviving") -> players[p].death
    [] OTHER -> players[p].at
-----------------------------------------------------------------------------
(* What the world and its bodies do together, as a value that the handlers *)
(* pass along.                                                             *)

World == [mat |-> mat, owner |-> owner, bodies |-> bodies, next |-> next,
          seeds |-> seeds, parked |-> parkedSeeds, broken |-> fractures]

Become(w) ==
  /\ mat' = w.mat
  /\ owner' = w.owner
  /\ bodies' = w.bodies
  /\ next' = w.next
  /\ seeds' = w.seeds
  /\ parkedSeeds' = w.parked
  /\ fractures' = w.broken

\* Every write of cells: what stops obstructing is a seed.
Write(w, patch, id) ==
  [w EXCEPT !.mat = [p \in Cells |-> IF p \in DOMAIN patch THEN patch[p] ELSE @[p]],
            !.owner = [p \in Cells |-> IF p \in DOMAIN patch THEN id ELSE @[p]],
            !.seeds = @ \cup {p \in DOMAIN patch : Obstructs(w.mat[p]) /\ ~Obstructs(patch[p])}]

PutAll(w, S, m, id) == Write(w, [p \in S |-> m], id)
Put(w, p, m, id) == PutAll(w, {p}, m, id)

\* place and transform also seed where a bond came or went.
Disturb(w, S, m) ==
  [w EXCEPT !.seeds = @ \cup {p \in S : w.mat[p] # m /\ (Bondable(w.mat[p]) \/ Bondable(m))}]

Free(w, p) == Loaded(p) /\ w.mat[p] = "air" /\ w.owner[p] = 0

\* Stamps without a write of material.
Stamp(w, S, id) == [w EXCEPT !.owner = [p \in Cells |-> IF p \in S THEN id ELSE @[p]]]
Bearing(w, id) == {p \in Raster(w.bodies[id]) : Loaded(p) /\ w.owner[p] = id}

With(f, id, b) == [i \in DOMAIN f \cup {id} |-> IF i = id THEN b ELSE f[i]]
Without(f, ids) == Restrict(f, DOMAIN f \ ids)

Capture(w, id, S, policy) ==
  [Stamp(w, S, id) EXCEPT
     !.bodies = With(@, id, [slots |-> Restrict(w.mat, S), policy |-> policy,
                             parked |-> FALSE])]

Fits(w, S) == \A p \in S : Free(w, p)

Spawn(w, id, S, m, policy) == Capture(PutAll(Disturb(w, S, m), S, m, 0), id, S, policy)

Borne(w, ids) == UNION {Bearing(w, id) : id \in ids}

Despawn(w, ids) ==
  [PutAll(w, Borne(w, ids), "air", 0) EXCEPT !.bodies = Without(@, ids)]

\* Mutation: the stamps stay behind.
SettleForgets(w, ids) == [w EXCEPT !.bodies = Without(@, ids)]

Settle(w, ids) == [Stamp(w, Borne(w, ids), 0) EXCEPT !.bodies = Without(@, ids)]

\* die, then recast to the corpse: the slots follow, nothing else breaks.
Corpse(w, id) ==
  [slots |-> [p \in Raster(w.bodies[id]) |->
                IF p \in Bearing(w, id) THEN "corpse" ELSE w.bodies[id].slots[p]],
   policy |-> "DEBRIS",
   parked |-> w.bodies[id].parked]

Die(w, ids) ==
  LET dying == ids \cap DOMAIN w.bodies
      S == Borne(w, dying)
  IN  [w EXCEPT !.mat = [p \in Cells |-> IF p \in S THEN "corpse" ELSE @[p]],
                !.bodies = [id \in DOMAIN @ |-> IF id \in dying THEN Corpse(w, id) ELSE @[id]]]
-----------------------------------------------------------------------------
(* Parts and islands.                                                      *)

\* What S reaches through Step from {p}, in at most n rounds.
Spread(p, n, Step(_)) ==
  LET reached[k \in 0..n] ==
        IF k = 0 THEN {p} ELSE reached[k - 1] \cup UNION {Step(q) : q \in reached[k - 1]}
  IN  reached[n]

PartOf(slots, p) ==
  Spread(p, Cardinality(DOMAIN slots),
         LAMBDA q : {r \in Beside(q) \cap DOMAIN slots : Bonds(slots[q], slots[r])})

Rigid(w, p) == Loaded(p) /\ w.owner[p] = 0 /\ Bondable(w.mat[p])

\* One cell more than the largest island, to tell that there are more.
Island(w, p) ==
  Spread(p, MaxIsland,
         LAMBDA q : {r \in Beside(q) : Rigid(w, r) /\ Bonds(w.mat[q], w.mat[r])})

Supported(w, S) ==
  \E p \in S, d \in Cardinals :
    LET q == Shift(p, d)
    IN  /\ Loaded(q) /\ q \notin S /\ w.owner[q] = 0
        /\ \/ Holds(w.mat[q])
           \/ w.mat[q] = "ash" /\ d[2] < 0

Compact(S) == \A p, q \in S : p[1] - q[1] < MaxExtent /\ p[2] - q[2] < MaxExtent

\* The search gives up on what is too large.
Detached(w, p) ==
  LET S == Island(w, p)
  IN  Rigid(w, p) /\ Cardinality(S) <= MaxIsland /\ Compact(S) /\ ~Supported(w, S)

\* Chunks around S, and those of them that keep S from moving.
Around(S) ==
  LET lo == ChunkOf(Shift(MinCorner(S), <<-1, -1>>))
      hi == ChunkOf(Shift(MaxCorner(S), <<1, 1>>))
  IN  (lo[1]..hi[1]) \X (lo[2]..hi[2])

Blockers(S) == {c \in Around(S) : RegionOf(c) \notin loaded \/ c \notin simulated}

Before(p, q) == p[2] < q[2] \/ (p[2] = q[2] /\ p[1] < q[1])
First(S) == CHOOSE p \in S : \A q \in S \ {p} : Before(p, q)

\* Cells in that order.
Rank(S, p) == Cardinality({q \in S : Before(q, p)})
Sorted(S) == [i \in 1..Cardinality(S) |-> CHOOSE p \in S : Rank(S, p) = i - 1]
-----------------------------------------------------------------------------
(* integrate: un-park, reconcile every body with its cells, and make       *)
(* bodies of the islands that the seeds of this tick lead to.              *)

Neighbours(p) ==
  <<Shift(p, <<0, 1>>), Shift(p, <<-1, 0>>), Shift(p, <<1, 0>>), Shift(p, <<0, -1>>)>>

Outlets(w, p) == {i \in 1..4 : Free(w, Neighbours(p)[i])}

\* A cell that burnt to ash leaves the body and steps aside.
Release(w, p) ==
  LET cleared == Stamp(w, {p}, 0)
      outlets == Outlets(cleared, p)
  IN  IF w.mat[p] = "air" \/ outlets = {} THEN cleared
      ELSE Put(Put(cleared, p, "air", 0), Neighbours(p)[Min(outlets)], w.mat[p], 0)

ReleaseAll(w, S) ==
  LET after[k \in 0..Cardinality(S)] ==
        IF k = 0 THEN w ELSE Release(after[k - 1], Sorted(S)[k])
  IN  after[Cardinality(S)]

Unparked(w) ==
  [w EXCEPT !.bodies =
     [id \in DOMAIN @ |->
        [@[id] EXCEPT !.parked = w.bodies[id].parked /\ Blockers(Raster(w.bodies[id])) # {}]]]

Survivors(w, id) == {p \in Bearing(w, id) : Bondable(w.mat[p])}

\* The part with the first cell keeps the id, the others get new ones in the
\* order of their first cells.
Split(w, id, slots) ==
  LET b == w.bodies[id]
      first(p) == First(PartOf(slots, p))
      firsts == {first(p) : p \in DOMAIN slots}
      idOf(p) ==
        IF Rank(firsts, first(p)) = 0 THEN id ELSE w.next + Rank(firsts, first(p)) - 1
      ids == {idOf(p) : p \in DOMAIN slots}
      part(i) == [slots |-> Restrict(slots, {p \in DOMAIN slots : idOf(p) = i}),
                  policy |-> b.policy, parked |-> FALSE]
  IN  [w EXCEPT !.owner = [p \in Cells |-> IF p \in DOMAIN slots THEN idOf(p) ELSE @[p]],
                !.bodies = [i \in (DOMAIN @ \ {id}) \cup ids |->
                              IF i \in ids THEN part(i) ELSE @[i]],
                !.next = @ + Cardinality(firsts) - 1,
                !.broken = @ \cup {[source |-> id, at |-> Anchor(b), parts |-> ids]}]

Reconcile(w, id) ==
  LET b == w.bodies[id]
      kept == Survivors(w, id)
      clean == ReleaseAll(w, Bearing(w, id) \ kept)
      slots == Restrict(w.mat, kept)
  IN  CASE \E p \in Raster(b) : ~Loaded(p) ->
             [w EXCEPT !.bodies = With(@, id, [b EXCEPT !.parked = TRUE])]
        [] (\A p \in Raster(b) : Loaded(p)) /\ kept = {} ->
             [clean EXCEPT !.bodies = Without(@, {id}),
                           !.broken = @ \cup {[source |-> id, at |-> Anchor(b), parts |-> {}]}]
        [] (\A p \in Raster(b) : Loaded(p)) /\ kept # {} /\ slots = b.slots -> w
        [] OTHER -> Split(clean, id, slots)

ReconcileAll(w) ==
  LET after[id \in 0..(w.next - 1)] ==
        IF id = 0 THEN w
        ELSE IF id \in DOMAIN after[id - 1].bodies THEN Reconcile(after[id - 1], id)
        ELSE after[id - 1]
  IN  after[w.next - 1]

\* The island S becomes a body, with the next id.
Take(w, S) == [Capture(w, w.next, S, "DEBRIS") EXCEPT !.next = @ + 1]

\* The seed and its neighbours, unless an earlier candidate of this tick
\* has been through the same island.
DetachAt(acc, p) ==
  LET w == acc.w
      S == Island(w, p)
      blockers == Blockers(S)
  IN  CASE p \in acc.scanned -> acc
        [] p \notin acc.scanned /\ ~Loaded(p) ->
             [acc EXCEPT !.w.parked = @ \cup {<<ChunkOf(p), p>>}]
        [] p \notin acc.scanned /\ Loaded(p) /\ ~Rigid(w, p) -> acc
        [] OTHER ->
             LET seen == [acc EXCEPT !.scanned = @ \cup S]
             IN  CASE ~Detached(w, p) -> seen
                   [] Detached(w, p) /\ blockers = {} -> [seen EXCEPT !.w = Take(w, S)]
                   [] OTHER ->
                        [seen EXCEPT !.w.parked = @ \cup {<<First(blockers), p>>}]

\* Every seed and what is beside it.
Candidate(S, k) ==
  LET p == Sorted(S)[1 + (k - 1) \div 5]
      i == (k - 1) % 5
  IN  IF i = 0 THEN p
      ELSE Shift(p, <<<<1, 0>>, <<-1, 0>>, <<0, 1>>, <<0, -1>>>>[i])

Detach(w) ==
  LET after[k \in 0..(5 * Cardinality(w.seeds))] ==
        IF k = 0 THEN [w |-> [w EXCEPT !.seeds = {}], scanned |-> {}]
        ELSE DetachAt(after[k - 1], Candidate(w.seeds, k))
  IN  after[5 * Cardinality(w.seeds)].w

Wake(w, chunks) ==
  LET woken == {e \in w.parked : e[1] \in chunks}
  IN  [w EXCEPT !.parked = @ \ woken, !.seeds = @ \cup {e[2] : e \in woken}]
-----------------------------------------------------------------------------
(* The input phase: connections, commands and hands.                       *)

Do == acts < MaxActs /\ acts' = acts + 1

Join(p, at) ==
  /\ pc = "input" /\ Do
  /\ players[p] = Nil
  /\ players' = [players EXCEPT ![p] = Entering(at)]
  /\ UNCHANGED <<pc, loaded, simulated, terrainVars, bodies, mobs, next, seeds, parkedSeeds,
                 fractures>>

Leave(p) ==
  /\ pc = "input" /\ Do
  /\ players[p] # Nil
  /\ players' = [players EXCEPT ![p] = Nil]
  /\ Become(IF Is(p, "alive") THEN Despawn(World, {players[p].body}) ELSE World)
  /\ UNCHANGED <<pc, loaded, simulated, mobs>>

Revive(p, spawn) ==
  /\ pc = "input" /\ Do
  /\ Is(p, "dead")
  /\ players' = [players EXCEPT ![p] = Reviving(spawn, players[p].at)]
  /\ UNCHANGED <<pc, loaded, simulated, terrainVars, bodies, mobs, next, seeds, parkedSeeds,
                 fractures>>

\* A mob or a thing without a mind.  The id is spent even where there is no
\* room for the frame.
Summon(p, species) ==
  LET S == At(Shift(ViewAnchor(p), Throw), species.frame)
  IN  /\ pc = "input" /\ Do
      /\ Is(p, "alive")
      /\ species.lives => Cardinality(mobs) < MaxMobs
      /\ next < MaxId
      /\ IF Fits(World, S)
           THEN /\ Become([Spawn(World, next, S, species.of, species.policy) EXCEPT !.next = @ + 1])
                /\ mobs' = mobs \cup {i \in {next} : species.lives}
           ELSE Become([World EXCEPT !.next = @ + 1]) /\ UNCHANGED mobs
      /\ UNCHANGED <<pc, loaded, simulated, players>>

\* Hands reach any cell that is loaded, those of bodies too.
Dig(p) ==
  /\ pc = "input" /\ Do
  /\ Loaded(p) /\ mat[p] # "air"
  /\ Become(Put(Disturb(World, {p}, "air"), p, "air", 0))
  /\ UNCHANGED <<pc, loaded, simulated, mobs, players>>

Place(p, m) ==
  /\ pc = "input" /\ Do
  /\ Free(World, p)
  /\ Become(Put(Disturb(World, {p}, m), p, m, 0))
  /\ UNCHANGED <<pc, loaded, simulated, mobs, players>>
-----------------------------------------------------------------------------
(* The regions phase: tickets, one load, and the regions that expired.     *)

\* Mutation: only the chunk of the anchor.
OwnChunk(c) == {c}

SquareAround(c) == ((c[1] - ViewRadius)..(c[1] + ViewRadius))
                     \X ((c[2] - ViewRadius)..(c[2] + ViewRadius))

\* The search window of a player who is not in the world yet.
Window(at) ==
  LET lo == ChunkOf(Shift(at, <<-ChunkSize, -ChunkSize>>))
      hi == ChunkOf(Shift(at, <<ChunkSize, ChunkSize>>))
  IN  (lo[1]..hi[1]) \X (lo[2]..hi[2])

Seeking(p) == Is(p, "entering") \/ Is(p, "reviving")
Present == {p \in Players : players[p] # Nil}

Tickets ==
  (UNION {SquareAround(ChunkOf(ViewAnchor(p))) : p \in Present})
    \cup UNION {Window(players[p].at) : p \in {q \in Present : Seeking(q)}}

\* Everything in a chunk that came in and that touches a gap is a seed.
Exposed(w, arrived) ==
  {p \in Cells : /\ Home(p) \in arrived /\ Bondable(w.mat[p])
                 /\ \E q \in Beside(p) :
                      ~(q \in Cells /\ Home(q) \in loaded \cup arrived /\ Obstructs(w.mat[q]))}

ChunksOf(arrived) == {ChunkOf(p) : p \in {q \in Cells : Home(q) \in arrived}}

\* Mutation: nothing is looked at again.
LoadQuietly(w, arrived) == w

Load(w, arrived) ==
  LET woken == Wake(w, ChunksOf(arrived))
  IN  [woken EXCEPT !.seeds = @ \cup Exposed(w, arrived)]

\* The corners of a body's bounds stand for the body.
Doomed(w, expired) ==
  {id \in mobs \cap DOMAIN w.bodies :
     \/ Home(MinCorner(Raster(w.bodies[id]))) \in expired
     \/ Home(MaxCorner(Raster(w.bodies[id]))) \in expired}

\* Mutation: expired regions take the bodies that lie wholly in them only.
CrossingWholly(w, expired) ==
  {id \in DOMAIN w.bodies : \A p \in Raster(w.bodies[id]) : Home(p) \in expired}

Crossing(w, expired) ==
  {id \in DOMAIN w.bodies : \E p \in Raster(w.bodies[id]) : Home(p) \in expired}

\* One load a tick.  A region unloads once it was unwanted for the grace
\* period, in a tick of its own choosing.
ManageRegions ==
  LET wanted == {RegionOf(c) : c \in Tickets}
  IN  /\ pc = "input"
      /\ \E arrived \in {{}} \cup {{r} : r \in (wanted \cap Regions) \ loaded},
            expired \in SUBSET (loaded \ wanted) :
           LET w1 == Load(World, arrived)
               doomed == Doomed(w1, expired)
               w2 == Despawn(w1, doomed)
           IN  /\ loaded' = (loaded \cup arrived) \ expired
               /\ Become(Wake(Settle(w2, Crossing(w2, expired)), Tickets \ simulated))
               /\ mobs' = mobs \ doomed
      /\ simulated' = Tickets
      /\ pc' = "simulate"
      /\ UNCHANGED <<players, acts>>
-----------------------------------------------------------------------------
(* The automaton and the physics.                                          *)

Becomes(m) ==
  CASE m = "wood" -> {"ash", "air"}
    [] m \in {"flesh", "corpse"} -> {"air"}
    [] OTHER -> {}

\* Fire and decay: the stamp of a body stays on what is left of its cell.
Transform(p, m) ==
  /\ pc = "simulate" /\ Do
  /\ Loaded(p) /\ ChunkOf(p) \in simulated
  /\ m \in Becomes(mat[p])
  /\ Become(Put(Disturb(World, {p}, m), p, m, owner[p]))
  /\ UNCHANGED <<pc, loaded, simulated, mobs, players>>

Integrate ==
  LET w == Detach(ReconcileAll(Unparked(World)))
  IN  /\ pc = "simulate"
      /\ w.next <= MaxId
      /\ Become(w)
      /\ pc' = "resolve"
      /\ UNCHANGED <<loaded, simulated, mobs, players, acts>>

\* A broken body loses its mind, and what is left of it is a corpse.
Minded == mobs \cup Avatars

Buried(f) == f.parts

Resolve ==
  LET minds == {f \in fractures : f.source \in Minded}
      buried == UNION {Buried(f) : f \in minds}
  IN  /\ pc = "resolve"
      /\ Become([Die(World, buried) EXCEPT !.broken = {}])
      /\ mobs' = mobs \ {f.source : f \in fractures}
      /\ players' = [p \in Players |->
           IF Is(p, "alive") /\ \E f \in fractures : f.source = players[p].body
             THEN Dead((CHOOSE f \in fractures : f.source = players[p].body).at)
             ELSE players[p]]
      /\ pc' = "drive"
      /\ UNCHANGED <<loaded, simulated, acts>>

\* An avatar ducks or stands up where there is room.
Reshape(p, S) ==
  LET id == players[p].body
      held == Raster(bodies[id])
      w == PutAll(PutAll(World, held \ S, "air", 0), S, "flesh", 0)
  IN  /\ pc = "drive" /\ Do
      /\ Is(p, "alive")
      /\ id \in DOMAIN bodies
      /\ S \in {At(MinCorner(held), Stand), At(MinCorner(held), Duck)} \ {held}
      /\ Fits(World, S \ held)
      /\ Become([w EXCEPT !.owner = Stamp(w, S, id).owner,
                          !.bodies = With(@, id, [bodies[id] EXCEPT !.slots = Restrict(w.mat, S)])])
      /\ UNCHANGED <<pc, loaded, simulated, mobs, players>>

\* Mobs whose body has gone are forgotten.
Drive ==
  /\ pc = "drive"
  /\ mobs' = mobs \cap DOMAIN bodies
  /\ pc' = "advance"
  /\ UNCHANGED <<loaded, simulated, terrainVars, bodies, players, next, seeds, parkedSeeds,
                 fractures, acts>>

\* A body moves by one cell into what is free, or parks at the edge of what
\* is simulated.
Slide(id, d) ==
  LET b == bodies[id]
      S == At(d, Raster(b))
      entered == S \ Raster(b)
      from(p) == Shift(p, <<-d[1], -d[2]>>)
      moved == Write(PutAll(World, Raster(b) \ S, "air", 0), [p \in S |-> mat[from(p)]], id)
      there == [b EXCEPT !.slots = [p \in S |-> b.slots[from(p)]]]
  IN  /\ pc = "advance" /\ Do
      /\ ~b.parked
      /\ IF \A p \in entered : Loaded(p) /\ ChunkOf(p) \in simulated
           THEN /\ Fits(World, entered)
                /\ Become([moved EXCEPT !.bodies = With(@, id, there)])
           ELSE Become([World EXCEPT !.bodies = With(@, id, [b EXCEPT !.parked = TRUE])])
      /\ UNCHANGED <<pc, loaded, simulated, mobs, players>>

\* It stands on terrain, and on no other body.
Braced(id) ==
  LET S == Raster(bodies[id])
      below == {Shift(p, <<0, -1>>) : p \in S} \ S
  IN  /\ \A p \in S, dx, dy \in -1..1 : Loaded(Shift(p, <<dx, dy>>))
      /\ \A p \in below : owner[p] = 0
      /\ \E p \in below : Obstructs(mat[p])

SettleBodies(S) ==
  /\ pc = "advance"
  /\ \A id \in S : Settles(bodies[id]) /\ ~bodies[id].parked /\ Braced(id)
  /\ Become(Settle(World, S))
  /\ pc' = "hazards"
  /\ UNCHANGED <<loaded, simulated, mobs, players, acts>>
-----------------------------------------------------------------------------
(* Deaths, and those who enter the world.                                  *)

KillMob(id) ==
  /\ pc = "hazards" /\ Do
  /\ id \in mobs
  /\ Become(Die(World, {id}))
  /\ mobs' = mobs \ {id}
  /\ UNCHANGED <<pc, loaded, simulated, players>>

KillPlayer(p) ==
  /\ pc = "hazards" /\ Do
  /\ Is(p, "alive")
  /\ Become(Die(World, {players[p].body}))
  /\ players' = [players EXCEPT ![p] = Dead(ViewAnchor(p))]
  /\ UNCHANGED <<pc, loaded, simulated, mobs>>

\* Every candidate takes an id.  The avatar stands if there is room, or
\* ducks; otherwise the search goes on.
Materialize(p, at) ==
  LET poses == <<At(at, Stand), At(at, Duck)>>
      room == {i \in DOMAIN poses : Fits(World, poses[i])}
  IN  /\ pc = "hazards" /\ Do
      /\ players[p] # Nil /\ Seeking(p)
      /\ \A c \in Window(players[p].at) : RegionOf(c) \in Regions => RegionOf(c) \in loaded
      /\ at \in Spawns
      /\ next < MaxId
      /\ IF room # {}
           THEN /\ Become([Spawn(World, next, poses[Min(room)], "flesh", "PLAYER")
                             EXCEPT !.next = @ + 1])
                /\ players' = [players EXCEPT ![p] = Alive(next)]
           ELSE Become([World EXCEPT !.next = @ + 1]) /\ UNCHANGED players
      /\ UNCHANGED <<pc, loaded, simulated, mobs>>

EndTick ==
  /\ pc = "hazards"
  /\ pc' = "input"
  /\ UNCHANGED <<loaded, simulated, terrainVars, bodies, mobs, players, next, seeds,
                 parkedSeeds, fractures, acts>>
-----------------------------------------------------------------------------
Init ==
  /\ pc = "input"
  /\ loaded = {} /\ simulated = {}
  /\ mat = Initial
  /\ owner = [p \in Cells |-> 0]
  /\ bodies = [id \in {} |-> Nil] /\ mobs = {}
  /\ players = [p \in Players |-> Nil]
  /\ next = 1
  /\ seeds = {} /\ parkedSeeds = {}
  /\ fractures = {}
  /\ acts = 0

Next ==
  \/ \E p \in Players, at \in Spawns : Join(p, at) \/ Revive(p, at) \/ Materialize(p, at)
  \/ \E p \in Players : Leave(p) \/ KillPlayer(p)
  \/ \E p \in Players, species \in Species : Summon(p, species)
  \/ \E p \in Hands : Dig(p)
  \/ \E p \in Hands, m \in Blocks : Place(p, m)
  \/ ManageRegions
  \/ \E p \in Hands : \E m \in Becomes(mat[p]) : Transform(p, m)
  \/ Integrate \/ Resolve
  \/ \E p \in Players : Is(p, "alive")
       /\ \E pose \in {Stand, Duck} :
             Reshape(p, At(MinCorner(Raster(bodies[players[p].body])), pose))
  \/ Drive
  \/ \E id \in DOMAIN bodies, d \in Cardinals : Slide(id, d)
  \/ \E S \in SUBSET DOMAIN bodies : SettleBodies(S)
  \/ \E id \in mobs : KillMob(id)
  \/ EndTick

Spec == Init /\ [][Next]_vars
-----------------------------------------------------------------------------
TypeOK ==
  /\ pc \in {"input", "simulate", "resolve", "drive", "advance",
             "hazards"}
  /\ loaded \subseteq Regions
  /\ simulated \subseteq Int \X Int
  /\ mat \in [Cells -> Materials]
  /\ owner \in [Cells -> 0..MaxId]
  /\ DOMAIN bodies \subseteq Ids
  /\ \A id \in DOMAIN bodies :
       LET S == Raster(bodies[id])
       IN  /\ S \in (SUBSET Cells) \ {{}}
           /\ bodies[id] \in [slots : [S -> {m \in Materials : Bondable(m)}],
                              policy : Policies, parked : BOOLEAN]
  /\ mobs \subseteq Ids
  /\ players \in [Players -> Lives \cup {Nil}]
  /\ next \in Ids
  /\ seeds \subseteq Int \X Int
  /\ parkedSeeds \subseteq (Int \X Int) \X (Int \X Int)
  /\ fractures \subseteq [source : Ids, at : Cells, parts : SUBSET Ids]
  /\ acts \in 0..MaxActs

\* No cell, loaded or stored, bears the stamp of a body that does not claim
\* it: whatever ends, breaks, moves or settles a body takes its stamps along.
StampsAreClaimed ==
  \A p \in Cells : owner[p] # 0 => owner[p] \in DOMAIN bodies /\ p \in Raster(bodies[owner[p]])

\* Once physics has reconciled the bodies, each of them owns all of its
\* cells, as it remembers them, until the next tick writes from outside.
ReconciledBodiesOwnTheirCells ==
  pc \notin {"input", "simulate"} =>
    \A id \in DOMAIN bodies : \A p \in Raster(bodies[id]) :
      owner[p] = id /\ mat[p] = bodies[id].slots[p]

\* Every value has its type, and
\* the stamps of the world and the rasters of the bodies tell the same story
\* (Bodies::reconcile, spawn, despawn, settle_body).
StampsMatchBodies == TypeOK /\ StampsAreClaimed /\ ReconciledBodiesOwnTheirCells

\* A body lies in loaded regions, however regions come and go under it.
RastersAreLoaded ==
  \A id \in DOMAIN bodies : \A p \in Raster(bodies[id]) : Loaded(p)

\* view_anchor and the snapshot of a player expect the body of an avatar
\* that is alive, and no two minds share one.
AvatarsHaveBodies ==
  /\ Avatars \subseteq DOMAIN bodies \cup {f.source : f \in fractures}
  /\ Avatars \cap mobs = {}
  /\ \A p, q \in Players : p # q /\ Is(p, "alive") /\ Is(q, "alive")
                            => players[p].body # players[q].body

\* A body that moves as a mind does belongs to a mind that can end it.
NoBodyIsAbandoned ==
  pc \notin {"resolve"} =>
    \A id \in DOMAIN bodies : ~Turns(bodies[id]) => id \in Minded

\* Players and mobs have the bodies they remember, and what is kept from turning
\* has a mind: only those bodies lie forever that have none, as balls do
\* (Player::view_anchor, Mobs::kill, Bodies::die, Policy).
MindsMatchBodies == AvatarsHaveBodies /\ NoBodyIsAbandoned

\* Terrain that hangs in the air where bodies can move is on the list of
\* what the next tick looks at.  Its lowest cell has nothing below.
Floating(S) ==
  /\ Blockers(S) = {}
  /\ Cardinality(S) <= MaxIsland /\ Compact(S)
  /\ \A q \in (UNION {Beside(p) : p \in S}) \ S : Free(World, q)

NothingHangsForgotten ==
  \A p \in Cells : Rigid(World, p) /\ Free(World, Shift(p, <<0, -1>>)) =>
    LET S == Island(World, p)
    IN  Floating(S) => (S \cup UNION {Beside(q) : q \in S}) \cap seeds # {}
=============================================================================
