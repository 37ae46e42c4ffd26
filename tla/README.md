# Verification of fallingsand

TLA+ models of the fallingsand server, simulation, world generator and client connection, TLC
runs that check them on small instances, and TLAPS proofs of the properties that matter most for
every instance. Paths below are relative to `crates/` unless they start with `docs/`.

## 1. The system

A server owns a world of 64x64-cell chunks grouped in regions of 8x8 chunks, steps a
cellular automaton and rigid bodies 60 times a second on one thread (with a parallel
kernel inside a tick), talks to clients over WebTransport or an in-memory channel and
keeps the world in a redb database written by a storage thread. A region nobody has visited is
generated from the seed.

| component | state | operations | interacts with | hard behaviour | correct when |
|---|---|---|---|---|---|
| World persistence (`fallingsand_server/src/persistence.rs`, `persistence/`) | pending and in-flight batches, request counter, two channels, three tables | stage, request, start save, drain completions, flush, join; storage thread loads and saves | regions, sessions (records), tick (autosave, stop) | two threads; failed reads and writes; crash between saves; stop with a write in flight | the world on disk is one moment of the world played; nothing is resumed older than it was left |
| Region residency (`regions.rs`) | loaded regions with the tick they were last wanted, outstanding requests, answers not integrated | tickets, integrate, request, expire | persistence, bodies, kernel | answers later than the demand; limits per tick; re-request of what was just unloaded | a region is loaded once, from its last snapshot, and in the end if it stays wanted |
| Sessions and handshake (`session.rs`, `session/auth.rs`) | table of connections, phases, player-to-session index | accept, poll, hello, input, chat, command, timeout, close | players, records, transport | takeover, rejection, timeout and lost connections in one drain; limits | one controller per player; nobody is removed by a takeover; the table empties |
| Players and lifecycle (`player.rs`, `lifecycle.rs`) | identities, life (entering, alive, dead, reviving), inbox, spawn search | revive, die, fracture, materialize | sessions, bodies, records | things accepted for one life consumed in another; body lost before its owner is told | nothing leaks into a new incarnation; alive players and their bodies correspond |
| Server tick (`lib.rs`) | all of the above, clock, fog, replication baselines | one tick, pause, stop | everything | order of phases | as the components |
| Inventory, digging, commands (`inventory.rs`, `dig.rs`, `command.rs`) | slots, cursor, trash, dig progress, clock | slot actions, crafting, dig, place, commands | players, kernel | partial insertions, trial crafting, progress that outlives what it was made on | matter is kept; a dig takes its time |
| Cell kernel (`fallingsand_sim/src/kernel.rs`, `window.rs`, `world.rs`, `fallingsand_core/src/chunk.rs`) | cells, sim and change rects of two ticks, moved stamps | begin tick, effect, movement and random passes, border marks | bodies, replication, regions | windows in parallel; marks across chunk and residency borders | windows of a phase are disjoint; sleeping loses no work |
| Cell rules (`fallingsand_sim/src/rules.rs`, `chemistry.rs`, `powder.rs`, `liquid.rs`, `gas.rs`, `motion.rs`) | the cells of a neighbourhood | effects and movement of one cell | kernel | a rule that reads farther than a write wakes; a cell moved twice | what sleeps has nothing to do; a movement keeps matter |
| Rigid bodies (`fallingsand_sim/src/body`) | bodies, rasters, parked seeds, fractures | spawn, reconcile, detach, settle | kernel, players, mobs | bodies half in unloaded chunks; bodies eaten from outside | every body cell belongs to one body; nothing hangs forgotten |
| Body motion (`fallingsand_sim/src/body/rounds.rs`, `contact.rs`) | budgets, proposals, links of one round | advance: integrate, propose, resolve, commit, contact | bodies, kernel | bodies that wait for one another in lines and circles | matter is kept, order does not matter, a tick ends |
| Mobs, controllers, hazards, species | mobs by body, health, air | drive, hazards, kill, despawn | bodies | bodies that vanish | mobs own their bodies |
| Fog (`fog.rs`) | explored masks, memo per eye | reveal | chunks | memo against changed sight | the memo never hides a reveal |
| Replication (`replication.rs`, `fallingsand_client/src/game/world.rs`) | known chunks per session, client mirror | tick frame, apply | sessions, kernel, fog | baseline against change rects that roll only in simulated chunks | the mirror equals the server |
| Transports (`fallingsand_net`) | queues, close reasons | send, poll, close | sessions, client | close racing queued messages | messages arrive in order until the close |
| Client supervisor (`fallingsand_client/src/game/net`, `game/mod.rs`) | session, target, attempts, panels | dial, handshake, stall, retry, reject, leave, pause | server sessions | rejection racing the close; panels against the loss of a session | no redial after a rejection; in the end the client plays |
| World generation (`fallingsand_worldgen`) | none but the seed; a region in the making | survey, carve, fill, grow, veins, mines, remnants, set pieces, reveal | residency | regions generated apart that share a border | what crosses a border is one thing |
| Content compiler, wire encoding, drawing and input, dedicated binary | - | - | - | build-time tables, encodings, I/O | not modelled (section 7) |

## 2. Modules

| module | models | root of runs |
|---|---|---|
| `DurableWorld` | abstract specification: a world played, at most one photograph of it being written, a world saved | through refinement |
| `Persistence` | persistence, region residency, storage thread, database, and the tick as far as it drives them | `MCPersistence` |
| `PersistenceProofs` | proofs about `Persistence`, and that it implements `DurableWorld` | - |
| `Sessions` | sessions, handshake, players, lives, inboxes, avatars' bodies, in the order of the tick | itself |
| `SessionsProofs` | proofs about `Sessions` | - |
| `Wake` | which cells the automaton evaluates: sim rects, marks, phases, windows, residency | `MCWake` |
| `WakeProofs` | proofs about `Wake` | - |
| `Rules` | the rules of the automaton, cell by cell, and the marks they leave | `MCRules` |
| `Bodies` | which body owns which cell: spawn, dig, break, detach, settle, regions, minds | `MCBodies` |
| `BodiesProofs` | proofs about `Bodies` | - |
| `Rounds` | how bodies move within a tick | `MCRounds` |
| `Mining` | digging, placing and inventories of several players | itself |
| `MiningProofs` | proofs about `Mining` | - |
| `View` | line of sight, fog, replication and the client's mirror | `MCView` |
| `ViewProofs` | proofs about `View` | - |
| `Link` | the client's supervisor, panels and transport against a server | itself |
| `LinkProofs` | proofs about `Link` | - |
| `Recursion` | induction over numbers, functions defined by it, quotients and reachability, as the other proofs use them | - |
| `Biomes`, `Places` | the roster of biomes; heights, noise and the lattice of places | through `Worldgen` |
| `Carving`, `Furnishing` | caves and mines; growth, veins, timbers, remnants and set pieces | through `Worldgen` |
| `Worldgen` | the stages of a region, in order | `MCWorldgen` |

The `MC` modules hold the instances: numbered regions, views, strips of terrain, scenes. The
components meet where the table of section 1 says they do, and each boundary is shown from both
sides: residency in `Persistence` (what is loaded), `Wake` (what wakes) and `Bodies` (what settles); a
body that breaks in `Bodies` (whose cells) and `Sessions` (who is told); a connection in `Sessions` (the
server's side) and `Link` (the client's); a write in `Rules` (who marks) and `Wake` (where the mark goes).

### Persistence

The server thread is a program counter: `top -> play -> drain -> request -> sim -> save`
for a tick, `finish -> final -> joined/failed -> down` for a stop; the storage thread is
`WorkerLoad` and `WorkerSave` and interleaves with every step. `sim` is what the loaded
regions hold, `idle` stands for the difference between the tick and `last_wanted`,
`requested`, `ready`, `nextRequest`, `pending`, `inFlight` are the fields of the same
names, `commands` and `completions` the two channels and `store` the database.

* The data of a region or a player is a set of items; an item is dug, placed and carried
  by flow from region to region. That is what a stale, lost or doubled snapshot changes.
* A region is fetched by `RequestRegion`: from what is pending, else from the batch in
  flight, else by a command. `Integrate` is the whole loop over the answers of a tick.
* `Expire` unloads all expired regions and stages them, as the tail of `manage_regions`.
* `Stop` is the snapshot of `shutdown_world`; `AwaitSave`, `StartFinalSave`, `Flushed` and
  `JoinWorker` are `flush` and the join. A failed write ends the flush at once.
* `Die` is the end of the process for any reason: an error returned from a tick, a crash
  or a stop. What was only in memory is gone. `Open` starts the next process.
* `HasStore = FALSE` is a server without a save path: the storage thread generates
  regions and nothing is saved.

Left out: the records of mobs (they are not saved), errors of `stage_players` and
`load_player` (they end the tick as `IntegrateFails` does, and are found by the crash),
a storage thread that panics (the server ends as in a crash).

### Sessions

One tick is `accept -> drain -> close -> leave -> command -> act -> physics -> fractured ->
control -> lethal -> place`, the order of `ServerState::tick`. `entries`, `closed`, `plays`,
`controller` are the table, the connection status, the phase of a session and
`player_to_session`; `deadline` and `quiet` count ticks instead of storing their number.
A poll returns any sequence of up to `MaxMessages` messages: hellos with or without a valid
signature, inputs, frames with too many actions, commands. An inbox is the set of things
accepted and not consumed, each with a mark of its sender and of the body its player had:
marks are what "leaks into a new incarnation" is measured by, the code has none.
`Vanish` closes a connection at any moment. `Fracture` is a body losing cells: nothing, or
a part with its id, and maybe one with a new id, is left. `ResolveLethal` kills any set of
alive players; `Materialize` takes any later body id, for a search burns one per candidate;
`Exhaust` is the search that runs out.

Left out: chat, throttling, the debug switch, toggles and slot selection (no property
depends on them), the roster messages, and a record that cannot be read at a handshake
(it ends the server).

### Wake

Positions are pairs of integers, a rectangle is the set of offsets in it. A tick is
`write` (players and bodies change cells) `-> regions` (tickets, then `manage_regions`) `->
begin` (`Chunk::begin_tick` on every chunk) `-> effects -> movement -> write`. A pass starts its
four phases in any order; `StartPhase` takes the origins of the phase and opens its windows,
which finish in any order. `sim` and `prev` are the fields of a chunk, `tickets` the chunks that
may be simulated, `loaded` the regions in the world, `kept` those that left it and whose last
snapshot is still in memory (pending, in flight, or cloned into an answer of `request_region`).

* A rule is abstracted to what it may do to its surroundings. A window writes one cell within
  `Reach` of a cell it evaluates, or marks one it evaluates to stay awake, or does nothing. A
  write marks the cells next to it in the chunks that can be reached: the loaded ones between
  ticks, those of the window in a pass.
* One watched cell stands for all. `owed` is the set of passes that have not evaluated it since
  a cell its rules read was written, or since it was marked to stay awake; `due` is what it owed
  when a tick began that could simulate it; `stamp` is its moved stamp. `kind` says which cells
  its rules read: those next to it, and for a grain that may topple also two to the side.
* A region that was in the database, or never was, comes back with every cell marked; one that
  was in memory comes back with the rectangles it left with. `blind` records that a cell the
  watched one reads was written while its own chunk was away, until it has been evaluated.

Left out: change and sight rects (they are in `View`), body impulses and the
order of cells in a window (no property depends on them), and the random ticks, whose rules do
nothing. A swap, and a tick
of a busy block, write several cells of one window; the model makes one write in a window, after
it has evaluated the watched cell, which is the order in which a write may be missed.

### Rules

A grid stands for the loaded chunks around one block. A tick is `BeginTick`, `EffectCell` of every
marked cell, `EndEffects`, `MoveCell` of every marked cell in the order of the sweep (`rows` says
which rows are swept from the right), `EndTick`. `sim`, `prev`, the stamps `moved` and `stressed`,
velocities and the owner of a cell are the fields of the code. Collisions, toppling, loads, the
drag and buoyancy of grains, the levelling of liquids, gases, reactions, ignition, burning and decay
are each an operator named as the function it translates.

* The numbers are small: 4 sub-cell units to a cell (`SUBCELL_UNITS_PER_CELL`), fixed fractions
  for restitution and drag, rounded as `Q16::apply` rounds.
* A draw from the random stream is a choice at each step. A draw that the code seeds from the cell
  (its side, whether it holds, starts or drifts) is fixed for a behaviour: `grip`.
* The code evaluates the hull of the marks of a chunk, the model the marks alone: a cell that should
  have been marked is then never evaluated by luck.
* What is not on the grid is not loaded. Random ticks run rules that do nothing and are left out.

### Bodies

A tick is `input -> regions -> effects -> integrate -> resolve -> drive -> advance -> hazards`, the order
of `ServerState::tick`. `mat` and `owner` are the material and the stamp of each cell, loaded or
stored; `bodies` the rasters as bodies remember them; `seeds` the cells next to which terrain may
have come loose; `mobs` and `players` the minds. `Integrate` is reconcile and split (a body that was
dug or burnt loses cells, falls apart, or ends) and the detachment of islands from the seeds;
`Resolve` tells avatars and mobs of fractures; `ManageRegions` loads, wakes, expires and settles.

* The pass over the bodies is `ReconcileAll`, in the order of their ids, and the one over the seeds
  `Detach`, seed after seed with the four cells beside each; both are functions of how far the pass has
  come. Of a body that breaks the part with the first cell keeps the id, and the others get new ones in
  the order of their first cells; equal materials bond. An island that is larger than `MaxIsland` cells or as
  wide or high as `MaxExtent` stays where it is and its seed is spent, as in the code. The search of the code
  stops at the first support it meets; the model's sees the whole island, which matters to nothing it leaves.
* A body has a policy, as in the code: debris turns and settles, a ball turns and never settles, a mob and a player do
  neither. A species with a life gets a mind when it is summoned (a frog), one without does not (a ball): such
  a body lies until something eats it or its region goes. A balloon is debris; its skin and its string, which bond,
  count as one material. `summon` tries sixteen places, the model
  one; where there is no room the id is spent all the same.
* A body settles only on what is straight below it. How bodies move in between is any `Slide` by
  one cell into free cells, `Reshape` any of two poses: `Rounds` is about motion.
* Fires and rules of the automaton are `Transform`: a cell becomes what its material may become.
  Smoke counts as air. Waking the chunks that become simulated is part of `ManageRegions`.
* A spawn search looks at one candidate a tick. `MaxId` ends the model, where the code has 2^32 ids.

### Rounds

`Integrate` turns velocities into whole quanta, `Round` is one round (propose, classify, resolve
ties, cascade, commit, contact), `EndRounds` the bookkeeping after the last. A proposal has the
status, the blockers and the dependencies of the code; `GroupOf` is the circle that commits jointly.
`order` is the order of the array of bodies, which `OrderIsImmaterialInLines` permutes.

* Fixed-point numbers are integers of two units to a quantum. A pose is the list of the offsets of a
  body's cells around its centre of mass. The mean of the cells of two poses differs by less than a cell, and a
  committed turn takes the difference out of the budgets of x and y (`Drift`), without a bound as in the code.
* The solver of contacts is left to chance: a refused quantum keeps, loses, hands over or, where
  something bounces (one bit of restitution), reverses its speed, and never adds to it.
* Gravity acts on every body or on none. A grain under a body is terrain of its own.

### Mining

`Players` share one row of cells in which an avatar is one cell. A tick takes `UsePrimary`,
`UseSecondary` and `HeldButton` player after player, then the slot actions, then `WorldMoves` (a cell
changes, a body goes elsewhere). `progress` is `DigState.progress`, `trace` a history of what each
player has been digging at, and for how long. Slot actions are those of `inventory.rs`: both clicks, quick
moves, the trash, crafts with their trial, creative grabs. The loop of a creative dig
over twelve cells a tick is `CreativeRate`. A cell's hardness is `HandTicks` or `ToolTicks`.

### View

The world is a row of chunks, a fog texel is one cell, a cell is open or a wall. `chunks` holds
change and sight rects of two ticks, the sight mask with its revision, and the fog; `stored` what was
saved; `memo` is the memo of an eye (`fog.rs`), `session` the baseline of a session, `client` the
mirror. `BeginTick` rolls the rects of the chunks that are simulated, `Fog` refreshes the masks and
reveals, `Replicate` builds the frames, `Receive` applies one. `World` is everything that comes
in between: writes, walks, deaths, loads, unloads, the other player, a reconnect.

* A chunk that comes back is a clone of what it left as, with mask, revision, marks and rects, when its region is
  resumed from what is pending or in flight; and only its cells and its fog, with everything marked, when it is
  read from the database. Which of the two it is, `ManageRegions` leaves open (`resumed`).
* Shadow casting in two dimensions is a look along the row; the hash of sight masks is injective.
* Particles, names, the roster and the debug payload are left out: nothing of it is mirrored state.

### Link

A frame of the client is `ui -> drain -> supervise`, with `retry` behind it in a frame in which a dial has ended,
with whatever: the code then falls through to the countdown. The tasks of the transport (`DialEnds`,
`Deliver`, `StreamEnds`, `WatchClosed`) run between any two steps. `flow`, `phase`, `panel`, `life`,
`asked` are the game's state, `target`, `attempt`, `retry`, `dial`, `session` the supervisor's, `conn`
the connection with the two queues, the close reason and what the server does at its far end. The
server is what a session of `Sessions` can do: greet, send frames, reject, mismatch, hang up, die and
start again. `Drop` and `LoseWire` are a network that fails, a slow frame is one whose timer ran out
while an answer was on its way. Timers count frames, and the shortest delay between two dials outlasts a frame
(`DelaysOutlastAFrame`: two seconds against a quarter of one, `view/io.rs:178`); otherwise a frame that
brings a connection could begin another dial. `ConnectNowhere` is a game whose address could not be read.

A rejection that is overtaken by the closing of the connection (`watch_closed` before the reader) is
lost, and the client dials again: `RefusalIsFinal` speaks of the refusal that was read. When several
lives of a player are drained in one frame, the game sees the last (`game/net/mod.rs:247-270`).

### Worldgen

A region is generated in twelve stages, each an action: `Survey` (the table of places), `PlanMines`,
`CarveCaves`, `CarveMines`, `FillCells`, `Grow`, `SeedVeins`, `FurnishMines`, `LeaveRemnants`,
`PlacePieces`, `WriteBuilds`, `Reveal`. `Biomes` is the roster with its windows and skins, `Places` the
heights, shores, warped queries and the scored choice of a biome and its member, `Carving` worms,
chambers, mouths, shafts, layers and mines, `Furnishing` what is put into them.

* `scene` is the seed. Noise is a choice per zone or parity; `seeds` lists the anchors, each with the extreme
  (all low or all high) that its ranges come to, and with the draw (`chance`) that is compared with what the
  sub-biome at its seat allows, as the region's own table of places tells it: a worm or a chamber may be in one
  region and not in the other. The draws of all other features succeed.
* Shapes are bounding boxes; a worm goes straight, in five strides; drips and heaps stand in the
  middle column. Cells are followed at `probes`; all that a region derives is kept in `made`.
* One region is made at a time: generation reads nothing but the seed, so that threads cannot meet.
* The rubble of a level is laid before its timbers, as one shape each.

## 3. Runs

| run | instance | shows |
|---|---|---|
| `persistence_consistency` | 2 regions, 1 player, 1 item, database, 1 request id | types, loads match requests, one save in flight, a successful stop leaves the item on disk where it was played last, refinement of `DurableWorld` over failed reads and writes, crashes and stops |
| `persistence_ends` | as before without items, fairness | a region that stays wanted loads while the other comes and goes, a stop ends |
| `sessions_lives` | 1 person, 3 connections, table of 2, 2 messages per poll, 3 bodies, fairness | types, nothing leaks into a new incarnation, one controller per player, only revives revive, players leave with their session, sessions come to an end |
| `wake_sleep` | 2 regions of 3x3 chunks of 2x2 cells, 2 writes a tick | no cell that owes an evaluation sleeps, no stale stamp, windows share no chunk and hold what their rules reach, what a tick finds due is done in it |
| `rules_matter` | 13 scenes of up to 6 cells | what sleeps has nothing to do; movements carry matter no farther than they may, and never what was moved in this tick |
| `bodies_owners` | a strip of 12x3 cells in 4 regions, 1 player, a frog and a ball, 5 acts | stamps and rasters agree, bodies are loaded, minds have bodies, nothing hangs forgotten |
| `rounds_motion` | 6 scenes of 2 or 3 bodies, 2 ticks, fairness | matter is kept, nobody crosses another in a round, order does not matter in lines, rounds end with every budget spent |
| `mining_matter` | a survival player and a creative one, 4 cells, 2 acts | matter is neither made nor voided; a cell takes its ticks |
| `view_mirror` | 2 chunks of 2 cells, 3 acts, 1 frame under way | what is in plain view is explored; the mirror is the server's world at the end of every tick |
| `link_recovery` | 3 faults, 4 user events, queues of 2, fairness | a refusal is final, the menu alone pauses, a client that wants in gets in |
| `worldgen_seams` | 5 stretches of ground, each under 3 pulls of the noise and 3 lucks, 2 regions in any order | features whose seat both regions place alike are one across borders, tables agree with the direct way |
| `worldgen_boulders` | a boulder at a border and a trunk at the rim of a table, expected violation | a region does not derive the boulder that is seated in it, nor the worm that its neighbour carves |

Types are one conjunct of the first invariant in `Bodies`, `Rounds`, `Link`, `View` and `Rules`.

**Bounds.** Two places and one item show every way in which two snapshots can disagree: a
stale copy has the item twice, a lost one not at all, and the player is a third place that
is saved beside regions. One request id is the hardest wrap-around: every request has the
id of the previous one; two regions with one integration a tick and one request compete for it. With three
regions and one request TLC shows a region starved by two that come and go in turn: the order of
the scan gives no promise beyond what one free request gives, and `WantedRegionsLoad` is about a
demand that the limit (64 in the code) can meet. The calendar is one value in both runs; that a
stop leaves the last one on disk is shown by the proof of `CleanStop` alone.
Three connections are needed for a takeover of a takeover, two messages of one poll for a hello with
something behind it, three bodies for a death, a revive and a fracture with a new part. `MaxSessionId` and
`MaxPlayerId` are what the code handles (exhaustion), `MaxBodyId` is a bound of the model only. The
real limits (128 sessions, 64 messages, 64 outstanding loads, 1 integration a tick, 5 s of grace,
10 s to greet, 0.5 s of held input) are constants.

In `Wake` a chunk of two by two cells has every border a chunk of 64 by 64 has (each cell is a
corner), and `Reach = 1` is its largest speed below the speed of light, as 31 is for 64. The
watched cell lies at the border of the two regions, in the only chunk near it that
is simulated, so that both the region it is in and the one beside it can be missing; the chunks
simulated at the two ends are in blocks of the same phase, whose windows run at the same time. Two writes a
tick are needed for one that wakes and one that disturbs again.

The strip of `Bodies` has a gap in its floor and a bar of wood that crosses a border of regions over it: five
acts suffice to dig the bar loose, break it, stand on it and walk away from it. An island moves up to four
cells and less than three in extent, so that the bar is too long for one until it is broken, as a beam of
48 cells is; one mob is the most, as 64 are. The scenes of
`Rounds` have one hazard each: bodies locked into one another, three that want one cell, a step with
sand on the climber's head, a turning bar, an elbow that turns under a rock while x is refused,
a convoy at chunks that are not simulated; two ticks carry
what is left over. `BudgetsAreSpent` excepts one thing: a budget that a refusal parked, in a
tick in which the body turned afterwards, keeps what the turn put into it, which may be a whole
quantum (`rounds.rs:1355`, `:1495`), against `docs/Physics.md:18`; the exception is bounded by what a turn can
move the mean. `Mining` has stacks of two and three slots, so that room runs out; three ticks of
digging are interrupted by two acts. In `View` two chunks of which one is of interest change roles as the player
walks; three acts are a write, a walk and a reconnect in any order. Three faults of `Link` are a
failed dial, a lost session and a server that dies. The seams of `Worldgen` are 512 cells long as
in the code; a mine, two worms, a chamber, trees, mouths, veins, remnants and pieces are put across them. The
pull of the noise on columns is at its extremes with every luck, that on rows (98% of its range, up or
down) with one luck.

**Deadlock** is checked in every run but those of `Rules` and `Worldgen`, which stop: a grid asleep has
no next tick, and a scene ends when its regions are made.

**Fairness.** `Persistence!FairSpec` and `Sessions!FairSpec` assume weak fairness of the steps
that the server thread, and for `Persistence` the storage thread, takes without being asked:
`run_blocking` loops until it is stopped and `worker_main` until its channel closes, and
neither waits for anything the model does not show. `Rounds!FairSpec` is the fairness of a loop in one
call. `Link!FairSpec` assumes frames (the driver calls them), the end of a dial, delivery,
the watcher of a closed connection, the greeting of a server that runs, and that a remote server
that died is started again. Players, clients, the operator and the operating system owe nothing, and
faults are finite. `WantedRegionsLoad` therefore speaks only of behaviours in which the process stays
up and the region itself stays wanted; the others come and go.

## 4. What was found

`worldgen_boulders`: `docs/Worldgen.md:6` says "Every feature is anchored on a hashed lattice and
clamped to a bounded reach, so each overlapping region re-derives the identical feature". A boulder is
seated up to its spacing (600 columns, 300 on basalt) right of its anchor, and `growth_for_rect`
(`fallingsand_worldgen/src/flora.rs:176`) looks for anchors in the window only, 168 columns around the
region: a region to the right of the anchor's may not see it, and cuts the boulder at its border.

The same run shows a second way, each violating the property without the other. A worm is drawn against
the chance of the sub-biome at its origin, and that is looked up in the region's own table of places
(`caves.rs:207-212`, `lib.rs:302`). The origin may lie far outside the window, at the rim of the
table, where `Cells::nearest` (`fallingsand_worldgen/src/lattice.rs:55`) skips the cells it does not hold and answers the
nearest of the rest. So two neighbours may take different sub-biomes for one worm: a trunk from
(-1220, -500) is in the Frostpan (85%) for the region on the right and in the Iceglass Hollows
(100%) for the one on the left, a draw of 90 carves it on the left alone, and it ends at the border. Chambers are
drawn the same way (`caves.rs:374-377`). `SeamsAgree` says that nothing else tears a feature in the stretches of
`worldgen_seams`: those whose seat both regions place alike come out the same.

Other places where the code and a document differ, met while modelling. No run is kept for them; the
properties say what does hold:

* `fallingsand_sim/src/powder.rs:177-181` (`toward_drop`) lets a resting grain topple when the cells two
  to its side and below that one can be entered; `docs/Simulation.md:12` and `:56` say that every rule
  reads only its 3x3 neighbourhood. A write there does not wake the grain: `Wake` with a grain as
  the watched cell violates `OwedIsAwake`, and `SleepIsSound` excludes grains that look so far.
* `fallingsand_server/src/persistence.rs:168-180`: a region that is wanted again while its last snapshot is
  pending or in flight is resumed with the rectangles it left with; `docs/Server.md:10` says "loaded chunks
  wake fully for one tick". A write at its border while it was away wakes nothing in it: the
  exception `blind` of `OwedIsAwake`.
* `fallingsand_server/src/persistence.rs:269-273`: the first failed write ends the flush of a stop, so that
  the final snapshot may never be tried; `docs/Server.md:47` says the stop "commits the final batch". The
  stop reports the error, and `CleanStop` holds.
* `fallingsand_sim/src/body/rounds.rs:1081`: when bodies wait for one another in a circle, which of them
  count as stalled depends on the order in which they are stored; `docs/Physics.md:39` promises that it
  never matters. `OrderIsImmaterialInLines` states the rest.
* `fallingsand_sim/src/liquid.rs`: a liquid that levels by a diagonal descent leaves one of the two
  swapped cells without a stamp; `docs/Simulation.md:39` says both are stamped. `LawfulMoves` says what a
  stamp protects.
* `fallingsand_server/src/dig.rs:136-141`: a creative dig repeats within a tick, which `docs/Inventory.md:19`
  does not say; `DigIsEarned` speaks of survival players.
* `fallingsand_worldgen/src/mines.rs:334-357`: the face of a short stub may fill the main corridor, against "A
  corridor must stay walkable after every later pass" (`docs/Worldgen.md:127`). Whether a corridor is
  walkable is not stated as a property: builds are written last, so that of a clearing and the builds after it
  it would only say in which order they are. Trees wider than the margin, pieces of a lens above a
  border and the nearest-cell search of a far mine can differ between neighbours as boulders do. The
  scenes of `worldgen_seams` keep to what is clamped. `docs/Worldgen.md:123` counts "one to three stacked
  drifts" where `range(1, 4)` draws up to four, and line 136 fourteen small marks where there are twelve.

## 5. Proofs

Every theorem below holds for all values of the constants, from the named assumptions of the
modules alone; TLC evaluates those on every run. An assumption is a range of a limit, or that `Nil` is
not mistaken for data. Six say more, and the code has them: a rule's reach is below the size of
a chunk (`ReachAssumption`, `motion.rs:11`), a delay outlasts a frame (`DelaysOutlastAFrame` of `Link`), a species
has a life just when it moves as a mob does (`SpeciesAssumption` of `Bodies`), an inventory is at least as long as its hotbar
(`MiningAssumption`), the figure of a player is no larger than what is simulated around it
(`FigureAssumption` of `Bodies`: three by nine cells against a view of chunks of 64), and figures of players
and species are in one piece, and the largest island that may move is smaller than a region (`ShapeAssumption`:
rectangles, a disc, a disc on a string; `MAX_ISLAND_CELLS`, 2048 cells at `body/island.rs:8`, against a region of 512 by 512).

| module | theorem | states |
|---|---|---|
| `PersistenceProofs` | `TypesCorrect` | `[]TypeOK` |
| | `OneSave` | `[]OneSaveInFlight` |
| | `LoadsMatch` | `[]LoadsMatchRequests` |
| | `ServerIsDurable` | `Refines`: `Persistence` implements `DurableWorld` |
| | `StopsAreClean` | `[]CleanStop` |
| `SessionsProofs` | `SessionTypes` | `[]TypeOK` |
| | `EveryPlayerHasOneController` | `[]OneController` |
| | `TakeoverKeepsPlayers` | `LeavesWithItsSession` |
| | `NothingLeaksIntoANewLife` | `[]InboxIsOwn` |
| | `DeathIsNotEscaped` | `OnlyRevivesRevive` |
| `WakeProofs` | `TypeCorrect` | `[]TypeOK` |
| | `WorkersShareNothing` | `[]WindowsAreDisjoint` |
| | `RulesStayInside` | `[]WindowsHoldTheirReach` |
| | `SleepLosesNothing`, `WorkIsDoneInATick` | `[]OwedIsAwake`, `[]DeferredAtMostATick`, when `Kinds = {"plain"}` |
| | `StampsAreCleared` | `[]NoStaleStamp` |
| `LinkProofs` | `RefusalsAreFinal` | `[]RefusalIsFinal` |
| | `PausesAreTheMenus` | `[]PausedByTheMenu` |
| `MiningProofs` | `TypesHold` | `[]TypeOK` |
| | `NothingIsMadeOrVoided` | `MatterIsKept` |
| | `NothingIsDugUnearned` | `DigIsEarned` |
| `ViewProofs` | `WhatIsSeenIsRevealed` | `[]SeenIsRevealed` |
| | `TheMirrorIsFaithful` | `MirrorIsFaithful` |
| `BodiesProofs` | `StampsAndRastersAgree` | `[]StampsMatchBodies` |
| | `BodiesLieInWhatIsLoaded` | `[]RastersAreLoaded` |
| | `MindsAndBodiesAgree` | `[]MindsMatchBodies` |
| | `NothingIsForgotten` | `[]NothingHangsForgotten` |

`SleepLosesNothing` is about rules that read what is next to a cell. A grain that may topple reads
farther (section 4), and for it the invariant is false.

### Persistence

* `OneSaveInFlight` is inductive together with `TypeOK` (`SaveInv`): each step changes either the
  batch in flight and the command channel together (`StartSave`), the two channels (`WorkerSave`), or
  the completion channel and the batch (`SettleSave`). The lemmas on `Append` and `Tail` count the
  saves in a channel.
* `LoadInv` adds that loads match requests, and that a process that is down waits for none. A region has
  at most one load in the three places (asked, answered, ready), with the number the server waits for
  there, and is not asked for again before that load is integrated: numbers that wrap around do no harm,
  since an answer names its region.
* `DurableInv == LoadInv /\ RequestedAreAway /\ LoadsAreCurrent /\ WrittenIsStored /\ StopIsStaged` is what
  the refinement needs. A load under way must carry what is last known of its region; that is
  kept because a region that is asked for is not in the simulation, so that no save can pass it on the
  way. A save that is answered is in the database, so that dropping the batch in flight forgets
  nothing. The refinement mapping cuts the store in two: `World` is memory over what is pending, in
  flight and stored, `Cut` is what is being written. Each step of `Persistence` then is a move, an age,
  a snapshot, a write, a loss or a crash of `DurableWorld`, or a stutter, one lemma each.
* `CleanStop` is the last conjunct of `StopIsStaged`, which says where the final snapshot is in each
  step of a stop: in `pending`, then in flight, then in the database.

### Sessions

* `OneController` is not inductive as it stands. `ControlInv` adds that ids not yet given out
  are unused (`IdsAreFresh`: without it a new session could find itself already in control) and
  what the stages of a tick establish (`Stages`: whom the drain still handles, that nobody is
  leaving outside `leave`). `TakeoverKeepsPlayers` follows from the same invariant step by step: only
  `Close` takes a controller away without giving another, and only those in `closed`.
* `InboxIsOwn` is inductive over `ControlInv`: each step that gives a player a new controller or a new
  body resets the inbox (`Bind`, `Die`), and what else is added is marked with those of the moment.
* `OnlyRevivesRevive` is shown step by step: the ways out of death are a revive and the departure of the
  player, whose record keeps it.

### Wake

* Windows are disjoint because the origins of two windows of a phase differ by a multiple of four
  chunks (`PhaseSeparates`). This needs that all open windows are of one phase, the
  strengthening that `StartPhase` establishes.
* Rules stay inside because a cell at most `ChunkSize` away is in a chunk next to its own
  (`ReachIsLocal`), and an owned chunk has all its surroundings in the window.
* `OwedIsAwake` is not inductive: when a chunk rolls, the mark of its cell moves from `sim` to
  `prev` and is gone one tick later. `SleepInv` says in what order that happens. What a tick
  found due is still ahead of it (`DueIsAhead`: its chunk is ready, the cell is in the rectangle
  that rolled, and its pass is the next one, or the running one whose phase has not started or
  whose window is open), and what else is owed is marked in `sim` (`OwedIsMarked`). The step
  that needs an argument is a window that closes: if it evaluates the cell it pays what is due
  (`DueIsEvaluated`), and if its write disturbs the cell, then the cell is next to the write and
  in one of the window's slots, so that it is marked (`WindowHoldsItsReach`, `MarkedCovers`).
  `DeferredAtMostATick` is `DueIsAhead` when no pass is left.
* `NoStaleStamp` needs that a cell that carries a stamp is in its chunk's rectangles (`StampIsMarked`),
  where the next tick clears it, and that no window of the last pass is still open (`NoWindowYet`).

### Link

`LinkInv == TypeOK /\ PausedByTheMenu /\ RefusalInv`. `RefusalIsFinal` is not inductive: the connection
that brought the refusal is still there when it is read. `RefusalInv` says that with a session nothing
is dialled, and that after a refusal the session that brought it is closed and ends in this frame. The
countdown stands while a dial lasts, so that the frame in which it brings a connection dials no second time; this
and the types need that an attempt's delay is bounded on both sides (`DelayIsBounded`, by induction on the number of attempts), and
that reading all messages of a frame keeps what reading one keeps (`ReadAllStays`).

### Mining

`MatterIsKept` is an action property of the types alone, and its proof is one of operators. A pour
into a slot takes from the stack what it adds to the slot, and a pour over a span is a recursive function whose
steps each do so (`PourOverKeeps`); removals (`TakeKeeps`), clicks (`LeftClickTrades`), crafts with their trial
(`CraftCrafts`) and placements follow. Worth is summed over slots, cells and players, and one change
moves the sum by as much (`ContentsChange`, `StonesChange`, `RichesChange`). The delicate case is a
craft into an inventory that is full: the output goes in because the trial said so of the same
inventory.
`DigIsEarned` needs `WorkInv`: the work that is kept from tick to tick is on the cell, the material and
the tool that the player has been digging with for at least as many ticks.

### View

* `ViewInv == TypeOK /\ SightInv`. The danger is the memo of an eye, which spares a look when the
  revisions of all masks in its window are those it had. `MemoInv` says when this is sound: until the
  regions of the next tick come and go a memo that is fresh has shone on all it sees; after
  them a chunk may be gone or new, but none is gone and new at once, so that no revision
  the memo has is another mask's. `ChunksInv` says that masks are right at all texels that are not dirty and that
  a revision counts changes, `EyeInv` that the memo a tick ends with is that of the player's eye.
* `MirrorInv` says what a client shows once all that is under way has arrived: of each chunk what its
  baseline says (`TileInv`), up to the cells that the rects still hold, and of the players
  what was told last (`ToldInv`). Rects roll only in ready chunks, so that `Unsent` depends on the stage
  of the tick. A message that is sent is applied after those before it (`ShownAfterSending`), and receiving
  one changes nothing of what is shown in the end (`ShownAfterReceiving`); the rest is `FramesTell`.

### Bodies

`BodiesInv == Seated /\ Sound(World) /\ Reconciled /\ MindsOwn /\ Broken /\ Kept`.

* `Sound` says of a world that every stamp is of a body that has the cell in its raster (`Claimed`), that ids in
  use are below the next one (`Numbered`) and that bodies lie in loaded regions (`Resident`). A body is `Whole` when
  each cell of its raster has its stamp and its material. From the physics to the end of the tick all
  bodies are whole (`Reconciled`); in between hands and fire may have taken some of their cells.
* The operators keep `Sound` and leave other bodies alone, one lemma each (`SpawnKeeps`, `DieKeeps`, `MoveKeeps`,
  `RecastKeeps`, `SettleKeeps`, ...). `SplitKeeps` is about a body that falls apart: its parts are disjoint
  because each is the set of cells with the same first cell, and their ids are new because they are
  counted from the next id by the ranks of those cells.
* The pass over all bodies is an induction on ids: after the body with id `k` those up to `k` and those
  that came are whole, and those after `k` are as they were (`Descends`). The pass over the seeds is
  one on candidates: bodies only come, with new ids and in cells without an owner (`Grown`).
* A mind loses its body only when told: `Broken` and `Kept` say that between the pass and `Resolve` the parts
  of a broken body are in the fractures of the tick, with a source that has a mind. `MindsOwn` adds that an
  avatar is no larger than a view reaches (`Small`). Hence the chunks around its anchor, which is within
  the body (`AnchorIsWithin`, from bounds on a mean), are in regions with tickets (`TicketsCoverAvatars`), and an
  expiring region never takes a living player's body.

`NothingHangsForgotten` needs `HangInv == BodiesInv /\ Tame /\ Hung`. It speaks of islands where nothing keeps them
from moving; what is inductive speaks of all terrain that is held by nothing, or only by what may go.

* A set of terrain of one material is `Adrift` if it is in one piece, no larger and no wider than an island that moves, and
  each neighbour outside is `Slack`: air, or a cell of a body that either is of the same material or never settles. So
  it counts as adrift before the body next to it settles and becomes part of it. `Watched` says that a seed lies in or
  beside whatever is adrift in loaded regions, or waits for a chunk around it that is not loaded or not simulated.
* An island found from any of its cells is the same: what spreads from a cell, if the rounds did not run out, is a
  component of the graph of neighbours that bond (`ReachFacts` and `ReachedComponent` of `Recursion`,
  `IslandIsComponent`). So a candidate outside of what is adrift leads to another island (`AdriftIsApart`), and one
  inside finds all of it, captures it, or waits for a chunk that keeps it (`DetachAtMinds`); over the candidates of a
  tick this is an induction (`DetachKeepsWatch`).
* Writes leave a seed where they take a support. `Stirs` says of a change that whatever it leaves adrift was so
  before or touches a seed, and each operator is shown to be one (`CellStirs`, `DespawnStirs`, ...).
* Bodies that become terrain are the hard case, since settling leaves no seeds. A body is in one piece and of one
  material (`Shapely`), and a body that lacks cells has seeds where it lacks them (`Bruised`, needed while
  hands act and regions expire; the physics then reconciles all bodies before any settles). What hangs and holds a cell of it then holds all of it
  (`SettledIsHeld`). A body that settles on terrain shares its island with that terrain, if it is of the same material,
  and this part was adrift before (`StandingKeepsWatch`); one that is settled because its region expires goes with a
  cell that is no longer loaded, so that nothing of what it became is adrift in what stays (`CrossingKeepsWatch`).
  `Tame` says that what dies is a body that never settled: its cells were `Slack` to everything, so that nothing
  comes to hang when they become a corpse, which is slack to terrain of corpses only (`DeathsWatch`).
* A region that comes in has no seeds of its own but what waited for it. What is adrift there is smaller
  than a region, so that one of its cells touches a gap, and is a seed (`RegionIsLarge`, `ArrivedIsExposed`).
  Chunks that are simulated again wake what waited for them (`WakeKeepsWatch`).

### Recursion

A function that is defined by recursion, `f[n \in Nat] == ...`, is to the prover a choice of some function that
satisfies its equation: nothing follows from it before such a function is known to exist. `Recursion` proves
once that there is one (`RecursiveFunctionExists`, and `BoundedFunctionExists` for functions up to a number),
and states induction with sets instead of predicates: a set that holds zero and the successor of whatever it
holds is all of them (`Induction`, `BoundedInduction`, from the well-foundedness of the order of the
numbers). The models therefore write what the code does in a loop as a function of the steps done (`ReadAll` in `Link`,
`PourOver` in `Mining`, `Shown` in `View`, `ReconcileAll` in `Bodies`), and a lemma on such a loop names the set of
the numbers of steps for which it holds. In the same way `Min` and `Max` of the community modules are shown to
be the least and the greatest. Beside these the module holds what `BodiesProofs` needs of quotients (chunks and
regions) and of what is reached in steps (islands and parts).

### Only model-checked

* Liveness, which the prover does not do: `WantedRegionsLoad`, `StopEnds`, `SessionsSettle`, `RoundsEnd`,
  `LinkRecovers`.
* `MatterIsKept`, `OrderIsImmaterialInLines` and the other properties of `Rounds`, whose rounds are folds over sets
  of bodies through operators of the community modules, and compares two whole executions.
* The properties of `Rules` (`Travel` is recursive over a path, sweeps are folds over the grid) and of `Worldgen`.

## 6. Future work

Modelled and checked: all modules of section 2. Proved: section 5. Further proofs that are worth having, in
this order:

1. `MatterIsKept` of `Rounds`, with its folds as functions of the number of bodies done.
2. `LawfulMoves` of `Rules`, rule by rule: what a rule writes is what it took, one cell away.
3. `PlacesAgree` of `Worldgen`: a table that is filled and a query that is answered directly are one function.

`OrderIsImmaterialInLines`, `SleepIsSound` and the seams of generated regions stay with TLC: each compares whole
computations over the grid.

## 7. Not modelled

* The content compiler: tables made at build time and hash utilities, without state.
* The encoding of messages on the wire and of cells in the database. The kinds of messages are those of
  `Sessions`, `View` and `Link`; that a chunk comes back with every cell marked is in `Wake`.
* Field validation of player records, parsing and replies of commands, chat and throttling.
* The contact solver's arithmetic, the tuning of controllers, hazards and species: floating-point and
  fixed-point physics; what they may do is a choice in `Rounds` and `Bodies`.
* Drawing, input mapping, menus and audio of the client hold no shared state.
* The dedicated binary, certificates, TLS and DNS are I/O around `Server::run_blocking` and the transports.
