-------------------------------- MODULE Wake ---------------------------------
(***************************************************************************)
(* Which cells the cellular automaton evaluates in a tick.  A chunk keeps  *)
(* two rectangles: sim, the cells marked since it last rolled, and prev,   *)
(* the cells marked in the tick before.  A tick rolls the rectangles of    *)
(* the chunks that are ready, then runs the effect rules and the movement  *)
(* rules over what the rectangles cover, in four phases each whose windows *)
(* run in parallel (fallingsand_sim kernel.rs, window.rs, world.rs,        *)
(* fallingsand_core chunk.rs).  Between ticks, players and bodies write    *)
(* cells, and regions leave the simulation and come back, from the         *)
(* database or from a snapshot that is still in memory.                    *)
(*                                                                         *)
(* A rule is abstracted to what it may do: write one cell within Reach of  *)
(* the one it evaluates, mark it to stay awake, or nothing.  One watched   *)
(* cell stands for all: the model records which passes still owe it an     *)
(* evaluation since a cell its rules read was written.                     *)
(***************************************************************************)
EXTENDS Integers, FiniteSets

CONSTANTS
  ChunkSize,    \* cells along the side of a chunk, 64 in the code
  RegionSize,   \* chunks along the side of a region, 8 in the code
  Regions,      \* the regions there are
  Reach,        \* farthest cell a rule writes, 31 in the code
  Views,        \* the ticket sets the players' positions may give
  Watched,      \* candidates for the watched cell
  Kinds,        \* what the watched cell may be
  MaxWrites     \* bound on the writes and marks of one tick

ASSUME SizeAssumption ==
  /\ ChunkSize \in Nat \ {0}
  /\ RegionSize \in Nat \ {0}
  /\ Regions \subseteq Int \X Int

\* The speed of matter stays below the speed of light (motion.rs).
ASSUME ReachAssumption == Reach \in Nat /\ Reach < ChunkSize

ASSUME MaxWritesAssumption == MaxWrites \in Nat
-----------------------------------------------------------------------------
(* Cells, chunks and regions: positions are pairs <<x, y>>.                *)

Near(p, d) == {<<p[1] + dx, p[2] + dy>> : dx, dy \in -d..d}

ChunkOf(cell) == <<cell[1] \div ChunkSize, cell[2] \div ChunkSize>>
OffsetOf(cell) == <<cell[1] % ChunkSize, cell[2] % ChunkSize>>
RegionOf(chunk) == <<chunk[1] \div RegionSize, chunk[2] \div RegionSize>>

ChunksIn(r) ==
  {<<r[1] * RegionSize + x, r[2] * RegionSize + y>> : x, y \in 0..(RegionSize - 1)}
Chunks == UNION {ChunksIn(r) : r \in Regions}

Offsets == (0..(ChunkSize - 1)) \X (0..(ChunkSize - 1))
CellsIn(c, offsets) == {<<c[1] * ChunkSize + o[1], c[2] * ChunkSize + o[2]>> : o \in offsets}

ASSUME ViewsAssumption ==
  /\ Views \subseteq SUBSET (Int \X Int)
  /\ Watched \subseteq {p \in Int \X Int : ChunkOf(p) \in Chunks}
  /\ Kinds \subseteq {"plain", "grain"}

\* A rectangle is the set of offsets it covers.
Full == Offsets

Hull(S) ==
  {o \in Offsets : /\ \E a \in S : a[1] <= o[1]
                   /\ \E a \in S : o[1] <= a[1]
                   /\ \E a \in S : a[2] <= o[2]
                   /\ \E a \in S : o[2] <= a[2]}
-----------------------------------------------------------------------------
(* Blocks of two by two chunks, each the middle of a window of four by     *)
(* four.  The parity of a block is its phase.                              *)

Phases == 0..3

\* Mutation: the parity of the chunk instead of that of its block.
PhaseOfChunk(c) == (c[1] % 2) + 2 * (c[2] % 2)

Phase(c) == ((c[1] \div 2) % 2) + 2 * ((c[2] \div 2) % 2)

Origin(c) == <<2 * (c[1] \div 2) - 1, 2 * (c[2] \div 2) - 1>>

Members(o) == {<<o[1] + sx, o[2] + sy>> : sx, sy \in 0..3}
Owned(o) == {<<o[1] + sx, o[2] + sy>> : sx, sy \in 1..2}
-----------------------------------------------------------------------------
Passes == {"effects", "movement"}

\* What a resting cell's rules read.  Toppling looks two cells to the side
\* and at the cell below that one; every other rule stays next to the cell.
Reads(kind, cell) ==
  IF kind = "grain"
    THEN Near(cell, 1) \cup {<<cell[1] + dx, cell[2] + dy>> : dx \in {-2, 2}, dy \in {-1, 0}}
    ELSE Near(cell, 1)

VARIABLES
  pc,        \* where the server thread is in its tick
  tickets,   \* the chunks simulated this tick
  loaded,    \* the regions in the simulation
  kept,      \* regions out of it whose last snapshot is still in memory,
             \* to be saved or cloned into an answer not yet integrated
  sim,       \* cells of a chunk marked since it last rolled
  prev,      \* cells marked before that
  phases,    \* phases the running pass has left
  windows,   \* windows of the running phase that have not finished
  spent,     \* writes and marks since the tick began
  watched,   \* the watched cell
  kind,      \* what it is
  owed,      \* passes that have not evaluated it since a cell it reads changed
  due,       \* those the running tick has to do
  stamp,     \* whether it carries the moved stamp
  blind      \* whether a change next to it went unmarked while it was away

scheduleVars == <<phases, windows>>
residencyVars == <<tickets, loaded, kept>>
rectVars == <<sim, prev>>
ghostVars == <<owed, due, stamp, blind>>
vars == <<pc, residencyVars, rectVars, scheduleVars, spent, watched, kind, ghostVars>>

Loaded(c) == RegionOf(c) \in loaded
Home == ChunkOf(watched)

Rect(c) == Hull(sim[c] \cup prev[c])

Init ==
  /\ pc = "write"
  /\ tickets = {} /\ loaded = {} /\ kept = {}
  /\ sim = [c \in Chunks |-> {}]
  /\ prev = [c \in Chunks |-> {}]
  /\ phases = {} /\ windows = {}
  /\ spent = 0
  /\ watched \in Watched
  /\ kind \in Kinds
  /\ owed = {} /\ due = {}
  /\ stamp = FALSE
  /\ blind = FALSE
-----------------------------------------------------------------------------
(* Writes and marks.                                                       *)

\* The cells are marked in those of their chunks that can be reached.
Marked(cells, within) ==
  [c \in Chunks |->
     IF c \in within
       THEN Hull(sim[c] \cup {OffsetOf(n) : n \in {m \in cells : ChunkOf(m) = c}})
       ELSE sim[c]]

\* The cells a write wakes.
Woken(w) == Near(w, 1)

\* What the watched cell is owed after the cell w is written.
Disturbs(w) == w \in Reads(kind, watched)
OwedAfter(w, before) == IF Disturbs(w) THEN Passes ELSE before

\* After the passes a body moves, or before the next tick's a player digs or
\* places: the border of the write is marked in the chunks that are loaded,
\* and the cell loses its stamp.
WorldWrite(w) ==
  /\ pc = "write"
  /\ spent < MaxWrites
  /\ Loaded(ChunkOf(w))
  /\ sim' = Marked(Woken(w), {c \in Chunks : Loaded(c)})
  /\ owed' = OwedAfter(w, owed)
  /\ blind' = (blind \/ (Disturbs(w) /\ ~Loaded(Home)))
  /\ stamp' = (stamp /\ w # watched)
  /\ spent' = spent + 1
  /\ UNCHANGED <<pc, residencyVars, prev, scheduleVars, watched, kind, due>>
-----------------------------------------------------------------------------
(* Tickets and regions.                                                    *)

ComputeTickets ==
  /\ pc = "write"
  /\ tickets' \in Views
  /\ pc' = "regions"
  /\ UNCHANGED <<loaded, kept, rectVars, scheduleVars, spent, watched, kind, ghostVars>>

Wanted == {RegionOf(c) : c \in tickets}

\* The storage thread has written what was handed to it, and no answer that
\* waits to be integrated holds it either.
SettleSave(saved) ==
  /\ pc = "regions"
  /\ saved # {} /\ saved \subseteq kept
  /\ kept' = kept \ saved
  /\ sim' = [c \in Chunks |-> IF RegionOf(c) \in saved THEN {} ELSE sim[c]]
  /\ prev' = [c \in Chunks |-> IF RegionOf(c) \in saved THEN {} ELSE prev[c]]
  /\ UNCHANGED <<pc, tickets, loaded, scheduleVars, spent, watched, kind, ghostVars>>

\* Mutation: a snapshot that came back still counts as out of the simulation.
KeptWhileArriving(arriving, expired) == kept \cup expired

KeptAfter(arriving, expired) == (kept \ arriving) \cup expired

\* At most one region is integrated, and any that are not wanted may expire.
\* One whose snapshot is in memory comes back as it left; any other comes
\* back without stamps and with every cell marked.
ManageRegions(arriving, expired) ==
  /\ pc = "regions"
  /\ arriving \subseteq Wanted \ loaded /\ Cardinality(arriving) <= 1
  /\ expired \subseteq loaded \ Wanted
  /\ loaded' = (loaded \cup arriving) \ expired
  /\ kept' = KeptAfter(arriving, expired)
  /\ LET fresh == arriving \ kept IN
       /\ sim' = [c \in Chunks |-> IF RegionOf(c) \in fresh THEN Full ELSE sim[c]]
       /\ IF RegionOf(Home) \in fresh
            THEN owed' = Passes /\ stamp' = FALSE /\ blind' = FALSE
            ELSE UNCHANGED <<owed, stamp, blind>>
  /\ pc' = "begin"
  /\ UNCHANGED <<tickets, prev, scheduleVars, spent, watched, kind, due>>
-----------------------------------------------------------------------------
(* The tick of the automaton.                                              *)

\* Mutation: a chunk rolls although its surroundings are not all there.
ReadyWhenSimulated(c) == c \in tickets /\ Loaded(c)

Ready(c) == c \in tickets /\ \A n \in Near(c, 1) : Loaded(n)

\* Mutation: only the chunks that roll lose their stamps.
ClearsWhenReady(c) == Ready(c)

\* The chunks whose rectangle is cleared of stamps.
Clears(c) == Loaded(c)

BeginTick ==
  /\ pc = "begin"
  /\ stamp' = (stamp /\ ~(Clears(Home) /\ OffsetOf(watched) \in Rect(Home)))
  /\ prev' = [c \in Chunks |-> IF Ready(c) THEN sim[c] ELSE prev[c]]
  /\ sim' = [c \in Chunks |-> IF Ready(c) THEN {} ELSE sim[c]]
  /\ due' = IF Ready(Home) /\ ~blind THEN owed ELSE {}
  /\ spent' = 0
  /\ phases' = Phases
  /\ pc' = "effects"
  /\ UNCHANGED <<residencyVars, windows, watched, kind, owed, blind>>

Awake(c) == c \in tickets /\ Rect(c) # {}

StartPhase(p) ==
  /\ pc \in Passes
  /\ windows = {} /\ p \in phases
  /\ phases' = phases \ {p}
  /\ windows' = {Origin(c) : c \in {d \in Chunks : Loaded(d) /\ Phase(d) = p /\ Awake(d)}}
  /\ UNCHANGED <<pc, residencyVars, rectVars, spent, watched, kind, ghostVars>>

Slots(o) == {c \in Members(o) : Loaded(c)}

\* Mutation: a chunk is simulated next to one that is not loaded.
OwnedWhenSimulated(o) == {c \in Owned(o) : c \in tickets /\ c \in Slots(o)}

\* Mutation: a block is simulated when all of it is ready.
OwnedWhenBlockIsReady(o) ==
  {c \in Owned(o) : \A d \in Owned(o) : d \in tickets /\ Near(d, 1) \subseteq Slots(o)}

OwnedChunks(o) == {c \in Owned(o) : c \in tickets /\ Near(c, 1) \subseteq Slots(o)}

Evaluated(o) == UNION {CellsIn(c, Rect(c)) : c \in OwnedChunks(o)}

\* The cells the rules may write: those close to a cell they evaluate.
Writable(o) == UNION {Near(cell, Reach) : cell \in Evaluated(o)}

OwedBy(o) == IF watched \in Evaluated(o) THEN owed \ {pc} ELSE owed

\* The window o finishes and leaves the watched cell owed what is in after.
CloseWindow(o, after) ==
  /\ pc \in Passes /\ o \in windows
  /\ windows' = windows \ {o}
  /\ due' = IF watched \in Evaluated(o) THEN due \ {pc} ELSE due
  /\ owed' = after
  /\ blind' = (blind /\ after # {})
  /\ UNCHANGED <<pc, residencyVars, prev, phases, watched, kind>>

\* The rules of a window find nothing to do.
RunIdle(o) ==
  /\ CloseWindow(o, OwedBy(o))
  /\ UNCHANGED <<sim, stamp, spent>>

\* A rule of the window writes the cell w.
RunWrite(o, w) ==
  /\ CloseWindow(o, OwedAfter(w, OwedBy(o)))
  /\ spent < MaxWrites
  /\ sim' = Marked(Woken(w), Slots(o))
  /\ IF w = watched THEN stamp' \in BOOLEAN ELSE UNCHANGED stamp
  /\ spent' = spent + 1

\* A rule of the window keeps a cell awake that it does not write.
RunMark(o, w) ==
  /\ CloseWindow(o, IF w = watched THEN Passes ELSE OwedBy(o))
  /\ spent < MaxWrites
  /\ sim' = Marked({w}, Slots(o))
  /\ spent' = spent + 1
  /\ UNCHANGED stamp

EndPass ==
  /\ pc \in Passes
  /\ phases = {} /\ windows = {}
  /\ IF pc = "effects" THEN pc' = "movement" /\ phases' = Phases
                       ELSE pc' = "write" /\ UNCHANGED phases
  /\ UNCHANGED <<residencyVars, rectVars, windows, spent, watched, kind, ghostVars>>

Cells == UNION {CellsIn(c, Offsets) : c \in Chunks}

Next ==
  \/ \E w \in Cells : WorldWrite(w)
  \/ ComputeTickets
  \/ \E saved \in SUBSET Regions : SettleSave(saved)
  \/ \E arriving, expired \in SUBSET Regions : ManageRegions(arriving, expired)
  \/ BeginTick
  \/ \E p \in Phases : StartPhase(p)
  \/ \E o \in windows : RunIdle(o)
  \/ \E o \in windows : \E w \in Writable(o) : RunWrite(o, w)
  \/ \E o \in windows : \E w \in Evaluated(o) : RunMark(o, w)
  \/ EndPass

Spec == Init /\ [][Next]_vars
-----------------------------------------------------------------------------
TypeOK ==
  /\ pc \in {"write", "regions", "begin"} \cup Passes
  /\ tickets \subseteq Int \X Int
  /\ loaded \subseteq Regions
  /\ kept \subseteq Regions \ loaded
  /\ sim \in [Chunks -> SUBSET Offsets]
  /\ prev \in [Chunks -> SUBSET Offsets]
  /\ phases \subseteq Phases
  /\ windows \subseteq Int \X Int
  /\ spent \in 0..MaxWrites
  /\ watched \in Watched
  /\ kind \in Kinds
  /\ owed \subseteq Passes
  /\ due \subseteq Passes
  /\ stamp \in BOOLEAN
  /\ blind \in BOOLEAN

InMemory == RegionOf(Home) \in loaded \cup kept

\* A cell that owes an evaluation is inside its chunk's rectangles, in the
\* simulation and in a snapshot still in memory: sleeping loses no work.  The
\* exception is a snapshot next to which a cell was written while it was out
\* of the simulation (chunk.rs set and begin_tick, world.rs and window.rs
\* mark_sim_border).
OwedIsAwake ==
  owed # {} /\ InMemory /\ ~blind => OffsetOf(watched) \in Rect(Home)

\* A ready chunk's pending work is done by both passes of the tick that finds
\* it: whatever the order of the phases, every block comes to its turn, and
\* no chunk is left to two workers or to none (kernel.rs run_phase,
\* owned_chunks and simulate_block).
DeferredAtMostATick == pc = "write" => due = {}

\* Every moved stamp in the simulation is clear when the first pass begins
\* (chunk.rs begin_tick).
NoStaleStamp == pc = "effects" /\ phases = Phases /\ Loaded(Home) => ~stamp

\* Windows that run at the same time share no chunk (kernel.rs members).
WindowsAreDisjoint ==
  \A o, q \in windows : o # q => Slots(o) \cap Slots(q) = {}

\* Whatever a window evaluates, the cells its rules may write and the cells
\* those writes wake are in chunks the window holds: the assertions of
\* window.rs on accesses outside the window and on unloaded chunks hold.
WindowsHoldTheirReach ==
  \A o \in windows : \A w \in Writable(o) : \A n \in Near(w, 1) : ChunkOf(n) \in Slots(o)
=============================================================================
