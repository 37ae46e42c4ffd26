-------------------------------- MODULE View ---------------------------------
(***************************************************************************)
(* What a player sees of the world and what the player's client shows of   *)
(* it: change rects and sight masks, the fog that line of sight lifts, and *)
(* the frames that carry both (fallingsand_server fog.rs, replication.rs   *)
(* and session.rs; fallingsand_core chunk.rs and fog.rs;                   *)
(* fallingsand_client game/world.rs, players.rs and inventory.rs).         *)
(*                                                                         *)
(* The world is one row of chunks, a fog texel is one cell, and a cell is  *)
(* open or a wall.  One player's session is followed; one other player     *)
(* comes, moves, dies and goes.  The tick is: network and input; the       *)
(* regions; the kernel and physics; fog; replication.                      *)
(***************************************************************************)
EXTENDS Integers, Sequences, FiniteSets, FiniteSetsExt

CONSTANTS
  Chunks,   \* how many chunks the row has
  Size,     \* CHUNK_SIZE
  Radius,   \* fog.rs RADIUS, in texels
  Interest, \* INTEREST_RADIUS_X, in chunks
  Things,   \* what the followed slot of the inventory can hold
  MaxActs,  \* bound on writes, walks, deaths, loads and all that is not the tick
  MaxQueue, \* bound on the messages under way
  Nil

ASSUME ViewAssumption ==
  /\ {Chunks, Size} \subseteq Nat \ {0}
  /\ {Radius, Interest, MaxActs, MaxQueue} \subseteq Nat

VARIABLES
  pc,      \* the stage of the tick
  chunks,  \* chunk -> Nil while it is not loaded, or the Chunk
  stored,  \* chunk -> the Chunk as it was when its region last left
  me,      \* the followed player: position, whether alive, the slot
  other,   \* the other player: Nil if absent, else the avatar's position or 0
  memo,    \* FogState.memos of the followed player, or Nil
  last,    \* ReplicationState.last_players, of the other player
  session, \* Nil, or SessionReplication
  queue,   \* messages to the client, oldest first
  client,  \* Nil, or what the client holds of this session
  acts

vars == <<pc, chunks, stored, me, other, memo, last, session, queue, client, acts>>

Offsets == 1..Size
Positions == 1..(Chunks * Size)
Row == 1..Chunks
ChunkOf(p) == (p - 1) \div Size + 1
OffsetOf(p) == ((p - 1) % Size) + 1
At(c, o) == (c - 1) * Size + o
Loaded == {c \in Row : chunks[c] # Nil}

\* A rect is the span from the first to the last cell that was marked.
Empty == {}
Full == Offsets
Span(s) == IF s = {} THEN {} ELSE Min(s)..Max(s)
Rects == {Span(s) : s \in SUBSET Offsets}

Cells == [Offsets -> {"open", "wall"}]
Fogs == SUBSET Offsets
Revs == 0..(MaxActs + 1)
Chunk == [cells : Cells, fog : Fogs, change : Rects, prev : Rects,
          sight : SUBSET Offsets, dirty : Rects, rev : Revs]
Tile == [cells : Cells, fog : Fogs]
Avatars == {0} \cup Positions
Memo == [eye : Positions, revs : SUBSET (Row \X ({-1} \cup Revs))]
SelfStates == [alive : BOOLEAN, anchor : {Nil} \cup Positions]
Session == [known : [Row -> {Nil} \cup Fogs], self : {Nil} \cup SelfStates,
            slot : {Nil} \cup Things, fresh : BOOLEAN]
Client == [chunks : [Row -> {Nil} \cup Tile], avatar : Avatars,
           self : {Nil} \cup SelfStates, slot : {Nil} \cup Things]
Op == [unload : BOOLEAN, load : {Nil} \cup Tile, fog : {Nil} \cup Fogs,
       patch : [Offsets -> {Nil, "open", "wall"}]]
Message == [kind : {"remove"}]
           \cup [kind : {"frame"}, ops : [Row -> Op], player : {Nil} \cup Avatars,
                 slot : {Nil} \cup Things, self : {Nil} \cup SelfStates]

ASSUME NilIsNothing ==
  /\ Nil \notin Chunk /\ Nil \notin Tile /\ Nil \notin Memo
  /\ Nil \notin Session /\ Nil \notin Client /\ Nil \notin SelfStates
  /\ Nil \notin Avatars /\ Nil \notin Things /\ Nil \notin {"open", "wall"}
  /\ \A fog \in Fogs : fog # Nil

\* A chunk that is read from the database or generated: only its cells and
\* its fog are its own.
NewChunk(tile) ==
  [cells |-> tile.cells, fog |-> tile.fog, change |-> Empty, prev |-> Empty,
   sight |-> {}, dirty |-> Full, rev |-> 0]

\* Chunk::set
Set(chunk, o, v) ==
  [chunk EXCEPT !.cells[o] = v, !.change = Span(@ \cup {o}), !.dirty = Span(@ \cup {o})]

\* Mutation: what was written before the roll is forgotten.
ChangeRectNow(chunk) == chunk.change

ChangeRect(chunk) == Span(chunk.change \cup chunk.prev)
-----------------------------------------------------------------------------
(* What happens in and to the world, between the steps of the tick.        *)

Act(stages) == pc \in stages /\ acts < MaxActs /\ acts' = acts + 1 /\ UNCHANGED pc

\* A player digs or places; the kernel and the bodies write.
Write(p) ==
  /\ Act({"network", "kernel"})
  /\ ChunkOf(p) \in Loaded
  /\ \E v \in {"open", "wall"} \ {chunks[ChunkOf(p)].cells[OffsetOf(p)]} :
       chunks' = [chunks EXCEPT ![ChunkOf(p)] = Set(@, OffsetOf(p), v)]
  /\ UNCHANGED <<stored, me, other, memo, last, session, queue, client>>

\* The avatar moves; the player dies, leaving the view where it is, or has a
\* body again; the slot changes.
Walk(p) ==
  /\ Act({"kernel"})
  /\ me.alive /\ p \in Positions /\ p \in {me.pos - 1, me.pos + 1}
  /\ me' = [me EXCEPT !.pos = p]
  /\ UNCHANGED <<chunks, stored, other, memo, last, session, queue, client>>

Die ==
  /\ Act({"kernel"})
  /\ me.alive
  /\ me' = [me EXCEPT !.alive = FALSE]
  /\ UNCHANGED <<chunks, stored, other, memo, last, session, queue, client>>

Materialize(p) ==
  /\ Act({"kernel"})
  /\ ~me.alive /\ ChunkOf(p) \in Loaded
  /\ me' = [me EXCEPT !.pos = p, !.alive = TRUE]
  /\ UNCHANGED <<chunks, stored, other, memo, last, session, queue, client>>

Hold(thing) ==
  /\ Act({"network"})
  /\ thing # me.slot
  /\ me' = [me EXCEPT !.slot = thing]
  /\ UNCHANGED <<chunks, stored, other, memo, last, session, queue, client>>

\* The other player joins without an avatar and under an id that was never
\* used, of which replication knows nothing; gets an avatar, moves or loses it.
OtherJoins ==
  /\ Act({"network"})
  /\ other = Nil
  /\ other' = 0 /\ last' = Nil
  /\ UNCHANGED <<chunks, stored, me, memo, session, queue, client>>

OtherMoves(p) ==
  /\ Act({"kernel"})
  /\ other # Nil /\ p \in {0} \cup Positions /\ p # other
  /\ other' = p
  /\ UNCHANGED <<chunks, stored, me, memo, last, session, queue, client>>

\* remove_closed_sessions and drain_network: the roster says so at once.
OtherLeaves ==
  /\ Act({"network"})
  /\ other # Nil
  /\ session # Nil => Len(queue) < MaxQueue
  /\ other' = Nil
  /\ queue' = IF session = Nil THEN queue ELSE Append(queue, [kind |-> "remove"])
  /\ UNCHANGED <<chunks, stored, me, memo, last, session, client>>

\* The connection is lost, and the client forgets what it was shown
\* (on_session_lost); or a session begins, whose baseline is fresh.
Disconnect ==
  /\ Act({"network"})
  /\ session # Nil
  /\ session' = Nil /\ client' = Nil /\ queue' = <<>>
  /\ UNCHANGED <<chunks, stored, me, other, memo, last>>

NoBaseline ==
  [known |-> [c \in Row |-> Nil], self |-> Nil, slot |-> Nil, fresh |-> TRUE]

NoView ==
  [chunks |-> [c \in Row |-> Nil], avatar |-> 0, self |-> Nil, slot |-> Nil]

Connect ==
  /\ Act({"network"})
  /\ session = Nil
  /\ session' = NoBaseline /\ client' = NoView /\ queue' = <<>>
  /\ UNCHANGED <<chunks, stored, me, other, memo, last>>
-----------------------------------------------------------------------------
(* manage_regions: a region that comes back is inserted, and then the      *)
(* regions nobody wanted for long are taken out and staged.  While it is   *)
(* pending or in flight a region is resumed: it comes back as the clone of *)
(* what left, with its masks, its revision and its rects; once it was      *)
(* written it is read again.  When that is, is persistence's affair        *)
(* (module Persistence).  What arrives in a tick does not expire in it.    *)

Returning(c, resumed) == IF c \in resumed THEN stored[c] ELSE NewChunk(stored[c])

ManageRegions(arrived, resumed, expired) ==
  /\ pc = "network" /\ pc' = "begin"
  /\ arrived \cap Loaded = {} /\ resumed \subseteq arrived
  /\ expired \subseteq Loaded /\ ChunkOf(me.pos) \notin expired
  /\ IF arrived \cup expired = {} THEN UNCHANGED acts
                                 ELSE acts < MaxActs /\ acts' = acts + 1
  /\ stored' = [c \in Row |-> IF c \in expired THEN chunks[c] ELSE stored[c]]
  /\ chunks' = [c \in Row |-> CASE c \in arrived -> Returning(c, resumed)
                                [] c \in expired -> Nil
                                [] OTHER -> chunks[c]]
  /\ UNCHANGED <<me, other, memo, last, session, queue, client>>
-----------------------------------------------------------------------------
(* The kernel begins its tick: the rects of ready chunks roll.  Which are  *)
(* ready is the kernel's affair (module Wake).                             *)

Roll(chunk) == [chunk EXCEPT !.prev = chunk.change, !.change = Empty]

BeginTick(ready) ==
  /\ pc = "begin" /\ pc' = "kernel"
  /\ chunks' = [c \in Row |-> IF c \in ready THEN Roll(chunks[c]) ELSE chunks[c]]
  /\ UNCHANGED <<stored, me, other, memo, last, session, queue, client, acts>>
-----------------------------------------------------------------------------
(* fog.rs                                                                  *)

Opaque(chunk) == {o \in Offsets : chunk.cells[o] = "wall"}

\* Mutation: only what became a wall is noticed.
RefreshSightLax(chunk) ==
  LET sight == chunk.sight \cup (chunk.dirty \cap Opaque(chunk))
  IN  [chunk EXCEPT !.sight = sight, !.dirty = Empty,
                    !.rev = IF sight = chunk.sight THEN @ ELSE @ + 1]

\* refresh_sight, store_sight: only the texels of the dirty rect are judged
\* again, and the revision counts the changes of the mask.
RefreshSight(chunk) ==
  LET sight == (chunk.sight \ chunk.dirty) \cup (chunk.dirty \cap Opaque(chunk))
  IN  [chunk EXCEPT !.sight = sight, !.dirty = Empty,
                    !.rev = IF sight = chunk.sight THEN @ ELSE @ + 1]

Window(eye) == {c \in Row : c \in ChunkOf(Max({1, eye - Radius}))
                                    ..ChunkOf(Min({Chunks * Size, eye + Radius}))}

Refreshed(eye) ==
  [c \in Row |-> IF c \in Window(eye) /\ c \in Loaded THEN RefreshSight(chunks[c])
                                                     ELSE chunks[c]]

\* What an eye sees along the row, walls included, if these texels are walls.
Sees(eye, walls) ==
  {p \in Positions : /\ p - eye \in (-Radius)..Radius
                     /\ \A q \in Positions :
                          (q > eye /\ q < p) \/ (q < eye /\ q > p) => q \notin walls}

\* What is not loaded blocks.
Walls(masks) ==
  {p \in Positions : masks[ChunkOf(p)] = Nil \/ OffsetOf(p) \in masks[ChunkOf(p)].sight}

MemoOf(eye, masks) ==
  [eye |-> eye, revs |-> {<<c, IF masks[c] = Nil THEN -1 ELSE masks[c].rev>> : c \in Window(eye)}]

Reveal(masks, seen) ==
  [c \in Row |->
     IF masks[c] = Nil THEN Nil
       ELSE [masks[c] EXCEPT !.fog = @ \cup {OffsetOf(p) : p \in {q \in seen : ChunkOf(q) = c}}]]

\* reveal, for the followed player: an eye that has a memo of just this eye
\* and these masks is done.
RevealFog ==
  IF ~me.alive THEN UNCHANGED chunks /\ memo' = Nil
  ELSE LET masks == Refreshed(me.pos)
           new == MemoOf(me.pos, masks)
       IN  /\ memo' = new
           /\ chunks' = IF memo = new THEN masks
                                      ELSE Reveal(masks, Sees(me.pos, Walls(masks)))

Fog ==
  /\ pc = "kernel" /\ pc' = "replicate"
  /\ RevealFog
  /\ UNCHANGED <<stored, me, other, last, session, queue, client, acts>>
-----------------------------------------------------------------------------
(* replication.rs                                                          *)

InterestOf(p) == {c \in Loaded : c - ChunkOf(p) \in (-Interest)..Interest}

Content(c) == [cells |-> chunks[c].cells, fog |-> chunks[c].fog]

\* The patch of a delta: the cells of the change rect, and Nil elsewhere.
Patch(c) ==
  [o \in Offsets |-> IF o \in ChangeRect(chunks[c]) THEN chunks[c].cells[o] ELSE Nil]

NoPatch == [o \in Offsets |-> Nil]

\* build_tiles: what left the interest is unloaded, what came is loaded
\* whole, and what stayed gets its new fog and the cells that changed.  The
\* ops of a frame about one chunk are put together.
TileOp(c, sent) ==
  LET near == c \in InterestOf(me.pos)
      kept == near /\ sent # Nil
  IN  [unload |-> ~near /\ sent # Nil,
       load   |-> IF near /\ sent = Nil THEN Content(c) ELSE Nil,
       fog    |-> IF kept /\ sent # chunks[c].fog THEN chunks[c].fog ELSE Nil,
       patch  |-> IF kept THEN Patch(c) ELSE NoPatch]

BuildTiles(known) == [c \in Row |-> TileOp(c, known[c])]

Baseline == [c \in Row |-> IF c \in InterestOf(me.pos) THEN chunks[c].fog ELSE Nil]

\* self_state: an anchor goes along only without an avatar.
SelfState == [alive |-> me.alive, anchor |-> IF me.alive THEN Nil ELSE me.pos]

\* The other player as this frame tells it, or Nil to say nothing.
PlayersFor == IF session.fresh \/ last # other THEN other ELSE Nil

Changed(new, old) == IF session.fresh \/ new # old THEN new ELSE Nil

TickFrame ==
  [kind   |-> "frame",
   ops    |-> BuildTiles(session.known),
   player |-> PlayersFor,
   slot   |-> Changed(me.slot, session.slot),
   self   |-> IF session.self # SelfState THEN SelfState ELSE Nil]

Replicate ==
  /\ pc = "replicate" /\ pc' = "network"
  /\ last' = other
  /\ IF session = Nil THEN UNCHANGED <<session, queue>>
     ELSE /\ Len(queue) < MaxQueue
          /\ queue' = Append(queue, TickFrame)
          /\ session' = [known |-> Baseline, self |-> SelfState, slot |-> me.slot,
                         fresh |-> FALSE]
  /\ UNCHANGED <<chunks, stored, me, other, memo, client, acts>>
-----------------------------------------------------------------------------
(* The client applies messages in the order they were sent.                *)

ApplyOp(tile, op) ==
  IF op.unload THEN Nil
  ELSE IF op.load # Nil THEN op.load
  ELSE IF tile = Nil THEN Nil
  ELSE [cells |-> [o \in Offsets |-> IF op.patch[o] = Nil THEN tile.cells[o] ELSE op.patch[o]],
        fog   |-> IF op.fog = Nil THEN tile.fog ELSE op.fog]

ApplyOps(view, ops) == [c \in Row |-> ApplyOp(view[c], ops[c])]

Apply(c, m) ==
  IF m.kind = "remove" THEN [c EXCEPT !.avatar = 0]
  ELSE [chunks |-> ApplyOps(c.chunks, m.ops),
        avatar |-> IF m.player = Nil THEN c.avatar ELSE m.player,
        slot   |-> IF m.slot = Nil THEN c.slot ELSE m.slot,
        self   |-> IF m.self = Nil THEN c.self ELSE m.self]

Receive ==
  /\ client # Nil /\ queue # <<>>
  /\ client' = Apply(client, Head(queue))
  /\ queue' = Tail(queue)
  /\ UNCHANGED <<pc, chunks, stored, me, other, memo, last, session, acts>>
-----------------------------------------------------------------------------
Init ==
  /\ pc = "network"
  /\ \E cells \in [Row -> [Offsets -> {"open", "wall"}]] :
       stored = [c \in Row |-> NewChunk([cells |-> cells[c], fog |-> {}])]
  /\ \E loaded \in {{1}, Row} : chunks = [c \in Row |-> IF c \in loaded THEN stored[c] ELSE Nil]
  /\ me \in [pos : {1}, alive : {TRUE}, slot : Things]
  /\ other = Nil
  /\ memo = Nil /\ last = Nil
  /\ \/ session = Nil /\ client = Nil
     \/ session = NoBaseline /\ client = NoView
  /\ queue = <<>>
  /\ acts = 0

World ==
  \/ \E p \in Positions : Write(p) \/ Walk(p) \/ Materialize(p)
  \/ \E p \in {0} \cup Positions : OtherMoves(p)
  \/ \E thing \in Things : Hold(thing)
  \/ Die \/ OtherJoins \/ OtherLeaves \/ Disconnect \/ Connect

Next ==
  \/ World
  \/ \E arrived, resumed, expired \in SUBSET Row : ManageRegions(arrived, resumed, expired)
  \/ \E ready \in SUBSET Loaded : BeginTick(ready)
  \/ Fog
  \/ Replicate
  \/ Receive

Spec == Init /\ [][Next]_vars
-----------------------------------------------------------------------------
TypeOK ==
  /\ pc \in {"network", "begin", "kernel", "replicate"}
  /\ chunks \in [Row -> {Nil} \cup Chunk]
  /\ stored \in [Row -> Chunk]
  /\ me \in [pos : Positions, alive : BOOLEAN, slot : Things]
  /\ {other, last} \subseteq {Nil, 0} \cup Positions
  /\ memo \in {Nil} \cup Memo
  /\ session \in {Nil} \cup Session
  /\ client \in {Nil} \cup Client
  /\ session = Nil <=> client = Nil
  /\ queue \in Seq(Message) /\ Len(queue) <= MaxQueue
  /\ session = Nil => queue = <<>>
  /\ acts \in 0..MaxActs

(***************************************************************************)
(* Every value has its type, and                                           *)
(* what a living player can see is explored once the tick has revealed:    *)
(* neither a memo nor a sight mask that was judged in parts and at other   *)
(* times hides ground in plain view (fog.rs reveal_from, refresh_sight).   *)
(***************************************************************************)
TrueWalls ==
  {p \in Positions : IF ChunkOf(p) \in Loaded
                       THEN chunks[ChunkOf(p)].cells[OffsetOf(p)] = "wall" ELSE TRUE}

SeenIsRevealed ==
  /\ TypeOK
  /\ pc = "replicate" /\ me.alive =>
       \A p \in Sees(me.pos, TrueWalls) :
         ChunkOf(p) \in Loaded => OffsetOf(p) \in chunks[ChunkOf(p)].fog

(***************************************************************************)
(* When a tick has ended and what is under way has arrived, the client     *)
(* shows the world around the view, the other player and the player's own  *)
(* state exactly as the server has them, whatever of loads, deltas, fog,   *)
(* unloads and reconnects came before (replication.rs, game/world.rs).     *)
(***************************************************************************)
Shown(view, messages) ==
  LET shown[n \in 0..Len(messages)] ==
        IF n = 0 THEN view ELSE Apply(shown[n - 1], messages[n])
  IN  shown[Len(messages)]

Arrived == Shown(client, queue)

Truth ==
  [chunks |-> [c \in Row |-> IF c \in InterestOf(me.pos) THEN Content(c) ELSE Nil],
   avatar |-> IF other = Nil THEN 0 ELSE other,
   self   |-> SelfState,
   slot   |-> me.slot]

TickEnds == pc = "replicate" /\ pc' = "network"

MirrorIsFaithful == [][TickEnds /\ session # Nil => Arrived' = Truth']_vars
=============================================================================
