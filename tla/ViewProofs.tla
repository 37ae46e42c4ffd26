------------------------------ MODULE ViewProofs ------------------------------
(***************************************************************************)
(* For any row of chunks, any radius and interest, and any number of acts  *)
(* and messages of View: what a living player can see is explored at the   *)
(* end of a tick, and the client's mirror is true when all has arrived.    *)
(***************************************************************************)
EXTENDS View, Recursion

-----------------------------------------------------------------------------
(* Arithmetic of positions.                                                *)

\* Quotient and remainder recompose the number.
LEMMA NatDivision ==
  ASSUME NEW n \in Nat, NEW d \in Nat \ {0}
  PROVE  /\ n \div d \in Nat /\ n % d \in 0..(d - 1)
         /\ n = d * (n \div d) + (n % d)
  OBVIOUS

\* Division by a number keeps the order.
LEMMA NatQuotients ==
  ASSUME NEW n \in Nat, NEW m \in Nat, NEW d \in Nat \ {0}, n <= m
  PROVE  n \div d <= m \div d
  <1>1. SUFFICES ASSUME m \div d + 1 <= n \div d PROVE FALSE
    BY NatDivision
  <1>2. d * (m \div d + 1) <= d * (n \div d)
    BY <1>1, NatDivision, ProductsAscend
  <1>3. d * (m \div d + 1) = d * (m \div d) + d
    BY NatDivision
  <1>. QED
    BY <1>2, <1>3, NatDivision

\* A position is in a chunk of the row, at one of its offsets.
LEMMA Places ==
  ASSUME NEW p \in Positions
  PROVE  ChunkOf(p) \in Row /\ OffsetOf(p) \in Offsets
  <1>1. Chunks \in Nat \ {0} /\ Size \in Nat \ {0} /\ Chunks * Size \in Nat
    BY ViewAssumption
  <1>2. p - 1 \in Nat /\ p - 1 < Chunks * Size
    BY <1>1 DEF Positions
  <1> DEFINE quotient == (p - 1) \div Size  rest == (p - 1) % Size
  <1>4. /\ quotient \in Nat /\ rest \in 0..(Size - 1)
        /\ p - 1 = Size * quotient + rest
    BY <1>1, <1>2, NatDivision
  <1>5. ChunkOf(p) = quotient + 1 /\ OffsetOf(p) = rest + 1
    BY DEF ChunkOf, OffsetOf
  <1> HIDE DEF quotient, rest
  <1>3. quotient < Chunks
    <2>1. SUFFICES ASSUME Chunks <= quotient PROVE FALSE
      BY <1>1, <1>4
    <2>2. Size * Chunks <= Size * quotient
      BY <1>1, <1>4, <2>1, ProductsAscend
    <2>3. Size * Chunks = Chunks * Size /\ Size * quotient \in Nat
      BY <1>1, <1>4
    <2>. QED
      BY <1>1, <1>2, <1>4, <2>2, <2>3
  <1>. QED
    BY <1>1, <1>3, <1>4, <1>5 DEF Row, Offsets

\* Chunks follow one another as their positions do.
LEMMA ChunksAscend ==
  ASSUME NEW p \in Positions, NEW q \in Positions, p <= q
  PROVE  ChunkOf(p) <= ChunkOf(q)
  <1>1. Size \in Nat \ {0} /\ p - 1 \in Nat /\ q - 1 \in Nat /\ p - 1 <= q - 1
    BY ViewAssumption DEF Positions
  <1>2. (p - 1) \div Size <= (q - 1) \div Size
    BY <1>1, NatQuotients
  <1>. QED
    BY <1>1, <1>2, NatDivision DEF ChunkOf

\* What is within the radius of an eye is in a chunk of its window.
LEMMA NearIsInWindow ==
  ASSUME NEW eye \in Positions, NEW p \in Positions, p - eye \in (-Radius)..Radius
  PROVE  ChunkOf(p) \in Window(eye)
  <1>1. Radius \in Nat /\ Chunks * Size \in Nat /\ eye \in Int /\ p \in Int
    BY ViewAssumption DEF Positions
  <1> DEFINE low == Max({1, eye - Radius})  high == Min({Chunks * Size, eye + Radius})
  <1>2. low \in Positions /\ low <= p /\ high \in Positions /\ p <= high
    <2>1. low = IF 1 <= eye - Radius THEN eye - Radius ELSE 1
      BY <1>1, GreatestOfTwo
    <2>2. high = IF Chunks * Size <= eye + Radius THEN Chunks * Size ELSE eye + Radius
      BY <1>1, LeastOfTwo
    <2> HIDE DEF low, high
    <2>. QED
      BY <1>1, <2>1, <2>2 DEF Positions
  <1>3. Window(eye) = {c \in Row : c \in ChunkOf(low)..ChunkOf(high)}
    BY DEF Window
  <1> HIDE DEF low, high
  <1>4. ChunkOf(low) \in Row /\ ChunkOf(high) \in Row /\ ChunkOf(p) \in Row
    BY <1>2, Places
  <1>5. ChunkOf(low) <= ChunkOf(p) /\ ChunkOf(p) <= ChunkOf(high)
    BY <1>2, ChunksAscend
  <1>. QED
    BY <1>3, <1>4, <1>5 DEF Row

\* So is what the eye sees.
LEMMA SeenIsInWindow ==
  ASSUME NEW eye \in Positions, NEW walls, NEW p \in Sees(eye, walls)
  PROVE  p \in Positions /\ ChunkOf(p) \in Window(eye)
  BY NearIsInWindow DEF Sees

\* What an eye sees depends on the walls of its window alone.
LEMMA SeesAlike ==
  ASSUME NEW eye \in Positions, NEW walls, NEW others,
         \A q \in Positions : ChunkOf(q) \in Window(eye) => (q \in walls <=> q \in others)
  PROVE  Sees(eye, walls) = Sees(eye, others)
  <1>1. ASSUME NEW p \in Positions, p - eye \in (-Radius)..Radius, NEW q \in Positions,
               (q > eye /\ q < p) \/ (q < eye /\ q > p)
        PROVE  q \in walls <=> q \in others
    <2>1. Radius \in Nat /\ eye \in Int /\ p \in Int /\ q \in Int
      BY ViewAssumption DEF Positions
    <2>2. q - eye \in (-Radius)..Radius
      BY <1>1, <2>1
    <2>. QED
      BY <1>1, <2>2, NearIsInWindow
  <1>. QED
    BY <1>1 DEF Sees
-----------------------------------------------------------------------------
\* A span is a rect that covers what was marked.
LEMMA Spans ==
  ASSUME NEW s \in SUBSET Offsets
  PROVE  Span(s) \in Rects /\ s \subseteq Span(s) /\ Span(s) \subseteq Offsets
  <1>1. CASE s = {}
    BY <1>1 DEF Span, Rects
  <1>2. CASE s # {}
    <2>1. Size \in Nat /\ s \subseteq Nat /\ s \subseteq 0..Size
      BY ViewAssumption DEF Offsets
    <2>2. Min(s) \in s /\ \A y \in s : Min(s) <= y
      BY <1>2, <2>1, MinIsLeast
    <2>3. Max(s) \in s /\ \A y \in s : y <= Max(s)
      BY <1>2, <2>1, MaxIsGreatest
    <2>4. Span(s) = Min(s)..Max(s)
      BY <1>2 DEF Span
    <2>. QED
      BY <2>1, <2>2, <2>3, <2>4 DEF Rects, Offsets
  <1>. QED
    BY <1>1, <1>2

\* Rects are of offsets, the empty and the full one among them.
LEMMA RectsAreOffsets ==
  /\ Rects \subseteq SUBSET Offsets
  /\ Empty \in Rects /\ Full \in Rects
  <1>1. Rects \subseteq SUBSET Offsets
    BY Spans DEF Rects
  <1>2. Span({}) = {} /\ {} \in SUBSET Offsets
    BY DEF Span
  <1>3. Span(Offsets) = Offsets
    BY Spans
  <1>. QED
    BY <1>1, <1>2, <1>3 DEF Rects, Empty, Full

\* A chunk that is read or generated is a chunk, and nothing of it is judged.
LEMMA NewChunksAreChunks ==
  ASSUME NEW tile \in Tile \cup Chunk
  PROVE  /\ NewChunk(tile) \in Chunk
         /\ NewChunk(tile).dirty = Offsets /\ NewChunk(tile).rev = 0
  <1>1. tile.cells \in Cells /\ tile.fog \in Fogs
    BY DEF Chunk, Tile
  <1>. QED
    BY <1>1, RectsAreOffsets, ViewAssumption DEF NewChunk, Chunk, Revs, Full

\* A write leaves a chunk, with the cell in its rects.
LEMMA SetsAreChunks ==
  ASSUME NEW chunk \in Chunk, NEW o \in Offsets, NEW v \in {"open", "wall"}
  PROVE  /\ Set(chunk, o, v) \in Chunk
         /\ chunk.change \cup {o} \subseteq Set(chunk, o, v).change
         /\ chunk.dirty \cup {o} \subseteq Set(chunk, o, v).dirty
  <1>1. /\ chunk.change \cup {o} \in SUBSET Offsets
        /\ chunk.dirty \cup {o} \in SUBSET Offsets
    BY RectsAreOffsets DEF Chunk
  <1>2. /\ Span(chunk.change \cup {o}) \in Rects
        /\ chunk.change \cup {o} \subseteq Span(chunk.change \cup {o})
        /\ Span(chunk.dirty \cup {o}) \in Rects
        /\ chunk.dirty \cup {o} \subseteq Span(chunk.dirty \cup {o})
    BY <1>1, Spans
  <1>3. [chunk.cells EXCEPT ![o] = v] \in Cells
    BY DEF Chunk, Cells
  <1>. QED
    BY <1>2, <1>3 DEF Set, Chunk

\* Whether the texels that are not dirty are judged right, and how often a
\* mask can have changed by the given number of acts.
Judged(chunk) ==
  \A o \in Offsets \ chunk.dirty : o \in chunk.sight <=> chunk.cells[o] = "wall"

Counted(chunk, n) == chunk.rev <= (IF chunk.dirty = {} THEN n + 1 ELSE n)

\* A refresh of the sight mask judges every texel, and a mask that changed has
\* a new revision.
LEMMA RefreshJudges ==
  ASSUME NEW chunk \in Chunk, NEW n \in 0..MaxActs, Judged(chunk), Counted(chunk, n)
  PROVE  LET new == RefreshSight(chunk)
         IN  /\ new \in Chunk
             /\ new.cells = chunk.cells /\ new.fog = chunk.fog
             /\ new.change = chunk.change /\ new.prev = chunk.prev
             /\ new.dirty = {} /\ new.sight = Opaque(chunk)
             /\ new.rev = chunk.rev => new.sight = chunk.sight
             /\ Judged(new) /\ Counted(new, n)
  <1> DEFINE sight == (chunk.sight \ chunk.dirty) \cup (chunk.dirty \cap Opaque(chunk))
             rev == IF sight = chunk.sight THEN chunk.rev ELSE chunk.rev + 1
             new == [chunk EXCEPT !.sight = sight, !.dirty = Empty, !.rev = rev]
  <1>1. RefreshSight(chunk) = new
    BY DEF RefreshSight
  <1>2. chunk.dirty \subseteq Offsets /\ chunk.sight \subseteq Offsets
    BY RectsAreOffsets DEF Chunk
  <1>3. sight = Opaque(chunk)
    BY <1>2 DEF Judged, Opaque
  <1>4. chunk.dirty = {} => sight = chunk.sight
    OBVIOUS
  <1>5. sight \in SUBSET Offsets
    BY <1>2
  <1>6. MaxActs \in Nat /\ chunk.rev \in Nat
    BY ViewAssumption DEF Chunk, Revs
  <1>7. rev \in Revs /\ rev <= n + 1 /\ (rev = chunk.rev => sight = chunk.sight)
    <2> HIDE DEF sight
    <2>. QED
      BY <1>4, <1>6 DEF Counted, Chunk, Revs
  <1> HIDE DEF sight, rev
  <1>8. /\ new \in Chunk /\ new.cells = chunk.cells /\ new.fog = chunk.fog
        /\ new.change = chunk.change /\ new.prev = chunk.prev
        /\ new.dirty = {} /\ new.sight = sight /\ new.rev = rev
    BY <1>5, <1>7, RectsAreOffsets DEF Chunk, Empty
  <1> HIDE DEF new
  <1>9. Judged(new) /\ Counted(new, n)
    BY <1>3, <1>7, <1>8 DEF Judged, Counted, Opaque
  <1>. QED
    BY <1>1, <1>3, <1>7, <1>8, <1>9
-----------------------------------------------------------------------------
\* The texels that are not dirty are judged right, and a mask has not
\* changed more often than something was done.
ChunksInv == \A c \in Loaded : Judged(chunks[c]) /\ Counted(chunks[c], acts)

\* And so for a chunk that left, which may be resumed.
StoredInv == \A c \in Row : Judged(stored[c]) /\ Counted(stored[c], acts)

\* A client that applies a message is a client.
LEMMA ApplyIsTyped ==
  ASSUME NEW view \in Client, NEW m \in Message
  PROVE  Apply(view, m) \in Client
  <1>1. CASE m.kind = "remove"
    BY <1>1 DEF Apply, Client, Avatars
  <1>2. CASE m.kind # "remove"
    <2>1. m \in [kind : {"frame"}, ops : [Row -> Op], player : {Nil} \cup Avatars,
                 slot : {Nil} \cup Things, self : {Nil} \cup SelfStates]
      BY <1>2 DEF Message
    <2>2. ASSUME NEW tile \in {Nil} \cup Tile, NEW op \in Op
          PROVE  ApplyOp(tile, op) \in {Nil} \cup Tile
      BY DEF ApplyOp, Op, Tile, Cells
    <2>3. ApplyOps(view.chunks, m.ops) \in [Row -> {Nil} \cup Tile]
      BY <2>1, <2>2 DEF ApplyOps, Client
    <2> HIDE DEF Op
    <2>. QED
      BY <1>2, <2>1, <2>3 DEF Apply, Client
  <1>. QED
    BY <1>1, <1>2

\* The frame of a tick is a message, its baseline a session.
LEMMA FramesAreTyped ==
  ASSUME TypeOK, session # Nil
  PROVE  /\ TickFrame \in Message
         /\ [known |-> Baseline, self |-> SelfState, slot |-> me.slot, fresh |-> FALSE]
              \in Session
  <1>1. session \in Session /\ me \in [pos : Positions, alive : BOOLEAN, slot : Things]
    BY DEF TypeOK
  <1>2. \A c \in Loaded : chunks[c] \in Chunk
    BY DEF TypeOK, Loaded
  <1>3. SelfState \in SelfStates
    BY <1>1 DEF SelfState, SelfStates
  <1>4. \A c \in InterestOf(me.pos) : c \in Loaded
    BY DEF InterestOf
  <1>5. ASSUME NEW c \in Row, NEW sent \in {Nil} \cup Fogs
        PROVE  TileOp(c, sent) \in Op
    <2>1. CASE c \in InterestOf(me.pos)
      <3>1. chunks[c] \in Chunk
        BY <1>2, <1>4, <2>1
      <3>2. Content(c) \in Tile /\ Patch(c) \in [Offsets -> {Nil, "open", "wall"}]
        BY <3>1 DEF Content, Patch, Chunk, Tile, Cells
      <3>3. NoPatch \in [Offsets -> {Nil, "open", "wall"}] /\ chunks[c].fog \in Fogs
        BY <3>1 DEF NoPatch, Chunk
      <3>. QED
        BY <3>2, <3>3 DEF TileOp, Op
    <2>2. CASE c \notin InterestOf(me.pos)
      <3>1. NoPatch \in [Offsets -> {Nil, "open", "wall"}]
        BY DEF NoPatch
      <3>. QED
        BY <2>2, <3>1 DEF TileOp, Op
    <2>. QED
      BY <2>1, <2>2
  <1>6. BuildTiles(session.known) \in [Row -> Op]
    BY <1>1, <1>5 DEF BuildTiles, Session
  <1>7. Baseline \in [Row -> {Nil} \cup Fogs]
    BY <1>2, <1>4 DEF Baseline, Chunk
  <1>8. PlayersFor \in {Nil} \cup Avatars
    BY DEF PlayersFor, TypeOK, Avatars
  <1>9. Changed(me.slot, session.slot) \in {Nil} \cup Things
    BY <1>1 DEF Changed
  <1> HIDE DEF Op
  <1>10. TickFrame \in Message
    BY <1>3, <1>6, <1>8, <1>9 DEF TickFrame, Message
  <1>. QED
    BY <1>1, <1>3, <1>7, <1>10 DEF Session

\* Refreshed chunks are chunks, and only those that were loaded.
LEMMA RefreshedIsTyped ==
  ASSUME TypeOK, ChunksInv, NEW eye \in Positions
  PROVE  LET masks == Refreshed(eye)
         IN  /\ masks \in [Row -> {Nil} \cup Chunk]
             /\ \A c \in Row : masks[c] = Nil <=> c \notin Loaded
             /\ \A c \in Loaded : Judged(masks[c]) /\ Counted(masks[c], acts)
  <1> DEFINE masks == Refreshed(eye)
  <1>1. ASSUME NEW c \in Loaded
        PROVE  masks[c] \in Chunk /\ Judged(masks[c]) /\ Counted(masks[c], acts)
    <2>1. chunks[c] \in Chunk /\ Judged(chunks[c]) /\ Counted(chunks[c], acts) /\ c \in Row
      BY DEF TypeOK, ChunksInv, Loaded
    <2>2. acts \in 0..MaxActs
      BY DEF TypeOK
    <2>3. CASE c \in Window(eye)
      <3>1. masks[c] = RefreshSight(chunks[c])
        BY <2>1, <2>3 DEF Refreshed
      <3>. QED
        BY <2>1, <2>2, <3>1, RefreshJudges
    <2>4. CASE c \notin Window(eye)
      BY <2>1, <2>4 DEF Refreshed
    <2>. QED
      BY <2>3, <2>4
  <1>2. \A c \in Row \ Loaded : masks[c] = Nil
    BY DEF Refreshed, Loaded
  <1>3. masks = [c \in Row |-> masks[c]]
    BY DEF Refreshed
  <1> HIDE DEF masks
  <1>4. Nil \notin Chunk
    BY NilIsNothing
  <1>5. Loaded \subseteq Row
    BY DEF Loaded
  <1>6. masks \in [Row -> {Nil} \cup Chunk]
    BY <1>1, <1>2, <1>3
  <1>7. \A c \in Row : masks[c] = Nil <=> c \notin Loaded
    BY <1>1, <1>2, <1>4
  <1>. QED
    BY <1>1, <1>6, <1>7 DEF masks

\* A reveal adds what is seen to the fog of the chunks, and changes nothing
\* else.
LEMMA RevealIsTyped ==
  ASSUME NEW masks \in [Row -> {Nil} \cup Chunk], NEW seen \in SUBSET Positions
  PROVE  LET lit == Reveal(masks, seen)
         IN  /\ lit \in [Row -> {Nil} \cup Chunk]
             /\ \A c \in Row : lit[c] = Nil <=> masks[c] = Nil
             /\ \A c \in Row : masks[c] # Nil =>
                  /\ lit[c] = [masks[c] EXCEPT !.fog = lit[c].fog]
                  /\ masks[c].fog \subseteq lit[c].fog
                  /\ \A p \in seen : ChunkOf(p) = c => OffsetOf(p) \in lit[c].fog
  <1> DEFINE lit == Reveal(masks, seen)
             shown(c) == {OffsetOf(p) : p \in {q \in seen : ChunkOf(q) = c}}
  <1>1. ASSUME NEW c \in Row, masks[c] # Nil
        PROVE  /\ lit[c] \in Chunk
               /\ lit[c] = [masks[c] EXCEPT !.fog = masks[c].fog \cup shown(c)]
               /\ lit[c].fog = masks[c].fog \cup shown(c)
    <2>1. masks[c] \in Chunk
      BY <1>1
    <2>2. shown(c) \subseteq Offsets
      BY Places
    <2>3. lit[c] = [masks[c] EXCEPT !.fog = masks[c].fog \cup shown(c)]
      BY <1>1 DEF Reveal
    <2> HIDE DEF shown, lit
    <2>. QED
      BY <2>1, <2>2, <2>3 DEF Chunk, Fogs
  <1>2. \A c \in Row : \A p \in seen : ChunkOf(p) = c => OffsetOf(p) \in shown(c)
    OBVIOUS
  <1>3. \A c \in Row : masks[c] = Nil => lit[c] = Nil
    BY DEF Reveal
  <1>4. lit = [c \in Row |-> lit[c]]
    BY DEF Reveal
  <1>5. Nil \notin Chunk
    BY NilIsNothing
  <1> HIDE DEF lit, shown
  <1>6. lit \in [Row -> {Nil} \cup Chunk]
    BY <1>1, <1>3, <1>4
  <1>7. \A c \in Row : lit[c] = Nil <=> masks[c] = Nil
    BY <1>1, <1>3, <1>5
  <1>8. ASSUME NEW c \in Row, masks[c] # Nil
        PROVE  /\ lit[c] = [masks[c] EXCEPT !.fog = lit[c].fog]
               /\ masks[c].fog \subseteq lit[c].fog
               /\ \A p \in seen : ChunkOf(p) = c => OffsetOf(p) \in lit[c].fog
    <2>1. /\ lit[c] = [masks[c] EXCEPT !.fog = masks[c].fog \cup shown(c)]
          /\ lit[c].fog = masks[c].fog \cup shown(c)
      BY <1>1, <1>8
    <2>. QED
      BY <1>2, <2>1
  <1>. QED
    BY <1>6, <1>7, <1>8 DEF lit

\* A memo of masks, and what is judged and counted of the masks once lit.
LEMMA MemosAreTyped ==
  ASSUME NEW eye \in Positions, NEW masks \in [Row -> {Nil} \cup Chunk]
  PROVE  MemoOf(eye, masks) \in Memo
  <1>1. ASSUME NEW c \in Window(eye)
        PROVE  <<c, IF masks[c] = Nil THEN -1 ELSE masks[c].rev>> \in Row \X ({-1} \cup Revs)
    BY DEF Window, Chunk
  <1>2. MemoOf(eye, masks).revs \subseteq Row \X ({-1} \cup Revs)
    BY <1>1 DEF MemoOf
  <1>. QED
    BY <1>2 DEF MemoOf, Memo

\* What Fog does to the chunks and the memo, for a living player.
Lit == Reveal(Refreshed(me.pos), Sees(me.pos, Walls(Refreshed(me.pos))))

\* What the fog of a tick computes has its types.
LEMMA FogIsTyped ==
  ASSUME TypeOK, ChunksInv
  PROVE  /\ Refreshed(me.pos) \in [Row -> {Nil} \cup Chunk]
         /\ Lit \in [Row -> {Nil} \cup Chunk]
         /\ MemoOf(me.pos, Refreshed(me.pos)) \in Memo
  <1>1. me.pos \in Positions
    BY DEF TypeOK
  <1>2. Refreshed(me.pos) \in [Row -> {Nil} \cup Chunk]
    BY <1>1, RefreshedIsTyped
  <1>3. Sees(me.pos, Walls(Refreshed(me.pos))) \subseteq Positions
    BY DEF Sees
  <1>. QED
    BY <1>1, <1>2, <1>3, RevealIsTyped, MemosAreTyped DEF Lit
-----------------------------------------------------------------------------
\* The types hold at the start.
LEMMA TypesStart ==
  ASSUME Init
  PROVE  TypeOK
  <1>1. Chunks \in Nat \ {0} /\ Size \in Nat \ {0} /\ MaxActs \in Nat /\ MaxQueue \in Nat
    BY ViewAssumption
  <1>2. 1 \in Positions
    <2>1. 1 <= Chunks * Size
      BY <1>1
    <2>. QED
      BY <1>1, <2>1 DEF Positions
  <1>3. stored \in [Row -> Chunk]
    <2>1. PICK cells \in [Row -> Cells] :
            stored = [c \in Row |-> NewChunk([cells |-> cells[c], fog |-> {}])]
      BY DEF Init, Cells
    <2>2. \A c \in Row : [cells |-> cells[c], fog |-> {}] \in Tile
      BY DEF Tile, Fogs
    <2>. QED
      BY <2>1, <2>2, NewChunksAreChunks
  <1>5. chunks \in [Row -> {Nil} \cup Chunk]
    BY <1>3 DEF Init
  <1>6. NoBaseline \in Session
    BY DEF NoBaseline, Session
  <1>7. NoView \in Client
    BY DEF NoView, Client, Avatars
  <1>8. NoBaseline # Nil /\ NoView # Nil
    BY <1>6, <1>7, NilIsNothing
  <1>9. me \in [pos : Positions, alive : BOOLEAN, slot : Things]
    BY <1>2 DEF Init
  <1>10. queue \in Seq(Message) /\ Len(queue) <= MaxQueue /\ acts \in 0..MaxActs
    BY <1>1 DEF Init
  <1>11. /\ session \in {Nil} \cup Session /\ client \in {Nil} \cup Client
         /\ session = Nil <=> client = Nil
         /\ session = Nil => queue = <<>>
    BY <1>6, <1>7, <1>8 DEF Init
  <1>. QED
    BY <1>3, <1>5, <1>9, <1>10, <1>11 DEF Init, TypeOK

\* Every step keeps the types.
LEMMA TypesStay ==
  ASSUME TypeOK, ChunksInv, [Next]_vars
  PROVE  TypeOK'
  <1>1. MaxActs \in Nat /\ MaxQueue \in Nat
    BY ViewAssumption
  <1> DEFINE Acts == acts' \in 0..MaxActs /\ pc' = pc
  <1>2. ASSUME NEW stages, Act(stages)
        PROVE  Acts
    BY <1>1, <1>2 DEF Act, TypeOK
  <1>3. ASSUME NEW p \in Positions, Write(p)
        PROVE  TypeOK'
    <2>1. ChunkOf(p) \in Row /\ OffsetOf(p) \in Offsets /\ chunks[ChunkOf(p)] \in Chunk
      BY <1>3, Places DEF Write, Loaded, TypeOK
    <2>2. PICK v \in {"open", "wall"} :
            chunks' = [chunks EXCEPT ![ChunkOf(p)] = Set(chunks[ChunkOf(p)], OffsetOf(p), v)]
      BY <1>3 DEF Write
    <2>3. Set(chunks[ChunkOf(p)], OffsetOf(p), v) \in Chunk
      BY <2>1, SetsAreChunks
    <2>4. chunks' \in [Row -> {Nil} \cup Chunk]
      BY <2>2, <2>3 DEF TypeOK
    <2>5. Acts
      BY <1>2, <1>3 DEF Write
    <2>. QED
      BY <1>3, <2>4, <2>5 DEF Write, TypeOK
  <1>4. ASSUME NEW p \in Positions, Walk(p) \/ Materialize(p)
        PROVE  TypeOK'
    <2>1. me' \in [pos : Positions, alive : BOOLEAN, slot : Things]
      BY <1>4 DEF Walk, Materialize, TypeOK
    <2>2. Acts
      BY <1>2, <1>4 DEF Walk, Materialize
    <2>. QED
      BY <1>4, <2>1, <2>2 DEF Walk, Materialize, TypeOK
  <1>5. ASSUME NEW p \in {0} \cup Positions, OtherMoves(p)
        PROVE  TypeOK'
    <2>1. Acts
      BY <1>2, <1>5 DEF OtherMoves
    <2>. QED
      BY <1>5, <2>1 DEF OtherMoves, TypeOK
  <1>6. ASSUME NEW thing \in Things, Hold(thing)
        PROVE  TypeOK'
    <2>1. Acts /\ me' \in [pos : Positions, alive : BOOLEAN, slot : Things]
      BY <1>2, <1>6 DEF Hold, TypeOK
    <2>. QED
      BY <1>6, <2>1 DEF Hold, TypeOK
  <1>7. CASE Die
    <2>1. Acts /\ me' \in [pos : Positions, alive : BOOLEAN, slot : Things]
      BY <1>2, <1>7 DEF Die, TypeOK
    <2>. QED
      BY <1>7, <2>1 DEF Die, TypeOK
  <1>8. CASE OtherJoins
    <2>1. Acts
      BY <1>2, <1>8 DEF OtherJoins
    <2>. QED
      BY <1>8, <2>1 DEF OtherJoins, TypeOK
  <1>9. CASE OtherLeaves
    <2>1. Acts
      BY <1>2, <1>9 DEF OtherLeaves
    <2>2. [kind |-> "remove"] \in Message
      BY DEF Message
    <2>3. queue' \in Seq(Message) /\ Len(queue') <= MaxQueue /\ (session = Nil => queue' = <<>>)
      BY <1>1, <1>9, <2>2 DEF OtherLeaves, TypeOK
    <2>. QED
      BY <1>9, <2>1, <2>3 DEF OtherLeaves, TypeOK
  <1>10. CASE Disconnect
    <2>1. Acts
      BY <1>2, <1>10 DEF Disconnect
    <2>. QED
      BY <1>1, <1>10, <2>1 DEF Disconnect, TypeOK
  <1>11. CASE Connect
    <2>1. Acts
      BY <1>2, <1>11 DEF Connect
    <2>2. NoBaseline \in Session /\ NoView \in Client
      BY DEF NoBaseline, Session, NoView, Client, Avatars
    <2>3. NoBaseline # Nil /\ NoView # Nil
      BY <2>2, NilIsNothing
    <2>. QED
      BY <1>1, <1>11, <2>1, <2>2, <2>3 DEF Connect, TypeOK
  <1>12. ASSUME NEW arrived \in SUBSET Row, NEW resumed \in SUBSET Row, NEW expired \in SUBSET Row,
                ManageRegions(arrived, resumed, expired)
         PROVE  TypeOK'
    <2>1. acts' \in 0..MaxActs
      BY <1>1, <1>12 DEF ManageRegions, TypeOK
    <2>2. \A c \in Row : Returning(c, resumed) \in Chunk
      BY NewChunksAreChunks DEF Returning, TypeOK
    <2>3. chunks' \in [Row -> {Nil} \cup Chunk]
      <3>1. chunks' = [c \in Row |-> CASE c \in arrived -> Returning(c, resumed)
                                       [] c \in expired -> Nil
                                       [] OTHER -> chunks[c]]
        BY <1>12 DEF ManageRegions
      <3>2. \A c \in Row : chunks[c] \in {Nil} \cup Chunk
        BY DEF TypeOK
      <3>. QED
        BY <2>2, <3>1, <3>2
    <2>4. stored' \in [Row -> Chunk]
      <3>1. \A c \in expired : chunks[c] \in Chunk
        BY <1>12 DEF ManageRegions, Loaded, TypeOK
      <3>. QED
        BY <1>12, <3>1 DEF ManageRegions, TypeOK
    <2>. QED
      BY <1>12, <2>1, <2>3, <2>4 DEF ManageRegions, TypeOK
  <1>13. ASSUME NEW ready \in SUBSET Loaded, BeginTick(ready)
         PROVE  TypeOK'
    <2>1. \A c \in ready : chunks[c] \in Chunk
      BY DEF Loaded, TypeOK
    <2>2. ASSUME NEW c \in ready PROVE Roll(chunks[c]) \in Chunk
      <3>1. chunks[c] \in Chunk /\ Empty \in Rects
        BY <2>1, RectsAreOffsets
      <3>. QED
        BY <3>1 DEF Roll, Chunk
    <2>3. chunks' \in [Row -> {Nil} \cup Chunk]
      BY <1>13, <2>2 DEF BeginTick, TypeOK
    <2>. QED
      BY <1>13, <2>3 DEF BeginTick, TypeOK
  <1>14. CASE Fog
    <2>1. chunks' \in {chunks, Refreshed(me.pos), Lit}
      BY <1>14 DEF Fog, RevealFog, Lit
    <2>2. memo' \in {Nil, MemoOf(me.pos, Refreshed(me.pos))}
      BY <1>14 DEF Fog, RevealFog
    <2>3. chunks' \in [Row -> {Nil} \cup Chunk] /\ memo' \in {Nil} \cup Memo
      BY <2>1, <2>2, FogIsTyped DEF TypeOK
    <2>. QED
      BY <1>14, <2>3 DEF Fog, TypeOK
  <1>15. CASE Replicate
    <2>1. CASE session = Nil
      BY <1>15, <2>1 DEF Replicate, TypeOK
    <2>2. CASE session # Nil
      <3> DEFINE new == [known |-> Baseline, self |-> SelfState, slot |-> me.slot,
                         fresh |-> FALSE]
      <3>1. TickFrame \in Message /\ new \in Session
        BY <2>2, FramesAreTyped
      <3>2. session' = new /\ queue' = Append(queue, TickFrame) /\ Len(queue) < MaxQueue
        BY <1>15, <2>2 DEF Replicate
      <3> HIDE DEF new
      <3>3. new # Nil
        BY <3>1, NilIsNothing
      <3>4. queue' \in Seq(Message) /\ Len(queue') <= MaxQueue
        BY <1>1, <3>1, <3>2 DEF TypeOK
      <3>. QED
        BY <1>15, <2>2, <3>1, <3>2, <3>3, <3>4 DEF Replicate, TypeOK
    <2>. QED
      BY <2>1, <2>2
  <1>16. CASE Receive
    <2>1. client \in Client /\ queue \in Seq(Message) /\ queue # <<>>
      BY <1>16 DEF Receive, TypeOK
    <2>2. Head(queue) \in Message /\ Tail(queue) \in Seq(Message) /\ Len(Tail(queue)) <= MaxQueue
      BY <1>1, <2>1 DEF TypeOK
    <2>3. client' \in Client /\ client' # Nil
      BY <1>16, <2>1, <2>2, ApplyIsTyped, NilIsNothing DEF Receive
    <2>. QED
      BY <1>16, <2>1, <2>2, <2>3 DEF Receive, TypeOK
  <1>17. CASE UNCHANGED vars
    BY <1>17 DEF vars, TypeOK
  <1>. QED
    BY <1>3, <1>4, <1>5, <1>6, <1>7, <1>8, <1>9, <1>10, <1>11, <1>12, <1>13, <1>14, <1>15,
       <1>16, <1>17 DEF Next, World
-----------------------------------------------------------------------------
\* A memo has one revision of each chunk of its window.  It is fresh if the
\* masks still have these revisions, and kept if those that are loaded have
\* the revision the memo has of them, if any.  What its eye sees is shown if
\* the fog is lifted from it.
RevOf(masks, c) == IF masks[c] = Nil THEN -1 ELSE masks[c].rev

Single(m) ==
  \A c \in Window(m.eye) : \A r, s \in {-1} \cup Revs :
    <<c, r>> \in m.revs /\ <<c, s>> \in m.revs => r = s

Fresh(m, masks) == \A c \in Window(m.eye) : <<c, RevOf(masks, c)>> \in m.revs

Kept(m, masks) ==
  \A c \in Window(m.eye) : \A r \in Revs :
    <<c, r>> \in m.revs /\ masks[c] # Nil => r = masks[c].rev

Shone(m, masks) ==
  \A p \in Sees(m.eye, Walls(masks)) :
    masks[ChunkOf(p)] # Nil => OffsetOf(p) \in masks[ChunkOf(p)].fog

\* A memo is fresh from one fog to the regions of the next tick.  From there
\* on a chunk may be gone or new, but none is gone and new, so that no
\* revision the memo has can be another mask's.
MemoInv ==
  memo # Nil =>
    /\ Single(memo)
    /\ pc \in {"replicate", "network"} => Fresh(memo, chunks)
    /\ pc \in {"begin", "kernel"} => Kept(memo, chunks)
    /\ Fresh(memo, chunks) => Shone(memo, chunks)

\* Once the fog is done, the memo of a living player is of the player's eye,
\* and the masks of its window are judged to the last texel.
EyeInv ==
  pc = "replicate" /\ me.alive =>
    /\ memo # Nil /\ memo.eye = me.pos
    /\ \A c \in Window(me.pos) : chunks[c] # Nil => chunks[c].dirty = {}

SightInv == ChunksInv /\ StoredInv /\ MemoInv /\ EyeInv

ViewInv == TypeOK /\ SightInv

\* Whether masks agree in a window, but for fog that is lifted in the second.
Alike(masks, others, eye) ==
  \A c \in Window(eye) :
    /\ masks[c] = Nil <=> others[c] = Nil
    /\ masks[c] # Nil => /\ masks[c].sight = others[c].sight
                         /\ masks[c].fog \subseteq others[c].fog

\* Where two worlds have the same masks an eye sees the same.
LEMMA WallsAlike ==
  ASSUME NEW eye \in Positions, NEW masks, NEW others, Alike(masks, others, eye)
  PROVE  Sees(eye, Walls(masks)) = Sees(eye, Walls(others))
  <1>1. ASSUME NEW q \in Positions, ChunkOf(q) \in Window(eye)
        PROVE  q \in Walls(masks) <=> q \in Walls(others)
    BY <1>1 DEF Alike, Walls
  <1>. QED
    BY <1>1, SeesAlike

\* What was revealed in one of them is revealed in the other.
LEMMA ShoneAlike ==
  ASSUME NEW m \in Memo, NEW masks, NEW others, Alike(masks, others, m.eye), Shone(m, masks)
  PROVE  Shone(m, others)
  <1>1. m.eye \in Positions
    BY DEF Memo
  <1>2. Sees(m.eye, Walls(masks)) = Sees(m.eye, Walls(others))
    BY <1>1, WallsAlike
  <1>3. ASSUME NEW p \in Sees(m.eye, Walls(others)), others[ChunkOf(p)] # Nil
        PROVE  OffsetOf(p) \in others[ChunkOf(p)].fog
    <2>1. ChunkOf(p) \in Window(m.eye)
      BY <1>1, SeenIsInWindow
    <2>2. masks[ChunkOf(p)] # Nil /\ masks[ChunkOf(p)].fog \subseteq others[ChunkOf(p)].fog
      BY <1>3, <2>1 DEF Alike
    <2>. QED
      BY <1>2, <2>2 DEF Shone
  <1>. QED
    BY <1>3 DEF Shone

\* Fog that is lifted is neither judged nor counted.
LEMMA LitIsJudged ==
  ASSUME NEW chunk \in Chunk, NEW fog, NEW n
  PROVE  /\ Judged([chunk EXCEPT !.fog = fog]) <=> Judged(chunk)
         /\ Counted([chunk EXCEPT !.fog = fog], n) <=> Counted(chunk, n)
  BY DEF Chunk, Judged, Counted
-----------------------------------------------------------------------------
\* The fog of a living player, with the masks and the memo it makes.
LEMMA FogShows ==
  ASSUME ViewInv, pc = "kernel", me.alive, Fog
  PROVE  ChunksInv' /\ MemoInv' /\ EyeInv'
  <1> DEFINE eye == me.pos
             masks == Refreshed(eye)
             new == MemoOf(eye, masks)
             seen == Sees(eye, Walls(masks))
  <1>1. /\ TypeOK /\ ChunksInv /\ MemoInv /\ eye \in Positions /\ acts \in 0..MaxActs
        /\ me' = me /\ acts' = acts /\ pc' = "replicate" /\ memo' = new
        /\ chunks' = IF memo = new THEN masks ELSE Reveal(masks, seen)
    BY DEF ViewInv, SightInv, TypeOK, Fog, RevealFog
  <1>2. /\ masks \in [Row -> {Nil} \cup Chunk]
        /\ \A c \in Row : masks[c] = Nil <=> chunks[c] = Nil
        /\ \A c \in Row : masks[c] # Nil => Judged(masks[c]) /\ Counted(masks[c], acts)
    BY <1>1, RefreshedIsTyped DEF Loaded
  <1>3. /\ new \in Memo /\ new # Nil /\ new.eye = eye
        /\ new.revs = {<<c, RevOf(masks, c)>> : c \in Window(eye)}
    <2>1. new.eye = eye /\ new.revs = {<<c, RevOf(masks, c)>> : c \in Window(eye)}
      BY DEF MemoOf, RevOf
    <2>. QED
      BY <1>1, <1>2, <2>1, MemosAreTyped, NilIsNothing
  <1>4. Window(eye) \subseteq Row /\ seen \subseteq Positions
    BY DEF Window, Sees
  <1>5. ASSUME NEW c \in Window(eye), masks[c] # Nil
        PROVE  /\ chunks[c] \in Chunk
               /\ masks[c] = RefreshSight(chunks[c])
               /\ masks[c].dirty = {} /\ masks[c].fog = chunks[c].fog
               /\ masks[c].rev = chunks[c].rev => masks[c].sight = chunks[c].sight
    <2>1. c \in Row /\ c \in Loaded /\ chunks[c] \in Chunk
      BY <1>1, <1>2, <1>4, <1>5 DEF Loaded, TypeOK
    <2>2. Judged(chunks[c]) /\ Counted(chunks[c], acts)
      BY <1>1, <2>1 DEF ChunksInv
    <2>3. masks[c] = RefreshSight(chunks[c])
      BY <2>1 DEF Refreshed
    <2>. QED
      BY <1>1, <2>1, <2>2, <2>3, RefreshJudges
  <1> DEFINE lit == Reveal(masks, seen)
  <1>6. /\ lit \in [Row -> {Nil} \cup Chunk]
        /\ \A c \in Row : lit[c] = Nil <=> masks[c] = Nil
        /\ \A c \in Row : masks[c] # Nil =>
             /\ lit[c] = [masks[c] EXCEPT !.fog = lit[c].fog]
             /\ masks[c].fog \subseteq lit[c].fog
             /\ \A p \in seen : ChunkOf(p) = c => OffsetOf(p) \in lit[c].fog
    <2> HIDE DEF masks, seen
    <2>. QED
      BY <1>2, <1>4, RevealIsTyped
  <1>7. \A c \in Row : masks[c] # Nil =>
          /\ lit[c].sight = masks[c].sight /\ lit[c].rev = masks[c].rev
          /\ lit[c].dirty = masks[c].dirty
    <2> HIDE DEF masks, lit
    <2>. QED
      BY <1>2, <1>6 DEF Chunk
  <1>8. Alike(masks, lit, eye)
    <2> HIDE DEF masks, lit, eye, seen
    <2>. QED
      BY <1>4, <1>6, <1>7 DEF Alike
  <1>9. Shone(new, lit)
    <2>1. seen = Sees(eye, Walls(lit))
      BY <1>1, <1>8, WallsAlike
    <2> HIDE DEF masks, lit, eye, seen, new
    <2>2. \A p \in seen : ChunkOf(p) \in Row
      BY <1>4, Places
    <2>. QED
      BY <1>3, <1>6, <2>1, <2>2 DEF Shone
  <1>10. ASSUME memo = new
         PROVE  Shone(new, masks)
    <2>1. Kept(memo, chunks) /\ (Fresh(memo, chunks) => Shone(memo, chunks)) /\ memo # Nil
      BY <1>1, <1>3, <1>10 DEF MemoInv
    <2>2. ASSUME NEW c \in Window(eye), masks[c] # Nil
          PROVE  masks[c].rev = chunks[c].rev /\ chunks[c] # Nil
      <3>1. <<c, masks[c].rev>> \in memo.revs /\ masks[c].rev \in Revs
        <4> HIDE DEF masks, eye, new
        <4>. QED
          BY <1>2, <1>3, <1>4, <1>10, <2>2 DEF RevOf, Chunk
      <3>2. chunks[c] # Nil
        BY <1>2, <1>4, <2>2
      <3>3. memo.eye = eye
        BY <1>3, <1>10
      <3> HIDE DEF masks, eye, new
      <3>. QED
        BY <2>1, <2>2, <3>1, <3>2, <3>3 DEF Kept
    <2>3. Fresh(memo, chunks)
      <3>1. \A c \in Window(eye) : RevOf(chunks, c) = RevOf(masks, c)
        <4> HIDE DEF masks, eye, new
        <4>. QED
          BY <1>2, <1>4, <2>2 DEF RevOf
      <3> HIDE DEF masks, eye, new
      <3>. QED
        BY <1>3, <1>10, <3>1 DEF Fresh
    <2>4. Alike(chunks, masks, eye)
      <3>1. ASSUME NEW c \in Window(eye), masks[c] # Nil
            PROVE  masks[c].sight = chunks[c].sight /\ masks[c].fog = chunks[c].fog
        BY <1>5, <2>2, <3>1
      <3> HIDE DEF masks, eye
      <3>. QED
        BY <1>2, <1>4, <3>1 DEF Alike
    <2> HIDE DEF masks, eye, new
    <2>. QED
      BY <1>3, <1>10, <2>1, <2>3, <2>4, ShoneAlike
  <1>11. /\ chunks' \in [Row -> {Nil} \cup Chunk]
         /\ \A c \in Row : chunks'[c] = Nil <=> masks[c] = Nil
         /\ \A c \in Row : masks[c] # Nil =>
              /\ chunks'[c].rev = masks[c].rev /\ chunks'[c].dirty = masks[c].dirty
              /\ Judged(chunks'[c]) /\ Counted(chunks'[c], acts)
         /\ Shone(new, chunks')
    <2>1. CASE memo = new
      <3> HIDE DEF masks, eye, new, lit, seen
      <3>. QED
        BY <1>1, <1>2, <1>10, <2>1
    <2>2. CASE memo # new
      <3>1. \A c \in Row : masks[c] # Nil => Judged(lit[c]) /\ Counted(lit[c], acts)
        <4> SUFFICES ASSUME NEW c \in Row, masks[c] # Nil
                     PROVE  Judged(lit[c]) /\ Counted(lit[c], acts)
          OBVIOUS
        <4> DEFINE mask == masks[c]  fog == lit[c].fog
        <4> HIDE DEF masks, eye, new, lit, seen
        <4>1. mask \in Chunk /\ Judged(mask) /\ Counted(mask, acts)
          BY <1>2
        <4>2. lit[c] = [mask EXCEPT !.fog = fog]
          BY <1>6
        <4> HIDE DEF mask, fog
        <4>. QED
          BY <4>1, <4>2, LitIsJudged
      <3>2. chunks' = lit
        BY <1>1, <2>2
      <3> HIDE DEF masks, eye, new, lit, seen
      <3>. QED
        BY <1>6, <1>7, <1>9, <3>1, <3>2
    <2>. QED
      BY <2>1, <2>2
  <1> HIDE DEF masks, eye, new, lit, seen
  <1>12. ChunksInv'
    BY <1>1, <1>11 DEF ChunksInv, Loaded
  <1>13. EyeInv'
    <2>1. eye = me.pos
      BY DEF eye
    <2>. QED
      BY <1>1, <1>3, <1>4, <1>5, <1>11, <2>1 DEF EyeInv
  <1>14. \A c \in Window(eye) : RevOf(chunks', c) = RevOf(masks, c)
    BY <1>4, <1>11 DEF RevOf
  <1>15. Fresh(new, chunks') /\ Single(new)
    BY <1>3, <1>14 DEF Fresh, Single
  <1>16. MemoInv'
    BY <1>1, <1>11, <1>15 DEF MemoInv
  <1>. QED
    BY <1>12, <1>13, <1>16
-----------------------------------------------------------------------------
\* The steps that leave the chunks and the memo alone, and the view while the
\* fog is being told.
Quiet ==
  /\ chunks' = chunks /\ memo' = memo /\ stored' = stored
  /\ acts \in Nat /\ acts' \in Nat /\ acts <= acts'
  /\ \/ pc' = pc /\ (pc = "replicate" => me' = me)
     \/ pc = "replicate" /\ pc' = "network"

\* A bound on the revisions may grow.
LEMMA CountsGrow ==
  ASSUME NEW chunk \in Chunk, NEW n \in Nat, NEW m \in Nat, n <= m, Counted(chunk, n)
  PROVE  Counted(chunk, m)
  BY DEF Counted, Chunk, Revs

\* What left stays as it left.
LEMMA StoredRests ==
  ASSUME ViewInv, stored' = stored, acts' \in Nat, acts <= acts'
  PROVE  StoredInv'
  <1>1. acts \in Nat /\ \A c \in Row : stored[c] \in Chunk
    BY ViewAssumption DEF ViewInv, TypeOK
  <1>. QED
    BY <1>1, CountsGrow DEF ViewInv, SightInv, StoredInv

\* A step that touches neither chunks nor memo keeps the invariant.
LEMMA QuietKeeps ==
  ASSUME ViewInv, Quiet
  PROVE  SightInv'
  <1>1. ChunksInv'
    <2>1. \A c \in Loaded : chunks[c] \in Chunk
      BY DEF ViewInv, TypeOK, Loaded
    <2>2. \A c \in Loaded : Judged(chunks[c]) /\ Counted(chunks[c], acts')
      BY <2>1, CountsGrow DEF ViewInv, SightInv, ChunksInv, Quiet
    <2>. QED
      BY <2>2 DEF ChunksInv, Loaded, Quiet
  <1>2. MemoInv'
    BY DEF ViewInv, SightInv, MemoInv, Quiet
  <1>3. EyeInv'
    BY DEF ViewInv, SightInv, EyeInv, Quiet
  <1>. QED
    BY <1>1, <1>2, <1>3, StoredRests DEF SightInv, Quiet

\* A write keeps it: the texel is dirty until the mask is refreshed.
LEMMA WriteKeeps ==
  ASSUME ViewInv, NEW p \in Positions, Write(p)
  PROVE  SightInv'
  <1> DEFINE k == ChunkOf(p)
  <1>1. k \in Row /\ OffsetOf(p) \in Offsets /\ chunks[k] \in Chunk /\ k \in Loaded
    BY Places DEF Write, Loaded, ViewInv, TypeOK
  <1>2. PICK v \in {"open", "wall"} :
          chunks' = [chunks EXCEPT ![k] = Set(chunks[k], OffsetOf(p), v)]
    BY DEF Write
  <1>3. /\ acts \in 0..MaxActs /\ acts' = acts + 1 /\ pc' = pc /\ pc # "replicate"
        /\ memo' = memo /\ MaxActs \in Nat
        /\ chunks \in [Row -> {Nil} \cup Chunk]
    BY ViewAssumption DEF Write, Act, ViewInv, TypeOK
  <1> DEFINE new == Set(chunks[k], OffsetOf(p), v)
  <1>4. /\ new \in Chunk /\ new # Nil
        /\ new = [chunks[k] EXCEPT !.cells = [chunks[k].cells EXCEPT ![OffsetOf(p)] = v],
                                   !.change = Span(chunks[k].change \cup {OffsetOf(p)}),
                                   !.dirty = Span(chunks[k].dirty \cup {OffsetOf(p)})]
        /\ chunks[k].dirty \cup {OffsetOf(p)} \subseteq new.dirty
    <2> HIDE DEF k
    <2>1. new \in Chunk
      BY <1>1, SetsAreChunks
    <2>2. new # Nil
      <3> HIDE DEF new
      <3>. QED
        BY <2>1, NilIsNothing
    <2> DEFINE old == chunks[k]  o == OffsetOf(p)
    <2>3. old \in Chunk /\ o \in Offsets /\ new = Set(old, o, v)
      BY <1>1
    <2> HIDE DEF new, old, o
    <2>4. /\ new = [old EXCEPT !.cells = [old.cells EXCEPT ![o] = v],
                              !.change = Span(old.change \cup {o}),
                              !.dirty = Span(old.dirty \cup {o})]
          /\ old.dirty \cup {o} \subseteq new.dirty
      <3>1. Set(old, o, v) = [old EXCEPT !.cells = [old.cells EXCEPT ![o] = v],
                              !.change = Span(old.change \cup {o}),
                              !.dirty = Span(old.dirty \cup {o})]
        BY DEF Set
      <3>2. old.dirty \cup {o} \subseteq Set(old, o, v).dirty
        BY <2>3, SetsAreChunks
      <3>. QED
        BY <2>3, <3>1, <3>2
    <2>. QED
      BY <2>1, <2>2, <2>4 DEF old, o
  <1>5. /\ new.sight = chunks[k].sight /\ new.rev = chunks[k].rev /\ new.fog = chunks[k].fog
        /\ \A o \in Offsets \ {OffsetOf(p)} : new.cells[o] = chunks[k].cells[o]
    <2>1. \A r \in Chunk : \A a, b, c :
            LET s == [r EXCEPT !.cells = a, !.change = b, !.dirty = c]
            IN  s.cells = a /\ s.sight = r.sight /\ s.rev = r.rev /\ s.fog = r.fog
      BY DEF Chunk
    <2>2. chunks[k].cells \in [Offsets -> {"open", "wall"}]
      BY <1>1 DEF Chunk, Cells
    <2> HIDE DEF new, k
    <2>. QED
      BY <1>1, <1>4, <2>1, <2>2
  <1> HIDE DEF new
  <1>6. /\ \A c \in Row : chunks'[c] = Nil <=> chunks[c] = Nil
        /\ \A c \in Row : chunks'[c] # Nil => /\ chunks'[c].sight = chunks[c].sight
                                              /\ chunks'[c].rev = chunks[c].rev
                                              /\ chunks'[c].fog = chunks[c].fog
    <2> HIDE DEF k
    <2>. QED
      BY <1>1, <1>2, <1>3, <1>4, <1>5 DEF new, Loaded
  <1>7. ChunksInv'
    <2>1. Judged(new) /\ Counted(new, acts + 1)
      <3>1. Judged(chunks[k]) /\ Counted(chunks[k], acts)
        BY <1>1 DEF ViewInv, SightInv, ChunksInv
      <3> DEFINE old == chunks[k]
      <3>2. old \in Chunk /\ Judged(old) /\ Counted(old, acts)
        BY <1>1, <3>1
      <3>3. /\ new.sight = old.sight /\ new.rev = old.rev
            /\ \A o \in Offsets \ {OffsetOf(p)} : new.cells[o] = old.cells[o]
            /\ old.dirty \cup {OffsetOf(p)} \subseteq new.dirty
        BY <1>4, <1>5
      <3> HIDE DEF k, old
      <3>4. Judged(new)
        BY <3>2, <3>3 DEF Judged
      <3>5. old.rev \in Nat /\ old.rev <= acts + 1
        BY <1>3, <3>2 DEF Counted, Chunk, Revs
      <3>6. Counted(new, acts + 1)
        BY <1>3, <3>3, <3>5 DEF Counted
      <3>. QED
        BY <3>4, <3>6
    <2>2. \A c \in Loaded : c # k => Judged(chunks[c]) /\ Counted(chunks[c], acts + 1)
      <3>1. \A c \in Loaded : chunks[c] \in Chunk
        BY DEF ViewInv, TypeOK, Loaded
      <3>. QED
        BY <1>3, <3>1, CountsGrow DEF ViewInv, SightInv, ChunksInv
    <2>3. Loaded' = Loaded
      BY <1>6 DEF Loaded
    <2> HIDE DEF k
    <2>4. \A c \in Loaded : chunks'[c] = IF c = k THEN new ELSE chunks[c]
      BY <1>1, <1>2, <1>3 DEF new, Loaded
    <2>. QED
      BY <1>3, <2>1, <2>2, <2>3, <2>4 DEF ChunksInv
  <1>8. MemoInv'
    <2>1. ASSUME memo # Nil
          PROVE  /\ Fresh(memo, chunks') <=> Fresh(memo, chunks)
                 /\ Kept(memo, chunks) => Kept(memo, chunks')
                 /\ Shone(memo, chunks) => Shone(memo, chunks')
      <3>1. memo \in Memo /\ Window(memo.eye) \subseteq Row
        BY <2>1 DEF ViewInv, TypeOK, Window
      <3>2. \A c \in Window(memo.eye) : RevOf(chunks', c) = RevOf(chunks, c)
        BY <1>6, <3>1 DEF RevOf
      <3>3. Alike(chunks, chunks', memo.eye)
        BY <1>6, <3>1 DEF Alike
      <3>4. Fresh(memo, chunks') <=> Fresh(memo, chunks)
        BY <3>2 DEF Fresh
      <3>5. Kept(memo, chunks) => Kept(memo, chunks')
        BY <1>6, <3>1 DEF Kept
      <3>. QED
        BY <3>1, <3>3, <3>4, <3>5, ShoneAlike
    <2>. QED
      BY <1>3, <2>1 DEF ViewInv, SightInv, MemoInv
  <1>9. EyeInv'
    BY <1>3 DEF EyeInv
  <1>10. StoredInv'
    BY <1>3, StoredRests DEF Write
  <1>. QED
    BY <1>7, <1>8, <1>9, <1>10 DEF SightInv

\* Regions that come and go keep it: a chunk is not gone and new in one tick.
LEMMA ManageRegionsKeeps ==
  ASSUME ViewInv, NEW arrived \in SUBSET Row, NEW resumed \in SUBSET Row,
         NEW expired \in SUBSET Row, ManageRegions(arrived, resumed, expired)
  PROVE  SightInv'
  <1> DEFINE Comes(c) == Returning(c, resumed)
  <1>1. /\ pc = "network" /\ pc' = "begin" /\ memo' = memo
        /\ arrived \cap Loaded = {} /\ expired \subseteq Loaded
        /\ acts \in 0..MaxActs /\ acts' \in Nat /\ acts <= acts'
        /\ chunks \in [Row -> {Nil} \cup Chunk] /\ MaxActs \in Nat
    BY ViewAssumption DEF ManageRegions, ViewInv, TypeOK
  <1>2. \A c \in Row : chunks'[c] = CASE c \in arrived -> Comes(c)
                                      [] c \in expired -> Nil
                                      [] OTHER -> chunks[c]
    BY DEF ManageRegions
  <1>3. \A c \in Row : Comes(c) \in Chunk /\ Comes(c) # Nil
    BY NewChunksAreChunks, NilIsNothing DEF Returning, ViewInv, TypeOK
  <1>4. ASSUME NEW c \in Row
        PROVE  /\ Judged(stored[c]) /\ Counted(stored[c], acts')
               /\ Judged(Comes(c)) /\ Counted(Comes(c), acts')
    <2>1. stored[c] \in Chunk /\ Judged(stored[c]) /\ Counted(stored[c], acts')
      BY <1>1, CountsGrow DEF ViewInv, TypeOK, SightInv, StoredInv
    <2>2. CASE c \in resumed
      BY <2>1, <2>2 DEF Returning
    <2>3. CASE c \notin resumed
      <3>1. Comes(c) = NewChunk(stored[c])
        BY <2>3 DEF Returning
      <3>2. Comes(c).dirty = Offsets /\ Comes(c).rev = 0
        BY <2>1, <3>1, NewChunksAreChunks
      <3> HIDE DEF Comes
      <3>3. Judged(Comes(c))
        BY <3>2 DEF Judged
      <3>4. Counted(Comes(c), acts')
        BY <1>1, <3>2 DEF Counted
      <3>. QED
        BY <2>1, <3>3, <3>4
    <2>. QED
      BY <2>2, <2>3
  <1> HIDE DEF Comes
  <1>5. ChunksInv' /\ StoredInv'
    <2>2. \A c \in Loaded : Judged(chunks[c]) /\ Counted(chunks[c], acts')
      <3>1. \A c \in Loaded : chunks[c] \in Chunk
        BY DEF ViewInv, TypeOK, Loaded
      <3>. QED
        BY <1>1, <3>1, CountsGrow DEF ViewInv, SightInv, ChunksInv
    <2>3. ChunksInv'
      BY <1>2, <1>3, <1>4, <2>2 DEF ChunksInv, Loaded
    <2>4. \A c \in Row : stored'[c] = IF c \in expired THEN chunks[c] ELSE stored[c]
      BY DEF ManageRegions
    <2>5. StoredInv'
      BY <1>1, <1>4, <2>2, <2>4 DEF StoredInv
    <2>. QED
      BY <2>3, <2>5
  <1>6. ASSUME memo # Nil
        PROVE  Kept(memo, chunks') /\ (Fresh(memo, chunks') => Shone(memo, chunks'))
    <2>1. /\ Single(memo) /\ Fresh(memo, chunks) /\ Shone(memo, chunks)
          /\ memo \in Memo /\ Window(memo.eye) \subseteq Row
      BY <1>1, <1>6 DEF ViewInv, SightInv, MemoInv, TypeOK, Window
    <2>2. ASSUME NEW c \in Window(memo.eye), NEW r \in {-1} \cup Revs, <<c, r>> \in memo.revs
          PROVE  r = RevOf(chunks, c)
      <3>1. RevOf(chunks, c) \in {-1} \cup Revs
        BY <1>1, <2>1 DEF RevOf, Chunk
      <3>. QED
        BY <2>1, <2>2, <3>1 DEF Fresh, Single
    <2>3. Kept(memo, chunks')
      <3>1. ASSUME NEW c \in Window(memo.eye), NEW r \in Revs, <<c, r>> \in memo.revs,
                   chunks'[c] # Nil
            PROVE  r = chunks'[c].rev
        <4>1. r = RevOf(chunks, c) /\ r # -1
          BY <1>1, <2>2, <3>1 DEF Revs
        <4>2. chunks[c] # Nil /\ r = chunks[c].rev
          BY <4>1 DEF RevOf
        <4>3. c \in Row /\ c \notin arrived
          BY <1>1, <2>1, <4>2 DEF Loaded
        <4>4. chunks'[c] = chunks[c]
          BY <1>2, <3>1, <4>3
        <4>. QED
          BY <4>2, <4>4
      <3>. QED
        BY <3>1 DEF Kept
    <2>4. ASSUME Fresh(memo, chunks')
          PROVE  Shone(memo, chunks')
      <3>1. ASSUME NEW c \in Window(memo.eye)
            PROVE  chunks'[c] = chunks[c]
        <4>1. c \in Row /\ RevOf(chunks', c) = RevOf(chunks, c)
          <5>1. RevOf(chunks', c) \in {-1} \cup Revs
            BY <1>1, <1>2, <1>3, <2>1 DEF RevOf, Chunk
          <5>. QED
            BY <2>1, <2>2, <2>4, <5>1 DEF Fresh
        <4>2. \A r \in Revs : r # -1
          BY <1>1 DEF Revs
        <4>3. c \notin arrived
          BY <1>1, <1>2, <1>3, <4>1, <4>2 DEF RevOf, Loaded, Chunk
        <4>4. c \notin expired
          BY <1>1, <1>2, <4>1, <4>2, <4>3 DEF RevOf, Loaded, Chunk
        <4>. QED
          BY <1>2, <4>1, <4>3, <4>4
      <3>2. Alike(chunks, chunks', memo.eye)
        BY <3>1 DEF Alike
      <3>. QED
        BY <2>1, <3>2, ShoneAlike
    <2>. QED
      BY <2>3, <2>4
  <1>7. MemoInv'
    BY <1>1, <1>6 DEF ViewInv, SightInv, MemoInv
  <1>8. EyeInv'
    BY <1>1 DEF EyeInv
  <1>. QED
    BY <1>5, <1>7, <1>8 DEF SightInv

\* The begin of a tick keeps it: it rolls no sight mask.
LEMMA BeginTickKeeps ==
  ASSUME ViewInv, NEW ready \in SUBSET Loaded, BeginTick(ready)
  PROVE  SightInv'
  <1>1. /\ pc = "begin" /\ pc' = "kernel" /\ memo' = memo /\ acts' = acts
        /\ chunks \in [Row -> {Nil} \cup Chunk]
        /\ \A c \in Row : chunks'[c] = IF c \in ready THEN Roll(chunks[c]) ELSE chunks[c]
    BY DEF BeginTick, ViewInv, TypeOK
  <1>2. ASSUME NEW chunk \in Chunk
        PROVE  /\ Roll(chunk).sight = chunk.sight /\ Roll(chunk).rev = chunk.rev
               /\ Roll(chunk).fog = chunk.fog /\ Roll(chunk).dirty = chunk.dirty
               /\ Roll(chunk).cells = chunk.cells /\ Roll(chunk) \in Chunk
    BY RectsAreOffsets DEF Roll, Chunk
  <1>3. ASSUME NEW c \in Row
        PROVE  /\ chunks'[c] = Nil <=> chunks[c] = Nil
               /\ chunks[c] # Nil => /\ chunks'[c].sight = chunks[c].sight
                                     /\ chunks'[c].rev = chunks[c].rev
                                     /\ chunks'[c].fog = chunks[c].fog
                                     /\ chunks'[c].dirty = chunks[c].dirty
                                     /\ chunks'[c].cells = chunks[c].cells
    BY <1>1, <1>2, NilIsNothing DEF Loaded
  <1>4. ChunksInv'
    BY <1>1, <1>3 DEF ViewInv, SightInv, ChunksInv, Loaded, Judged, Counted
  <1>5. ASSUME memo # Nil
        PROVE  /\ Fresh(memo, chunks') <=> Fresh(memo, chunks)
               /\ Kept(memo, chunks) => Kept(memo, chunks')
               /\ Shone(memo, chunks) => Shone(memo, chunks')
    <2>1. memo \in Memo /\ Window(memo.eye) \subseteq Row
      BY <1>5 DEF ViewInv, TypeOK, Window
    <2>2. \A c \in Window(memo.eye) : RevOf(chunks', c) = RevOf(chunks, c)
      BY <1>3, <2>1 DEF RevOf
    <2>3. Alike(chunks, chunks', memo.eye)
      BY <1>3, <2>1 DEF Alike
    <2>4. Fresh(memo, chunks') <=> Fresh(memo, chunks)
      BY <2>2 DEF Fresh
    <2>5. Kept(memo, chunks) => Kept(memo, chunks')
      BY <1>3, <2>1 DEF Kept
    <2>. QED
      BY <2>1, <2>3, <2>4, <2>5, ShoneAlike
  <1>6. MemoInv'
    BY <1>1, <1>5 DEF ViewInv, SightInv, MemoInv
  <1>7. EyeInv'
    BY <1>1 DEF EyeInv
  <1>8. StoredInv'
    BY <1>1, StoredRests DEF BeginTick, ViewInv, TypeOK
  <1>. QED
    BY <1>4, <1>6, <1>7, <1>8 DEF SightInv

\* The fog of a tick keeps it, whether the memo spares the look or not.
LEMMA FogKeeps ==
  ASSUME ViewInv, Fog
  PROVE  SightInv'
  <1>3. StoredInv'
    BY StoredRests DEF Fog, ViewInv, TypeOK
  <1>1. CASE me.alive
    BY <1>1, <1>3, FogShows DEF Fog, SightInv
  <1>2. CASE ~me.alive
    <2>1. chunks' = chunks /\ memo' = Nil /\ me' = me /\ acts' = acts
      BY <1>2 DEF Fog, RevealFog
    <2>2. ChunksInv'
      BY <2>1 DEF ViewInv, SightInv, ChunksInv, Loaded
    <2>. QED
      BY <1>2, <1>3, <2>1, <2>2 DEF SightInv, MemoInv, EyeInv
  <1>. QED
    BY <1>1, <1>2

\* Every step keeps the invariant.
LEMMA SightStays ==
  ASSUME ViewInv, [Next]_vars
  PROVE  SightInv'
  <1>1. acts \in Nat
    BY ViewAssumption DEF ViewInv, TypeOK
  <1>2. ASSUME NEW p \in Positions, Walk(p) \/ Materialize(p)
        PROVE  Quiet
    BY <1>1, <1>2 DEF Walk, Materialize, Act, Quiet
  <1>3. ASSUME NEW p \in {0} \cup Positions, OtherMoves(p)
        PROVE  Quiet
    BY <1>1, <1>3 DEF OtherMoves, Act, Quiet
  <1>4. ASSUME NEW thing \in Things, Hold(thing)
        PROVE  Quiet
    BY <1>1, <1>4 DEF Hold, Act, Quiet
  <1>5. ASSUME Die \/ OtherJoins \/ OtherLeaves \/ Disconnect \/ Connect
        PROVE  Quiet
    BY <1>1, <1>5 DEF Die, OtherJoins, OtherLeaves, Disconnect, Connect, Act, Quiet
  <1>6. ASSUME Replicate \/ Receive \/ UNCHANGED vars
        PROVE  Quiet
    BY <1>1, <1>6 DEF Replicate, Receive, vars, Quiet
  <1>. QED
    BY <1>2, <1>3, <1>4, <1>5, <1>6, QuietKeeps, WriteKeeps, ManageRegionsKeeps, BeginTickKeeps,
       FogKeeps DEF Next, World

\* The invariant holds at the start.
LEMMA SightStarts ==
  ASSUME Init
  PROVE  SightInv
  <1>1. \A c \in Loaded : chunks[c] = stored[c] /\ c \in Row
    BY DEF Init, Loaded
  <1>2. acts = 0
    BY DEF Init
  <1>3. \A c \in Row : stored[c].dirty = Offsets /\ stored[c].rev = 0
    <2>1. PICK cells \in [Row -> Cells] :
            stored = [c \in Row |-> NewChunk([cells |-> cells[c], fog |-> {}])]
      BY DEF Init, Cells
    <2>. QED
      BY <2>1 DEF NewChunk, Full
  <1>4. \A c \in Row : Judged(stored[c]) /\ Counted(stored[c], 0)
    BY <1>3 DEF Judged, Counted
  <1>5. ChunksInv /\ StoredInv
    BY <1>1, <1>2, <1>4 DEF ChunksInv, StoredInv
  <1>. QED
    BY <1>5 DEF Init, SightInv, MemoInv, EyeInv

\* The types, and what is judged, remembered and shown, of every reachable
\* state.
THEOREM SightIsKept == Spec => []ViewInv
  <1>1. Init => ViewInv
    BY TypesStart, SightStarts DEF ViewInv
  <1>2. ViewInv /\ [Next]_vars => ViewInv'
    BY TypesStay, SightStays DEF ViewInv, SightInv
  <1>. QED
    BY <1>1, <1>2, PTL DEF Spec

\* The invariant says what the theorem says.
LEMMA TruthIsShown ==
  ASSUME ViewInv
  PROVE  SeenIsRevealed
  <1>1. SUFFICES ASSUME pc = "replicate", me.alive, NEW p \in Sees(me.pos, TrueWalls),
                        ChunkOf(p) \in Loaded
                 PROVE  OffsetOf(p) \in chunks[ChunkOf(p)].fog
    BY DEF SeenIsRevealed, ViewInv
  <1>2. /\ memo # Nil /\ memo.eye = me.pos /\ me.pos \in Positions
        /\ \A c \in Window(me.pos) : chunks[c] # Nil => chunks[c].dirty = {}
        /\ Shone(memo, chunks)
    BY <1>1 DEF ViewInv, TypeOK, SightInv, EyeInv, MemoInv
  <1>3. ASSUME NEW q \in Positions, ChunkOf(q) \in Window(me.pos)
        PROVE  q \in TrueWalls <=> q \in Walls(chunks)
    <2>1. ChunkOf(q) \in Row /\ OffsetOf(q) \in Offsets
      BY Places
    <2>2. CASE chunks[ChunkOf(q)] = Nil
      BY <2>1, <2>2 DEF TrueWalls, Walls, Loaded
    <2>3. CASE chunks[ChunkOf(q)] # Nil
      <3>1. ChunkOf(q) \in Loaded /\ chunks[ChunkOf(q)].dirty = {}
        BY <1>2, <1>3, <2>1, <2>3 DEF Loaded
      <3>2. OffsetOf(q) \in chunks[ChunkOf(q)].sight
              <=> chunks[ChunkOf(q)].cells[OffsetOf(q)] = "wall"
        BY <2>1, <3>1 DEF ViewInv, SightInv, ChunksInv, Judged
      <3>. QED
        BY <2>3, <3>1, <3>2 DEF TrueWalls, Walls
    <2>. QED
      BY <2>2, <2>3
  <1>4. Sees(me.pos, TrueWalls) = Sees(me.pos, Walls(chunks))
    BY <1>2, <1>3, SeesAlike
  <1>. QED
    BY <1>1, <1>2, <1>4 DEF Shone, Loaded

(***************************************************************************)
(* What a living player can see is explored once the tick has revealed.    *)
(***************************************************************************)
THEOREM WhatIsSeenIsRevealed == Spec => []SeenIsRevealed
  <1>1. ViewInv => SeenIsRevealed
    BY TruthIsShown
  <1>. QED
    BY <1>1, SightIsKept, PTL
-----------------------------------------------------------------------------
(* What is shown once the messages under way have arrived.                 *)

ShownBy(f, view, q) == f[0] = view /\ \A n \in 1..Len(q) : f[n] = Apply(f[n - 1], q[n])

\* The view that a queue leads to is reached message by message.
LEMMA ShownIsReached ==
  ASSUME NEW view \in Client, NEW q \in Seq(Message)
  PROVE  \E f \in [0..Len(q) -> Client] : ShownBy(f, view, q) /\ Shown(view, q) = f[Len(q)]
  <1> DEFINE N == Len(q)
             Shows(g) == g = [n \in 0..N |-> IF n = 0 THEN view ELSE Apply(g[n - 1], q[n])]
             step == [n \in 1..N |-> [v \in Client |-> Apply(v, q[n])]]
             shown == CHOOSE g : Shows(g)
  <1>1. N \in Nat /\ \A n \in 1..N : q[n] \in Message
    OBVIOUS
  <1>2. step \in [1..N -> [Client -> Client]]
    BY <1>1, ApplyIsTyped
  <1>3. PICK f \in [0..N -> Client] : Runs(f, N, view, step)
    <2> HIDE DEF step, N
    <2>. QED
      BY <1>1, <1>2, BoundedFunctionExists
  <1>4. Shows(f)
    <2> HIDE DEF N
    <2>1. ASSUME NEW n \in 1..N
          PROVE  f[n] = Apply(f[n - 1], q[n])
      <3>1. f[n] = step[n][f[n - 1]] /\ f[n - 1] \in Client
        BY <1>1, <1>3, <2>1 DEF Runs
      <3>. QED
        BY <3>1
    <2>. QED
      BY <1>1, <1>3, <2>1 DEF Runs
  <1>5. Shows(shown)
    BY <1>4
  <1>6. Shown(view, q) = shown[N]
    BY DEF Shown
  <1> HIDE DEF shown, step
  <1> DEFINE T == {n \in 0..N : shown[n] = f[n]}
  <1>7. 0 \in T
    BY <1>1, <1>4, <1>5
  <1>8. ASSUME NEW n \in 0..(N - 1), n \in T PROVE n + 1 \in T
    <2>1. /\ shown[n + 1] = Apply(shown[n], q[n + 1])
          /\ f[n + 1] = Apply(f[n], q[n + 1])
      BY <1>1, <1>4, <1>5
    <2>. QED
      BY <1>1, <1>8, <2>1
  <1>9. 0..N \subseteq T
    <2> HIDE DEF T, N
    <2>. QED
      BY <1>1, <1>7, <1>8, BoundedInduction
  <1>10. ShownBy(f, view, q)
    <2>1. f[0] = view
      BY <1>1, <1>4
    <2>2. ASSUME NEW n \in 1..N PROVE f[n] = Apply(f[n - 1], q[n])
      BY <1>1, <1>4
    <2>. QED
      BY <2>1, <2>2 DEF ShownBy
  <1>. QED
    BY <1>1, <1>6, <1>9, <1>10

\* There is one way to get there.
LEMMA ShownIsOne ==
  ASSUME NEW view \in Client, NEW q \in Seq(Message), NEW g, ShownBy(g, view, q)
  PROVE  Shown(view, q) = g[Len(q)]
  <1> DEFINE N == Len(q)
  <1>1. PICK f \in [0..N -> Client] : ShownBy(f, view, q) /\ Shown(view, q) = f[N]
    BY ShownIsReached
  <1> DEFINE T == {n \in 0..N : f[n] = g[n]}
  <1>2. N \in Nat
    OBVIOUS
  <1>3. 0 \in T
    BY <1>1, <1>2 DEF ShownBy
  <1>4. ASSUME NEW n \in 0..(N - 1), n \in T PROVE n + 1 \in T
    <2>1. n + 1 \in 1..N /\ (n + 1) - 1 = n
      BY <1>2
    <2>2. f[n + 1] = Apply(f[n], q[n + 1]) /\ g[n + 1] = Apply(g[n], q[n + 1])
      BY <1>1, <2>1 DEF ShownBy
    <2>. QED
      BY <1>2, <1>4, <2>2
  <1>5. 0..N \subseteq T
    <2> HIDE DEF T, N
    <2>. QED
      BY <1>2, <1>3, <1>4, BoundedInduction
  <1>. QED
    BY <1>1, <1>2, <1>5

\* An empty queue leaves the view alone.
LEMMA ShownAtOnce ==
  ASSUME NEW view \in Client
  PROVE  Shown(view, <<>>) = view
  <1>1. <<>> \in Seq(Message) /\ Len(<<>>) = 0
    OBVIOUS
  <1> DEFINE f == [n \in {0} |-> view]
  <1>2. ShownBy(f, view, <<>>) /\ f[0] = view
    BY DEF ShownBy
  <1> HIDE DEF f
  <1>3. Shown(view, <<>>) = f[Len(<<>>)]
    BY <1>1, <1>2, ShownIsOne
  <1>. QED
    BY <1>1, <1>2, <1>3

\* A message that is sent is applied after all that were sent before.
LEMMA ShownAfterSending ==
  ASSUME NEW view \in Client, NEW q \in Seq(Message), NEW m \in Message
  PROVE  Shown(view, Append(q, m)) = Apply(Shown(view, q), m)
  <1> DEFINE p == Append(q, m)
  <1>1. /\ p \in Seq(Message) /\ Len(p) = Len(q) + 1 /\ Len(q) \in Nat /\ p[Len(q) + 1] = m
        /\ \A n \in 1..Len(q) : p[n] = q[n]
    OBVIOUS
  <1>2. PICK f \in [0..Len(p) -> Client] : ShownBy(f, view, p) /\ Shown(view, p) = f[Len(p)]
    <2> HIDE DEF p
    <2>. QED
      BY <1>1, ShownIsReached
  <1> HIDE DEF p
  <1>3. ShownBy(f, view, q)
    BY <1>1, <1>2 DEF ShownBy
  <1>4. Shown(view, q) = f[Len(q)]
    BY <1>3, ShownIsOne
  <1>5. f[Len(q) + 1] = Apply(f[Len(q)], m)
    BY <1>1, <1>2 DEF ShownBy
  <1>. QED
    BY <1>1, <1>2, <1>4, <1>5 DEF p

\* A message that is received has been counted in before.
LEMMA ShownAfterReceiving ==
  ASSUME NEW view \in Client, NEW q \in Seq(Message), q # <<>>
  PROVE  Shown(Apply(view, Head(q)), Tail(q)) = Shown(view, q)
  <1> DEFINE p == Tail(q)  next == Apply(view, Head(q))
  <1>1. /\ p \in Seq(Message) /\ Len(p) = Len(q) - 1 /\ Len(p) \in Nat /\ Len(q) \in Nat
        /\ Head(q) = q[1] /\ Head(q) \in Message
        /\ \A n \in 1..Len(p) : p[n] = q[n + 1]
    OBVIOUS
  <1>2. next \in Client
    BY <1>1, ApplyIsTyped
  <1>3. PICK f \in [0..Len(q) -> Client] : ShownBy(f, view, q) /\ Shown(view, q) = f[Len(q)]
    BY ShownIsReached
  <1> HIDE DEF p
  <1> DEFINE g == [n \in 0..Len(p) |-> f[n + 1]]
  <1>4. g[0] = next
    <2>1. 1 \in 1..Len(q) /\ 0 \in 0..Len(p) /\ 1 - 1 = 0
      BY <1>1
    <2>2. f[1] = Apply(f[0], q[1]) /\ f[0] = view
      BY <1>3, <2>1 DEF ShownBy
    <2>. QED
      BY <1>1, <2>1, <2>2
  <1>5. ASSUME NEW n \in 1..Len(p) PROVE g[n] = Apply(g[n - 1], p[n])
    <2>1. n + 1 \in 1..Len(q) /\ n \in 0..Len(p) /\ n - 1 \in 0..Len(p) /\ (n + 1) - 1 = n
          /\ (n - 1) + 1 = n
      BY <1>1
    <2>2. f[n + 1] = Apply(f[n], q[n + 1])
      BY <1>3, <2>1 DEF ShownBy
    <2>. QED
      BY <1>1, <2>1, <2>2
  <1>6. g[Len(p)] = f[Len(q)]
    BY <1>1
  <1> HIDE DEF g, next
  <1>7. ShownBy(g, next, p)
    BY <1>4, <1>5 DEF ShownBy
  <1>8. Shown(next, p) = g[Len(p)]
    BY <1>1, <1>2, <1>7, ShownIsOne
  <1>. QED
    BY <1>3, <1>6, <1>8 DEF next, p

\* The view that all messages lead to is a client's.
LEMMA ArrivedIsTyped ==
  ASSUME TypeOK, session # Nil
  PROVE  Arrived \in Client /\ client \in Client /\ queue \in Seq(Message)
  <1>1. client \in Client /\ queue \in Seq(Message)
    BY DEF TypeOK
  <1>2. PICK f \in [0..Len(queue) -> Client] : Shown(client, queue) = f[Len(queue)]
    BY <1>1, ShownIsReached
  <1>3. Len(queue) \in 0..Len(queue)
    BY <1>1
  <1>. QED
    BY <1>1, <1>2, <1>3 DEF Arrived
-----------------------------------------------------------------------------
(* The mirror.  What the session is known to have of a chunk is what it    *)
(* shows once all has arrived, but for the cells that were written since   *)
(* the last frame, and these the rects still hold: those of this tick in   *)
(* the change rect, and once it may have rolled, in either.  Of the other  *)
(* player it shows what was told last, and nothing once that one has left. *)

Unsent(c) ==
  IF pc \in {"network", "begin"} THEN chunks[c].change ELSE chunks[c].change \cup chunks[c].prev

TileInv(c) ==
  LET tile == Arrived.chunks[c]  sent == session.known[c]
  IN  /\ tile = Nil <=> sent = Nil
      /\ sent # Nil => tile.fog = sent
      /\ sent # Nil /\ pc = "network" => c \in Loaded
      /\ sent # Nil /\ c \in Loaded =>
           \A o \in Offsets \ Unsent(c) : tile.cells[o] = chunks[c].cells[o]

ToldInv ==
  /\ session.fresh => session = NoBaseline /\ Arrived = NoView
  /\ ~session.fresh =>
       /\ Arrived.self = session.self /\ Arrived.slot = session.slot
       /\ Arrived.avatar = IF other = Nil \/ last = Nil THEN 0 ELSE last

MirrorInv == session # Nil => ToldInv /\ \A c \in Row : TileInv(c)

\* After the frame of a tick the tile of a chunk is the chunk, if it is of
\* interest, else none.
LEMMA OpsTell ==
  ASSUME TypeOK, session # Nil, pc = "replicate", NEW c \in Row, TileInv(c)
  PROVE  ApplyOp(Arrived.chunks[c], TileOp(c, session.known[c]))
           = IF c \in InterestOf(me.pos) THEN Content(c) ELSE Nil
  <1> DEFINE tile == Arrived.chunks[c]
             sent == session.known[c]
             op == TileOp(c, sent)
  <1>1. tile \in {Nil} \cup Tile /\ sent \in {Nil} \cup Fogs
    BY ArrivedIsTyped DEF TypeOK, Client, Session
  <1>2. CASE c \notin InterestOf(me.pos)
    <2>1. op.unload = (sent # Nil) /\ op.load = Nil
      BY <1>2 DEF TileOp
    <2>. QED
      BY <1>2, <2>1 DEF ApplyOp, TileInv
  <1>3. CASE c \in InterestOf(me.pos)
    <2>1. c \in Loaded /\ chunks[c] \in Chunk
      BY <1>3 DEF InterestOf, Loaded, TypeOK
    <2>2. Content(c) \in Tile /\ Content(c) # Nil
      BY <2>1, NilIsNothing DEF Content, Chunk, Tile
    <2>3. CASE sent = Nil
      <3>1. op.unload = FALSE /\ op.load = Content(c)
        BY <1>3, <2>3 DEF TileOp
      <3>. QED
        BY <1>3, <2>2, <3>1 DEF ApplyOp
    <2>4. CASE sent # Nil
      <3>1. /\ op.unload = FALSE /\ op.load = Nil /\ op.patch = Patch(c)
            /\ op.fog = IF sent # chunks[c].fog THEN chunks[c].fog ELSE Nil
        BY <1>3, <2>4 DEF TileOp
      <3>2. /\ tile # Nil /\ tile.fog = sent
            /\ \A o \in Offsets \ (chunks[c].change \cup chunks[c].prev) :
                 tile.cells[o] = chunks[c].cells[o]
        BY <2>1, <2>4 DEF TileInv, Unsent
      <3>3. ASSUME NEW o \in Offsets
            PROVE  (IF op.patch[o] = Nil THEN tile.cells[o] ELSE op.patch[o])
                     = chunks[c].cells[o]
        <4>1. op.patch[o] = IF o \in ChangeRect(chunks[c]) THEN chunks[c].cells[o] ELSE Nil
          BY <3>1 DEF Patch
        <4>2. chunks[c].cells[o] \in {"open", "wall"} /\ chunks[c].cells[o] # Nil
          BY <2>1, NilIsNothing DEF Chunk, Cells
        <4>3. chunks[c].change \cup chunks[c].prev \subseteq ChangeRect(chunks[c])
          <5>1. chunks[c].change \cup chunks[c].prev \in SUBSET Offsets
            BY <2>1, RectsAreOffsets DEF Chunk
          <5>. QED
            BY <5>1, Spans DEF ChangeRect
        <4> HIDE DEF op, tile
        <4>. QED
          BY <3>2, <4>1, <4>2, <4>3
      <3>4. (IF op.fog = Nil THEN tile.fog ELSE op.fog) = chunks[c].fog
        <4>1. chunks[c].fog # Nil
          BY <2>1, NilIsNothing DEF Chunk
        <4> HIDE DEF op, tile, sent
        <4>. QED
          BY <3>1, <3>2, <4>1
      <3>5. [o \in Offsets |-> IF op.patch[o] = Nil THEN tile.cells[o] ELSE op.patch[o]]
              = chunks[c].cells
        <4>1. chunks[c].cells = [o \in Offsets |-> chunks[c].cells[o]]
          BY <2>1 DEF Chunk, Cells
        <4> HIDE DEF op, tile
        <4>. QED
          BY <3>3, <4>1
      <3> HIDE DEF op, tile, sent
      <3>6. ApplyOp(tile, op) = [cells |-> chunks[c].cells, fog |-> chunks[c].fog]
        BY <3>1, <3>2, <3>4, <3>5 DEF ApplyOp
      <3>. QED
        BY <1>3, <3>6 DEF Content, op, tile, sent
    <2>. QED
      BY <2>3, <2>4
  <1>. QED
    BY <1>2, <1>3

\* The frame of a tick makes all that is shown true.
LEMMA FramesTell ==
  ASSUME TypeOK, MirrorInv, Replicate, session # Nil
  PROVE  Arrived' = Truth' /\ MirrorInv'
  <1> DEFINE new == [known |-> Baseline, self |-> SelfState, slot |-> me.slot, fresh |-> FALSE]
  <1>1. /\ pc = "replicate" /\ pc' = "network" /\ last' = other /\ other' = other
        /\ queue' = Append(queue, TickFrame) /\ session' = new
        /\ chunks' = chunks /\ me' = me /\ client' = client
    BY DEF Replicate
  <1>2. /\ Arrived \in Client /\ client \in Client /\ queue \in Seq(Message)
        /\ TickFrame \in Message /\ session \in Session
        /\ me \in [pos : Positions, alive : BOOLEAN, slot : Things]
    BY ArrivedIsTyped, FramesAreTyped DEF TypeOK
  <1>3. ToldInv /\ \A c \in Row : TileInv(c)
    BY DEF MirrorInv
  <1>4. Arrived' = Apply(Arrived, TickFrame)
    BY <1>1, <1>2, ShownAfterSending DEF Arrived
  <1>6. ApplyOps(Arrived.chunks, TickFrame.ops)
          = [c \in Row |-> IF c \in InterestOf(me.pos) THEN Content(c) ELSE Nil]
    <2>1. TickFrame.ops = [c \in Row |-> TileOp(c, session.known[c])]
      BY DEF TickFrame, BuildTiles
    <2>. QED
      BY <1>1, <1>3, <2>1, OpsTell DEF ApplyOps
  <1>7. (IF TickFrame.self = Nil THEN Arrived.self ELSE TickFrame.self) = SelfState
    <2>1. SelfState # Nil
      <3>1. SelfState \in SelfStates
        BY <1>2 DEF SelfState, SelfStates
      <3>. QED
        BY <3>1, NilIsNothing
    <2>2. TickFrame.self = IF session.self # SelfState THEN SelfState ELSE Nil
      BY DEF TickFrame
    <2>3. session.self = SelfState => Arrived.self = session.self
      BY <1>3, <2>1 DEF ToldInv, NoBaseline
    <2>. QED
      BY <2>1, <2>2, <2>3
  <1>8. (IF TickFrame.slot = Nil THEN Arrived.slot ELSE TickFrame.slot) = me.slot
    <2>1. me.slot # Nil
      BY <1>2, NilIsNothing
    <2>2. TickFrame.slot = IF session.fresh \/ me.slot # session.slot THEN me.slot ELSE Nil
      BY DEF TickFrame, Changed
    <2>. QED
      BY <1>3, <2>1, <2>2 DEF ToldInv
  <1>9. (IF TickFrame.player = Nil THEN Arrived.avatar ELSE TickFrame.player)
          = IF other = Nil THEN 0 ELSE other
    <2>1. TickFrame.player = IF session.fresh \/ last # other THEN other ELSE Nil
      BY DEF TickFrame, PlayersFor
    <2>2. session.fresh => Arrived.avatar = 0
      BY <1>3 DEF ToldInv, NoView
    <2>3. session.fresh \in BOOLEAN
      BY <1>2 DEF Session
    <2>. QED
      BY <1>3, <2>1, <2>2, <2>3 DEF ToldInv
  <1>10. Apply(Arrived, TickFrame) = Truth
    <2>1. TickFrame.kind # "remove"
      BY DEF TickFrame
    <2>2. Apply(Arrived, TickFrame) =
            [chunks |-> ApplyOps(Arrived.chunks, TickFrame.ops),
             avatar |-> IF TickFrame.player = Nil THEN Arrived.avatar ELSE TickFrame.player,
             slot   |-> IF TickFrame.slot = Nil THEN Arrived.slot ELSE TickFrame.slot,
             self   |-> IF TickFrame.self = Nil THEN Arrived.self ELSE TickFrame.self]
      BY <2>1 DEF Apply
    <2>. QED
      BY <1>6, <1>7, <1>8, <1>9, <2>2 DEF Truth
  <1>11. Arrived' = Truth' /\ Arrived' = Truth
    <2>1. Truth' = Truth
      BY <1>1 DEF Truth, InterestOf, Loaded, SelfState, Content
    <2>. QED
      BY <1>4, <1>10, <2>1
  <1>12. ToldInv'
    <2>1. /\ Arrived'.self = SelfState /\ Arrived'.slot = me.slot
          /\ Arrived'.avatar = IF other = Nil THEN 0 ELSE other
      BY <1>11 DEF Truth
    <2>2. session'.self = SelfState /\ session'.slot = me.slot /\ session'.fresh = FALSE
      BY <1>1
    <2>. QED
      BY <1>1, <2>1, <2>2 DEF ToldInv
  <1>13. ASSUME NEW c \in Row PROVE TileInv(c)'
    <2>1. Arrived'.chunks[c] = IF c \in InterestOf(me.pos) THEN Content(c) ELSE Nil
      BY <1>11 DEF Truth
    <2>2. session'.known[c] = IF c \in InterestOf(me.pos) THEN chunks[c].fog ELSE Nil
      BY <1>1 DEF Baseline
    <2>3. c \in InterestOf(me.pos) =>
            /\ c \in Loaded /\ Content(c) # Nil /\ chunks[c].fog # Nil
            /\ Content(c).fog = chunks[c].fog /\ Content(c).cells = chunks[c].cells
      <3>1. c \in InterestOf(me.pos) => c \in Loaded /\ chunks[c] \in Chunk
        BY DEF InterestOf, Loaded, TypeOK
      <3>2. Content(c).fog = chunks[c].fog /\ Content(c).cells = chunks[c].cells
        BY DEF Content
      <3>3. chunks[c] \in Chunk => Content(c) \in Tile /\ chunks[c].fog \in Fogs
        BY DEF Content, Chunk, Tile
      <3>. QED
        BY <3>1, <3>2, <3>3, NilIsNothing
    <2>4. Loaded' = Loaded
      BY <1>1 DEF Loaded
    <2>. QED
      BY <1>1, <2>1, <2>2, <2>3, <2>4 DEF TileInv
  <1>. QED
    BY <1>11, <1>12, <1>13 DEF MirrorInv

\* Steps that change neither what is shown nor what is known, nor anything
\* that was told.
LEMMA MirrorRests ==
  ASSUME MirrorInv, session' = session, session # Nil => Arrived' = Arrived,
         chunks' = chunks, pc' = pc, (other # Nil /\ other' # Nil) \/ other' = other, last' = last
  PROVE  MirrorInv'
  <1>1. SUFFICES ASSUME session # Nil
                 PROVE  ToldInv' /\ \A c \in Row : TileInv(c)'
    BY DEF MirrorInv
  <1>2. Arrived' = Arrived /\ ToldInv /\ \A c \in Row : TileInv(c)
    BY <1>1 DEF MirrorInv
  <1>3. ToldInv'
    BY <1>2 DEF ToldInv
  <1>4. \A c \in Row : TileInv(c)'
    BY <1>2 DEF TileInv, Unsent, Loaded
  <1>. QED
    BY <1>3, <1>4

\* What the world's chunks may do behind the mirror.
LEMMA MirrorFollows ==
  ASSUME MirrorInv, TypeOK, UNCHANGED <<me, other, last, session, queue, client>>,
         \A c \in Row : session # Nil /\ session.known[c] # Nil =>
           /\ pc' = "network" => c \in Loaded'
           /\ c \in Loaded' => /\ c \in Loaded /\ Unsent(c) \subseteq Unsent(c)'
                               /\ \A o \in Offsets \ Unsent(c)' :
                                    chunks'[c].cells[o] = chunks[c].cells[o]
  PROVE  MirrorInv'
  <1>1. SUFFICES ASSUME session # Nil
                 PROVE  ToldInv' /\ \A c \in Row : TileInv(c)'
    BY DEF MirrorInv
  <1>2. Arrived' = Arrived /\ ToldInv /\ \A c \in Row : TileInv(c)
    BY <1>1 DEF MirrorInv, Arrived
  <1>3. ToldInv'
    BY <1>2 DEF ToldInv
  <1>4. ASSUME NEW c \in Row
        PROVE  TileInv(c)'
    <2>1. TileInv(c)
      BY <1>2
    <2>2. CASE session.known[c] = Nil
      BY <1>2, <2>1, <2>2 DEF TileInv
    <2>3. CASE session.known[c] # Nil
      <3>1. /\ pc' = "network" => c \in Loaded'
            /\ c \in Loaded' => /\ c \in Loaded /\ Unsent(c) \subseteq Unsent(c)'
                                /\ \A o \in Offsets \ Unsent(c)' :
                                     chunks'[c].cells[o] = chunks[c].cells[o]
        BY <1>1, <2>3
      <3>2. /\ Arrived.chunks[c] # Nil /\ Arrived.chunks[c].fog = session.known[c]
            /\ c \in Loaded => \A o \in Offsets \ Unsent(c) :
                                 Arrived.chunks[c].cells[o] = chunks[c].cells[o]
        BY <2>1, <2>3 DEF TileInv
      <3>3. c \in Loaded' => \A o \in Offsets \ Unsent(c)' :
                               Arrived.chunks[c].cells[o] = chunks'[c].cells[o]
        BY <3>1, <3>2
      <3>. QED
        BY <1>2, <2>3, <3>1, <3>2, <3>3 DEF TileInv
    <2>. QED
      BY <2>2, <2>3
  <1>. QED
    BY <1>3, <1>4

\* The fog changes neither cells nor change rects.
LEMMA FogLeavesCells ==
  ASSUME ViewInv, Fog, NEW c \in Row
  PROVE  /\ chunks'[c] = Nil <=> chunks[c] = Nil
         /\ chunks[c] # Nil => /\ chunks'[c].cells = chunks[c].cells
                               /\ chunks'[c].change = chunks[c].change
                               /\ chunks'[c].prev = chunks[c].prev
  <1> DEFINE masks == Refreshed(me.pos)
  <1>1. /\ me.pos \in Positions /\ acts \in 0..MaxActs
        /\ chunks' \in {chunks, masks, Lit}
    BY DEF ViewInv, TypeOK, Fog, RevealFog, Lit
  <1>2. /\ masks \in [Row -> {Nil} \cup Chunk]
        /\ \A d \in Row : masks[d] = Nil <=> chunks[d] = Nil
    BY <1>1, RefreshedIsTyped DEF Loaded, ViewInv, SightInv
  <1>3. chunks[c] # Nil => /\ masks[c].cells = chunks[c].cells
                           /\ masks[c].change = chunks[c].change
                           /\ masks[c].prev = chunks[c].prev
    <2>1. SUFFICES ASSUME chunks[c] # Nil
                   PROVE  /\ masks[c].cells = chunks[c].cells
                          /\ masks[c].change = chunks[c].change
                          /\ masks[c].prev = chunks[c].prev
      OBVIOUS
    <2>2. c \in Loaded /\ chunks[c] \in Chunk /\ Judged(chunks[c]) /\ Counted(chunks[c], acts)
      BY <2>1 DEF Loaded, ViewInv, TypeOK, SightInv, ChunksInv
    <2>3. masks[c] = chunks[c] \/ masks[c] = RefreshSight(chunks[c])
      BY DEF Refreshed
    <2> HIDE DEF masks
    <2>. QED
      BY <1>1, <2>2, <2>3, RefreshJudges
  <1>4. /\ Lit[c] = Nil <=> masks[c] = Nil
        /\ masks[c] # Nil => /\ Lit[c].cells = masks[c].cells
                             /\ Lit[c].change = masks[c].change
                             /\ Lit[c].prev = masks[c].prev
    <2> DEFINE seen == Sees(me.pos, Walls(masks))
    <2>1. Lit = Reveal(masks, seen) /\ seen \in SUBSET Positions
      BY DEF Lit, Sees
    <2> HIDE DEF masks, seen
    <2>2. /\ Lit[c] = Nil <=> masks[c] = Nil
          /\ masks[c] # Nil => Lit[c] = [masks[c] EXCEPT !.fog = Lit[c].fog]
      BY <1>2, <2>1, RevealIsTyped
    <2>3. masks[c] # Nil => masks[c] \in Chunk
      BY <1>2
    <2>. QED
      BY <2>2, <2>3 DEF Chunk
  <1> HIDE DEF masks
  <1>. QED
    BY <1>1, <1>2, <1>3, <1>4

\* Every step keeps the invariant of the mirror.
LEMMA MirrorStays ==
  ASSUME ViewInv, MirrorInv, [Next]_vars
  PROVE  MirrorInv'
  <1>1. TypeOK
    BY DEF ViewInv
  <1>2. ASSUME NEW p \in Positions, Write(p)
        PROVE  MirrorInv'
    <2> DEFINE k == ChunkOf(p)  o == OffsetOf(p)
    <2>1. k \in Row /\ o \in Offsets /\ chunks[k] \in Chunk /\ k \in Loaded
      BY <1>1, <1>2, Places DEF Write, Loaded, TypeOK
    <2>2. PICK v \in {"open", "wall"} : chunks' = [chunks EXCEPT ![k] = Set(chunks[k], o, v)]
      BY <1>2 DEF Write
    <2> DEFINE new == Set(chunks[k], o, v)
    <2>4. /\ new # Nil /\ new.prev = chunks[k].prev
          /\ chunks[k].change \cup {o} \subseteq new.change
          /\ \A i \in Offsets \ {o} : new.cells[i] = chunks[k].cells[i]
      <3> DEFINE old == chunks[k]
      <3>1. old \in Chunk /\ o \in Offsets
        BY <2>1
      <3>2. \A r \in Chunk : \A a, b, c :
              LET s == [r EXCEPT !.cells = a, !.change = b, !.dirty = c]
              IN  s.cells = a /\ s.prev = r.prev
        BY DEF Chunk
      <3>3. new = [old EXCEPT !.cells = [old.cells EXCEPT ![o] = v],
                              !.change = Span(old.change \cup {o}),
                              !.dirty = Span(old.dirty \cup {o})]
        BY DEF Set
      <3>4. new.cells = [old.cells EXCEPT ![o] = v] /\ new.prev = old.prev
        <4> HIDE DEF old, o, k, new
        <4>. QED
          BY <3>1, <3>2, <3>3
      <3>5. old.cells \in [Offsets -> {"open", "wall"}]
        BY <3>1 DEF Chunk, Cells
      <3>6. new \in Chunk /\ old.change \cup {o} \subseteq new.change
        <4> HIDE DEF old, o, k
        <4>1. Set(old, o, v) \in Chunk /\ old.change \cup {o} \subseteq Set(old, o, v).change
          BY <3>1, SetsAreChunks
        <4>. QED
          BY <4>1 DEF old
      <3>7. new # Nil
        <4> HIDE DEF new
        <4>. QED
          BY <3>6, NilIsNothing
      <3> HIDE DEF old, o, k, new
      <3>. QED
        BY <3>1, <3>4, <3>5, <3>6, <3>7 DEF old
    <2> HIDE DEF new, o, k
    <2>5. \A c \in Row : chunks'[c] = IF c = k THEN new ELSE chunks[c]
      BY <1>1, <2>1, <2>2 DEF TypeOK, new
    <2>6. Loaded' = Loaded
      BY <2>1, <2>4, <2>5 DEF Loaded
    <2>7. UNCHANGED <<me, other, last, session, queue, client>> /\ pc' = pc
      BY <1>2 DEF Write, Act
    <2>8. ASSUME NEW c \in Row
          PROVE  /\ Unsent(c) \subseteq Unsent(c)'
                 /\ \A i \in Offsets \ Unsent(c)' : chunks'[c].cells[i] = chunks[c].cells[i]
      <3>1. CASE c = k
        <4>1. Unsent(c) \cup {o} \subseteq Unsent(c)'
          BY <2>4, <2>5, <2>7, <3>1 DEF Unsent
        <4>. QED
          BY <2>4, <2>5, <3>1, <4>1
      <3>2. CASE c # k
        BY <2>5, <2>7, <3>2 DEF Unsent
      <3>. QED
        BY <3>1, <3>2
    <2>9. ASSUME NEW c \in Row, session # Nil, session.known[c] # Nil
          PROVE  pc' = "network" => c \in Loaded'
      BY <2>6, <2>7, <2>9 DEF MirrorInv, TileInv
    <2>. QED
      BY <1>1, <2>6, <2>7, <2>8, <2>9, MirrorFollows
  <1>3. ASSUME NEW p \in Positions, Walk(p) \/ Materialize(p)
        PROVE  MirrorInv'
    BY <1>3, MirrorRests DEF Walk, Materialize, Act, Arrived
  <1>4. ASSUME NEW p \in {0} \cup Positions, OtherMoves(p)
        PROVE  MirrorInv'
    <2>1. p # Nil
      BY NilIsNothing DEF Avatars
    <2>. QED
      BY <1>4, <2>1, MirrorRests DEF OtherMoves, Act, Arrived
  <1>5. ASSUME NEW thing \in Things, Hold(thing)
        PROVE  MirrorInv'
    BY <1>5, MirrorRests DEF Hold, Act, Arrived
  <1>6. CASE Die
    BY <1>6, MirrorRests DEF Die, Act, Arrived
  <1>7. CASE OtherJoins
    <2>1. /\ pc' = pc /\ other = Nil /\ last' = Nil
          /\ UNCHANGED <<chunks, session, queue, client>>
      BY <1>7 DEF OtherJoins, Act
    <2>2. Arrived' = Arrived
      BY <2>1 DEF Arrived
    <2>3. session # Nil => ToldInv'
      BY <2>1, <2>2 DEF MirrorInv, ToldInv
    <2>4. session # Nil => \A c \in Row : TileInv(c)'
      BY <2>1, <2>2 DEF MirrorInv, TileInv, Unsent, Loaded
    <2>. QED
      BY <2>1, <2>3, <2>4 DEF MirrorInv
  <1>8. CASE OtherLeaves
    <2>1. SUFFICES ASSUME session # Nil
                   PROVE  ToldInv' /\ \A c \in Row : TileInv(c)'
      BY <1>8 DEF OtherLeaves, MirrorInv
    <2> DEFINE m == [kind |-> "remove"]
    <2>2. /\ pc' = pc /\ other' = Nil /\ queue' = Append(queue, m)
          /\ UNCHANGED <<chunks, session, client>>
      BY <1>8, <2>1 DEF OtherLeaves, Act
    <2>3. m \in Message
      BY DEF Message
    <2>4. Arrived \in Client /\ client \in Client /\ queue \in Seq(Message)
      BY <1>1, <2>1, ArrivedIsTyped
    <2>5. Arrived' = Apply(Arrived, m)
      BY <2>2, <2>3, <2>4, ShownAfterSending DEF Arrived
    <2>6. Arrived' = [Arrived EXCEPT !.avatar = 0]
      BY <2>5 DEF Apply
    <2>7. /\ Arrived'.chunks = Arrived.chunks /\ Arrived'.self = Arrived.self
          /\ Arrived'.slot = Arrived.slot /\ Arrived'.avatar = 0
      BY <2>4, <2>6 DEF Client
    <2>8. ToldInv /\ \A c \in Row : TileInv(c)
      BY <2>1 DEF MirrorInv
    <2>9. Arrived = NoView => Arrived' = NoView
      BY <2>6 DEF NoView
    <2>10. ToldInv'
      BY <2>2, <2>7, <2>8, <2>9 DEF ToldInv
    <2>11. \A c \in Row : TileInv(c)'
      BY <2>2, <2>7, <2>8 DEF TileInv, Unsent, Loaded
    <2>. QED
      BY <2>10, <2>11
  <1>9. CASE Disconnect
    BY <1>9 DEF Disconnect, MirrorInv
  <1>10. CASE Connect
    <2>1. session' = NoBaseline /\ client' = NoView /\ queue' = <<>>
      BY <1>10 DEF Connect
    <2>2. NoView \in Client
      BY DEF NoView, Client, Avatars
    <2>3. Arrived' = NoView
      BY <2>1, <2>2, ShownAtOnce DEF Arrived
    <2>4. session'.fresh = TRUE
      BY <2>1 DEF NoBaseline
    <2>5. ToldInv'
      BY <2>1, <2>3, <2>4 DEF ToldInv
    <2>6. \A c \in Row : TileInv(c)'
      BY <2>1, <2>3 DEF TileInv, NoView, NoBaseline
    <2>. QED
      BY <2>5, <2>6 DEF MirrorInv
  <1>11. ASSUME NEW arrived \in SUBSET Row, NEW resumed \in SUBSET Row, NEW expired \in SUBSET Row,
                ManageRegions(arrived, resumed, expired)
         PROVE  MirrorInv'
    <2>1. /\ pc = "network" /\ pc' = "begin" /\ arrived \cap Loaded = {}
          /\ UNCHANGED <<me, other, last, session, queue, client>>
      BY <1>11 DEF ManageRegions
    <2>2. \A c \in Row : chunks'[c] = CASE c \in arrived -> Returning(c, resumed)
                                        [] c \in expired -> Nil
                                        [] OTHER -> chunks[c]
      BY <1>11 DEF ManageRegions
    <2>3. ASSUME NEW c \in Row, session # Nil, session.known[c] # Nil, c \in Loaded'
          PROVE  /\ c \in Loaded /\ Unsent(c) \subseteq Unsent(c)'
                 /\ \A o \in Offsets \ Unsent(c)' : chunks'[c].cells[o] = chunks[c].cells[o]
      <3>1. c \in Loaded
        BY <2>1, <2>3 DEF MirrorInv, TileInv
      <3>2. c \notin arrived /\ c \notin expired
        BY <2>1, <2>2, <2>3, <3>1 DEF Loaded
      <3>3. chunks'[c] = chunks[c]
        BY <2>2, <3>2
      <3>. QED
        BY <2>1, <3>1, <3>3 DEF Unsent
    <2>. QED
      BY <1>1, <2>1, <2>3, MirrorFollows
  <1>12. ASSUME NEW ready \in SUBSET Loaded, BeginTick(ready)
         PROVE  MirrorInv'
    <2>1. /\ pc = "begin" /\ pc' = "kernel"
          /\ UNCHANGED <<me, other, last, session, queue, client>>
          /\ \A c \in Row : chunks'[c] = IF c \in ready THEN Roll(chunks[c]) ELSE chunks[c]
      BY <1>12 DEF BeginTick
    <2>2. ASSUME NEW c \in ready
          PROVE  /\ Roll(chunks[c]) # Nil /\ Roll(chunks[c]).cells = chunks[c].cells
                 /\ Roll(chunks[c]).prev = chunks[c].change
      <3>1. chunks[c] \in Chunk
        BY <1>1 DEF Loaded, TypeOK
      <3>2. Roll(chunks[c]) \in Chunk
        BY <3>1, RectsAreOffsets DEF Roll, Chunk
      <3>. QED
        BY <3>1, <3>2, NilIsNothing DEF Roll, Chunk
    <2>3. Loaded' = Loaded
      BY <2>1, <2>2 DEF Loaded
    <2>4. ASSUME NEW c \in Row
          PROVE  /\ Unsent(c) \subseteq Unsent(c)'
                 /\ \A o \in Offsets : chunks'[c].cells[o] = chunks[c].cells[o]
      BY <2>1, <2>2 DEF Unsent
    <2>. QED
      BY <1>1, <2>1, <2>3, <2>4, MirrorFollows
  <1>13. CASE Fog
    <2>1. pc = "kernel" /\ pc' = "replicate"
          /\ UNCHANGED <<me, other, last, session, queue, client>>
      BY <1>13 DEF Fog
    <2>2. Loaded' = Loaded
      BY <1>13, FogLeavesCells DEF Loaded
    <2>3. ASSUME NEW c \in Row, c \in Loaded
          PROVE  /\ Unsent(c)' = Unsent(c) /\ chunks'[c].cells = chunks[c].cells
      BY <1>13, <2>1, <2>3, FogLeavesCells DEF Unsent, Loaded
    <2>. QED
      BY <1>1, <2>1, <2>2, <2>3, MirrorFollows
  <1>14. CASE Replicate
    <2>1. CASE session = Nil
      BY <1>14, <2>1 DEF Replicate, MirrorInv
    <2>2. CASE session # Nil
      BY <1>1, <1>14, <2>2, FramesTell
    <2>. QED
      BY <2>1, <2>2
  <1>15. CASE Receive
    <2>1. /\ pc' = pc /\ client' = Apply(client, Head(queue)) /\ queue' = Tail(queue)
          /\ queue # <<>> /\ UNCHANGED <<chunks, other, last, session>>
      BY <1>15 DEF Receive
    <2>2. session # Nil => Arrived' = Arrived
      BY <1>1, <2>1, ArrivedIsTyped, ShownAfterReceiving DEF Arrived
    <2>. QED
      BY <2>1, <2>2, MirrorRests
  <1>16. CASE UNCHANGED vars
    BY <1>16, MirrorRests DEF vars, Arrived
  <1>. QED
    BY <1>2, <1>3, <1>4, <1>5, <1>6, <1>7, <1>8, <1>9, <1>10, <1>11, <1>12, <1>13, <1>14, <1>15,
       <1>16 DEF Next, World

\* It holds at the start, where nothing is shown.
LEMMA MirrorStarts ==
  ASSUME Init
  PROVE  MirrorInv
  <1>1. SUFFICES ASSUME session # Nil
                 PROVE  ToldInv /\ \A c \in Row : TileInv(c)
    BY DEF MirrorInv
  <1>2. session = NoBaseline /\ client = NoView /\ queue = <<>>
    BY <1>1 DEF Init
  <1>3. NoView \in Client
    BY DEF NoView, Client, Avatars
  <1>4. Arrived = NoView
    BY <1>2, <1>3, ShownAtOnce DEF Arrived
  <1>5. session.fresh = TRUE
    BY <1>2 DEF NoBaseline
  <1>6. \A c \in Row : TileInv(c)
    BY <1>2, <1>4 DEF TileInv, NoView, NoBaseline
  <1>. QED
    BY <1>2, <1>4, <1>5, <1>6 DEF ToldInv

\* The invariant of the mirror holds in every state: what is under way to a
\* client differs from the world in what the rects still hold.
THEOREM MirrorIsKept == Spec => []MirrorInv
  <1>1. Init => MirrorInv
    BY MirrorStarts
  <1>2. ViewInv /\ MirrorInv /\ [Next]_vars => MirrorInv'
    BY MirrorStays
  <1>. QED
    BY <1>1, <1>2, SightIsKept, PTL DEF Spec

\* Only Replicate ends a tick.
LEMMA TicksEndTold ==
  ASSUME ViewInv, MirrorInv, [Next]_vars
  PROVE  [TickEnds /\ session # Nil => Arrived' = Truth']_vars
  <1>1. SUFFICES ASSUME TickEnds, session # Nil, vars' # vars
                 PROVE  Arrived' = Truth'
    OBVIOUS
  <1>2. pc = "replicate" /\ pc' = "network"
    BY <1>1 DEF TickEnds
  <1>3. ASSUME NEW stages, Act(stages) PROVE FALSE
    BY <1>2, <1>3 DEF Act
  <1>4. ~World
    BY <1>3 DEF World, Write, Walk, Materialize, OtherMoves, Hold, Die, OtherJoins, OtherLeaves,
       Disconnect, Connect
  <1>5. Replicate
    BY <1>1, <1>2, <1>4 DEF Next, ManageRegions, BeginTick, Fog, Receive, vars
  <1>. QED
    BY <1>1, <1>5, FramesTell DEF ViewInv

(***************************************************************************)
(* When a tick has ended and what is under way has arrived, the client     *)
(* shows the world around the view, the other player and its own state as  *)
(* the server has them.                                                    *)
(***************************************************************************)
THEOREM TheMirrorIsFaithful == Spec => MirrorIsFaithful
  <1>1. ViewInv /\ MirrorInv /\ [Next]_vars
          => [TickEnds /\ session # Nil => Arrived' = Truth']_vars
    BY TicksEndTold
  <1>. QED
    BY <1>1, SightIsKept, MirrorIsKept, PTL DEF Spec, MirrorIsFaithful
=============================================================================
