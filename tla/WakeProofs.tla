------------------------------ MODULE WakeProofs -----------------------------
(***************************************************************************)
(* Theorems of Wake for every size of chunk and region, every set of       *)
(* regions, views and watched cells, and every bound on the writes.        *)
(***************************************************************************)
EXTENDS Wake, TLAPS

Positions == Int \X Int

-----------------------------------------------------------------------------
(* Arithmetic of positions.                                                *)

\* Quotient and remainder recompose the number.
LEMMA DivMod ==
  ASSUME NEW x \in Int, NEW S \in Nat \ {0}
  PROVE  /\ x \div S \in Int
         /\ x % S \in 0..(S - 1)
         /\ x = S * (x \div S) + (x % S)
  BY Z3

\* A quotient is determined by where its multiple lies.
LEMMA QuotientUnique ==
  ASSUME NEW S \in Nat \ {0}, NEW p \in Int, NEW q \in Int,
         NEW r \in 0..(S - 1), NEW t \in 0..(S - 1),
         S * p + r = S * q + t
  PROVE  p = q
  <1>1. ~(p < q)
    <2>1. SUFFICES ASSUME p < q PROVE FALSE
      OBVIOUS
    <2>2. S * (p + 1) <= S * q
      BY <2>1, Z3
    <2>. QED
      BY <2>2, Z3
  <1>2. ~(q < p)
    <2>1. SUFFICES ASSUME q < p PROVE FALSE
      OBVIOUS
    <2>2. S * (q + 1) <= S * p
      BY <2>1, Z3
    <2>. QED
      BY <2>2, Z3
  <1>. QED
    BY <1>1, <1>2, Z3

\* Numbers at most S apart have quotients at most one apart.
LEMMA QuotientStep ==
  ASSUME NEW S \in Nat \ {0}, NEW x \in Int, NEW d \in -S..S
  PROVE  \E e \in -1..1 : (x + d) \div S = (x \div S) + e
  <1> DEFINE q == x \div S
             p == (x + d) \div S
  <1>1. /\ q \in Int /\ p \in Int
        /\ x = S * q + (x % S) /\ x % S \in 0..(S - 1)
        /\ x + d = S * p + ((x + d) % S) /\ (x + d) % S \in 0..(S - 1)
    BY DivMod
  <1> HIDE DEF p, q
  <1>2. ~(p > q + 1)
    <2>1. SUFFICES ASSUME p >= q + 2 PROVE FALSE
      BY <1>1
    <2>2. S * (q + 2) <= S * p
      BY <1>1, <2>1, Z3
    <2>. QED
      BY <1>1, <2>2, Z3
  <1>3. ~(p < q - 1)
    <2>1. SUFFICES ASSUME p + 2 <= q PROVE FALSE
      BY <1>1
    <2>2. S * (p + 2) <= S * q
      BY <1>1, <2>1, Z3
    <2>. QED
      BY <1>1, <2>2, Z3
  <1>4. p - q \in -1..1 /\ p = q + (p - q)
    BY <1>1, <1>2, <1>3
  <1>. QED
    BY <1>4 DEF p, q

\* A cell at most a chunk away in each direction is in a neighbouring chunk.
LEMMA ReachIsLocal ==
  ASSUME NEW x \in Positions, NEW d \in 0..ChunkSize, NEW n \in Near(x, d)
  PROVE  ChunkOf(n) \in Near(ChunkOf(x), 1)
  <1>1. PICK dx \in -d..d, dy \in -d..d : n = <<x[1] + dx, x[2] + dy>>
    BY DEF Near
  <1>2. x[1] \in Int /\ x[2] \in Int /\ dx \in -ChunkSize..ChunkSize
        /\ dy \in -ChunkSize..ChunkSize /\ ChunkSize \in Nat \ {0}
    BY SizeAssumption DEF Positions
  <1>3. PICK ex \in -1..1 : (x[1] + dx) \div ChunkSize = (x[1] \div ChunkSize) + ex
    BY <1>2, QuotientStep
  <1>4. PICK ey \in -1..1 : (x[2] + dy) \div ChunkSize = (x[2] \div ChunkSize) + ey
    BY <1>2, QuotientStep
  <1>5. ChunkOf(n) = <<(x[1] \div ChunkSize) + ex, (x[2] \div ChunkSize) + ey>>
    BY <1>1, <1>3, <1>4 DEF ChunkOf
  <1>. QED
    BY <1>5 DEF ChunkOf, Near

\* The cell of a chunk at an offset is in that chunk.
LEMMA CellIsInChunk ==
  ASSUME NEW c \in Positions, NEW offsets \in SUBSET Offsets, NEW x \in CellsIn(c, offsets)
  PROVE  x \in Positions /\ ChunkOf(x) = c
  <1>1. PICK o \in offsets : x = <<c[1] * ChunkSize + o[1], c[2] * ChunkSize + o[2]>>
    BY DEF CellsIn
  <1>2. /\ c[1] \in Int /\ c[2] \in Int /\ c = <<c[1], c[2]>> /\ ChunkSize \in Nat \ {0}
        /\ o[1] \in 0..(ChunkSize - 1) /\ o[2] \in 0..(ChunkSize - 1)
    BY SizeAssumption DEF Positions, Offsets
  <1>3. ASSUME NEW q \in Int, NEW r \in 0..(ChunkSize - 1)
        PROVE  q * ChunkSize + r \in Int /\ (q * ChunkSize + r) \div ChunkSize = q
    <2>1. q * ChunkSize + r \in Int /\ q * ChunkSize = ChunkSize * q
      BY <1>2, Z3
    <2> DEFINE y == q * ChunkSize + r
    <2>2. /\ y \div ChunkSize \in Int /\ y % ChunkSize \in 0..(ChunkSize - 1)
          /\ y = ChunkSize * (y \div ChunkSize) + (y % ChunkSize)
      BY <1>2, <2>1, DivMod
    <2>3. ChunkSize * q + r = ChunkSize * (y \div ChunkSize) + (y % ChunkSize)
      BY <2>1, <2>2
    <2>. QED
      BY <1>2, <2>1, <2>2, <2>3, QuotientUnique
  <1>. QED
    BY <1>1, <1>2, <1>3 DEF ChunkOf, Positions

\* A cell is the one of its chunk at its offset.
LEMMA CellIsAtOffset ==
  ASSUME NEW x \in Positions, NEW offsets, OffsetOf(x) \in offsets
  PROVE  OffsetOf(x) \in Offsets /\ x \in CellsIn(ChunkOf(x), offsets)
  <1>1. x[1] \in Int /\ x[2] \in Int /\ x = <<x[1], x[2]>> /\ ChunkSize \in Nat \ {0}
    BY SizeAssumption DEF Positions
  <1>2. /\ x[1] = (x[1] \div ChunkSize) * ChunkSize + (x[1] % ChunkSize)
        /\ x[2] = (x[2] \div ChunkSize) * ChunkSize + (x[2] % ChunkSize)
        /\ x[1] % ChunkSize \in 0..(ChunkSize - 1)
        /\ x[2] % ChunkSize \in 0..(ChunkSize - 1)
    <2>1. ASSUME NEW y \in Int
          PROVE  /\ y = (y \div ChunkSize) * ChunkSize + (y % ChunkSize)
                 /\ y % ChunkSize \in 0..(ChunkSize - 1)
      <3>1. /\ y \div ChunkSize \in Int /\ y % ChunkSize \in 0..(ChunkSize - 1)
            /\ y = ChunkSize * (y \div ChunkSize) + (y % ChunkSize)
        BY <1>1, DivMod
      <3>2. ChunkSize * (y \div ChunkSize) = (y \div ChunkSize) * ChunkSize
        BY <1>1, <3>1, Z3
      <3>. QED
        BY <3>1, <3>2
    <2>. QED
      BY <1>1, <2>1
  <1>. QED
    BY <1>1, <1>2 DEF CellsIn, ChunkOf, OffsetOf, Offsets
-----------------------------------------------------------------------------
(* Rectangles.                                                             *)

\* A rectangle covers what it was drawn around.
LEMMA HullCovers ==
  ASSUME NEW S \in SUBSET Offsets
  PROVE  S \subseteq Hull(S) /\ Hull(S) \subseteq Offsets
  <1>1. \A o \in Offsets : o[1] \in Int /\ o[2] \in Int
    BY SizeAssumption DEF Offsets
  <1>. QED
    BY <1>1 DEF Hull

-----------------------------------------------------------------------------
(* Windows.                                                                *)

\* A chunk is in the middle of its window, and its neighbours are in it.
LEMMA WindowHoldsNeighbours ==
  ASSUME NEW c \in Positions
  PROVE  c \in Owned(Origin(c)) /\ Near(c, 1) \subseteq Members(Origin(c))
  <1>1. c[1] \in Int /\ c[2] \in Int /\ c = <<c[1], c[2]>>
    BY DEF Positions
  <1>2. ASSUME NEW x \in Int
        PROVE  /\ 2 * (x \div 2) - 1 \in Int
               /\ x - (2 * (x \div 2) - 1) \in 1..2
    BY Z3
  <1>3. c[1] - Origin(c)[1] \in 1..2 /\ c[2] - Origin(c)[2] \in 1..2
        /\ Origin(c)[1] \in Int /\ Origin(c)[2] \in Int
    BY <1>1, <1>2 DEF Origin
  <1>4. c \in Owned(Origin(c))
    <2>1. c = <<Origin(c)[1] + (c[1] - Origin(c)[1]), Origin(c)[2] + (c[2] - Origin(c)[2])>>
      BY <1>1, <1>3
    <2>. QED
      BY <1>3, <2>1 DEF Owned
  <1>5. ASSUME NEW n \in Near(c, 1) PROVE n \in Members(Origin(c))
    <2>1. PICK dx \in -1..1, dy \in -1..1 : n = <<c[1] + dx, c[2] + dy>>
      BY DEF Near
    <2>2. /\ c[1] + dx - Origin(c)[1] \in 0..3
          /\ c[2] + dy - Origin(c)[2] \in 0..3
      BY <1>1, <1>3
    <2>3. n = <<Origin(c)[1] + (c[1] + dx - Origin(c)[1]),
                Origin(c)[2] + (c[2] + dy - Origin(c)[2])>>
      BY <1>1, <1>3, <2>1
    <2>. QED
      BY <2>2, <2>3 DEF Members
  <1>. QED
    BY <1>4, <1>5

\* Windows of one phase do not overlap.
LEMMA PhaseSeparates ==
  ASSUME NEW b \in Positions, NEW c \in Positions,
         Phase(b) = Phase(c), Origin(b) # Origin(c)
  PROVE  Members(Origin(b)) \cap Members(Origin(c)) = {}
  <1>1. b[1] \in Int /\ b[2] \in Int /\ c[1] \in Int /\ c[2] \in Int
    BY DEF Positions
  <1>2. ((b[1] \div 2) % 2) = ((c[1] \div 2) % 2) /\ ((b[2] \div 2) % 2) = ((c[2] \div 2) % 2)
    BY <1>1, Z3 DEF Phase
  <1>3. b[1] \div 2 # c[1] \div 2 \/ b[2] \div 2 # c[2] \div 2
    BY DEF Origin
  <1>4. ASSUME NEW x \in Int, NEW y \in Int,
               ((x \div 2) % 2) = ((y \div 2) % 2), x \div 2 # y \div 2,
               NEW i \in 0..3, NEW j \in 0..3
        PROVE  2 * (x \div 2) - 1 + i # 2 * (y \div 2) - 1 + j
    BY <1>4, Z3
  <1>5. SUFFICES ASSUME NEW m \in Members(Origin(b)), m \in Members(Origin(c)) PROVE FALSE
    OBVIOUS
  <1>6. PICK i, k \in 0..3 : m = <<Origin(b)[1] + i, Origin(b)[2] + k>>
    BY DEF Members
  <1>7. PICK j, l \in 0..3 : m = <<Origin(c)[1] + j, Origin(c)[2] + l>>
    BY <1>5 DEF Members
  <1>8. /\ 2 * (b[1] \div 2) - 1 + i = 2 * (c[1] \div 2) - 1 + j
        /\ 2 * (b[2] \div 2) - 1 + k = 2 * (c[2] \div 2) - 1 + l
    BY <1>6, <1>7 DEF Origin
  <1>9. CASE b[1] \div 2 # c[1] \div 2
    BY <1>1, <1>2, <1>4, <1>8, <1>9
  <1>10. CASE b[2] \div 2 # c[2] \div 2
    BY <1>1, <1>2, <1>4, <1>8, <1>10
  <1>. QED
    BY <1>3, <1>9, <1>10
-----------------------------------------------------------------------------
(* Marks.                                                                  *)

\* Marking keeps what was marked and adds the cells in chunks within reach.
LEMMA MarkedCovers ==
  ASSUME sim \in [Chunks -> SUBSET Offsets],
         NEW cells \in SUBSET Positions, NEW within
  PROVE  /\ Marked(cells, within) \in [Chunks -> SUBSET Offsets]
         /\ \A c \in Chunks : sim[c] \subseteq Marked(cells, within)[c]
         /\ \A n \in cells : ChunkOf(n) \in Chunks \cap within =>
              OffsetOf(n) \in Marked(cells, within)[ChunkOf(n)]
  <1> DEFINE marks(c) == sim[c] \cup {OffsetOf(n) : n \in {m \in cells : ChunkOf(m) = c}}
  <1>1. \A n \in cells : OffsetOf(n) \in Offsets
    BY CellIsAtOffset
  <1>2. ASSUME NEW c \in Chunks
        PROVE  marks(c) \in SUBSET Offsets
    BY <1>1
  <1>3. ASSUME NEW c \in Chunks
        PROVE  marks(c) \subseteq Hull(marks(c)) /\ Hull(marks(c)) \subseteq Offsets
    <2> HIDE DEF marks
    <2>. QED
      BY <1>2, HullCovers
  <1>4. Marked(cells, within) = [c \in Chunks |-> IF c \in within THEN Hull(marks(c)) ELSE sim[c]]
    BY DEF Marked
  <1>5. \A c \in Chunks : sim[c] \subseteq marks(c)
    OBVIOUS
  <1>6. \A n \in cells : OffsetOf(n) \in marks(ChunkOf(n))
    OBVIOUS
  <1> HIDE DEF marks
  <1>. QED
    BY <1>3, <1>4, <1>5, <1>6

\* The cells around a position are positions, and being close is mutual.
LEMMA NearIsMutual ==
  ASSUME NEW x \in Positions
  PROVE  /\ Near(x, 1) \subseteq Positions
         /\ x \in Near(x, 1)
         /\ \A n \in Positions : n \in Near(x, 1) => x \in Near(n, 1)
  <1>1. x[1] \in Int /\ x[2] \in Int /\ x = <<x[1], x[2]>>
    BY DEF Positions
  <1>2. Near(x, 1) \subseteq Positions
    BY <1>1 DEF Near, Positions
  <1>3. x \in Near(x, 1)
    <2>1. x = <<x[1] + 0, x[2] + 0>>
      BY <1>1
    <2>. QED
      BY <2>1 DEF Near
  <1>4. ASSUME NEW n \in Near(x, 1) PROVE x \in Near(n, 1)
    <2>1. PICK dx \in -1..1, dy \in -1..1 : n = <<x[1] + dx, x[2] + dy>>
      BY DEF Near
    <2>2. -dx \in -1..1 /\ -dy \in -1..1 /\ x = <<n[1] + (-dx), n[2] + (-dy)>>
      BY <1>1, <2>1
    <2>. QED
      BY <2>2 DEF Near
  <1>. QED
    BY <1>2, <1>3, <1>4

\* What a window may write is close to a chunk it simulates, and so in the
\* chunks it holds, together with the cells a write wakes.
LEMMA WindowHoldsItsReach ==
  ASSUME NEW o \in Positions, NEW w \in Writable(o), NEW n \in Near(w, 1)
  PROVE  w \in Positions /\ n \in Positions /\ ChunkOf(n) \in Slots(o)
  <1>1. PICK cell \in Evaluated(o) : w \in Near(cell, Reach)
    BY DEF Writable
  <1>2. PICK c \in OwnedChunks(o) : cell \in CellsIn(c, Rect(c))
    BY DEF Evaluated
  <1>3. c \in Positions /\ Near(c, 1) \subseteq Slots(o)
    BY DEF OwnedChunks, Owned, Positions
  <1>4. Rect(c) \in SUBSET Offsets
    BY DEF Rect, Hull
  <1>5. cell \in Positions /\ ChunkOf(cell) = c
    BY <1>2, <1>3, <1>4, CellIsInChunk
  <1>6. PICK dx \in -Reach..Reach, dy \in -Reach..Reach : w = <<cell[1] + dx, cell[2] + dy>>
    BY <1>1 DEF Near
  <1>7. PICK ex \in -1..1, ey \in -1..1 : n = <<w[1] + ex, w[2] + ey>>
    BY DEF Near
  <1>8. /\ cell[1] \in Int /\ cell[2] \in Int
        /\ Reach \in Nat /\ Reach + 1 \in 0..ChunkSize
    BY <1>5, ReachAssumption, SizeAssumption DEF Positions
  <1>9. w \in Positions /\ n \in Positions
    BY <1>6, <1>7, <1>8 DEF Positions
  <1>10. n \in Near(cell, Reach + 1)
    <2>1. dx + ex \in -(Reach + 1)..(Reach + 1) /\ dy + ey \in -(Reach + 1)..(Reach + 1)
      BY <1>8
    <2>2. n = <<cell[1] + (dx + ex), cell[2] + (dy + ey)>>
      BY <1>6, <1>7, <1>8
    <2>. QED
      BY <2>1, <2>2 DEF Near
  <1>11. ChunkOf(n) \in Near(c, 1)
    BY <1>5, <1>8, <1>10, ReachIsLocal
  <1>. QED
    BY <1>3, <1>9, <1>11

-----------------------------------------------------------------------------
(* Type correctness.                                                       *)

LEMMA ChunksArePositions == Chunks \in SUBSET Positions
  <1>1. SUFFICES ASSUME NEW r \in Regions, NEW c \in ChunksIn(r) PROVE c \in Positions
    BY DEF Chunks
  <1>2. PICK x, y \in 0..(RegionSize - 1) :
          c = <<r[1] * RegionSize + x, r[2] * RegionSize + y>>
    BY DEF ChunksIn
  <1>3. r[1] \in Int /\ r[2] \in Int /\ RegionSize \in Int
    BY SizeAssumption
  <1>4. r[1] * RegionSize \in Int /\ r[2] * RegionSize \in Int
    BY <1>3, Z3
  <1>. QED
    BY <1>2, <1>3, <1>4 DEF Positions

\* The origin of a chunk's block is a position.
LEMMA OriginsArePositions == \A c \in Positions : Origin(c) \in Positions
  <1>1. \A x \in Int : 2 * (x \div 2) - 1 \in Int
    BY Z3
  <1>. QED
    BY <1>1 DEF Origin, Positions

\* Whatever the model does, its variables keep their types.
THEOREM TypeCorrect == Spec => []TypeOK
  <1>1. Init => TypeOK
    <2>1. 0 \in 0..MaxWrites
      BY MaxWritesAssumption
    <2>2. ASSUME Init PROVE sim \in [Chunks -> SUBSET Offsets] /\ prev \in [Chunks -> SUBSET Offsets]
      BY <2>2 DEF Init
    <2>3. ASSUME Init PROVE stamp \in BOOLEAN /\ blind \in BOOLEAN
      BY <2>3 DEF Init
    <2>. QED
      BY <2>1, <2>2, <2>3 DEF Init, TypeOK
  <1>2. TypeOK /\ [Next]_vars => TypeOK'
    <2> SUFFICES ASSUME TypeOK, [Next]_vars PROVE TypeOK'
      OBVIOUS
    <2>t. TypeOK
      OBVIOUS
    <2>m. MaxWrites \in Nat /\ \A n \in 0..MaxWrites : n < MaxWrites => n + 1 \in 0..MaxWrites
      BY MaxWritesAssumption
    <2>c. ASSUME NEW cells \in SUBSET Positions, NEW within
          PROVE  Marked(cells, within) \in [Chunks -> SUBSET Offsets]
      BY <2>t, MarkedCovers DEF TypeOK
    <2>o. \A o \in windows : o \in Positions
      BY <2>t DEF TypeOK, Positions
    <2>1. ASSUME NEW w \in Cells, WorldWrite(w) PROVE TypeOK'
      <3>1. w \in Positions
        BY ChunksArePositions, CellIsInChunk DEF Cells
      <3>2. sim' \in [Chunks -> SUBSET Offsets]
        BY <2>1, <2>c, <3>1, NearIsMutual DEF WorldWrite, Woken
      <3>3. owed' \subseteq Passes /\ stamp' \in BOOLEAN /\ blind' \in BOOLEAN
        BY <2>t, <2>1 DEF WorldWrite, OwedAfter, TypeOK
      <3>4. spent' \in 0..MaxWrites
        BY <2>t, <2>m, <2>1 DEF WorldWrite, TypeOK
      <3>. QED
        BY <2>t, <2>1, <3>2, <3>3, <3>4
        DEF WorldWrite, TypeOK, residencyVars, scheduleVars
    <2>2. CASE ComputeTickets
      BY <2>t, <2>2, ViewsAssumption
      DEF ComputeTickets, TypeOK, rectVars, scheduleVars, ghostVars
    <2>3. ASSUME NEW saved \in SUBSET Regions, SettleSave(saved) PROVE TypeOK'
      BY <2>t, <2>3 DEF SettleSave, TypeOK, scheduleVars, ghostVars
    <2>4. ASSUME NEW arriving \in SUBSET Regions, NEW expired \in SUBSET Regions,
                 ManageRegions(arriving, expired)
          PROVE  TypeOK'
      <3>1. /\ loaded' = (loaded \cup arriving) \ expired
            /\ kept' = (kept \ arriving) \cup expired
            /\ arriving \cap loaded = {} /\ expired \subseteq loaded
        BY <2>4 DEF ManageRegions, KeptAfter
      <3>2. loaded' \subseteq Regions /\ kept' \subseteq Regions \ loaded'
        BY <2>t, <3>1 DEF TypeOK
      <3>3. sim' \in [Chunks -> SUBSET Offsets]
        BY <2>t, <2>4 DEF ManageRegions, Full, TypeOK
      <3>4. owed' \subseteq Passes /\ stamp' \in BOOLEAN /\ blind' \in BOOLEAN
        BY <2>t, <2>4 DEF ManageRegions, TypeOK
      <3>. QED
        BY <2>t, <2>4, <3>2, <3>3, <3>4 DEF ManageRegions, TypeOK, scheduleVars
    <2>5. CASE BeginTick
      <3>1. stamp' \in BOOLEAN
        BY <2>5 DEF BeginTick
      <3>2. /\ sim' \in [Chunks -> SUBSET Offsets] /\ prev' \in [Chunks -> SUBSET Offsets]
            /\ due' \subseteq Passes
        BY <2>t, <2>5 DEF BeginTick, TypeOK
      <3>3. spent' \in 0..MaxWrites
        BY <2>5, MaxWritesAssumption DEF BeginTick
      <3>. QED
        BY <2>t, <2>5, <3>1, <3>2, <3>3 DEF BeginTick, TypeOK, residencyVars, Passes
    <2>6. ASSUME NEW p \in Phases, StartPhase(p) PROVE TypeOK'
      <3>1. windows' \subseteq Positions
        BY <2>6, ChunksArePositions, OriginsArePositions DEF StartPhase
      <3>. QED
        BY <2>t, <2>6, <3>1
        DEF StartPhase, TypeOK, Positions, residencyVars, rectVars, ghostVars
    <2>7. ASSUME NEW o \in windows, NEW after \in SUBSET Passes, CloseWindow(o, after),
                 sim' \in [Chunks -> SUBSET Offsets], spent' \in 0..MaxWrites,
                 stamp' \in BOOLEAN
          PROVE  TypeOK'
      BY <2>t, <2>7 DEF CloseWindow, TypeOK, residencyVars
    <2>8. ASSUME NEW o \in windows PROVE OwedBy(o) \in SUBSET Passes
      BY <2>t DEF OwedBy, TypeOK
    <2>9. ASSUME NEW o \in windows, RunIdle(o) PROVE TypeOK'
      BY <2>t, <2>7, <2>8, <2>9 DEF RunIdle, TypeOK
    <2>10. ASSUME NEW o \in windows, NEW w \in Writable(o), RunWrite(o, w) PROVE TypeOK'
      <3>1. OwedAfter(w, OwedBy(o)) \in SUBSET Passes
        BY <2>8 DEF OwedAfter
      <3>2. Woken(w) \in SUBSET Positions
        BY <2>o, WindowHoldsItsReach DEF Woken
      <3>3. sim' \in [Chunks -> SUBSET Offsets]
        BY <2>10, <2>c, <3>2 DEF RunWrite
      <3>4. spent' \in 0..MaxWrites /\ stamp' \in BOOLEAN
        BY <2>t, <2>m, <2>10 DEF RunWrite, TypeOK
      <3>. QED
        BY <2>7, <2>10, <3>1, <3>3, <3>4 DEF RunWrite
    <2>11. ASSUME NEW o \in windows, NEW w \in Evaluated(o), RunMark(o, w) PROVE TypeOK'
      <3>1. (IF w = watched THEN Passes ELSE OwedBy(o)) \in SUBSET Passes
        BY <2>8
      <3>2. {w} \in SUBSET Positions
        <4>1. PICK c \in OwnedChunks(o) : w \in CellsIn(c, Rect(c))
          BY DEF Evaluated
        <4>2. c \in Positions /\ Rect(c) \in SUBSET Offsets
          BY <2>o DEF OwnedChunks, Owned, Positions, Rect, Hull
        <4>. QED
          BY <4>1, <4>2, CellIsInChunk
      <3>3. sim' \in [Chunks -> SUBSET Offsets]
        BY <2>11, <2>c, <3>2 DEF RunMark
      <3>4. spent' \in 0..MaxWrites /\ stamp' \in BOOLEAN
        BY <2>t, <2>m, <2>11 DEF RunMark, TypeOK
      <3>. QED
        BY <2>7, <2>11, <3>1, <3>3, <3>4 DEF RunMark
    <2>12. CASE EndPass
      BY <2>t, <2>12
      DEF EndPass, TypeOK, residencyVars, rectVars, ghostVars, Passes
    <2>13. CASE UNCHANGED vars
      BY <2>t, <2>13
      DEF vars, TypeOK, residencyVars, rectVars, scheduleVars, ghostVars
    <2>. QED
      BY <2>1, <2>2, <2>3, <2>4, <2>5, <2>6, <2>9, <2>10, <2>11, <2>12, <2>13 DEF Next
  <1>. QED
    BY <1>1, <1>2, PTL DEF Spec
-----------------------------------------------------------------------------
(* Windows that run together.                                              *)

WindowsInPhase ==
  \A o, q \in windows : \E b, c \in Positions :
    o = Origin(b) /\ q = Origin(c) /\ Phase(b) = Phase(c)

\* Windows that run at the same time share no chunk: the parallel workers of
\* run_phase need no locks, whatever the chunks and the tickets.
THEOREM WorkersShareNothing == Spec => []WindowsAreDisjoint
  <1>1. Init => WindowsInPhase
    BY DEF Init, WindowsInPhase
  <1>2. WindowsInPhase /\ [Next]_vars => WindowsInPhase'
    <2> SUFFICES ASSUME WindowsInPhase, [Next]_vars PROVE WindowsInPhase'
      OBVIOUS
    <2>1. ASSUME NEW p \in Phases, StartPhase(p) PROVE WindowsInPhase'
      <3>1. \A o \in windows' : \E c \in Chunks : o = Origin(c) /\ Phase(c) = p
        BY <2>1 DEF StartPhase
      <3>. QED
        BY <3>1, ChunksArePositions DEF WindowsInPhase
    <2>2. ASSUME windows' \subseteq windows PROVE WindowsInPhase'
      BY <2>2 DEF WindowsInPhase
    <2>3. ASSUME ~(\E p \in Phases : StartPhase(p)) PROVE windows' \subseteq windows
      BY <2>3 DEF Next, WorldWrite, ComputeTickets, SettleSave, ManageRegions, BeginTick, RunIdle,
         RunWrite, RunMark, CloseWindow, EndPass, vars, scheduleVars
    <2>. QED
      BY <2>1, <2>2, <2>3
  <1>3. WindowsInPhase => WindowsAreDisjoint
    BY PhaseSeparates DEF WindowsInPhase, WindowsAreDisjoint, Slots
  <1>. QED
    BY <1>1, <1>2, <1>3, PTL DEF Spec

\* A window never writes a cell it does not hold nor wakes one: the
\* assertions of window.rs hold whatever the rules do within their reach.
THEOREM RulesStayInside == Spec => []WindowsHoldTheirReach
  <1>1. TypeOK => WindowsHoldTheirReach
    <2> SUFFICES ASSUME TypeOK PROVE WindowsHoldTheirReach
      OBVIOUS
    <2>1. windows \subseteq Positions
      BY DEF TypeOK, Positions
    <2>. QED
      BY <2>1, WindowHoldsItsReach DEF WindowsHoldTheirReach
  <1>. QED
    BY <1>1, TypeCorrect, PTL
-----------------------------------------------------------------------------
(* Sleeping.  What the running tick has to do is still ahead of it: the    *)
(* watched cell is inside the rectangle its chunk rolled, and its window   *)
(* runs, or will.  What is owed is marked for the next tick or due in the  *)
(* running one.                                                            *)

Off == OffsetOf(watched)

Ahead(p) ==
  \/ pc = "effects" /\ p = "movement"
  \/ p = pc /\ (Phase(Home) \in phases \/ Origin(Home) \in windows)

DueIsAhead ==
  \A p \in due : pc \in Passes /\ Ready(Home) /\ Off \in prev[Home] /\ Ahead(p)

OwedIsMarked ==
  InMemory /\ ~blind => \A p \in owed : Off \in sim[Home] \/ p \in due

SleepInv == DueIsAhead /\ OwedIsMarked

\* Where the watched cell is.
LEMMA WatchedIsPlaced ==
  ASSUME TypeOK
  PROVE  /\ watched \in Positions /\ Home \in Chunks /\ Home \in Positions
         /\ Off \in Offsets
         /\ Home \in Near(Home, 1)
         /\ Phase(Home) \in Phases
  <1>1. watched \in Positions /\ Home \in Chunks
    BY ViewsAssumption DEF TypeOK, Positions, Home
  <1>2. Home \in Positions
    BY <1>1, ChunksArePositions
  <1>3. Off \in Offsets
    BY <1>1, CellIsAtOffset DEF Off
  <1>4. Home \in Near(Home, 1)
    BY <1>2, NearIsMutual
  <1>5. ASSUME NEW x \in Int, NEW y \in Int
        PROVE  ((x \div 2) % 2) + 2 * ((y \div 2) % 2) \in 0..3
    BY Z3
  <1>6. Phase(Home) \in Phases
    BY <1>2, <1>5 DEF Phase, Phases, Positions
  <1>. QED
    BY <1>1, <1>2, <1>3, <1>4, <1>6

\* What is due in the running pass is done by the window of its block.
LEMMA DueIsEvaluated ==
  ASSUME TypeOK, DueIsAhead, due # {}
  PROVE  watched \in Evaluated(Origin(Home))
  <1>1. Ready(Home) /\ Off \in prev[Home]
    BY DEF DueIsAhead
  <1>2. Home \in OwnedChunks(Origin(Home))
    BY <1>1, WatchedIsPlaced, WindowHoldsNeighbours DEF OwnedChunks, Ready, Slots
  <1>3. sim[Home] \cup prev[Home] \in SUBSET Offsets
    BY WatchedIsPlaced DEF TypeOK
  <1>4. Off \in Rect(Home)
    BY <1>1, <1>3, HullCovers DEF Rect
  <1>5. watched \in CellsIn(Home, Rect(Home))
    BY <1>4, WatchedIsPlaced, CellIsAtOffset DEF Home, Off
  <1>. QED
    BY <1>2, <1>5 DEF Evaluated

\* A window that finishes keeps the invariant when what it leaves owed was
\* owed before, or the watched cell is marked.
LEMMA CloseKeepsSleepInv ==
  ASSUME TypeOK, SleepInv, NEW o \in windows, NEW after, CloseWindow(o, after),
         after \subseteq OwedBy(o) \/ Off \in sim'[Home],
         sim[Home] \subseteq sim'[Home]
  PROVE  SleepInv'
  <1>1. /\ windows' = windows \ {o} /\ pc \in Passes
        /\ due' = IF watched \in Evaluated(o) THEN due \ {pc} ELSE due
        /\ owed' = after /\ blind' = (blind /\ after # {})
        /\ pc' = pc /\ tickets' = tickets /\ loaded' = loaded /\ kept' = kept
        /\ prev' = prev /\ phases' = phases /\ watched' = watched
    BY DEF CloseWindow, residencyVars
  <1>2. /\ Home' = Home /\ Off' = Off /\ Ready(Home)' = Ready(Home)
        /\ InMemory' = InMemory
    BY <1>1 DEF Home, Off, Ready, Loaded, InMemory
  <1>3. ASSUME NEW p \in due' PROVE Ahead(p)'
    <2>1. p \in due /\ Ahead(p)
      BY <1>1 DEF SleepInv, DueIsAhead
    <2>2. CASE p = pc
      <3>1. watched \notin Evaluated(o)
        BY <1>1, <2>2
      <3>2. o # Origin(Home)
        BY <2>1, <3>1, DueIsEvaluated DEF SleepInv
      <3>. QED
        BY <1>1, <1>2, <2>1, <2>2, <3>2 DEF Ahead, Passes
    <2>. QED
      BY <1>1, <1>2, <2>1, <2>2 DEF Ahead
  <1>4. DueIsAhead'
    BY <1>1, <1>2, <1>3 DEF SleepInv, DueIsAhead
  <1>5. ASSUME InMemory', ~blind', NEW p \in owed'
        PROVE  Off' \in sim'[Home'] \/ p \in due'
    <2>1. InMemory /\ ~blind
      BY <1>1, <1>2, <1>5
    <2>2. CASE Off \in sim'[Home]
      BY <1>2, <2>2
    <2>3. CASE after \subseteq OwedBy(o)
      <3>1. p \in owed /\ ~(watched \in Evaluated(o) /\ p = pc)
        BY <1>1, <2>3 DEF OwedBy
      <3>2. Off \in sim[Home] \/ p \in due
        BY <2>1, <3>1 DEF SleepInv, OwedIsMarked
      <3>. QED
        BY <1>1, <1>2, <3>1, <3>2
    <2>. QED
      BY <2>2, <2>3
  <1>. QED
    BY <1>4, <1>5 DEF SleepInv, OwedIsMarked

\* Where every rule reads only the cells next to its own, work owed to a cell
\* is marked in its chunk or due in the running tick.
LEMMA SleepInvHolds ==
  ASSUME Kinds = {"plain"}
  PROVE  Spec => [](TypeOK /\ SleepInv)
  <1>1. Init => SleepInv
    BY DEF Init, SleepInv, DueIsAhead, OwedIsMarked
  <1>2. TypeOK /\ SleepInv /\ [Next]_vars => SleepInv'
    <2> SUFFICES ASSUME TypeOK, SleepInv, [Next]_vars PROVE SleepInv'
      OBVIOUS
    <2>w. /\ watched \in Positions /\ Home \in Chunks /\ Off \in Offsets
          /\ Home \in Near(Home, 1) /\ Phase(Home) \in Phases
      BY WatchedIsPlaced
    <2>t. /\ sim \in [Chunks -> SUBSET Offsets] /\ prev \in [Chunks -> SUBSET Offsets]
          /\ kept \subseteq Regions \ loaded /\ windows \subseteq Positions
      BY DEF TypeOK, Positions
    <2>d. ASSUME pc \notin Passes PROVE due = {}
      BY <2>d DEF SleepInv, DueIsAhead
    <2>m. ASSUME NEW w \in Positions, Disturbs(w), NEW within, Home \in within
          PROVE  Off \in Marked(Woken(w), within)[Home]
      <3>1. w \in Near(watched, 1)
        BY <2>m DEF Disturbs, Reads, TypeOK
      <3>2. watched \in Woken(w) /\ Woken(w) \in SUBSET Positions
        BY <2>w, <3>1, NearIsMutual DEF Woken
      <3>. QED
        BY <2>w, <2>t, <2>m, <3>2, MarkedCovers DEF Home, Off
    <2>1. ASSUME NEW w \in Cells, WorldWrite(w) PROVE SleepInv'
      <3>1. w \in Positions
        BY ChunksArePositions, CellIsInChunk DEF Cells
      <3>2. /\ due = {} /\ due' = {}
            /\ sim' = Marked(Woken(w), {c \in Chunks : Loaded(c)})
            /\ owed' = IF Disturbs(w) THEN Passes ELSE owed
            /\ blind' = (blind \/ (Disturbs(w) /\ ~Loaded(Home)))
            /\ watched' = watched /\ loaded' = loaded /\ kept' = kept
        BY <2>1, <2>d DEF WorldWrite, OwedAfter, residencyVars, Passes
      <3>3. Home' = Home /\ Off' = Off /\ InMemory' = InMemory
        BY <3>2 DEF Home, Off, InMemory
      <3>4. Woken(w) \in SUBSET Positions
        BY <3>1, NearIsMutual DEF Woken
      <3>5. sim[Home] \subseteq sim'[Home]
        BY <2>w, <2>t, <3>2, <3>4, MarkedCovers
      <3>6. ASSUME InMemory, ~blind', NEW p \in owed' PROVE Off \in sim'[Home]
        <4>1. CASE Disturbs(w)
          BY <2>w, <2>m, <3>1, <3>2, <3>6, <4>1
        <4>2. CASE ~Disturbs(w)
          BY <3>2, <3>5, <3>6, <4>2 DEF SleepInv, OwedIsMarked
        <4>. QED
          BY <4>1, <4>2
      <3>. QED
        BY <3>2, <3>3, <3>6 DEF SleepInv, DueIsAhead, OwedIsMarked
    <2>2. CASE ComputeTickets
      <3>1. due = {} /\ due' = due
        BY <2>2, <2>d DEF ComputeTickets, ghostVars, Passes
      <3>. QED
        BY <2>2, <3>1
        DEF ComputeTickets, rectVars, ghostVars, SleepInv, DueIsAhead, OwedIsMarked, InMemory,
            Home, Off
    <2>3. ASSUME NEW saved \in SUBSET Regions, SettleSave(saved) PROVE SleepInv'
      <3>1. /\ due = {} /\ due' = {} /\ owed' = owed /\ blind' = blind
            /\ watched' = watched /\ loaded' = loaded /\ kept' = kept \ saved
            /\ saved \subseteq kept
            /\ sim' = [c \in Chunks |-> IF RegionOf(c) \in saved THEN {} ELSE sim[c]]
        BY <2>3, <2>d DEF SettleSave, ghostVars, Passes
      <3>2. Home' = Home /\ Off' = Off
        BY <3>1 DEF Home, Off
      <3>3. ASSUME InMemory' PROVE InMemory /\ sim'[Home] = sim[Home]
        BY <2>w, <2>t, <3>1, <3>2, <3>3 DEF InMemory
      <3>. QED
        BY <3>1, <3>2, <3>3 DEF SleepInv, DueIsAhead, OwedIsMarked
    <2>4. ASSUME NEW arriving \in SUBSET Regions, NEW expired \in SUBSET Regions,
                 ManageRegions(arriving, expired)
          PROVE  SleepInv'
      <3> DEFINE fresh == arriving \ kept
      <3>1. /\ due = {} /\ due' = {} /\ watched' = watched
            /\ loaded' = (loaded \cup arriving) \ expired
            /\ kept' = (kept \ arriving) \cup expired
            /\ expired \subseteq loaded
            /\ sim' = [c \in Chunks |-> IF RegionOf(c) \in fresh THEN Full ELSE sim[c]]
            /\ RegionOf(Home) \notin fresh => owed' = owed /\ blind' = blind
        BY <2>4, <2>d DEF ManageRegions, KeptAfter, Passes
      <3>2. Home' = Home /\ Off' = Off
        BY <3>1 DEF Home, Off
      <3>3. CASE RegionOf(Home) \in fresh
        <4>1. Off \in sim'[Home]
          BY <2>w, <3>1, <3>3 DEF Full
        <4>. QED
          BY <3>1, <3>2, <4>1 DEF SleepInv, DueIsAhead, OwedIsMarked
      <3>4. CASE RegionOf(Home) \notin fresh
        <4>1. sim'[Home] = sim[Home]
          BY <2>w, <3>1, <3>4
        <4>2. InMemory' => InMemory
          BY <3>1, <3>2, <3>4 DEF InMemory
        <4>. QED
          BY <3>1, <3>2, <3>4, <4>1, <4>2 DEF SleepInv, DueIsAhead, OwedIsMarked
      <3>. QED
        BY <3>3, <3>4
    <2>5. CASE BeginTick
      <3>1. /\ due = {} /\ pc' = "effects" /\ phases' = Phases
            /\ due' = IF Ready(Home) /\ ~blind THEN owed ELSE {}
            /\ prev' = [c \in Chunks |-> IF Ready(c) THEN sim[c] ELSE prev[c]]
            /\ sim' = [c \in Chunks |-> IF Ready(c) THEN {} ELSE sim[c]]
            /\ watched' = watched /\ loaded' = loaded /\ kept' = kept /\ tickets' = tickets
            /\ owed' = owed /\ blind' = blind
        BY <2>5, <2>d DEF BeginTick, Passes, residencyVars
      <3>2. /\ Home' = Home /\ Off' = Off /\ InMemory' = InMemory /\ Ready(Home)' = Ready(Home)
        BY <3>1 DEF Home, Off, InMemory, Ready, Loaded
      <3>3. InMemory /\ ~blind => \A p \in owed : Off \in sim[Home]
        BY <3>1 DEF SleepInv, OwedIsMarked
      <3>4. CASE Ready(Home)
        <4>1. InMemory
          BY <2>w, <3>4 DEF Ready, Loaded, InMemory
        <4>2. prev'[Home] = sim[Home]
          BY <2>w, <3>1, <3>4
        <4>3. \A p \in due' : Off \in prev'[Home] /\ p \in Passes
          BY <3>1, <3>3, <4>1, <4>2 DEF TypeOK
        <4>4. \A p \in due' : Ahead(p)'
          BY <2>w, <3>1, <3>2, <4>3 DEF Ahead, Passes
        <4>. QED
          BY <3>1, <3>2, <3>4, <4>3, <4>4 DEF SleepInv, DueIsAhead, OwedIsMarked, Passes
      <3>5. CASE ~Ready(Home)
        <4>1. sim'[Home] = sim[Home] /\ due' = {}
          BY <2>w, <3>1, <3>5
        <4>. QED
          BY <3>1, <3>2, <3>3, <4>1 DEF SleepInv, DueIsAhead, OwedIsMarked
      <3>. QED
        BY <3>4, <3>5
    <2>6. ASSUME NEW f \in Phases, StartPhase(f) PROVE SleepInv'
      <3>1. /\ windows = {} /\ phases' = phases \ {f} /\ pc' = pc /\ due' = due
            /\ windows' = {Origin(c) : c \in {d \in Chunks : Loaded(d) /\ Phase(d) = f /\ Awake(d)}}
            /\ watched' = watched /\ loaded' = loaded /\ kept' = kept /\ tickets' = tickets
            /\ sim' = sim /\ prev' = prev /\ owed' = owed /\ blind' = blind
        BY <2>6 DEF StartPhase, residencyVars, rectVars, ghostVars
      <3>2. /\ Home' = Home /\ Off' = Off /\ InMemory' = InMemory /\ Ready(Home)' = Ready(Home)
        BY <3>1 DEF Home, Off, InMemory, Ready, Loaded
      <3>3. ASSUME NEW p \in due PROVE Ahead(p)'
        <4>1. Ahead(p) /\ Ready(Home) /\ Off \in prev[Home]
          BY DEF SleepInv, DueIsAhead
        <4>2. sim[Home] \cup prev[Home] \in SUBSET Offsets
          BY <2>w, <2>t
        <4>3. Loaded(Home) /\ Awake(Home)
          BY <2>w, <4>1, <4>2, HullCovers DEF Ready, Awake, Rect
        <4>4. Phase(Home) = f => Origin(Home) \in windows'
          BY <2>w, <3>1, <4>3
        <4>5. CASE p = pc
          BY <3>1, <3>2, <4>1, <4>4, <4>5 DEF Ahead
        <4>6. CASE p # pc
          BY <3>1, <3>2, <4>1, <4>6 DEF Ahead
        <4>. QED
          BY <4>5, <4>6
      <3>. QED
        BY <3>1, <3>2, <3>3 DEF SleepInv, DueIsAhead, OwedIsMarked
    <2>7. ASSUME NEW o \in windows, RunIdle(o) PROVE SleepInv'
      BY <2>7, CloseKeepsSleepInv DEF RunIdle
    <2>8. ASSUME NEW o \in windows, NEW w \in Writable(o), RunWrite(o, w) PROVE SleepInv'
      <3>0. o \in Positions
        BY <2>t
      <3>1. /\ CloseWindow(o, OwedAfter(w, OwedBy(o)))
            /\ sim' = Marked(Woken(w), Slots(o))
        BY <2>8 DEF RunWrite
      <3>2. /\ Woken(w) \in SUBSET Positions
            /\ \A n \in Woken(w) : ChunkOf(n) \in Slots(o)
        BY <3>0, WindowHoldsItsReach DEF Woken
      <3>3. sim[Home] \subseteq sim'[Home]
        BY <2>w, <2>t, <3>1, <3>2, MarkedCovers
      <3>4. CASE Disturbs(w)
        <4>1. w \in Positions /\ w \in Near(watched, 1)
          <5>1. w \in Near(watched, 1)
            BY <3>4 DEF Disturbs, Reads, TypeOK
          <5>. QED
            BY <2>w, <5>1, NearIsMutual
        <4>2. watched \in Woken(w)
          BY <2>w, <4>1, NearIsMutual DEF Woken
        <4>3. Home \in Slots(o)
          BY <3>2, <4>2 DEF Home
        <4>4. Off \in sim'[Home]
          BY <2>m, <3>1, <3>4, <4>1, <4>3
        <4>. QED
          BY <3>1, <3>3, <4>4, CloseKeepsSleepInv
      <3>5. CASE ~Disturbs(w)
        <4>1. OwedAfter(w, OwedBy(o)) \subseteq OwedBy(o)
          BY <3>5 DEF OwedAfter
        <4>. QED
          BY <3>1, <3>3, <4>1, CloseKeepsSleepInv
      <3>. QED
        BY <3>4, <3>5
    <2>9. ASSUME NEW o \in windows, NEW w \in Evaluated(o), RunMark(o, w) PROVE SleepInv'
      <3>1. /\ CloseWindow(o, IF w = watched THEN Passes ELSE OwedBy(o))
            /\ sim' = Marked({w}, Slots(o))
        BY <2>9 DEF RunMark
      <3>2. PICK c \in OwnedChunks(o) : w \in CellsIn(c, Rect(c))
        BY DEF Evaluated
      <3>3. c \in Positions /\ Rect(c) \in SUBSET Offsets
        BY <2>t DEF OwnedChunks, Owned, Positions, Rect, Hull
      <3>4. w \in Positions /\ ChunkOf(w) = c /\ c \in Slots(o)
        BY <3>2, <3>3, CellIsInChunk, NearIsMutual DEF OwnedChunks
      <3>5. sim[Home] \subseteq sim'[Home]
        BY <2>w, <2>t, <3>1, <3>4, MarkedCovers
      <3>6. CASE w = watched
        <4>1. Off \in sim'[Home]
          BY <2>w, <2>t, <3>1, <3>4, <3>6, MarkedCovers DEF Home, Off
        <4>. QED
          BY <3>1, <3>5, <4>1, CloseKeepsSleepInv
      <3>7. CASE w # watched
        BY <3>1, <3>5, <3>7, CloseKeepsSleepInv
      <3>. QED
        BY <3>6, <3>7
    <2>10. CASE EndPass
      <3>1. /\ phases = {} /\ windows = {} /\ pc \in Passes
            /\ pc = "effects" => pc' = "movement" /\ phases' = Phases
            /\ due' = due /\ watched' = watched /\ loaded' = loaded /\ kept' = kept
            /\ tickets' = tickets /\ sim' = sim /\ prev' = prev /\ owed' = owed /\ blind' = blind
        BY <2>10 DEF EndPass, residencyVars, rectVars, ghostVars
      <3>2. /\ Home' = Home /\ Off' = Off /\ InMemory' = InMemory /\ Ready(Home)' = Ready(Home)
        BY <3>1 DEF Home, Off, InMemory, Ready, Loaded
      <3>3. ASSUME NEW p \in due PROVE pc = "effects" /\ p = "movement"
        BY <3>1 DEF SleepInv, DueIsAhead, Ahead
      <3>4. DueIsAhead'
        BY <2>w, <3>1, <3>2, <3>3 DEF SleepInv, DueIsAhead, Ahead, Passes
      <3>. QED
        BY <3>1, <3>2, <3>4 DEF SleepInv, OwedIsMarked
    <2>11. CASE UNCHANGED vars
      BY <2>11
      DEF vars, residencyVars, rectVars, scheduleVars, ghostVars, SleepInv, DueIsAhead, OwedIsMarked,
          Ahead, Ready, Loaded, InMemory, Home, Off
    <2>. QED
      BY <2>1, <2>2, <2>3, <2>4, <2>5, <2>6, <2>7, <2>8, <2>9, <2>10, <2>11 DEF Next
  <1>. QED
    BY <1>1, <1>2, TypeCorrect, PTL DEF Spec

\* Sleeping loses no work, except in a snapshot that comes back from memory
\* after a write next to it.
THEOREM SleepLosesNothing ==
  ASSUME Kinds = {"plain"}
  PROVE  Spec => []OwedIsAwake
  <1>1. TypeOK /\ SleepInv => OwedIsAwake
    <2> SUFFICES ASSUME TypeOK, SleepInv, InMemory, ~blind, NEW p \in owed
                 PROVE  Off \in Rect(Home)
      BY DEF OwedIsAwake, Off
    <2>1. Off \in sim[Home] \cup prev[Home]
      BY DEF SleepInv, OwedIsMarked, DueIsAhead
    <2>2. sim[Home] \cup prev[Home] \in SUBSET Offsets
      BY WatchedIsPlaced DEF TypeOK
    <2>. QED
      BY <2>1, <2>2, HullCovers DEF Rect
  <1>. QED
    BY <1>1, SleepInvHolds, PTL

\* A tick that finds work in a ready chunk does it.
THEOREM WorkIsDoneInATick ==
  ASSUME Kinds = {"plain"}
  PROVE  Spec => []DeferredAtMostATick
  <1>1. SleepInv => DeferredAtMostATick
    BY DEF SleepInv, DueIsAhead, DeferredAtMostATick, Passes
  <1>. QED
    BY <1>1, SleepInvHolds, PTL
-----------------------------------------------------------------------------
(* Stamps.  Only a rule that writes the watched cell stamps it, and the    *)
(* write marks it: a cell that carries a stamp is inside its chunk's       *)
(* rectangles until the tick that clears it.  A tick clears the stamps of  *)
(* every loaded chunk, and no window runs before the first phase starts.   *)

StampIsMarked == stamp /\ InMemory => Off \in sim[Home] \cup prev[Home]

NoWindowYet == pc \notin Passes \/ phases = Phases => windows = {}

StampInv == StampIsMarked /\ NoWindowYet /\ NoStaleStamp

\* What a window does to the rest of the state.
LEMMA CloseKeepsPlace ==
  ASSUME NEW o \in windows, NEW after, CloseWindow(o, after)
  PROVE  /\ Home' = Home /\ Off' = Off /\ InMemory' = InMemory /\ Loaded(Home)' = Loaded(Home)
         /\ pc' = pc /\ phases' = phases /\ prev' = prev
         /\ windows' = windows \ {o}
  BY DEF CloseWindow, residencyVars, Home, Off, InMemory, Loaded

\* The invariant of the stamps holds in every state.
LEMMA StampInvHolds == Spec => [](TypeOK /\ StampInv)
  <1>1. Init => StampInv
    BY DEF Init, StampInv, StampIsMarked, NoWindowYet, NoStaleStamp
  <1>2. TypeOK /\ StampInv /\ [Next]_vars => StampInv'
    <2> SUFFICES ASSUME TypeOK, StampInv, [Next]_vars PROVE StampInv'
      OBVIOUS
    <2>w. watched \in Positions /\ Home \in Chunks /\ Off \in Offsets /\ Home \in Near(Home, 1)
      BY WatchedIsPlaced
    <2>t. /\ sim \in [Chunks -> SUBSET Offsets] /\ prev \in [Chunks -> SUBSET Offsets]
          /\ kept \subseteq Regions \ loaded /\ windows \subseteq Positions
          /\ stamp \in BOOLEAN
      BY DEF TypeOK, Positions
    <2>n. windows # {} => ~(pc = "effects" /\ phases = Phases)
      BY DEF StampInv, NoWindowYet
    <2>c. ASSUME NEW o \in windows, NEW after, CloseWindow(o, after),
                 sim[Home] \subseteq sim'[Home],
                 stamp' => stamp \/ Off \in sim'[Home]
          PROVE  StampInv'
      <3>1. /\ Home' = Home /\ Off' = Off /\ InMemory' = InMemory
            /\ pc' = pc /\ phases' = phases /\ prev' = prev /\ windows' = windows \ {o}
        BY <2>c, CloseKeepsPlace
      <3>2. StampIsMarked'
        BY <2>c, <3>1 DEF StampInv, StampIsMarked
      <3>3. NoWindowYet' /\ NoStaleStamp'
        BY <2>n, <3>1 DEF StampInv, NoWindowYet, NoStaleStamp
      <3>. QED
        BY <3>2, <3>3 DEF StampInv
    <2>1. ASSUME NEW w \in Cells, WorldWrite(w) PROVE StampInv'
      <3>1. Woken(w) \in SUBSET Positions
        BY ChunksArePositions, CellIsInChunk, NearIsMutual DEF Cells, Woken
      <3>2. /\ pc = "write" /\ pc' = pc /\ phases' = phases /\ windows' = windows
            /\ sim' = Marked(Woken(w), {c \in Chunks : Loaded(c)}) /\ prev' = prev
            /\ stamp' => stamp
            /\ watched' = watched /\ loaded' = loaded /\ kept' = kept
        BY <2>1 DEF WorldWrite, residencyVars, scheduleVars
      <3>3. Home' = Home /\ Off' = Off /\ InMemory' = InMemory
        BY <3>2 DEF Home, Off, InMemory
      <3>4. sim[Home] \subseteq sim'[Home]
        BY <2>w, <2>t, <3>1, <3>2, MarkedCovers
      <3>. QED
        BY <3>2, <3>3, <3>4 DEF StampInv, StampIsMarked, NoWindowYet, NoStaleStamp
    <2>2. CASE ComputeTickets
      BY <2>2
      DEF ComputeTickets, rectVars, scheduleVars, ghostVars, StampInv, StampIsMarked, NoWindowYet,
          NoStaleStamp, InMemory, Home, Off, Passes
    <2>3. ASSUME NEW saved \in SUBSET Regions, SettleSave(saved) PROVE StampInv'
      <3>1. /\ pc = "regions" /\ pc' = pc /\ phases' = phases /\ windows' = windows
            /\ stamp' = stamp /\ watched' = watched /\ loaded' = loaded
            /\ saved \subseteq kept /\ kept' = kept \ saved
            /\ sim' = [c \in Chunks |-> IF RegionOf(c) \in saved THEN {} ELSE sim[c]]
            /\ prev' = [c \in Chunks |-> IF RegionOf(c) \in saved THEN {} ELSE prev[c]]
        BY <2>3 DEF SettleSave, scheduleVars, ghostVars
      <3>2. Home' = Home /\ Off' = Off
        BY <3>1 DEF Home, Off
      <3>3. ASSUME InMemory' PROVE InMemory /\ sim'[Home] = sim[Home] /\ prev'[Home] = prev[Home]
        BY <2>w, <2>t, <3>1, <3>2, <3>3 DEF InMemory
      <3>. QED
        BY <3>1, <3>2, <3>3 DEF StampInv, StampIsMarked, NoWindowYet, NoStaleStamp
    <2>4. ASSUME NEW arriving \in SUBSET Regions, NEW expired \in SUBSET Regions,
                 ManageRegions(arriving, expired)
          PROVE  StampInv'
      <3> DEFINE fresh == arriving \ kept
      <3>1. /\ pc = "regions" /\ pc' = "begin" /\ windows' = windows /\ watched' = watched
            /\ loaded' = (loaded \cup arriving) \ expired
            /\ kept' = (kept \ arriving) \cup expired
            /\ expired \subseteq loaded
            /\ sim' = [c \in Chunks |-> IF RegionOf(c) \in fresh THEN Full ELSE sim[c]]
            /\ prev' = prev
            /\ IF RegionOf(Home) \in fresh THEN stamp' = FALSE ELSE stamp' = stamp
        BY <2>4 DEF ManageRegions, KeptAfter, scheduleVars
      <3>2. Home' = Home /\ Off' = Off
        BY <3>1 DEF Home, Off
      <3>3. RegionOf(Home) \notin fresh => sim'[Home] = sim[Home] /\ (InMemory' => InMemory)
        BY <2>w, <3>1, <3>2 DEF InMemory
      <3>4. StampIsMarked'
        BY <3>1, <3>2, <3>3 DEF StampInv, StampIsMarked
      <3>. QED
        BY <3>1, <3>4 DEF StampInv, NoWindowYet, NoStaleStamp, Passes
    <2>5. CASE BeginTick
      <3>1. /\ pc = "begin" /\ pc' = "effects" /\ windows' = windows
            /\ stamp' = (stamp /\ ~(Loaded(Home) /\ Off \in Rect(Home)))
            /\ prev' = [c \in Chunks |-> IF Ready(c) THEN sim[c] ELSE prev[c]]
            /\ sim' = [c \in Chunks |-> IF Ready(c) THEN {} ELSE sim[c]]
            /\ watched' = watched /\ loaded' = loaded /\ kept' = kept
        BY <2>5 DEF BeginTick, Clears, residencyVars, Off
      <3>2. /\ Home' = Home /\ Off' = Off /\ InMemory' = InMemory
            /\ Loaded(Home)' = Loaded(Home)
        BY <3>1 DEF Home, Off, InMemory, Loaded
      <3>3. ASSUME Loaded(Home) PROVE ~stamp'
        <4>1. InMemory
          BY <3>3 DEF InMemory, Loaded
        <4>2. sim[Home] \cup prev[Home] \subseteq Rect(Home)
          BY <2>w, <2>t, HullCovers DEF Rect
        <4>. QED
          BY <3>1, <3>3, <4>1, <4>2 DEF StampInv, StampIsMarked
      <3>4. ASSUME ~Loaded(Home) PROVE sim'[Home] = sim[Home] /\ prev'[Home] = prev[Home]
        BY <2>w, <3>1, <3>4 DEF Ready
      <3>. QED
        BY <3>1, <3>2, <3>3, <3>4
        DEF StampInv, StampIsMarked, NoWindowYet, NoStaleStamp, Passes
    <2>6. ASSUME NEW f \in Phases, StartPhase(f) PROVE StampInv'
      <3>1. /\ phases' # Phases /\ pc \in Passes /\ pc' = pc
            /\ watched' = watched /\ loaded' = loaded /\ kept' = kept
            /\ sim' = sim /\ prev' = prev /\ stamp' = stamp
        BY <2>6 DEF StartPhase, residencyVars, rectVars, ghostVars
      <3>. QED
        BY <3>1 DEF StampInv, StampIsMarked, NoWindowYet, NoStaleStamp, InMemory, Home, Off
    <2>7. ASSUME NEW o \in windows, RunIdle(o) PROVE StampInv'
      BY <2>7, <2>c DEF RunIdle
    <2>8. ASSUME NEW o \in windows, NEW w \in Writable(o), RunWrite(o, w) PROVE StampInv'
      <3>1. o \in Positions
        BY <2>t
      <3>2. /\ CloseWindow(o, OwedAfter(w, OwedBy(o)))
            /\ sim' = Marked(Woken(w), Slots(o))
            /\ w # watched => stamp' = stamp
        BY <2>8 DEF RunWrite
      <3>3. /\ w \in Positions /\ w \in Woken(w) /\ Woken(w) \in SUBSET Positions
            /\ \A n \in Woken(w) : ChunkOf(n) \in Slots(o)
        <4>1. <<w[1] + 0, w[2] + 0>> \in Near(w, 1)
          BY DEF Near
        <4>2. w \in Positions
          BY <2>8, <3>1, <4>1, WindowHoldsItsReach
        <4>. QED
          BY <2>8, <3>1, <4>2, WindowHoldsItsReach, NearIsMutual DEF Woken
      <3>4. sim[Home] \subseteq sim'[Home] /\ (w = watched => Off \in sim'[Home])
        BY <2>w, <2>t, <3>2, <3>3, MarkedCovers DEF Home, Off
      <3>. QED
        BY <2>c, <3>2, <3>4
    <2>9. ASSUME NEW o \in windows, NEW w \in Evaluated(o), RunMark(o, w) PROVE StampInv'
      <3>1. /\ CloseWindow(o, IF w = watched THEN Passes ELSE OwedBy(o))
            /\ sim' = Marked({w}, Slots(o)) /\ stamp' = stamp
        BY <2>9 DEF RunMark
      <3>2. PICK c \in OwnedChunks(o) : w \in CellsIn(c, Rect(c))
        BY DEF Evaluated
      <3>3. c \in Positions /\ Rect(c) \in SUBSET Offsets
        BY <2>t DEF OwnedChunks, Owned, Positions, Rect, Hull
      <3>4. sim[Home] \subseteq sim'[Home]
        <4>1. w \in Positions
          BY <3>2, <3>3, CellIsInChunk
        <4>. QED
          BY <2>w, <2>t, <3>1, <4>1, MarkedCovers
      <3>. QED
        BY <2>c, <3>1, <3>4
    <2>10. CASE EndPass
      <3>1. /\ windows = {} /\ windows' = {} /\ pc' # "effects"
            /\ watched' = watched /\ loaded' = loaded /\ kept' = kept
            /\ sim' = sim /\ prev' = prev /\ stamp' = stamp
        BY <2>10 DEF EndPass, residencyVars, rectVars, ghostVars, Passes
      <3>. QED
        BY <3>1 DEF StampInv, StampIsMarked, NoWindowYet, NoStaleStamp, InMemory, Home, Off
    <2>11. CASE UNCHANGED vars
      BY <2>11
      DEF vars, residencyVars, rectVars, scheduleVars, ghostVars, StampInv, StampIsMarked,
          NoWindowYet, NoStaleStamp, Loaded, InMemory, Home, Off
    <2>. QED
      BY <2>1, <2>2, <2>3, <2>4, <2>5, <2>6, <2>7, <2>8, <2>9, <2>10, <2>11 DEF Next
  <1>. QED
    BY <1>1, <1>2, TypeCorrect, PTL DEF Spec

\* Whatever the cell is and wherever it has been, no moved stamp in the
\* simulation outlives the beginning of a tick.
THEOREM StampsAreCleared == Spec => []NoStaleStamp
  <1>1. StampInv => NoStaleStamp
    BY DEF StampInv
  <1>. QED
    BY <1>1, StampInvHolds, PTL
=============================================================================
