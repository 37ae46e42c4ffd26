---------------------------- MODULE BodiesProofs -----------------------------
(***************************************************************************)
(* The stamps of the world and the rasters of the bodies tell the same     *)
(* story, bodies lie in what is loaded, minds and bodies match, and no     *)
(* terrain that hangs is forgotten, for every terrain, every size of       *)
(* chunks and regions, every number of players and every figure in one     *)
(* piece that its surroundings reach past.                                 *)
(***************************************************************************)
EXTENDS Bodies, Recursion, FiniteSetTheorems

-----------------------------------------------------------------------------
(* Finite sets of cells, and their order.                                  *)

Plane == Int \X Int
FiniteIn(T) == {S \in SUBSET T : IsFiniteSet(S)}

\* A position is the pair of its coordinates.
LEMMA PointsArePairs ==
  ASSUME NEW p \in Plane
  PROVE  p[1] \in Int /\ p[2] \in Int /\ p = <<p[1], p[2]>>
  BY DEF Plane

\* A shifted position is a position.
LEMMA PlaneShift ==
  ASSUME NEW p \in Plane, NEW o \in Plane
  PROVE  /\ Shift(p, o) \in Plane
         /\ Shift(p, o)[1] = p[1] + o[1] /\ Shift(p, o)[2] = p[2] + o[2]
  BY DEF Shift, Plane

\* Cells are positions, inside the strip.
LEMMA CellsInPlane ==
  /\ Cells \subseteq Plane
  /\ \A p \in Cells : p[1] \in 0..(Width - 1) /\ p[2] \in 0..(Height - 1)
  BY SizeAssumption DEF Cells, Plane

\* There are finitely many cells.
LEMMA CellsAreFinite == IsFiniteSet(Cells) /\ \A S \in SUBSET Cells : IsFiniteSet(S)
  <1>1. Width - 1 \in Int /\ Height - 1 \in Int /\ 0 \in Int
    BY SizeAssumption
  <1>2. IsFiniteSet(Cells)
    BY <1>1, BoxIsFinite DEF Cells
  <1>. QED
    BY <1>2, FS_Subset

\* Positions are in a strict total order.
LEMMA BeforeIsAnOrder ==
  ASSUME NEW p \in Plane, NEW q \in Plane
  PROVE  /\ ~Before(p, p)
         /\ p # q => Before(p, q) \/ Before(q, p)
         /\ \A r \in Plane : Before(p, q) /\ Before(q, r) => Before(p, r)
  <1>1. p = q <=> p[1] = q[1] /\ p[2] = q[2]
    BY PointsArePairs
  <1>2. \A r \in Plane : r[1] \in Int /\ r[2] \in Int
    BY PointsArePairs
  <1>. QED
    BY <1>1, <1>2 DEF Before

\* A rank is less than the number of elements.
LEMMA RankType ==
  ASSUME NEW S \in FiniteIn(Plane), NEW p \in S
  PROVE  Rank(S, p) \in 0..(Cardinality(S) - 1)
  <1> DEFINE T == {q \in S : Before(q, p)}
  <1>1. T \in SUBSET S /\ p \notin T /\ IsFiniteSet(S)
    BY BeforeIsAnOrder DEF FiniteIn
  <1>2. IsFiniteSet(T) /\ Cardinality(T) <= Cardinality(S) /\ Cardinality(T) # Cardinality(S)
    <2> HIDE DEF T
    <2>. QED
      BY <1>1, FS_Subset
  <1>3. Cardinality(T) \in Nat /\ Cardinality(S) \in Nat
    BY <1>1, <1>2, FS_CardinalityType
  <1>4. Rank(S, p) = Cardinality(T)
    BY DEF Rank
  <1> HIDE DEF T
  <1>. QED
    BY <1>2, <1>3, <1>4

\* Ranks follow the order.
LEMMA RanksAscend ==
  ASSUME NEW S \in FiniteIn(Plane), NEW p \in S, NEW q \in S, Before(p, q)
  PROVE  Rank(S, p) < Rank(S, q)
  <1> DEFINE T == {r \in S : Before(r, p)}  U == {r \in S : Before(r, q)}
  <1>1. S \subseteq Plane /\ IsFiniteSet(S)
    BY DEF FiniteIn
  <1>2. T \in SUBSET U /\ p \in U /\ p \notin T /\ U \in SUBSET S
    <2>1. \A r \in S : Before(r, p) => Before(r, q)
      BY <1>1, BeforeIsAnOrder
    <2>. QED
      BY <1>1, <2>1, BeforeIsAnOrder
  <1>3. Rank(S, p) = Cardinality(T) /\ Rank(S, q) = Cardinality(U)
    BY DEF Rank
  <1> HIDE DEF T, U
  <1>4. IsFiniteSet(U) /\ IsFiniteSet(T)
    BY <1>1, <1>2, FS_Subset
  <1>5. Cardinality(T) <= Cardinality(U) /\ Cardinality(T) # Cardinality(U)
    BY <1>2, <1>4, FS_Subset
  <1>. QED
    BY <1>3, <1>4, <1>5, FS_CardinalityType

\* No two elements have the same rank.
LEMMA RanksDiffer ==
  ASSUME NEW S \in FiniteIn(Plane), NEW p \in S, NEW q \in S, Rank(S, p) = Rank(S, q)
  PROVE  p = q
  <1>1. S \subseteq Plane
    BY DEF FiniteIn
  <1>2. SUFFICES ASSUME p # q PROVE FALSE
    OBVIOUS
  <1>3. Before(p, q) \/ Before(q, p)
    BY <1>1, <1>2, BeforeIsAnOrder
  <1>4. Rank(S, p) \in Int /\ Rank(S, q) \in Int
    BY RankType, <1>1
  <1>5. Rank(S, p) < Rank(S, q) \/ Rank(S, q) < Rank(S, p)
    BY <1>3, RanksAscend
  <1>. QED
    BY <1>4, <1>5

\* Every number below the size of a set is the rank of one of its elements:
\* Sorted lists all of them, and no other.
LEMMA RanksAreAttained ==
  ASSUME NEW S \in FiniteIn(Plane)
  PROVE  /\ Cardinality(S) \in Nat
         /\ Sorted(S) \in [1..Cardinality(S) -> S]
         /\ \A p \in S : \E i \in 1..Cardinality(S) : Sorted(S)[i] = p
         /\ \A i \in 1..Cardinality(S) : Rank(S, Sorted(S)[i]) = i - 1
  <1> DEFINE n == Cardinality(S)
             rank == [p \in S |-> Rank(S, p)]
             T == 0..(n - 1)
  <1>1. S \subseteq Plane /\ IsFiniteSet(S) /\ n \in Nat
    BY FS_CardinalityType DEF FiniteIn
  <1>2. rank \in [S -> T]
    BY RankType
  <1>3. \A p, q \in S : Rank(S, p) = Rank(S, q) => p = q
    BY RanksDiffer
  <1>4. rank \in Injection(S, T)
    BY <1>2, <1>3 DEF Injection, IsInjective
  <1>5. IsFiniteSet(T) /\ Cardinality(T) = n
    <2>1. 0 \in Int /\ n - 1 \in Int
      BY <1>1
    <2>2. IsFiniteSet(0..(n - 1)) /\ Cardinality(0..(n - 1)) = IF 0 > n - 1 THEN 0 ELSE n - 1 - 0 + 1
      BY <2>1, FS_Interval
    <2> HIDE DEF n
    <2>. QED
      BY <1>1, <2>2
  <1>6. rank \in Surjection(S, T)
    <2> HIDE DEF rank, T
    <2>. QED
      BY <1>4, <1>5, FS_Injection
  <1>7. \A k \in T : \E p \in S : Rank(S, p) = k
    BY <1>6 DEF Surjection
  <1>8. ASSUME NEW i \in 1..n PROVE Sorted(S)[i] \in S /\ Rank(S, Sorted(S)[i]) = i - 1
    <2>1. i - 1 \in T
      BY <1>1
    <2>2. \E p \in S : Rank(S, p) = i - 1
      BY <1>7, <2>1
    <2>. QED
      BY <2>2 DEF Sorted
  <1>9. ASSUME NEW p \in S PROVE \E i \in 1..n : Sorted(S)[i] = p
    <2>1. Rank(S, p) + 1 \in 1..n /\ (Rank(S, p) + 1) - 1 = Rank(S, p)
      BY RankType, <1>1
    <2>2. Rank(S, Sorted(S)[Rank(S, p) + 1]) = Rank(S, p)
      <3> HIDE DEF n
      <3>. QED
        BY <1>8, <2>1
    <2>. QED
      BY <1>3, <1>8, <2>1, <2>2
  <1>10. Sorted(S) = [i \in 1..n |-> Sorted(S)[i]]
    BY DEF Sorted
  <1>. QED
    BY <1>1, <1>8, <1>9, <1>10

\* A set with elements has a first one.
LEMMA FirstIsThere ==
  ASSUME NEW S \in FiniteIn(Plane), S # {}
  PROVE  First(S) \in S
  <1>1. IsFiniteSet(S) /\ Cardinality(S) \in Nat /\ S \subseteq Plane
    BY FS_CardinalityType DEF FiniteIn
  <1>2. Cardinality(S) # 0
    BY <1>1, FS_EmptySet
  <1>3. 1 \in 1..Cardinality(S)
    BY <1>1, <1>2
  <1>4. PICK p \in S : Rank(S, p) = 0
    <2>1. Sorted(S)[1] \in S /\ Rank(S, Sorted(S)[1]) = 1 - 1
      BY <1>3, RanksAreAttained
    <2>. QED
      BY <2>1
  <1> DEFINE T == {q \in S : Before(q, p)}
  <1>5. T = {}
    <2>1. T \in SUBSET S /\ Cardinality(T) = 0
      BY <1>4 DEF Rank
    <2> HIDE DEF T
    <2>. QED
      BY <1>1, <2>1, FS_Subset, FS_EmptySet
  <1>6. \A q \in S \ {p} : Before(p, q)
    BY <1>1, <1>5, BeforeIsAnOrder
  <1>. QED
    BY <1>6 DEF First
-----------------------------------------------------------------------------
(* The types of bodies and of worlds.                                      *)

Bonded == {m \in Materials : Bondable(m)}
Rasters == (SUBSET Cells) \ {{}}
Shapes == UNION {[S -> Bonded] : S \in Rasters}
BodyTypes == [slots : Shapes, policy : Policies, parked : BOOLEAN]
BodySets == UNION {[D -> BodyTypes] : D \in SUBSET Positive}
Breaks == [source : Positive, at : Cells, parts : SUBSET Positive]
Worlds == [mat : [Cells -> Materials], owner : [Cells -> Nat], bodies : BodySets,
           next : Positive, seeds : FiniteIn(Plane), parked : FiniteIn(Plane \X Plane),
           broken : SUBSET Breaks]

\* What moves as a mind does.
Minds == {"MOB", "PLAYER"}

LEMMA PolicyFacts ==
  /\ Policies = {"DEBRIS", "BALL"} \cup Minds /\ "DEBRIS" \notin Minds /\ Minds \subseteq Policies
  /\ {"DEBRIS", "MOB", "PLAYER"} \subseteq Policies /\ "PLAYER" \in Minds /\ "MOB" \in Minds
  /\ \A b : b.policy \in Policies => (Turns(b) <=> b.policy \notin Minds)
  BY DEF Policies, Minds, Turns

\* What a shape is.
LEMMA ShapeFacts ==
  ASSUME NEW f \in Shapes
  PROVE  DOMAIN f \in Rasters /\ f \in [DOMAIN f -> Bonded]
  BY DEF Shapes

\* What makes a shape.
LEMMA MakeShape ==
  ASSUME NEW S \in Rasters, NEW f \in [S -> Bonded]
  PROVE  f \in Shapes /\ DOMAIN f = S
  BY DEF Shapes

\* What a body is.
LEMMA BodyFacts ==
  ASSUME NEW b \in BodyTypes
  PROVE  /\ b.slots \in Shapes /\ b.policy \in Policies /\ b.parked \in BOOLEAN
         /\ Raster(b) = DOMAIN b.slots /\ Raster(b) \in Rasters
         /\ Raster(b) \subseteq Cells /\ Raster(b) # {}
         /\ b.slots \in [Raster(b) -> Bonded]
         /\ b = [slots |-> b.slots, policy |-> b.policy, parked |-> b.parked]
  <1>1. b.slots \in Shapes /\ b.policy \in Policies /\ b.parked \in BOOLEAN
        /\ b = [slots |-> b.slots, policy |-> b.policy, parked |-> b.parked]
    BY DEF BodyTypes
  <1>2. DOMAIN b.slots \in Rasters /\ b.slots \in [DOMAIN b.slots -> Bonded]
    BY <1>1, ShapeFacts
  <1>3. DOMAIN b.slots \subseteq Cells /\ DOMAIN b.slots # {}
    <2>1. \A S \in Rasters : S \subseteq Cells /\ S # {}
      BY DEF Rasters
    <2>. QED
      BY <1>2, <2>1
  <1>. QED
    BY <1>1, <1>2, <1>3 DEF Raster

\* What makes a body.
LEMMA MakeBody ==
  ASSUME NEW S \in Rasters, NEW f \in [S -> Bonded], NEW s \in Policies, NEW k \in BOOLEAN
  PROVE  /\ [slots |-> f, policy |-> s, parked |-> k] \in BodyTypes
         /\ Raster([slots |-> f, policy |-> s, parked |-> k]) = S
  BY MakeShape DEF BodyTypes, Raster

\* What the bodies of a world are.
LEMMA BodySetFacts ==
  ASSUME NEW f \in BodySets
  PROVE  DOMAIN f \in SUBSET Positive /\ f \in [DOMAIN f -> BodyTypes]
  BY DEF BodySets

\* What makes them.
LEMMA MakeBodySet ==
  ASSUME NEW D \in SUBSET Positive, NEW f \in [D -> BodyTypes]
  PROVE  f \in BodySets /\ DOMAIN f = D
  BY DEF BodySets

\* What a world is.
LEMMA WorldFacts ==
  ASSUME NEW w \in Worlds
  PROVE  /\ w.mat \in [Cells -> Materials] /\ w.owner \in [Cells -> Nat]
         /\ w.bodies \in BodySets
         /\ DOMAIN w.bodies \in SUBSET Positive /\ w.bodies \in [DOMAIN w.bodies -> BodyTypes]
         /\ w.next \in Positive /\ w.seeds \in FiniteIn(Plane)
         /\ w.parked \in FiniteIn(Plane \X Plane) /\ w.broken \in SUBSET Breaks
         /\ w = [mat |-> w.mat, owner |-> w.owner, bodies |-> w.bodies, next |-> w.next,
                 seeds |-> w.seeds, parked |-> w.parked, broken |-> w.broken]
  <1>1. w.bodies \in BodySets
    BY DEF Worlds
  <1>2. DOMAIN w.bodies \in SUBSET Positive /\ w.bodies \in [DOMAIN w.bodies -> BodyTypes]
    BY <1>1, BodySetFacts
  <1>. QED
    BY <1>1, <1>2 DEF Worlds

\* A body of a world lies in some of its cells.
LEMMA RastersInWorld ==
  ASSUME NEW w \in Worlds, NEW id \in DOMAIN w.bodies
  PROVE  /\ w.bodies[id] \in BodyTypes
         /\ Raster(w.bodies[id]) \in Rasters /\ Raster(w.bodies[id]) \subseteq Cells
         /\ Raster(w.bodies[id]) # {}
         /\ id \in Positive
  <1>1. w.bodies[id] \in BodyTypes /\ id \in Positive
    BY WorldFacts
  <1>. QED
    BY <1>1, BodyFacts

\* A new body, and bodies that go.
LEMMA WithBody ==
  ASSUME NEW f \in BodySets, NEW id \in Positive, NEW b \in BodyTypes
  PROVE  /\ With(f, id, b) \in BodySets
         /\ DOMAIN With(f, id, b) = DOMAIN f \cup {id}
         /\ With(f, id, b)[id] = b
         /\ \A i \in DOMAIN f : i # id => With(f, id, b)[i] = f[i]
  <1>1. DOMAIN f \in SUBSET Positive /\ f \in [DOMAIN f -> BodyTypes]
    BY BodySetFacts
  <1>2. DOMAIN f \cup {id} \in SUBSET Positive
    BY <1>1
  <1>3. With(f, id, b) \in [DOMAIN f \cup {id} -> BodyTypes]
    BY <1>1 DEF With
  <1>4. With(f, id, b) \in BodySets
    BY <1>2, <1>3, MakeBodySet
  <1>. QED
    BY <1>4 DEF With

\* Bodies that are dropped, and those that stay.
LEMMA WithoutBodies ==
  ASSUME NEW f \in BodySets, NEW ids
  PROVE  /\ Without(f, ids) \in BodySets
         /\ DOMAIN Without(f, ids) = DOMAIN f \ ids
         /\ \A i \in DOMAIN f \ ids : Without(f, ids)[i] = f[i]
  <1>1. DOMAIN f \in SUBSET Positive /\ f \in [DOMAIN f -> BodyTypes]
    BY BodySetFacts
  <1>2. Without(f, ids) \in [DOMAIN f \ ids -> BodyTypes] /\ DOMAIN f \ ids \in SUBSET Positive
    BY <1>1 DEF Without, Restrict
  <1>3. Without(f, ids) \in BodySets
    BY <1>2, MakeBodySet
  <1>. QED
    BY <1>3 DEF Without, Restrict
-----------------------------------------------------------------------------
(* Writes of cells.                                                        *)

LEMMA FiniteUnion ==
  ASSUME NEW T, NEW S \in FiniteIn(T), NEW U \in SUBSET T, IsFiniteSet(U)
  PROVE  S \cup U \in FiniteIn(T)
  BY FS_Union DEF FiniteIn

\* What a write of several cells changes.
LEMMA WriteFacts ==
  ASSUME NEW w \in Worlds, NEW S \in SUBSET Cells, NEW patch \in [S -> Materials], NEW id \in Nat
  PROVE  /\ Write(w, patch, id) \in Worlds
         /\ Write(w, patch, id).bodies = w.bodies
         /\ Write(w, patch, id).next = w.next
         /\ Write(w, patch, id).parked = w.parked
         /\ Write(w, patch, id).broken = w.broken
         /\ \A p \in Cells :
              /\ Write(w, patch, id).mat[p] = IF p \in S THEN patch[p] ELSE w.mat[p]
              /\ Write(w, patch, id).owner[p] = IF p \in S THEN id ELSE w.owner[p]
  <1> DEFINE T == {p \in DOMAIN patch : Obstructs(w.mat[p]) /\ ~Obstructs(patch[p])}
             m == [p \in Cells |-> IF p \in DOMAIN patch THEN patch[p] ELSE w.mat[p]]
             o == [p \in Cells |-> IF p \in DOMAIN patch THEN id ELSE w.owner[p]]
  <1>1. T \in SUBSET Cells
    OBVIOUS
  <1>2. T \in SUBSET Plane /\ IsFiniteSet(T)
    <2> HIDE DEF T
    <2>. QED
      BY <1>1, CellsAreFinite, CellsInPlane
  <1>3. w.seeds \cup T \in FiniteIn(Plane)
    <2> HIDE DEF T
    <2>. QED
      BY <1>2, WorldFacts, FiniteUnion
  <1>4. m \in [Cells -> Materials] /\ o \in [Cells -> Nat]
    BY WorldFacts
  <1>5. Write(w, patch, id) = [mat |-> m, owner |-> o, bodies |-> w.bodies, next |-> w.next,
                               seeds |-> w.seeds \cup T, parked |-> w.parked, broken |-> w.broken]
    <2>1. w = [mat |-> w.mat, owner |-> w.owner, bodies |-> w.bodies, next |-> w.next,
               seeds |-> w.seeds, parked |-> w.parked, broken |-> w.broken]
      BY WorldFacts
    <2>2. Write(w, patch, id) = [w EXCEPT !.mat = m, !.owner = o, !.seeds = w.seeds \cup T]
      BY Zenon DEF Write
    <2> HIDE DEF m, o, T
    <2>. QED
      BY <2>1, <2>2
  <1>6. DOMAIN patch = S
    OBVIOUS
  <1>7. Write(w, patch, id) \in Worlds
    <2> HIDE DEF T, m, o
    <2>. QED
      BY <1>3, <1>4, <1>5, WorldFacts DEF Worlds
  <1>. QED
    BY <1>5, <1>6, <1>7

\* What a write of one material changes.
LEMMA PutAllFacts ==
  ASSUME NEW w \in Worlds, NEW S \in SUBSET Cells, NEW m \in Materials, NEW id \in Nat
  PROVE  /\ PutAll(w, S, m, id) \in Worlds
         /\ PutAll(w, S, m, id).bodies = w.bodies
         /\ PutAll(w, S, m, id).next = w.next
         /\ PutAll(w, S, m, id).parked = w.parked
         /\ PutAll(w, S, m, id).broken = w.broken
         /\ \A p \in Cells :
              /\ PutAll(w, S, m, id).mat[p] = IF p \in S THEN m ELSE w.mat[p]
              /\ PutAll(w, S, m, id).owner[p] = IF p \in S THEN id ELSE w.owner[p]
  <1> DEFINE patch == [p \in S |-> m]
  <1>1. patch \in [S -> Materials] /\ \A p \in S : patch[p] = m
    OBVIOUS
  <1>2. PutAll(w, S, m, id) = Write(w, patch, id)
    BY DEF PutAll
  <1> HIDE DEF patch
  <1>3. /\ Write(w, patch, id) \in Worlds
        /\ Write(w, patch, id).bodies = w.bodies
        /\ Write(w, patch, id).next = w.next
        /\ Write(w, patch, id).parked = w.parked
        /\ Write(w, patch, id).broken = w.broken
        /\ \A p \in Cells :
             /\ Write(w, patch, id).mat[p] = IF p \in S THEN patch[p] ELSE w.mat[p]
             /\ Write(w, patch, id).owner[p] = IF p \in S THEN id ELSE w.owner[p]
    BY <1>1, WriteFacts
  <1>. QED
    BY <1>1, <1>2, <1>3

\* What filling cells with flesh changes.
LEMMA FleshFacts ==
  ASSUME NEW w \in Worlds, NEW S \in SUBSET Cells
  PROVE  LET v == PutAll(w, S, "flesh", 0)
         IN  /\ v \in Worlds /\ v.bodies = w.bodies /\ v.next = w.next /\ v.broken = w.broken
             /\ v.parked = w.parked
             /\ \A p \in Cells : /\ v.mat[p] = IF p \in S THEN "flesh" ELSE w.mat[p]
                                 /\ v.owner[p] = IF p \in S THEN 0 ELSE w.owner[p]
  <1>1. PICK m \in Materials : m = "flesh"
    BY DEF Materials
  <1>2. PICK n \in Nat : n = 0
    OBVIOUS
  <1>3. PICK v : v = PutAll(w, S, m, n)
    OBVIOUS
  <1>4. /\ v \in Worlds /\ v.bodies = w.bodies /\ v.next = w.next /\ v.parked = w.parked
        /\ v.broken = w.broken
        /\ \A p \in Cells : /\ v.mat[p] = IF p \in S THEN m ELSE w.mat[p]
                            /\ v.owner[p] = IF p \in S THEN n ELSE w.owner[p]
    BY <1>3, PutAllFacts
  <1>. QED
    BY <1>1, <1>2, <1>3, <1>4

\* What a write of one cell changes.
LEMMA PutFacts ==
  ASSUME NEW w \in Worlds, NEW p \in Cells, NEW m \in Materials, NEW id \in Nat
  PROVE  /\ Put(w, p, m, id) \in Worlds
         /\ Put(w, p, m, id).bodies = w.bodies
         /\ Put(w, p, m, id).next = w.next
         /\ Put(w, p, m, id).parked = w.parked
         /\ Put(w, p, m, id).broken = w.broken
         /\ \A q \in Cells :
              /\ Put(w, p, m, id).mat[q] = IF q = p THEN m ELSE w.mat[q]
              /\ Put(w, p, m, id).owner[q] = IF q = p THEN id ELSE w.owner[q]
  <1> DEFINE S == {p}
  <1>1. S \in SUBSET Cells
    OBVIOUS
  <1>4. \A q : q \in S <=> q = p
    OBVIOUS
  <1>2. Put(w, p, m, id) = PutAll(w, S, m, id)
    BY DEF Put
  <1> HIDE DEF S
  <1>5. PICK v : v = PutAll(w, S, m, id)
    OBVIOUS
  <1>3. /\ v \in Worlds /\ v.bodies = w.bodies /\ v.next = w.next /\ v.parked = w.parked
        /\ v.broken = w.broken
        /\ \A q \in Cells : /\ v.mat[q] = IF q \in S THEN m ELSE w.mat[q]
                            /\ v.owner[q] = IF q \in S THEN id ELSE w.owner[q]
    BY <1>1, <1>5, PutAllFacts
  <1>. QED
    BY <1>2, <1>3, <1>4, <1>5

\* What a stamp changes.
LEMMA StampFacts ==
  ASSUME NEW w \in Worlds, NEW S, NEW id \in Nat
  PROVE  /\ Stamp(w, S, id) \in Worlds
         /\ Stamp(w, S, id) = [w EXCEPT !.owner = Stamp(w, S, id).owner]
         /\ Stamp(w, S, id).mat = w.mat
         /\ Stamp(w, S, id).bodies = w.bodies
         /\ Stamp(w, S, id).next = w.next
         /\ Stamp(w, S, id).seeds = w.seeds
         /\ Stamp(w, S, id).parked = w.parked
         /\ Stamp(w, S, id).broken = w.broken
         /\ \A p \in Cells : Stamp(w, S, id).owner[p] = IF p \in S THEN id ELSE w.owner[p]
  <1> DEFINE o == [p \in Cells |-> IF p \in S THEN id ELSE w.owner[p]]
  <1>1. o \in [Cells -> Nat]
    BY WorldFacts
  <1>2. w = [mat |-> w.mat, owner |-> w.owner, bodies |-> w.bodies, next |-> w.next,
             seeds |-> w.seeds, parked |-> w.parked, broken |-> w.broken]
    BY WorldFacts
  <1>3. Stamp(w, S, id) = [mat |-> w.mat, owner |-> o, bodies |-> w.bodies, next |-> w.next,
                           seeds |-> w.seeds, parked |-> w.parked, broken |-> w.broken]
    BY <1>2 DEF Stamp
  <1>4. Stamp(w, S, id) \in Worlds
    <2> HIDE DEF o
    <2>. QED
      BY <1>1, <1>3, WorldFacts DEF Worlds
  <1>. QED
    BY <1>2, <1>3, <1>4

\* The rest of a record, when bodies or the list of seeds change.
LEMMA BodiesField ==
  ASSUME NEW w \in Worlds, NEW f \in BodySets
  PROVE  /\ [w EXCEPT !.bodies = f] \in Worlds
         /\ [w EXCEPT !.bodies = f].bodies = f
         /\ [w EXCEPT !.bodies = f].mat = w.mat
         /\ [w EXCEPT !.bodies = f].owner = w.owner
         /\ [w EXCEPT !.bodies = f].next = w.next
         /\ [w EXCEPT !.bodies = f].seeds = w.seeds
         /\ [w EXCEPT !.bodies = f].parked = w.parked
         /\ [w EXCEPT !.bodies = f].broken = w.broken
  BY DEF Worlds

\* A world with other seeds.
LEMMA SeedsField ==
  ASSUME NEW w \in Worlds, NEW S \in FiniteIn(Plane)
  PROVE  /\ [w EXCEPT !.seeds = S] \in Worlds
         /\ [w EXCEPT !.seeds = S].bodies = w.bodies
         /\ [w EXCEPT !.seeds = S].mat = w.mat
         /\ [w EXCEPT !.seeds = S].owner = w.owner
         /\ [w EXCEPT !.seeds = S].next = w.next
         /\ [w EXCEPT !.seeds = S].parked = w.parked
         /\ [w EXCEPT !.seeds = S].broken = w.broken
  BY DEF Worlds

\* A world with another next id.
LEMMA NextField ==
  ASSUME NEW w \in Worlds, NEW n \in Positive
  PROVE  /\ [w EXCEPT !.next = n] \in Worlds
         /\ [w EXCEPT !.next = n].next = n
         /\ [w EXCEPT !.next = n].bodies = w.bodies
         /\ [w EXCEPT !.next = n].mat = w.mat
         /\ [w EXCEPT !.next = n].owner = w.owner
         /\ [w EXCEPT !.next = n].broken = w.broken
  BY DEF Worlds

\* A write that loosens what it supported adds seeds, and nothing else.
LEMMA DisturbFacts ==
  ASSUME NEW w \in Worlds, NEW S \in SUBSET Cells, NEW m
  PROVE  /\ Disturb(w, S, m) \in Worlds
         /\ Disturb(w, S, m).bodies = w.bodies
         /\ Disturb(w, S, m).mat = w.mat
         /\ Disturb(w, S, m).owner = w.owner
         /\ Disturb(w, S, m).next = w.next
         /\ Disturb(w, S, m).parked = w.parked
         /\ Disturb(w, S, m).broken = w.broken
  <1> DEFINE T == {p \in S : w.mat[p] # m /\ (Bondable(w.mat[p]) \/ Bondable(m))}
  <1>1. T \in SUBSET Cells
    OBVIOUS
  <1>2. Disturb(w, S, m) = [w EXCEPT !.seeds = w.seeds \cup T]
    BY DEF Disturb
  <1> HIDE DEF T
  <1>3. T \in SUBSET Plane /\ IsFiniteSet(T)
    BY <1>1, CellsAreFinite, CellsInPlane
  <1>4. w.seeds \cup T \in FiniteIn(Plane)
    BY <1>3, WorldFacts, FiniteUnion
  <1>. QED
    BY <1>2, <1>4, SeedsField
-----------------------------------------------------------------------------
(* The centre of a body lies within its bounds.                            *)

\* A sum of coordinates lies between as many of the least and of the greatest.
LEMMA TotalIsBounded ==
  ASSUME NEW S \in Rasters, NEW i \in {1, 2}, NEW lo \in Nat, NEW hi \in Nat,
         \A p \in S : p[i] \in lo..hi,
         hi <= Width + Height
  PROVE  /\ Total(S, i) \in Nat
         /\ Cardinality(S) * lo <= Total(S, i) /\ Total(S, i) <= Cardinality(S) * hi
  <1> DEFINE N == Width + Height
             n == Cardinality(S)
             layer(k) == {p \in S : p[i] >= k}
             Adds(g) == g = [k \in 0..N |-> IF k = 0 THEN 0 ELSE g[k - 1] + Cardinality(layer(k))]
             step == [k \in 1..N |-> [x \in Nat |-> x + Cardinality(layer(k))]]
             sum == CHOOSE g : Adds(g)
  <1>1. N \in Nat /\ hi <= N
    BY SizeAssumption
  <1>2. IsFiniteSet(S) /\ n \in Nat /\ S \in SUBSET Cells /\ S # {}
    BY CellsAreFinite, FS_CardinalityType DEF Rasters
  <1>3. ASSUME NEW k \in Nat
        PROVE  /\ Cardinality(layer(k)) \in Nat /\ Cardinality(layer(k)) <= n
               /\ k <= lo => Cardinality(layer(k)) = n
               /\ k > hi => Cardinality(layer(k)) = 0
    <2>1. layer(k) \in SUBSET S
      OBVIOUS
    <2>2. k <= lo => layer(k) = S
      OBVIOUS
    <2>3. k > hi => layer(k) = {}
      OBVIOUS
    <2> HIDE DEF layer
    <2>4. IsFiniteSet(layer(k)) /\ Cardinality(layer(k)) <= n
      BY <1>2, <2>1, FS_Subset
    <2>. QED
      BY <2>2, <2>3, <2>4, FS_CardinalityType, FS_EmptySet
  <1>4. Total(S, i) = sum[N]
    BY DEF Total
  <1> HIDE DEF layer, n, N
  <1>5. step \in [1..N -> [Nat -> Nat]]
    <2>1. \A k \in 1..N : Cardinality(layer(k)) \in Nat
      BY <1>1, <1>3
    <2>. QED
      BY <2>1
  <1>6. PICK s \in [0..N -> Nat] : Runs(s, N, 0, step)
    <2>1. 0 \in Nat
      OBVIOUS
    <2> HIDE DEF step
    <2>. QED
      BY <1>1, <1>5, <2>1, BoundedFunctionExists
  <1>7. Adds(s)
    <2>1. ASSUME NEW k \in 0..N
          PROVE  s[k] = IF k = 0 THEN 0 ELSE s[k - 1] + Cardinality(layer(k))
      <3>1. CASE k = 0
        BY <1>6, <3>1 DEF Runs
      <3>2. CASE k # 0
        <4>1. k \in 1..N /\ k - 1 \in 0..N
          BY <1>1, <3>2
        <4>2. s[k] = step[k][s[k - 1]] /\ s[k - 1] \in Nat
          BY <1>6, <4>1 DEF Runs
        <4>. QED
          BY <3>2, <4>1, <4>2
      <3>. QED
        BY <3>1, <3>2
    <2>. QED
      BY <2>1
  <1>8. Adds(sum)
    BY <1>7
  <1>9. sum[0] = 0 /\ \A k \in 1..N : sum[k] = sum[k - 1] + Cardinality(layer(k))
    <2>1. \A k \in 0..N : sum[k] = IF k = 0 THEN 0 ELSE sum[k - 1] + Cardinality(layer(k))
      BY <1>8
    <2> HIDE DEF sum
    <2>. QED
      BY <1>1, <2>1
  <1> HIDE DEF sum, step
  <1> DEFINE least(k) == IF k <= lo THEN n * k ELSE n * lo
             most(k) == IF k <= hi THEN n * k ELSE n * hi
             T == {k \in 0..N : sum[k] \in Nat /\ least(k) <= sum[k] /\ sum[k] <= most(k)}
  <1>10. 0 \in T
    <2>1. n * 0 = 0
      BY <1>2
    <2>. QED
      BY <1>1, <1>9, <2>1
  <1>11. ASSUME NEW k \in 0..(N - 1), k \in T PROVE k + 1 \in T
    <2>1. k \in Nat /\ k + 1 \in 1..N /\ k + 1 \in Nat /\ (k + 1) - 1 = k
      BY <1>1
    <2>2. sum[k + 1] = sum[k] + Cardinality(layer(k + 1))
      BY <1>9, <2>1
    <2>3. n * (k + 1) = n * k + n
      BY <1>2, <2>1
    <2>4. /\ Cardinality(layer(k + 1)) \in Nat /\ Cardinality(layer(k + 1)) <= n
          /\ k + 1 <= lo => Cardinality(layer(k + 1)) = n
          /\ k + 1 > hi => Cardinality(layer(k + 1)) = 0
      BY <1>3, <2>1
    <2>5. n * k \in Nat /\ n * lo \in Nat /\ n * hi \in Nat
      BY <1>2, <2>1
    <2>6. sum[k + 1] \in Nat
      BY <1>11, <2>2, <2>4
    <2> DEFINE a == n * k  b == n * lo  c == n * hi  x == Cardinality(layer(k + 1))
    <2>i. sum[k] \in Nat /\ least(k) <= sum[k] /\ sum[k] <= most(k)
      BY <1>11
    <2>p. lo \in Nat /\ hi \in Nat /\ n \in Nat
      BY <1>1, <1>2
    <2>r. a \in Nat /\ b \in Nat /\ c \in Nat /\ x \in Nat /\ x <= n /\ sum[k + 1] = sum[k] + x
      BY <2>2, <2>4, <2>5
    <2>7. least(k + 1) <= sum[k + 1]
      <3>1. CASE k + 1 <= lo
        <4>1. k <= lo
          BY <2>1, <2>p, <3>1
        <4>2. least(k) = a /\ least(k + 1) = a + n /\ x = n
          BY <2>3, <2>4, <3>1, <4>1
        <4> HIDE DEF least, a, b, c, x
        <4>. QED
          BY <2>i, <2>p, <2>r, <4>2
      <3>2. CASE k = lo
        <4>1. k <= lo /\ ~(k + 1 <= lo)
          BY <2>1, <2>p, <3>2
        <4>2. least(k) = b /\ least(k + 1) = b
          BY <3>2, <4>1
        <4> HIDE DEF least, a, b, c, x
        <4>. QED
          BY <2>i, <2>r, <4>2
      <3>3. CASE k > lo
        <4>1. ~(k <= lo) /\ ~(k + 1 <= lo)
          BY <2>1, <2>p, <3>3
        <4>2. least(k) = b /\ least(k + 1) = b
          BY <4>1
        <4> HIDE DEF least, a, b, c, x
        <4>. QED
          BY <2>i, <2>r, <4>2
      <3>. QED
        BY <2>1, <2>p, <3>1, <3>2, <3>3
    <2>8. sum[k + 1] <= most(k + 1)
      <3>1. CASE k + 1 <= hi
        <4>1. k <= hi
          BY <2>1, <2>p, <3>1
        <4>2. most(k) = a /\ most(k + 1) = a + n
          BY <2>3, <3>1, <4>1
        <4> HIDE DEF most, a, b, c, x
        <4>. QED
          BY <2>i, <2>p, <2>r, <4>2
      <3>2. CASE k = hi
        <4>1. k <= hi /\ ~(k + 1 <= hi) /\ k + 1 > hi
          BY <2>1, <2>p, <3>2
        <4>2. most(k) = c /\ most(k + 1) = c /\ x = 0
          BY <2>4, <3>2, <4>1
        <4> HIDE DEF most, a, b, c, x
        <4>. QED
          BY <2>i, <2>r, <4>2
      <3>3. CASE k > hi
        <4>1. ~(k <= hi) /\ ~(k + 1 <= hi) /\ k + 1 > hi
          BY <2>1, <2>p, <3>3
        <4>2. most(k) = c /\ most(k + 1) = c /\ x = 0
          BY <2>4, <4>1
        <4> HIDE DEF most, a, b, c, x
        <4>. QED
          BY <2>i, <2>r, <4>2
      <3>. QED
        BY <2>1, <2>p, <3>1, <3>2, <3>3
    <2>. QED
      BY <1>1, <2>1, <2>6, <2>7, <2>8
  <1>12. N \in T
    <2> HIDE DEF T
    <2>1. 0..N \subseteq T
      BY <1>1, <1>10, <1>11, BoundedInduction
    <2>. QED
      BY <1>1, <2>1
  <1>13. lo <= N
    <2>1. PICK p \in S : p[i] \in lo..hi
      BY <1>2
    <2>. QED
      BY <1>1, <2>1
  <1>14. least(N) = n * lo /\ most(N) = n * hi
    BY <1>1, <1>13
  <1>15. sum[N] \in Nat /\ n * lo <= sum[N] /\ sum[N] <= n * hi
    BY <1>12, <1>14
  <1>. QED
    BY <1>4, <1>15 DEF n

\* A mean lies between the least and the greatest.
LEMMA MeanIsWithin ==
  ASSUME NEW S \in Rasters, NEW i \in {1, 2}, NEW lo \in Nat, NEW hi \in Nat,
         \A p \in S : p[i] \in lo..hi,
         hi <= Width + Height
  PROVE  Mean(S, i) \in lo..hi
  <1> DEFINE n == Cardinality(S)  t == Total(S, i)
  <1>1. IsFiniteSet(S) /\ n \in Nat /\ S # {}
    BY CellsAreFinite, FS_CardinalityType DEF Rasters
  <1>2. n # 0
    BY <1>1, FS_EmptySet
  <1>3. t \in Nat /\ n * lo <= t /\ t <= n * hi
    BY TotalIsBounded
  <1>4. Mean(S, i) = (2 * t + n) \div (2 * n)
    BY DEF Mean
  <1> HIDE DEF n, t
  <1>5. 2 * n \in Positive /\ 2 * t + n \in Int
    BY <1>1, <1>2, <1>3 DEF Positive
  <1>6. (2 * n) * lo = 2 * (n * lo) /\ (2 * n) * hi = 2 * (n * hi)
        /\ n * lo \in Nat /\ n * hi \in Nat
    BY <1>1
  <1>7. (2 * n) * lo <= 2 * t + n /\ 2 * t + n < (2 * n) * hi + 2 * n
    BY <1>1, <1>2, <1>3, <1>6
  <1>8. (2 * t + n) \div (2 * n) \in Int
    BY <1>5, Division
  <1>. QED
    BY <1>4, <1>5, <1>7, <1>8, Quotients

\* The anchor of a body is a cell, and no farther from any of its cells than
\* the body is large.
LEMMA AnchorIsWithin ==
  ASSUME NEW b, Raster(b) \in Rasters
  PROVE  /\ Anchor(b) \in Cells
         /\ \A i \in {1, 2}, d \in Nat :
              (\A p, q \in Raster(b) : p[i] - q[i] <= d)
                => \A p \in Raster(b) : p[i] - Anchor(b)[i] <= d /\ Anchor(b)[i] - p[i] <= d
  <1> DEFINE S == Raster(b)
  <1>1. S \in Rasters /\ S \subseteq Cells /\ S # {}
    BY DEF Rasters
  <1>2. Anchor(b) = <<Mean(S, 1), Mean(S, 2)>>
    BY DEF Anchor
  <1>3. \A p \in S : p[1] \in 0..(Width - 1) /\ p[2] \in 0..(Height - 1)
    BY <1>1, CellsInPlane
  <1>4. Width \in Nat /\ Height \in Nat /\ Width - 1 \in Nat /\ Height - 1 \in Nat
    BY SizeAssumption
  <1> HIDE DEF S
  <1>5. Mean(S, 1) \in 0..(Width - 1)
    <2>1. 0 \in Nat /\ Width - 1 <= Width + Height /\ 1 \in {1, 2}
      BY <1>4
    <2>2. \A p \in S : p[1] \in 0..(Width - 1)
      BY <1>3
    <2>. QED
      BY <1>1, <1>4, <2>1, <2>2, MeanIsWithin
  <1>6. Mean(S, 2) \in 0..(Height - 1)
    <2>1. 0 \in Nat /\ Height - 1 <= Width + Height /\ 2 \in {1, 2}
      BY <1>4
    <2>2. \A p \in S : p[2] \in 0..(Height - 1)
      BY <1>3
    <2>. QED
      BY <1>1, <1>4, <2>1, <2>2, MeanIsWithin
  <1>7. ASSUME NEW i \in {1, 2}, NEW d \in Nat, \A p, q \in S : p[i] - q[i] <= d
        PROVE  \A p \in S : p[i] - Mean(S, i) <= d /\ Mean(S, i) - p[i] <= d
    <2> DEFINE T == {p[i] : p \in S}
    <2>1. T \in SUBSET (0..(Width + Height)) /\ T \in SUBSET Nat /\ T # {}
      BY <1>1, <1>3, <1>4
    <2>2. \A p \in S : p[i] \in T
      OBVIOUS
    <2>3. \A x \in T : \E p \in S : x = p[i]
      OBVIOUS
    <2> HIDE DEF T
    <2>4. Min(T) \in T /\ \A y \in T : Min(T) <= y
      BY <2>1, MinIsLeast
    <2>5. Max(T) \in T /\ \A y \in T : y <= Max(T)
      <3>1. Width + Height \in Nat
        BY <1>4
      <3>. QED
        BY <2>1, <3>1, MaxIsGreatest
    <2>6. Mean(S, i) \in Min(T)..Max(T)
      <3>1. Min(T) \in Nat /\ Max(T) \in Nat /\ Max(T) <= Width + Height
        <4>1. Min(T) \in 0..(Width + Height) /\ Max(T) \in 0..(Width + Height)
          BY <2>1, <2>4, <2>5
        <4>. QED
          BY <1>4, <4>1
      <3>2. ASSUME NEW p \in S PROVE p[i] \in Min(T)..Max(T)
        <4>1. p[i] \in Nat /\ Min(T) <= p[i] /\ p[i] <= Max(T)
          BY <2>1, <2>2, <2>4, <2>5
        <4>. QED
          BY <3>1, <4>1
      <3>. QED
        BY <1>1, <3>1, <3>2, MeanIsWithin
    <2>7. Max(T) - Min(T) <= d
      BY <1>7, <2>3, <2>4, <2>5
    <2>8. ASSUME NEW p \in S PROVE p[i] - Mean(S, i) <= d /\ Mean(S, i) - p[i] <= d
      <3>1. p[i] \in Nat /\ Min(T) <= p[i] /\ p[i] <= Max(T) /\ Min(T) \in Nat /\ Max(T) \in Nat
        BY <2>1, <2>2, <2>4, <2>5
      <3> DEFINE a == Min(T)  z == Max(T)  x == p[i]  m == Mean(S, i)
      <3>2. x \in Nat /\ a \in Nat /\ z \in Nat /\ a <= x /\ x <= z /\ m \in a..z /\ z - a <= d
        BY <2>6, <2>7, <3>1
      <3> HIDE DEF a, z, x, m
      <3>3. x - m <= d /\ m - x <= d
        BY <3>2
      <3>. QED
        BY <3>3 DEF x, m
    <2>. QED
      BY <2>8
  <1>8. Anchor(b) \in Cells
    BY <1>2, <1>5, <1>6 DEF Cells
  <1>9. \A i \in {1, 2} : Anchor(b)[i] = Mean(S, i)
    BY <1>2
  <1>. QED
    BY <1>7, <1>8, <1>9 DEF S
-----------------------------------------------------------------------------
(* Worlds whose stamps are claimed, and what spawning, dying, settling and *)
(* going away leave of them.                                               *)

Claimed(w) ==
  \A p \in Cells : w.owner[p] # 0 =>
    w.owner[p] \in DOMAIN w.bodies /\ p \in Raster(w.bodies[w.owner[p]])
Numbered(w) == \A id \in DOMAIN w.bodies : id < w.next
Resident(w) == \A id \in DOMAIN w.bodies : \A p \in Raster(w.bodies[id]) : Loaded(p)
Sound(w) == w \in Worlds /\ Claimed(w) /\ Numbered(w) /\ Resident(w)

\* A body has all its cells, as it remembers them.
Whole(w, id) ==
  \A p \in Raster(w.bodies[id]) : w.owner[p] = id /\ w.mat[p] = w.bodies[id].slots[p]

\* In a sound world the cells that bear the stamp of a body are the cells its
\* stamp is on.
LEMMA BorneFacts ==
  ASSUME NEW w, Sound(w), NEW ids \in SUBSET DOMAIN w.bodies
  PROVE  /\ Borne(w, ids) = {p \in Cells : w.owner[p] \in ids}
         /\ \A id \in ids : Bearing(w, id) = {p \in Cells : w.owner[p] = id}
  <1>1. w \in Worlds /\ Claimed(w) /\ Resident(w)
    BY DEF Sound
  <1>2. ASSUME NEW id \in ids PROVE Bearing(w, id) = {p \in Cells : w.owner[p] = id}
    <2>1. id \in DOMAIN w.bodies /\ id # 0
      BY <1>1, WorldFacts DEF Positive
    <2>2. Raster(w.bodies[id]) \subseteq Cells
      BY <1>1, <2>1, RastersInWorld
    <2>3. \A p \in Raster(w.bodies[id]) : Loaded(p)
      BY <1>1, <2>1 DEF Resident
    <2>4. \A p \in Cells : w.owner[p] = id => p \in Raster(w.bodies[id])
      BY <1>1, <2>1 DEF Claimed
    <2>. QED
      BY <2>2, <2>3, <2>4 DEF Bearing
  <1>3. Borne(w, ids) = UNION {Bearing(w, id) : id \in ids}
    BY DEF Borne
  <1>4. \A p : p \in Borne(w, ids) <=> \E id \in ids : p \in Bearing(w, id)
    BY <1>3
  <1>. QED
    BY <1>2, <1>4

\* Writes that leave stamps alone or take them away.
LEMMA ClaimsStay ==
  ASSUME NEW w, Sound(w), NEW v \in Worlds,
         v.bodies = w.bodies, v.next = w.next,
         \A p \in Cells : v.owner[p] = 0 \/ v.owner[p] = w.owner[p]
  PROVE  Sound(v)
  <1>1. w \in Worlds /\ Claimed(w) /\ Numbered(w) /\ Resident(w)
    BY DEF Sound
  <1>2. Claimed(v)
    BY <1>1 DEF Claimed
  <1>3. Numbered(v) /\ Resident(v)
    BY <1>1 DEF Numbered, Resident
  <1>. QED
    BY <1>2, <1>3 DEF Sound

\* Bodies that go and take their stamps along.
LEMMA ClaimsGo ==
  ASSUME NEW w, Sound(w), NEW ids \in SUBSET DOMAIN w.bodies, NEW v \in Worlds,
         v.bodies = Without(w.bodies, ids), v.next = w.next,
         \A p \in Cells : v.owner[p] = IF w.owner[p] \in ids THEN 0 ELSE w.owner[p],
         \A p \in Cells : w.owner[p] # 0 /\ w.owner[p] \notin ids => v.mat[p] = w.mat[p]
  PROVE  /\ Sound(v)
         /\ DOMAIN v.bodies = DOMAIN w.bodies \ ids
         /\ \A id \in DOMAIN v.bodies :
              v.bodies[id] = w.bodies[id] /\ (Whole(w, id) => Whole(v, id))
  <1>1. w \in Worlds /\ Claimed(w) /\ Numbered(w) /\ Resident(w)
    BY DEF Sound
  <1>2. /\ DOMAIN v.bodies = DOMAIN w.bodies \ ids
        /\ \A id \in DOMAIN v.bodies : v.bodies[id] = w.bodies[id]
    <2>1. w.bodies \in BodySets
      BY <1>1, WorldFacts
    <2>2. /\ DOMAIN Without(w.bodies, ids) = DOMAIN w.bodies \ ids
          /\ \A i \in DOMAIN w.bodies \ ids : Without(w.bodies, ids)[i] = w.bodies[i]
      BY <2>1, WithoutBodies
    <2>. QED
      BY <2>2
  <1>3. Claimed(v)
    BY <1>1, <1>2 DEF Claimed
  <1>4. Numbered(v) /\ Resident(v)
    BY <1>1, <1>2 DEF Numbered, Resident
  <1>5. ASSUME NEW id \in DOMAIN v.bodies, Whole(w, id) PROVE Whole(v, id)
    <2>1. Raster(w.bodies[id]) \subseteq Cells /\ id # 0
      BY <1>1, <1>2, RastersInWorld DEF Positive
    <2>. QED
      BY <1>2, <1>5, <2>1 DEF Whole
  <1>. QED
    BY <1>2, <1>3, <1>4, <1>5 DEF Sound

\* Bodies that settle leave a sound world, and the others as they were.
LEMMA SettleKeeps ==
  ASSUME NEW w, Sound(w), NEW ids \in SUBSET DOMAIN w.bodies
  PROVE  LET v == Settle(w, ids)
         IN  /\ Sound(v)
             /\ v.next = w.next /\ v.broken = w.broken
             /\ DOMAIN v.bodies = DOMAIN w.bodies \ ids
             /\ \A id \in DOMAIN v.bodies :
                  v.bodies[id] = w.bodies[id] /\ (Whole(w, id) => Whole(v, id))
  <1> DEFINE v == Settle(w, ids)  S == Borne(w, ids)  f == Without(w.bodies, ids)
  <1>1. w \in Worlds
    BY DEF Sound
  <1>2. f \in BodySets
    BY <1>1, WorldFacts, WithoutBodies
  <1>3. v = [Stamp(w, S, 0) EXCEPT !.bodies = f]
    <2>1. Stamp(w, S, 0).bodies = w.bodies
      BY <1>1, StampFacts
    <2>. QED
      BY <2>1 DEF Settle
  <1>4. S = {p \in Cells : w.owner[p] \in ids}
    BY BorneFacts
  <1> HIDE DEF f, S, v
  <1>5. Stamp(w, S, 0) \in Worlds
    BY <1>1, StampFacts
  <1>6. /\ v \in Worlds /\ v.bodies = f /\ v.next = w.next /\ v.broken = w.broken
        /\ v.mat = w.mat
        /\ \A p \in Cells : v.owner[p] = IF p \in S THEN 0 ELSE w.owner[p]
    BY <1>1, <1>2, <1>3, <1>5, StampFacts, BodiesField
  <1>7. /\ \A p \in Cells : v.owner[p] = IF w.owner[p] \in ids THEN 0 ELSE w.owner[p]
        /\ \A p \in Cells : w.owner[p] # 0 /\ w.owner[p] \notin ids => v.mat[p] = w.mat[p]
    BY <1>4, <1>6
  <1>8. v.bodies = Without(w.bodies, ids)
    BY <1>6 DEF f
  <1>9. /\ Sound(v)
        /\ DOMAIN v.bodies = DOMAIN w.bodies \ ids
        /\ \A id \in DOMAIN v.bodies :
             v.bodies[id] = w.bodies[id] /\ (Whole(w, id) => Whole(v, id))
    BY <1>6, <1>7, <1>8, ClaimsGo
  <1>. QED
    BY <1>6, <1>9 DEF v

\* So do bodies that are removed with their cells.
LEMMA DespawnKeeps ==
  ASSUME NEW w, Sound(w), NEW ids \in SUBSET DOMAIN w.bodies
  PROVE  LET v == Despawn(w, ids)
         IN  /\ Sound(v)
             /\ v.next = w.next /\ v.broken = w.broken
             /\ DOMAIN v.bodies = DOMAIN w.bodies \ ids
             /\ \A id \in DOMAIN v.bodies :
                  v.bodies[id] = w.bodies[id] /\ (Whole(w, id) => Whole(v, id))
  <1> DEFINE v == Despawn(w, ids)  S == Borne(w, ids)  f == Without(w.bodies, ids)
             u == PutAll(w, S, "air", 0)
  <1>1. w \in Worlds /\ "air" \in Materials
    BY DEF Sound, Materials
  <1>2. f \in BodySets
    BY <1>1, WorldFacts, WithoutBodies
  <1>3. S = {p \in Cells : w.owner[p] \in ids}
    BY BorneFacts
  <1> HIDE DEF f
  <1>4. /\ u \in Worlds /\ u.bodies = w.bodies /\ u.next = w.next /\ u.broken = w.broken
        /\ \A p \in Cells :
             /\ u.mat[p] = IF p \in S THEN "air" ELSE w.mat[p]
             /\ u.owner[p] = IF p \in S THEN 0 ELSE w.owner[p]
    <2>1. S \in SUBSET Cells
      BY <1>3
    <2> HIDE DEF S
    <2>. QED
      BY <1>1, <2>1, PutAllFacts
  <1>5. v = [u EXCEPT !.bodies = f]
    BY <1>4 DEF Despawn, f
  <1> HIDE DEF S, u, v
  <1>6. /\ v \in Worlds /\ v.bodies = f /\ v.next = w.next /\ v.broken = w.broken
        /\ \A p \in Cells : v.mat[p] = u.mat[p] /\ v.owner[p] = u.owner[p]
    BY <1>2, <1>4, <1>5, BodiesField
  <1>7. /\ \A p \in Cells : v.owner[p] = IF w.owner[p] \in ids THEN 0 ELSE w.owner[p]
        /\ \A p \in Cells : w.owner[p] # 0 /\ w.owner[p] \notin ids => v.mat[p] = w.mat[p]
    BY <1>3, <1>4, <1>6
  <1>8. v.bodies = Without(w.bodies, ids)
    BY <1>6 DEF f
  <1>9. /\ Sound(v)
        /\ DOMAIN v.bodies = DOMAIN w.bodies \ ids
        /\ \A id \in DOMAIN v.bodies :
             v.bodies[id] = w.bodies[id] /\ (Whole(w, id) => Whole(v, id))
    BY <1>6, <1>7, <1>8, ClaimsGo
  <1>. QED
    BY <1>6, <1>9 DEF v

\* A corpse is a body with the raster of the living one.
LEMMA CorpseFacts ==
  ASSUME NEW w, Sound(w), NEW id \in DOMAIN w.bodies
  PROVE  /\ Corpse(w, id) \in BodyTypes
         /\ Raster(Corpse(w, id)) = Raster(w.bodies[id])
         /\ Corpse(w, id).policy = "DEBRIS"
         /\ \A p \in Raster(w.bodies[id]) :
              Corpse(w, id).slots[p] = IF w.owner[p] = id THEN "corpse" ELSE w.bodies[id].slots[p]
  <1> DEFINE b == w.bodies[id]  S == Raster(b)
             f == [p \in S |-> IF p \in Bearing(w, id) THEN "corpse" ELSE b.slots[p]]
  <1>1. b \in BodyTypes /\ S \in Rasters /\ S \subseteq Cells
    BY RastersInWorld DEF Sound
  <1>2. b.slots \in [S -> Bonded] /\ b.parked \in BOOLEAN
    BY <1>1, BodyFacts
  <1>3. "corpse" \in Bonded
    BY DEF Bonded, Materials, Bondable
  <1>4. f \in [S -> Bonded]
    BY <1>2, <1>3
  <1>5. Bearing(w, id) = {p \in Cells : w.owner[p] = id}
    <2>1. {id} \in SUBSET DOMAIN w.bodies
      OBVIOUS
    <2>. QED
      BY <2>1, BorneFacts
  <1>6. Corpse(w, id) = [slots |-> f, policy |-> "DEBRIS", parked |-> b.parked]
    BY DEF Corpse
  <1>7. \A p \in S : f[p] = IF w.owner[p] = id THEN "corpse" ELSE b.slots[p]
    BY <1>1, <1>5
  <1>8. Corpse(w, id) \in BodyTypes /\ Raster(Corpse(w, id)) = S
    <2> HIDE DEF f, S, b
    <2>1. "DEBRIS" \in Policies
      BY PolicyFacts
    <2>2. /\ [slots |-> f, policy |-> "DEBRIS", parked |-> b.parked] \in BodyTypes
          /\ Raster([slots |-> f, policy |-> "DEBRIS", parked |-> b.parked]) = S
      BY <1>1, <1>2, <1>4, <2>1, MakeBody
    <2>. QED
      BY <1>6, <2>2
  <1> HIDE DEF f
  <1>. QED
    BY <1>6, <1>7, <1>8

\* Deaths leave a sound world with the same bodies, which may now settle.
LEMMA DieKeeps ==
  ASSUME NEW w, Sound(w), NEW ids
  PROVE  LET v == Die(w, ids)
         IN  /\ Sound(v)
             /\ v.next = w.next /\ v.broken = w.broken
             /\ v.owner = w.owner
             /\ DOMAIN v.bodies = DOMAIN w.bodies
             /\ \A id \in DOMAIN v.bodies :
                  /\ Raster(v.bodies[id]) = Raster(w.bodies[id])
                  /\ id \in ids => v.bodies[id].policy = "DEBRIS"
                  /\ id \notin ids => v.bodies[id] = w.bodies[id]
                  /\ Whole(w, id) => Whole(v, id)
  <1> DEFINE v == Die(w, ids)
             dying == ids \cap DOMAIN w.bodies
             S == Borne(w, dying)
             m == [p \in Cells |-> IF p \in S THEN "corpse" ELSE w.mat[p]]
             f == [id \in DOMAIN w.bodies |-> IF id \in dying THEN Corpse(w, id) ELSE w.bodies[id]]
  <1>1. w \in Worlds /\ Claimed(w) /\ Numbered(w) /\ Resident(w)
    BY DEF Sound
  <1>2. dying \in SUBSET DOMAIN w.bodies
    OBVIOUS
  <1>3. S = {p \in Cells : w.owner[p] \in dying}
    <2> HIDE DEF dying
    <2>. QED
      BY <1>2, BorneFacts
  <1>4. m \in [Cells -> Materials]
    <2>1. "corpse" \in Materials /\ w.mat \in [Cells -> Materials]
      BY <1>1, WorldFacts DEF Materials
    <2>. QED
      BY <2>1
  <1>5. f \in BodySets /\ DOMAIN f = DOMAIN w.bodies
    <2>1. DOMAIN w.bodies \in SUBSET Positive /\ \A id \in DOMAIN w.bodies : w.bodies[id] \in BodyTypes
      BY <1>1, WorldFacts
    <2>2. f \in [DOMAIN w.bodies -> BodyTypes]
      BY <2>1, CorpseFacts
    <2> HIDE DEF f
    <2>. QED
      BY <2>1, <2>2, MakeBodySet
  <1>6. v = [w EXCEPT !.mat = m, !.bodies = f]
    BY Zenon DEF Die
  <1>7. \A p \in Cells : m[p] = IF p \in S THEN "corpse" ELSE w.mat[p]
    OBVIOUS
  <1>8. \A id \in DOMAIN w.bodies : f[id] = IF id \in dying THEN Corpse(w, id) ELSE w.bodies[id]
    OBVIOUS
  <1> HIDE DEF m, f, S, v, dying
  <1>9. /\ v \in Worlds /\ v.mat = m /\ v.bodies = f /\ v.owner = w.owner
        /\ v.next = w.next /\ v.broken = w.broken
    BY <1>1, <1>4, <1>5, <1>6 DEF Worlds
  <1>10. ASSUME NEW id \in DOMAIN w.bodies
         PROVE  /\ Raster(v.bodies[id]) = Raster(w.bodies[id])
                /\ id \in ids => v.bodies[id].policy = "DEBRIS"
                /\ id \notin ids => v.bodies[id] = w.bodies[id]
                /\ Whole(w, id) => Whole(v, id)
    <2>1. Raster(w.bodies[id]) \subseteq Cells
      BY <1>1, RastersInWorld
    <2>2. CASE id \in ids
      <3>1. id \in dying
        BY <2>2 DEF dying
      <3>2. v.bodies[id] = Corpse(w, id)
        BY <1>8, <1>9, <3>1
      <3>a. /\ Raster(Corpse(w, id)) = Raster(w.bodies[id]) /\ Corpse(w, id).policy = "DEBRIS"
            /\ \A p \in Raster(w.bodies[id]) : Corpse(w, id).slots[p] =
                 IF w.owner[p] = id THEN "corpse" ELSE w.bodies[id].slots[p]
        BY CorpseFacts
      <3>3. Raster(v.bodies[id]) = Raster(w.bodies[id]) /\ v.bodies[id].policy = "DEBRIS"
        BY <3>2, <3>a
      <3>4. ASSUME Whole(w, id), NEW p \in Raster(w.bodies[id])
            PROVE  v.owner[p] = id /\ v.mat[p] = v.bodies[id].slots[p]
        <4>1. w.owner[p] = id /\ p \in Cells
          BY <2>1, <3>4 DEF Whole
        <4>2. p \in S
          BY <1>3, <3>1, <4>1
        <4>3. v.bodies[id].slots[p] = "corpse"
          BY <3>2, <3>4, <3>a, <4>1
        <4>. QED
          BY <1>7, <1>9, <4>1, <4>2, <4>3
      <3>. QED
        BY <2>2, <3>3, <3>4 DEF Whole
    <2>3. CASE id \notin ids
      <3>1. id \notin dying
        BY <2>3 DEF dying
      <3>2. v.bodies[id] = w.bodies[id]
        BY <1>8, <1>9, <3>1
      <3>3. ASSUME Whole(w, id), NEW p \in Raster(w.bodies[id])
            PROVE  v.owner[p] = id /\ v.mat[p] = v.bodies[id].slots[p]
        <4>1. w.owner[p] = id /\ p \in Cells /\ w.mat[p] = w.bodies[id].slots[p]
          BY <2>1, <3>3 DEF Whole
        <4>2. p \notin S
          BY <1>3, <3>1, <4>1
        <4>. QED
          BY <1>7, <1>9, <3>2, <4>1, <4>2
      <3>. QED
        BY <2>3, <3>2, <3>3 DEF Whole
    <2>. QED
      BY <2>2, <2>3
  <1>11. Claimed(v) /\ Numbered(v) /\ Resident(v)
    BY <1>1, <1>5, <1>9, <1>10 DEF Claimed, Numbered, Resident
  <1>. QED
    BY <1>5, <1>9, <1>10, <1>11 DEF Sound, v

\* In v a body b with the id has the cells of its raster, and nothing that the
\* others have in w.
Claims(w, v, id, b) ==
  /\ v.bodies = With(w.bodies, id, b)
  /\ id < v.next /\ w.next <= v.next
  /\ \A p \in Raster(b) : /\ Loaded(p) /\ v.owner[p] = id /\ v.mat[p] = b.slots[p]
                          /\ w.owner[p] = 0 \/ w.owner[p] = id
  /\ \A p \in Cells \ Raster(b) :
       /\ v.owner[p] # id /\ (v.owner[p] = 0 \/ v.owner[p] = w.owner[p])
       /\ w.owner[p] # id => v.owner[p] = w.owner[p] /\ (w.owner[p] # 0 => v.mat[p] = w.mat[p])

\* The body is there and whole, and the others are as they were.
Came(w, v, id, b) ==
  /\ Sound(v) /\ Whole(v, id)
  /\ DOMAIN v.bodies = DOMAIN w.bodies \cup {id} /\ v.bodies[id] = b
  /\ \A j \in DOMAIN w.bodies : j # id =>
       v.bodies[j] = w.bodies[j] /\ (Whole(w, j) => Whole(v, j))

\* A body comes, or changes its shape, and stamps its cells.
LEMMA ClaimsCome ==
  ASSUME NEW w, Sound(w), NEW id \in Positive, NEW b \in BodyTypes, NEW v \in Worlds,
         Claims(w, v, id, b)
  PROVE  Came(w, v, id, b)
  <1>c. /\ v.bodies = With(w.bodies, id, b)
        /\ id < v.next /\ w.next <= v.next
        /\ \A p \in Raster(b) : /\ Loaded(p) /\ v.owner[p] = id /\ v.mat[p] = b.slots[p]
                                /\ w.owner[p] = 0 \/ w.owner[p] = id
        /\ \A p \in Cells \ Raster(b) :
             /\ v.owner[p] # id /\ (v.owner[p] = 0 \/ v.owner[p] = w.owner[p])
             /\ w.owner[p] # id => v.owner[p] = w.owner[p]
                                   /\ (w.owner[p] # 0 => v.mat[p] = w.mat[p])
    BY DEF Claims
  <1>1. w \in Worlds /\ Claimed(w) /\ Numbered(w) /\ Resident(w) /\ w.bodies \in BodySets
    BY WorldFacts DEF Sound
  <1>2. /\ DOMAIN v.bodies = DOMAIN w.bodies \cup {id} /\ v.bodies[id] = b
        /\ \A j \in DOMAIN w.bodies : j # id => v.bodies[j] = w.bodies[j]
    <2>1. /\ DOMAIN With(w.bodies, id, b) = DOMAIN w.bodies \cup {id}
          /\ With(w.bodies, id, b)[id] = b
          /\ \A i \in DOMAIN w.bodies : i # id => With(w.bodies, id, b)[i] = w.bodies[i]
      BY <1>1, WithBody
    <2>2. v.bodies = With(w.bodies, id, b)
      BY <1>c
    <2>. QED
      BY <2>1, <2>2, Zenon
  <1>3. Raster(b) \subseteq Cells /\ id # 0
    BY BodyFacts DEF Positive
  <1>4. Claimed(v)
    <2>1. SUFFICES ASSUME NEW p \in Cells, v.owner[p] # 0
                   PROVE  v.owner[p] \in DOMAIN v.bodies /\ p \in Raster(v.bodies[v.owner[p]])
      BY DEF Claimed
    <2>2. CASE p \in Raster(b)
      BY <1>2, <1>c, <2>2
    <2>3. CASE p \notin Raster(b)
      <3>1. v.owner[p] = w.owner[p] /\ w.owner[p] # 0 /\ w.owner[p] # id
        BY <1>c, <2>1, <2>3
      <3>2. w.owner[p] \in DOMAIN w.bodies /\ p \in Raster(w.bodies[w.owner[p]])
        BY <1>1, <3>1 DEF Claimed
      <3>. QED
        BY <1>2, <3>1, <3>2
    <2>. QED
      BY <2>2, <2>3
  <1>5. Numbered(v)
    <2>1. \A j \in DOMAIN w.bodies : j < w.next /\ j \in Nat
      BY <1>1, WorldFacts DEF Numbered, Positive
    <2>2. w.next \in Nat /\ v.next \in Nat
      BY <1>1, WorldFacts DEF Positive
    <2>. QED
      BY <1>2, <1>c, <2>1, <2>2 DEF Numbered
  <1>6. Resident(v)
    BY <1>1, <1>2, <1>c DEF Resident
  <1>7. Whole(v, id)
    BY <1>2, <1>c DEF Whole
  <1>8. ASSUME NEW j \in DOMAIN w.bodies, j # id, Whole(w, j) PROVE Whole(v, j)
    <2>1. Raster(w.bodies[j]) \subseteq Cells /\ j # 0
      BY <1>1, RastersInWorld DEF Positive
    <2>2. ASSUME NEW p \in Raster(w.bodies[j])
          PROVE  v.owner[p] = j /\ v.mat[p] = w.bodies[j].slots[p]
      <3>1. w.owner[p] = j /\ w.mat[p] = w.bodies[j].slots[p] /\ p \in Cells
        BY <1>8, <2>1 DEF Whole
      <3>2. p \notin Raster(b)
        BY <1>c, <1>8, <2>1, <3>1
      <3>. QED
        BY <1>c, <1>8, <2>1, <3>1, <3>2
    <2>. QED
      BY <1>2, <1>8, <2>2 DEF Whole
  <1>9. Sound(v)
    BY <1>4, <1>5, <1>6 DEF Sound
  <1>. QED
    BY <1>2, <1>7, <1>8, <1>9 DEF Came

\* Nothing but how bodies are held changes.
LEMMA ShapesStay ==
  ASSUME NEW w, Sound(w), NEW v \in Worlds,
         v.mat = w.mat, v.owner = w.owner, v.next = w.next, DOMAIN v.bodies = DOMAIN w.bodies,
         \A id \in DOMAIN w.bodies : v.bodies[id].slots = w.bodies[id].slots
  PROVE  Sound(v) /\ \A id \in DOMAIN w.bodies : Whole(v, id) <=> Whole(w, id)
  BY DEF Sound, Claimed, Numbered, Resident, Whole, Raster

\* A body that is parked keeps its cells.
LEMMA ParkKeeps ==
  ASSUME NEW w, Sound(w), NEW id \in DOMAIN w.bodies
  PROVE  LET v == [w EXCEPT !.bodies = With(@, id, [w.bodies[id] EXCEPT !.parked = TRUE])]
         IN  /\ Sound(v) /\ v.next = w.next /\ v.broken = w.broken
             /\ v.mat = w.mat /\ v.owner = w.owner /\ v.seeds = w.seeds /\ v.parked = w.parked
             /\ DOMAIN v.bodies = DOMAIN w.bodies
             /\ \A j \in DOMAIN w.bodies :
                  /\ v.bodies[j].slots = w.bodies[j].slots
                  /\ v.bodies[j].policy = w.bodies[j].policy
                  /\ Whole(v, j) <=> Whole(w, j)
  <1> DEFINE b == w.bodies[id]  c == [b EXCEPT !.parked = TRUE]
             f == With(w.bodies, id, c)
             v == [w EXCEPT !.bodies = With(@, id, c)]
  <1>1. w \in Worlds /\ w.bodies \in BodySets /\ id \in Positive
    BY WorldFacts DEF Sound
  <1>2. b \in BodyTypes
    BY <1>1, RastersInWorld
  <1>3. c \in BodyTypes /\ c.slots = b.slots /\ c.policy = b.policy
    BY <1>2 DEF BodyTypes
  <1>4. f \in BodySets /\ DOMAIN f = DOMAIN w.bodies \cup {id} /\ f[id] = c
        /\ \A i \in DOMAIN w.bodies : i # id => f[i] = w.bodies[i]
    <2> HIDE DEF c
    <2>. QED
      BY <1>1, <1>3, WithBody
  <1>5. v = [w EXCEPT !.bodies = f]
    OBVIOUS
  <1> HIDE DEF f, c, v
  <1>6. /\ v \in Worlds /\ v.bodies = f /\ v.mat = w.mat /\ v.owner = w.owner
        /\ v.next = w.next /\ v.broken = w.broken /\ v.seeds = w.seeds /\ v.parked = w.parked
    BY <1>1, <1>4, <1>5, BodiesField
  <1>7. /\ DOMAIN v.bodies = DOMAIN w.bodies
        /\ \A j \in DOMAIN w.bodies :
             v.bodies[j].slots = w.bodies[j].slots /\ v.bodies[j].policy = w.bodies[j].policy
    BY <1>3, <1>4, <1>6
  <1>8. Sound(v) /\ \A j \in DOMAIN w.bodies : Whole(v, j) <=> Whole(w, j)
    BY <1>6, <1>7, ShapesStay
  <1>. QED
    BY <1>6, <1>7, <1>8 DEF v, c, b

\* A new body is there, and the others are as they were.
Captured(w, v, S, policy) ==
  /\ Sound(v) /\ Whole(v, w.next)
  /\ v.next = w.next + 1 /\ v.broken = w.broken
  /\ v.seeds = w.seeds /\ v.parked = w.parked
  /\ DOMAIN v.bodies = DOMAIN w.bodies \cup {w.next} /\ w.next \notin DOMAIN w.bodies
  /\ v.bodies[w.next].policy = policy /\ Raster(v.bodies[w.next]) = S
  /\ \A j \in DOMAIN w.bodies :
       v.bodies[j] = w.bodies[j] /\ (Whole(w, j) => Whole(v, j))

\* Cells of terrain become a new body.
LEMMA CaptureKeeps ==
  ASSUME NEW w, Sound(w), NEW S \in Rasters, NEW policy \in Policies,
         \A p \in S : Loaded(p) /\ w.owner[p] = 0 /\ w.mat[p] \in Bonded
  PROVE  Captured(w, [Capture(w, w.next, S, policy) EXCEPT !.next = @ + 1], S, policy)
  <1> DEFINE id == w.next
             b == [slots |-> Restrict(w.mat, S), policy |-> policy, parked |-> FALSE]
             f == With(w.bodies, id, b)
             u == Stamp(w, S, id)
             v == [Capture(w, id, S, policy) EXCEPT !.next = @ + 1]
  <1>1. w \in Worlds /\ Claimed(w) /\ Numbered(w) /\ w.bodies \in BodySets
        /\ id \in Positive /\ id \in Nat /\ S \subseteq Cells
    BY WorldFacts DEF Sound, Positive, Rasters
  <1>2. id \notin DOMAIN w.bodies
    <2>1. \A j \in DOMAIN w.bodies : j < id /\ j \in Nat
      BY <1>1, WorldFacts DEF Numbered, Positive
    <2>. QED
      BY <1>1, <2>1
  <1>3. Restrict(w.mat, S) \in [S -> Bonded] /\ \A p \in S : Restrict(w.mat, S)[p] = w.mat[p]
    BY DEF Restrict
  <1>4. b \in BodyTypes /\ Raster(b) = S
    BY <1>3, MakeBody
  <1>5. b.slots = Restrict(w.mat, S) /\ b.policy = policy
    OBVIOUS
  <1> HIDE DEF b
  <1>6. f \in BodySets
    BY <1>1, <1>4, WithBody
  <1>7. /\ u \in Worlds /\ u.bodies = w.bodies /\ u.mat = w.mat /\ u.next = id
        /\ u.broken = w.broken /\ u.seeds = w.seeds /\ u.parked = w.parked
        /\ \A p \in Cells : u.owner[p] = IF p \in S THEN id ELSE w.owner[p]
    BY <1>1, StampFacts
  <1>8. Capture(w, id, S, policy) = [u EXCEPT !.bodies = f]
    BY <1>7 DEF Capture, b
  <1> HIDE DEF u, f
  <1>9. /\ [u EXCEPT !.bodies = f] \in Worlds
        /\ [u EXCEPT !.bodies = f].bodies = f /\ [u EXCEPT !.bodies = f].next = id
        /\ [u EXCEPT !.bodies = f].mat = w.mat /\ [u EXCEPT !.bodies = f].owner = u.owner
        /\ [u EXCEPT !.bodies = f].broken = w.broken /\ [u EXCEPT !.bodies = f].seeds = w.seeds
        /\ [u EXCEPT !.bodies = f].parked = w.parked
    BY <1>6, <1>7, BodiesField
  <1>10. id + 1 \in Positive
    BY <1>1 DEF Positive
  <1>11. v = [[u EXCEPT !.bodies = f] EXCEPT !.next = id + 1]
    BY <1>8, <1>9
  <1> DEFINE t == [u EXCEPT !.bodies = f]
  <1> HIDE DEF t, v, id
  <1>12. t \in Worlds /\ v = [t EXCEPT !.next = id + 1]
    BY <1>9, <1>11 DEF t
  <1>13. /\ v \in Worlds /\ v.bodies = f /\ v.next = id + 1 /\ v.mat = w.mat /\ v.owner = u.owner
         /\ v.broken = w.broken /\ v.seeds = w.seeds /\ v.parked = w.parked
    <2>1. /\ t.bodies = f /\ t.mat = w.mat /\ t.owner = u.owner
          /\ t.broken = w.broken /\ t.seeds = w.seeds /\ t.parked = w.parked
      BY <1>9 DEF t
    <2>. QED
      BY <1>10, <1>12, <2>1 DEF Worlds
  <1>14. \A p \in Raster(b) : /\ Loaded(p) /\ v.owner[p] = id /\ v.mat[p] = b.slots[p]
                              /\ w.owner[p] = 0 \/ w.owner[p] = id
    BY <1>1, <1>3, <1>4, <1>5, <1>7, <1>13
  <1>15. \A p \in Cells : w.owner[p] # id
    BY <1>1, <1>2 DEF Claimed, Positive
  <1>16. \A p \in Cells \ Raster(b) :
           /\ v.owner[p] # id /\ (v.owner[p] = 0 \/ v.owner[p] = w.owner[p])
           /\ w.owner[p] # id => v.owner[p] = w.owner[p] /\ (w.owner[p] # 0 => v.mat[p] = w.mat[p])
    BY <1>4, <1>7, <1>13, <1>15
  <1>17. v.bodies = With(w.bodies, id, b) /\ id < v.next /\ w.next <= v.next
    BY <1>1, <1>13 DEF f, id
  <1>18. Came(w, v, id, b)
    <2>1. Claims(w, v, id, b)
      BY <1>14, <1>16, <1>17 DEF Claims
    <2>. QED
      BY <1>1, <1>4, <1>13, <2>1, ClaimsCome
  <1>19. /\ Sound(v) /\ Whole(v, id)
         /\ DOMAIN v.bodies = DOMAIN w.bodies \cup {id} /\ v.bodies[id] = b
         /\ \A j \in DOMAIN w.bodies : j # id =>
              v.bodies[j] = w.bodies[j] /\ (Whole(w, j) => Whole(v, j))
    BY <1>18 DEF Came
  <1>20. Captured(w, v, S, policy)
    BY <1>2, <1>4, <1>5, <1>13, <1>19 DEF Captured, id
  <1>. QED
    BY <1>20 DEF v, id

\* A body spawned in free cells with the next id owns them, and takes nothing
\* from the others.
LEMMA SpawnKeeps ==
  ASSUME NEW w, Sound(w), NEW S \in Rasters, Fits(w, S),
         NEW m \in Bonded, NEW policy \in Policies
  PROVE  LET v == [Spawn(w, w.next, S, m, policy) EXCEPT !.next = @ + 1]
         IN  /\ Sound(v) /\ Whole(v, w.next)
             /\ v.next = w.next + 1 /\ v.broken = w.broken
             /\ DOMAIN v.bodies = DOMAIN w.bodies \cup {w.next} /\ w.next \notin DOMAIN w.bodies
             /\ v.bodies[w.next].policy = policy /\ Raster(v.bodies[w.next]) = S
             /\ \A j \in DOMAIN w.bodies :
                  v.bodies[j] = w.bodies[j] /\ (Whole(w, j) => Whole(v, j))
  <1> DEFINE d == Disturb(w, S, m)  u == PutAll(d, S, m, 0)
             v == [Spawn(w, w.next, S, m, policy) EXCEPT !.next = @ + 1]
  <1>1. w \in Worlds /\ S \in SUBSET Cells /\ m \in Materials /\ 0 \in Nat
    BY DEF Sound, Rasters, Bonded, Bondable, Materials
  <1>2. /\ d \in Worlds /\ d.bodies = w.bodies /\ d.mat = w.mat /\ d.owner = w.owner
        /\ d.next = w.next /\ d.broken = w.broken
    BY <1>1, DisturbFacts
  <1> HIDE DEF d
  <1>3. /\ u \in Worlds /\ u.bodies = w.bodies /\ u.next = w.next /\ u.broken = w.broken
        /\ \A p \in Cells :
             /\ u.mat[p] = IF p \in S THEN m ELSE w.mat[p]
             /\ u.owner[p] = IF p \in S THEN 0 ELSE w.owner[p]
    <2>0. d \in Worlds /\ S \in SUBSET Cells /\ m \in Materials /\ 0 \in Nat
      BY <1>1, <1>2
    <2>1. /\ u \in Worlds /\ u.bodies = d.bodies /\ u.next = d.next /\ u.broken = d.broken
          /\ \A p \in Cells :
               /\ u.mat[p] = IF p \in S THEN m ELSE d.mat[p]
               /\ u.owner[p] = IF p \in S THEN 0 ELSE d.owner[p]
      BY <2>0, PutAllFacts
    <2> HIDE DEF u
    <2>. QED
      BY <1>2, <2>1
  <1> HIDE DEF u
  <1>4. \A p \in S : Loaded(p) /\ w.owner[p] = 0
    BY DEF Fits, Free
  <1>5. Sound(u)
    <2>1. \A p \in Cells : u.owner[p] = 0 \/ u.owner[p] = w.owner[p]
      BY <1>3
    <2>. QED
      BY <1>3, <2>1, ClaimsStay
  <1>6. ASSUME NEW j \in DOMAIN w.bodies, Whole(w, j) PROVE Whole(u, j)
    <2>1. Raster(w.bodies[j]) \subseteq Cells /\ j # 0
      BY <1>1, RastersInWorld DEF Positive
    <2>. QED
      BY <1>3, <1>4, <1>6, <2>1 DEF Whole
  <1>7. \A p \in S : Loaded(p) /\ u.owner[p] = 0 /\ u.mat[p] \in Bonded
    BY <1>1, <1>3, <1>4
  <1>8. v = [Capture(u, u.next, S, policy) EXCEPT !.next = @ + 1]
    BY <1>3 DEF Spawn, u, d
  <1> DEFINE x == [Capture(u, u.next, S, policy) EXCEPT !.next = @ + 1]
  <1>c. Captured(u, x, S, policy)
    BY <1>5, <1>7, CaptureKeeps
  <1> HIDE DEF x, v
  <1>9. /\ Sound(x) /\ Whole(x, u.next)
        /\ x.next = u.next + 1 /\ x.broken = u.broken
        /\ DOMAIN x.bodies = DOMAIN u.bodies \cup {u.next} /\ u.next \notin DOMAIN u.bodies
        /\ x.bodies[u.next].policy = policy /\ Raster(x.bodies[u.next]) = S
        /\ \A j \in DOMAIN u.bodies :
             x.bodies[j] = u.bodies[j] /\ (Whole(u, j) => Whole(x, j))
    BY <1>c DEF Captured
  <1>10. v = x
    BY <1>8 DEF x
  <1>11. /\ Sound(v) /\ Whole(v, w.next)
         /\ v.next = w.next + 1 /\ v.broken = w.broken
         /\ DOMAIN v.bodies = DOMAIN w.bodies \cup {w.next} /\ w.next \notin DOMAIN w.bodies
         /\ v.bodies[w.next].policy = policy /\ Raster(v.bodies[w.next]) = S
    BY <1>3, <1>9, <1>10
  <1>12. \A j \in DOMAIN w.bodies :
           v.bodies[j] = w.bodies[j] /\ (Whole(w, j) => Whole(v, j))
    BY <1>3, <1>6, <1>9, <1>10
  <1>. QED
    BY <1>11, <1>12 DEF v
-----------------------------------------------------------------------------
(* Cells that leave a body.                                                *)

LEMMA ReleaseFacts ==
  ASSUME NEW w \in Worlds, NEW p \in Cells
  PROVE  LET v == Release(w, p)
         IN  /\ v \in Worlds /\ v.bodies = w.bodies /\ v.next = w.next /\ v.broken = w.broken
             /\ \A q \in Cells :
                  /\ v.owner[q] = IF q = p THEN 0 ELSE w.owner[q]
                  /\ q # p /\ w.owner[q] # 0 => v.mat[q] = w.mat[q]
  <1> DEFINE v == Release(w, p)  c == Stamp(w, {p}, 0)  X == Outlets(c, p)
             q0 == Neighbours(p)[Min(X)]
             d == Put(c, p, "air", 0)
  <1>1. /\ c \in Worlds /\ c.bodies = w.bodies /\ c.next = w.next /\ c.broken = w.broken
        /\ c.mat = w.mat
        /\ \A q \in Cells : c.owner[q] = IF q = p THEN 0 ELSE w.owner[q]
    <2>1. 0 \in Nat
      OBVIOUS
    <2>2. \A q \in Cells : c.owner[q] = IF q \in {p} THEN 0 ELSE w.owner[q]
      BY <2>1, StampFacts
    <2>. QED
      BY <2>1, <2>2, StampFacts
  <1>2. v = IF w.mat[p] = "air" \/ X = {} THEN c ELSE Put(d, q0, w.mat[p], 0)
    BY DEF Release
  <1> HIDE DEF c, v
  <1>3. CASE w.mat[p] = "air" \/ X = {}
    BY <1>1, <1>2, <1>3 DEF v
  <1>4. CASE ~(w.mat[p] = "air" \/ X = {})
    <2>1. X \in SUBSET Nat /\ \A i \in X : Free(c, Neighbours(p)[i])
      BY DEF Outlets
    <2>2. Min(X) \in X
      <3> HIDE DEF X
      <3>. QED
        BY <1>4, <2>1, MinIsLeast
    <2>3. Free(c, q0)
      BY <2>1, <2>2
    <2> HIDE DEF X, q0
    <2>4. q0 \in Cells /\ c.owner[q0] = 0
      BY <2>3 DEF Free, Loaded
    <2>5. /\ d \in Worlds /\ d.bodies = w.bodies /\ d.next = w.next /\ d.broken = w.broken
          /\ \A q \in Cells :
               /\ d.mat[q] = IF q = p THEN "air" ELSE w.mat[q]
               /\ d.owner[q] = IF q = p THEN 0 ELSE c.owner[q]
      <3>1. "air" \in Materials /\ 0 \in Nat
        BY DEF Materials
      <3>. QED
        BY <1>1, <3>1, PutFacts
    <2> DEFINE e == Put(d, q0, w.mat[p], 0)
    <2> HIDE DEF d
    <2>6. /\ e \in Worlds /\ e.bodies = w.bodies /\ e.next = w.next /\ e.broken = w.broken
          /\ \A q \in Cells :
               /\ e.mat[q] = IF q = q0 THEN w.mat[p] ELSE d.mat[q]
               /\ e.owner[q] = IF q = q0 THEN 0 ELSE d.owner[q]
      <3>1. w.mat[p] \in Materials /\ 0 \in Nat
        BY WorldFacts
      <3>. QED
        BY <2>4, <2>5, <3>1, PutFacts
    <2>7. v = e
      BY <1>2, <1>4
    <2> HIDE DEF e
    <2>8. ASSUME NEW q \in Cells
          PROVE  /\ v.owner[q] = IF q = p THEN 0 ELSE w.owner[q]
                 /\ q # p /\ w.owner[q] # 0 => v.mat[q] = w.mat[q]
      BY <1>1, <2>4, <2>5, <2>6, <2>7
    <2>. QED
      BY <2>6, <2>7, <2>8 DEF v
  <1>. QED
    BY <1>3, <1>4

\* Releases go through the cells one by one.
LEMMA ReleaseAllRuns ==
  ASSUME NEW w \in Worlds, NEW S \in SUBSET Cells
  PROVE  LET N == Cardinality(S)
         IN  /\ N \in Nat
             /\ \A k \in 1..N : Sorted(S)[k] \in S /\ Sorted(S)[k] \in Cells
             /\ \A p \in S : \E i \in 1..N : Sorted(S)[i] = p
             /\ \E g : /\ g[0] = w /\ ReleaseAll(w, S) = g[N]
                      /\ \A k \in 1..N : g[k] = Release(g[k - 1], Sorted(S)[k])
  <1> DEFINE N == Cardinality(S)
             Follows(g) == g = [k \in 0..N |-> IF k = 0 THEN w ELSE Release(g[k - 1], Sorted(S)[k])]
             step == [k \in 1..N |-> [x \in Worlds |-> Release(x, Sorted(S)[k])]]
             after == CHOOSE g : Follows(g)
  <1>1. S \in FiniteIn(Plane)
    BY CellsAreFinite, CellsInPlane DEF FiniteIn
  <1>2. /\ N \in Nat
        /\ \A k \in 1..N : Sorted(S)[k] \in S /\ Sorted(S)[k] \in Cells
        /\ \A p \in S : \E i \in 1..N : Sorted(S)[i] = p
    BY <1>1, RanksAreAttained
  <1>3. ReleaseAll(w, S) = after[N]
    BY DEF ReleaseAll
  <1> HIDE DEF N
  <1>4. step \in [1..N -> [Worlds -> Worlds]]
    BY <1>2, ReleaseFacts
  <1>5. PICK s \in [0..N -> Worlds] : Runs(s, N, w, step)
    <2> HIDE DEF step
    <2>. QED
      BY <1>2, <1>4, BoundedFunctionExists
  <1>6. Follows(s)
    <2>1. ASSUME NEW k \in 0..N
          PROVE  s[k] = IF k = 0 THEN w ELSE Release(s[k - 1], Sorted(S)[k])
      <3>1. CASE k = 0
        BY <1>5, <3>1 DEF Runs
      <3>2. CASE k # 0
        <4>1. k \in 1..N /\ k - 1 \in 0..N
          BY <1>2, <3>2
        <4>2. s[k] = step[k][s[k - 1]] /\ s[k - 1] \in Worlds
          BY <1>5, <4>1 DEF Runs
        <4>. QED
          BY <3>2, <4>1, <4>2
      <3>. QED
        BY <3>1, <3>2
    <2>. QED
      BY <2>1
  <1>7. Follows(after)
    BY <1>6
  <1>8. after[0] = w /\ \A k \in 1..N : after[k] = Release(after[k - 1], Sorted(S)[k])
    <2>1. \A k \in 0..N : after[k] = IF k = 0 THEN w ELSE Release(after[k - 1], Sorted(S)[k])
      BY <1>7
    <2> HIDE DEF after
    <2>. QED
      BY <1>2, <2>1
  <1> HIDE DEF after, step, Follows
  <1>. QED
    BY <1>2, <1>3, <1>8 DEF N

\* Releases take the stamps off the cells of the body, and touch no cell of
\* another.
LEMMA ReleaseAllFacts ==
  ASSUME NEW w \in Worlds, NEW S \in SUBSET Cells
  PROVE  LET v == ReleaseAll(w, S)
         IN  /\ v \in Worlds /\ v.bodies = w.bodies /\ v.next = w.next /\ v.broken = w.broken
             /\ \A q \in Cells :
                  /\ v.owner[q] = IF q \in S THEN 0 ELSE w.owner[q]
                  /\ q \notin S /\ w.owner[q] # 0 => v.mat[q] = w.mat[q]
  <1> DEFINE N == Cardinality(S)
  <1>2. /\ N \in Nat
        /\ \A k \in 1..N : Sorted(S)[k] \in S /\ Sorted(S)[k] \in Cells
        /\ \A p \in S : \E i \in 1..N : Sorted(S)[i] = p
    BY ReleaseAllRuns
  <1>3. PICK after : /\ after[0] = w /\ ReleaseAll(w, S) = after[N]
                     /\ \A k \in 1..N : after[k] = Release(after[k - 1], Sorted(S)[k])
    BY ReleaseAllRuns
  <1> HIDE DEF N
  <1> DEFINE past(k) == {Sorted(S)[i] : i \in 1..k}
             Released(v, k) ==
               /\ v \in Worlds /\ v.bodies = w.bodies /\ v.next = w.next /\ v.broken = w.broken
               /\ \A q \in Cells :
                    /\ v.owner[q] = IF q \in past(k) THEN 0 ELSE w.owner[q]
                    /\ q \notin past(k) /\ w.owner[q] # 0 => v.mat[q] = w.mat[q]
             T == {k \in 0..N : Released(after[k], k)}
  <1>9. 0 \in T
    <2>1. past(0) = {} /\ 0 \in 0..N
      BY <1>2
    <2>2. Released(after[0], 0)
      <3> HIDE DEF past
      <3>. QED
        BY <1>3, <2>1
    <2>. QED
      BY <2>1, <2>2
  <1>10. ASSUME NEW k \in 0..(N - 1), k \in T PROVE k + 1 \in T
    <2> DEFINE p == Sorted(S)[k + 1]  x == after[k]  v == after[k + 1]
    <2>1. k + 1 \in 1..N /\ (k + 1) - 1 = k /\ k + 1 \in 0..N
      BY <1>2
    <2>2. v = Release(x, p) /\ p \in Cells
      BY <1>2, <1>3, <2>1
    <2>3. past(k + 1) = past(k) \cup {p}
      <3>1. 1..(k + 1) = 1..k \cup {k + 1}
        BY <1>2
      <3>. QED
        BY <3>1
    <2>4. Released(x, k)
      BY <1>10
    <2> HIDE DEF x, p, v, past
    <2>5. /\ v \in Worlds /\ v.bodies = x.bodies /\ v.next = x.next /\ v.broken = x.broken
          /\ \A q \in Cells :
               /\ v.owner[q] = IF q = p THEN 0 ELSE x.owner[q]
               /\ q # p /\ x.owner[q] # 0 => v.mat[q] = x.mat[q]
      BY <2>2, <2>4, ReleaseFacts
    <2>6. Released(v, k + 1)
      BY <2>3, <2>4, <2>5
    <2>. QED
      BY <2>1, <2>6 DEF v
  <1>11. N \in T
    <2> HIDE DEF T
    <2>1. 0..N \subseteq T
      BY <1>2, <1>9, <1>10, BoundedInduction
    <2>. QED
      BY <1>2, <2>1
  <1>12. past(N) = S
    BY <1>2
  <1> HIDE DEF past
  <1>. QED
    BY <1>3, <1>11, <1>12
-----------------------------------------------------------------------------
(* A body that breaks.                                                     *)

LEMMA PartFacts ==
  ASSUME NEW slots \in Shapes, NEW p \in DOMAIN slots
  PROVE  PartOf(slots, p) \in SUBSET DOMAIN slots /\ PartOf(slots, p) # {}
  <1> DEFINE D == DOMAIN slots  N == Cardinality(D)
             touch(q) == {r \in Beside(q) \cap D : Bonds(slots[q], slots[r])}
             Follows(g) ==
               g = [k \in 0..N |-> IF k = 0 THEN {p} ELSE g[k - 1] \cup UNION {touch(q) : q \in g[k - 1]}]
             Sets == (SUBSET D) \ {{}}
             step == [k \in 1..N |-> [X \in Sets |-> X \cup UNION {touch(q) : q \in X}]]
             after == CHOOSE g : Follows(g)
  <1>1. D \in Rasters /\ D \in SUBSET Cells
    BY ShapeFacts DEF Rasters
  <1>2. N \in Nat
    BY <1>1, CellsAreFinite, FS_CardinalityType
  <1>3. PartOf(slots, p) = after[N]
    BY DEF PartOf, Spread
  <1> HIDE DEF N
  <1>4. \A q : touch(q) \in SUBSET D
    OBVIOUS
  <1> HIDE DEF touch
  <1>5. step \in [1..N -> [Sets -> Sets]]
    <2>1. \A X \in Sets : X \cup UNION {touch(q) : q \in X} \in Sets
      BY <1>4
    <2> HIDE DEF Sets
    <2>. QED
      BY <2>1
  <1>6. {p} \in Sets
    OBVIOUS
  <1>7. PICK s \in [0..N -> Sets] : Runs(s, N, {p}, step)
    <2> HIDE DEF step, Sets
    <2>. QED
      BY <1>2, <1>5, <1>6, BoundedFunctionExists
  <1> HIDE DEF Sets
  <1>8. Follows(s)
    <2>1. ASSUME NEW k \in 0..N
          PROVE  s[k] = IF k = 0 THEN {p} ELSE s[k - 1] \cup UNION {touch(q) : q \in s[k - 1]}
      <3>1. CASE k = 0
        BY <1>7, <3>1 DEF Runs
      <3>2. CASE k # 0
        <4>1. k \in 1..N /\ k - 1 \in 0..N
          BY <1>2, <3>2
        <4>2. s[k] = step[k][s[k - 1]] /\ s[k - 1] \in Sets
          BY <1>7, <4>1 DEF Runs
        <4>. QED
          BY <3>2, <4>1, <4>2
      <3>. QED
        BY <3>1, <3>2
    <2>. QED
      BY <2>1
  <1>9. Follows(after)
    BY <1>8
  <1>10. after[0] = {p}
         /\ \A k \in 1..N : after[k] = after[k - 1] \cup UNION {touch(q) : q \in after[k - 1]}
    <2>1. \A k \in 0..N :
            after[k] = IF k = 0 THEN {p} ELSE after[k - 1] \cup UNION {touch(q) : q \in after[k - 1]}
      BY <1>9
    <2> HIDE DEF after, touch
    <2>2. \A k \in 1..N : k \in 0..N /\ k # 0
      BY <1>2
    <2>3. 0 \in 0..N
      BY <1>2
    <2>. QED
      BY <2>1, <2>2, <2>3, Zenon
  <1> HIDE DEF after, Follows
  <1>11. ASSUME NEW k \in 1..N, after[k - 1] \in Sets PROVE after[k] \in Sets
    <2>1. after[k] = after[k - 1] \cup UNION {touch(q) : q \in after[k - 1]}
      BY <1>10
    <2>2. after[k - 1] \subseteq D /\ after[k - 1] # {}
      BY <1>11 DEF Sets
    <2>3. UNION {touch(q) : q \in after[k - 1]} \subseteq D
      BY <1>4, <2>2
    <2> HIDE DEF touch, D
    <2>. QED
      BY <2>1, <2>2, <2>3 DEF Sets
  <1>12. \A k \in 0..N : after[k] \in Sets
    <2>1. after[0] \in Sets
      BY <1>6, <1>10
    <2> HIDE DEF Sets, touch
    <2>. QED
      BY <1>2, <1>11, <2>1, ValuesStay
  <1>. QED
    BY <1>2, <1>3, <1>12 DEF Sets

\* What Split makes of the body id: its source and its parts, and the rest as
\* it was.
BreaksInto(w, v, id, P) ==
  /\ P \in SUBSET Positive
  /\ v.broken = w.broken \cup {[source |-> id, at |-> Anchor(w.bodies[id]), parts |-> P]}
  /\ DOMAIN v.bodies = (DOMAIN w.bodies \ {id}) \cup P
  /\ \A i \in P :
       /\ Whole(v, i) /\ (i = id \/ w.next <= i)
       /\ v.bodies[i].policy = w.bodies[id].policy
       /\ Raster(v.bodies[i]) \subseteq Raster(w.bodies[id])

\* All other bodies are left alone.
LeavesOthers(w, v, id) ==
  /\ DOMAIN w.bodies \ {id} \subseteq DOMAIN v.bodies
  /\ \A j \in DOMAIN w.bodies : j # id =>
       v.bodies[j] = w.bodies[j] /\ (Whole(w, j) => Whole(v, j))

\* Only stamps change, each cell goes to a body of its own kind, and what comes
\* is the cells whose parts have the same first one.
Parted(w, v, id, slots) ==
  /\ v.mat = w.mat /\ v.seeds = w.seeds /\ v.parked = w.parked
  /\ \A p \in Cells : p \notin DOMAIN slots => v.owner[p] = w.owner[p]
  /\ \A p \in DOMAIN slots : /\ v.owner[p] # 0
                             /\ v.bodies[v.owner[p]].policy = w.bodies[id].policy
  /\ \A i \in DOMAIN v.bodies :
       \/ i \in DOMAIN w.bodies /\ v.bodies[i] = w.bodies[i]
       \/ /\ Whole(v, i)
          /\ \E p \in DOMAIN slots : Raster(v.bodies[i]) =
               {q \in DOMAIN slots : First(PartOf(slots, q)) = First(PartOf(slots, p))}

\* A body that breaks is its parts, each with its cells, and new ids for all
\* but one.
LEMMA SplitKeeps ==
  ASSUME NEW w, Sound(w), NEW id \in DOMAIN w.bodies, NEW slots \in Shapes,
         DOMAIN slots \subseteq Raster(w.bodies[id]),
         \A p \in DOMAIN slots : w.owner[p] = id /\ w.mat[p] = slots[p],
         \A p \in Cells \ DOMAIN slots : w.owner[p] # id
  PROVE  LET v == Split(w, id, slots)
         IN  /\ Sound(v) /\ w.next <= v.next /\ LeavesOthers(w, v, id)
             /\ \E P : BreaksInto(w, v, id, P)
             /\ Parted(w, v, id, slots)
  <1> DEFINE v == Split(w, id, slots)
             b == w.bodies[id]
             first(p) == First(PartOf(slots, p))
             firsts == {first(p) : p \in DOMAIN slots}
             idOf(p) ==
               IF Rank(firsts, first(p)) = 0 THEN id ELSE w.next + Rank(firsts, first(p)) - 1
             ids == {idOf(p) : p \in DOMAIN slots}
             cells(i) == {p \in DOMAIN slots : idOf(p) = i}
             part(i) == [slots |-> Restrict(slots, cells(i)), policy |-> b.policy, parked |-> FALSE]
             o == [p \in Cells |-> IF p \in DOMAIN slots THEN idOf(p) ELSE w.owner[p]]
             f == [i \in (DOMAIN w.bodies \ {id}) \cup ids |-> IF i \in ids THEN part(i) ELSE w.bodies[i]]
             n == w.next + Cardinality(firsts) - 1
             B == w.broken \cup {[source |-> id, at |-> Anchor(b), parts |-> ids]}
             D == DOMAIN slots
  <1>1. w \in Worlds /\ Claimed(w) /\ Numbered(w) /\ Resident(w) /\ id \in Positive
    BY WorldFacts DEF Sound
  <1>2. D \in Rasters /\ D \in SUBSET Cells /\ D # {} /\ slots \in [D -> Bonded]
    BY ShapeFacts DEF Rasters
  <1>3. v = [w EXCEPT !.owner = o, !.bodies = f, !.next = n, !.broken = B]
    BY Zenon DEF Split
  <1>4. \A p \in D : first(p) \in Plane
    <2>1. TAKE p \in D
    <2>2. PartOf(slots, p) \in SUBSET D /\ PartOf(slots, p) # {}
      BY PartFacts
    <2>3. PartOf(slots, p) \in FiniteIn(Plane)
      BY <1>2, <2>2, CellsAreFinite, CellsInPlane DEF FiniteIn
    <2>4. First(PartOf(slots, p)) \in PartOf(slots, p)
      BY <2>2, <2>3, FirstIsThere
    <2>. QED
      BY <1>2, <2>2, <2>4, CellsInPlane
  <1>5. firsts \in FiniteIn(Plane) /\ firsts # {}
    <2> DEFINE g == [p \in D |-> first(p)]
    <2>1. firsts = {g[p] : p \in D}
      OBVIOUS
    <2>2. IsFiniteSet(D) /\ DOMAIN g = D
      BY <1>2, CellsAreFinite
    <2>3. IsFiniteSet({g[p] : p \in D})
      <3> HIDE DEF g, D
      <3>. QED
        BY <2>2, ImageIsFinite
    <2>4. IsFiniteSet(firsts)
      BY <2>1, <2>3
    <2>5. firsts \in SUBSET Plane /\ firsts # {}
      BY <1>2, <1>4
    <2> HIDE DEF firsts
    <2>. QED
      BY <2>4, <2>5 DEF FiniteIn
  <1>6. \A p \in D : first(p) \in firsts
    OBVIOUS
  <1> HIDE DEF first, firsts
  <1> DEFINE C == Cardinality(firsts)
  <1>7. C \in Nat /\ C >= 1
    <2>1. IsFiniteSet(firsts)
      BY <1>5 DEF FiniteIn
    <2>2. C \in Nat /\ C # 0
      BY <1>5, <2>1, FS_CardinalityType, FS_EmptySet
    <2>. QED
      BY <2>2
  <1>8. \A p \in D : Rank(firsts, first(p)) \in 0..(C - 1)
    BY <1>5, <1>6, RankType
  <1> HIDE DEF C
  <1>9. n = w.next + C - 1 /\ n \in Positive /\ w.next <= n /\ w.next \in Nat
    BY <1>1, <1>7, WorldFacts DEF Positive, C
  <1>10. \A j \in DOMAIN w.bodies : j \in Positive /\ j < w.next
    BY <1>1, WorldFacts DEF Numbered
  <1>11. \A p \in D : idOf(p) \in Positive /\ idOf(p) < n /\ (idOf(p) = id \/ w.next <= idOf(p))
    BY <1>1, <1>7, <1>8, <1>9, <1>10 DEF Positive
  <1>12. \A i \in ids : i \in Positive /\ i < n /\ (i = id \/ w.next <= i)
    BY <1>11
  <1>13. \A p \in D : idOf(p) \in ids /\ p \in cells(idOf(p))
    OBVIOUS
  <1>14. \A i \in ids : cells(i) # {}
    OBVIOUS
  <1>15. \A p, i : p \in cells(i) => p \in D /\ idOf(p) = i
    OBVIOUS
  <1>p. ASSUME NEW i \in ids PROVE \E p \in D : cells(i) = {q \in D : first(q) = first(p)}
    <2>1. PICK p \in D : i = idOf(p)
      OBVIOUS
    <2>2. \A q \in D : idOf(q) = i <=> Rank(firsts, first(q)) = Rank(firsts, first(p))
      <3>1. id \in Nat /\ id < w.next
        BY <1>10 DEF Positive
      <3>. QED
        BY <1>7, <1>8, <1>9, <2>1, <3>1
    <2>3. \A q \in D : Rank(firsts, first(q)) = Rank(firsts, first(p)) => first(q) = first(p)
      <3>1. first(p) \in firsts /\ \A q \in D : first(q) \in firsts
        BY <1>6
      <3>. QED
        BY <1>5, <3>1, RanksDiffer
    <2>4. \A q \in D : idOf(q) = i <=> first(q) = first(p)
      <3> HIDE DEF idOf
      <3>. QED
        BY <2>2, <2>3
    <2>. QED
      BY <2>4
  <1> HIDE DEF idOf, ids, n, cells
  <1>16. ASSUME NEW i \in ids
         PROVE  /\ part(i) \in BodyTypes /\ Raster(part(i)) = cells(i)
                /\ part(i).policy = b.policy
                /\ \A p \in cells(i) : part(i).slots[p] = slots[p]
    <2> DEFINE g == Restrict(slots, cells(i))
    <2>1. cells(i) \in Rasters
      BY <1>2, <1>14, <1>15 DEF Rasters
    <2>2. g \in [cells(i) -> Bonded] /\ \A p \in cells(i) : g[p] = slots[p]
      BY <1>2, <1>15 DEF Restrict
    <2>3. b.policy \in Policies
      BY <1>1, RastersInWorld, BodyFacts
    <2> HIDE DEF g, b, cells
    <2>4. [slots |-> g, policy |-> b.policy, parked |-> FALSE] \in BodyTypes
          /\ Raster([slots |-> g, policy |-> b.policy, parked |-> FALSE]) = cells(i)
      BY <2>1, <2>2, <2>3, MakeBody, Zenon
    <2>. QED
      BY <2>2, <2>4 DEF g
  <1> HIDE DEF part
  <1>17. f \in BodySets /\ DOMAIN f = (DOMAIN w.bodies \ {id}) \cup ids
    <2> DEFINE E == (DOMAIN w.bodies \ {id}) \cup ids
    <2>1. E \in SUBSET Positive
      BY <1>10, <1>12
    <2>2. f \in [E -> BodyTypes]
      BY <1>1, <1>16, WorldFacts
    <2> HIDE DEF E, f
    <2>3. f \in BodySets /\ DOMAIN f = E
      BY <2>1, <2>2, MakeBodySet
    <2>. QED
      BY <2>3 DEF E
  <1>18. o \in [Cells -> Nat]
    BY <1>1, <1>11, WorldFacts DEF Positive
  <1>19. B \in SUBSET Breaks
    <2>1. b \in BodyTypes
      BY <1>1, RastersInWorld
    <2>2. Anchor(b) \in Cells
      BY <2>1, BodyFacts, AnchorIsWithin
    <2>3. ids \in SUBSET Positive
      BY <1>12
    <2> HIDE DEF b
    <2>. QED
      BY <1>1, <2>2, <2>3, WorldFacts DEF Breaks
  <1>20. /\ \A i \in ids : f[i] = part(i)
         /\ \A i \in DOMAIN w.bodies : i # id => f[i] = w.bodies[i]
    <2>1. \A i \in DOMAIN w.bodies : i # id => i \notin ids
      BY <1>9, <1>10, <1>12 DEF Positive
    <2>. QED
      BY <2>1
  <1>21. \A p \in Cells : o[p] = IF p \in D THEN idOf(p) ELSE w.owner[p]
    OBVIOUS
  <1> HIDE DEF o, f, B, v
  <1>22. /\ v \in Worlds /\ v.mat = w.mat /\ v.owner = o /\ v.bodies = f /\ v.next = n
         /\ v.broken = B /\ v.seeds = w.seeds /\ v.parked = w.parked
    <2> DEFINE x == [w EXCEPT !.owner = o, !.bodies = f, !.next = n, !.broken = B]
    <2>1. /\ x \in Worlds /\ x.mat = w.mat /\ x.owner = o /\ x.bodies = f /\ x.next = n
          /\ x.broken = B /\ x.seeds = w.seeds /\ x.parked = w.parked
      <3>1. w \in Worlds
        BY <1>1
      <3>2. n \in Positive
        BY <1>9
      <3>3. f \in BodySets
        BY <1>17
      <3>. QED
        BY <1>18, <1>19, <3>1, <3>2, <3>3 DEF Worlds
    <2>. QED
      BY <1>3, <2>1
  <1> HIDE DEF D
  <1>23. Claimed(v)
    <2>1. SUFFICES ASSUME NEW p \in Cells, o[p] # 0
                   PROVE  o[p] \in DOMAIN f /\ p \in Raster(f[o[p]])
      BY <1>22 DEF Claimed
    <2>2. CASE p \in D
      BY <1>13, <1>16, <1>17, <1>20, <1>21, <2>2
    <2>3. CASE p \notin D
      <3>1. o[p] = w.owner[p] /\ w.owner[p] # id
        BY <1>21, <2>3 DEF D
      <3>2. w.owner[p] \in DOMAIN w.bodies /\ p \in Raster(w.bodies[w.owner[p]])
        BY <1>1, <2>1, <3>1 DEF Claimed
      <3>. QED
        BY <1>17, <1>20, <3>1, <3>2
    <2>. QED
      BY <2>2, <2>3
  <1>24. Numbered(v)
    <2>1. \A i \in DOMAIN f : i < n
      BY <1>9, <1>10, <1>12, <1>17 DEF Positive
    <2>. QED
      BY <1>22, <2>1 DEF Numbered
  <1>25. \A i \in ids : Raster(f[i]) = cells(i) /\ cells(i) \subseteq Raster(b)
    BY <1>15, <1>16, <1>20 DEF D
  <1>26. Resident(v)
    <2>1. \A i \in DOMAIN f : \A p \in Raster(f[i]) : Loaded(p)
      BY <1>1, <1>17, <1>20, <1>25 DEF Resident
    <2>. QED
      BY <1>22, <2>1 DEF Resident
  <1>27. ASSUME NEW i \in ids PROVE Whole(v, i)
    <2>1. ASSUME NEW p \in cells(i) PROVE v.owner[p] = i /\ v.mat[p] = f[i].slots[p]
      <3>1. p \in D /\ idOf(p) = i /\ p \in Cells
        BY <1>2, <1>15
      <3>2. f[i].slots[p] = slots[p] /\ w.mat[p] = slots[p]
        BY <1>16, <1>20, <3>1 DEF D
      <3>. QED
        BY <1>21, <1>22, <3>1, <3>2
    <2>. QED
      BY <1>22, <1>25, <2>1 DEF Whole
  <1>28. LeavesOthers(w, v, id)
    <2>1. ASSUME NEW j \in DOMAIN w.bodies, j # id, Whole(w, j) PROVE Whole(v, j)
      <3>1. Raster(w.bodies[j]) \subseteq Cells
        BY <1>1, RastersInWorld
      <3>2. ASSUME NEW p \in Raster(w.bodies[j]) PROVE v.owner[p] = j /\ v.mat[p] = w.bodies[j].slots[p]
        <4>1. w.owner[p] = j /\ w.mat[p] = w.bodies[j].slots[p] /\ p \in Cells
          BY <2>1, <3>1 DEF Whole
        <4>2. p \notin D
          BY <2>1, <4>1 DEF D
        <4>. QED
          BY <1>21, <1>22, <4>1, <4>2
      <3>. QED
        BY <1>20, <1>22, <2>1, <3>2 DEF Whole
    <2>. QED
      BY <1>17, <1>20, <1>22, <2>1 DEF LeavesOthers
  <1>29. BreaksInto(w, v, id, ids)
    <2>1. \A i \in ids : f[i].policy = b.policy
      BY <1>16, <1>20
    <2>2. ids \in SUBSET Positive
      BY <1>12
    <2>. QED
      BY <1>12, <1>17, <1>22, <1>25, <1>27, <2>1, <2>2 DEF BreaksInto, B
  <1>30. Sound(v)
    BY <1>22, <1>23, <1>24, <1>26 DEF Sound
  <1>31. Parted(w, v, id, slots)
    <2>1. \A p \in D : /\ v.owner[p] # 0 /\ v.owner[p] \in ids
                      /\ v.bodies[v.owner[p]].policy = b.policy
      BY <1>2, <1>11, <1>13, <1>16, <1>20, <1>21, <1>22 DEF Positive
    <2>2. \A i \in ids : Whole(v, i) /\ \E p \in D : Raster(v.bodies[i]) = {q \in D : first(q) = first(p)}
      BY <1>p, <1>22, <1>25, <1>27
    <2>3. \A i \in DOMAIN v.bodies : i \in ids \/ (i \in DOMAIN w.bodies /\ v.bodies[i] = w.bodies[i])
      BY <1>17, <1>20, <1>22
    <2>4. \A p \in Cells : p \notin D => v.owner[p] = w.owner[p]
      BY <1>21, <1>22
    <2>5. v.mat = w.mat /\ v.seeds = w.seeds /\ v.parked = w.parked
      BY <1>22
    <2>. QED
      BY <2>1, <2>2, <2>3, <2>4, <2>5 DEF Parted, D, b, first
  <1>. QED
    BY <1>9, <1>22, <1>28, <1>29, <1>30, <1>31 DEF v

\* One body against its cells: nothing happens to it, or it breaks.
LEMMA ReconcileKeeps ==
  ASSUME NEW w, Sound(w), NEW id \in DOMAIN w.bodies
  PROVE  LET v == Reconcile(w, id)
         IN  /\ Sound(v) /\ w.next <= v.next /\ LeavesOthers(w, v, id)
             /\ \/ v = w /\ Whole(w, id)
                \/ \E P : BreaksInto(w, v, id, P)
  <1> DEFINE v == Reconcile(w, id)
             b == w.bodies[id]
             kept == Survivors(w, id)
             gone == Bearing(w, id) \ kept
             clean == ReleaseAll(w, gone)
             slots == Restrict(w.mat, kept)
             gap == [source |-> id, at |-> Anchor(b), parts |-> {}]
             bare == [clean EXCEPT !.bodies = Without(@, {id}), !.broken = @ \cup {gap}]
  <1>1. w \in Worlds /\ Claimed(w) /\ Numbered(w) /\ Resident(w) /\ w.bodies \in BodySets
    BY WorldFacts DEF Sound
  <1>2. b \in BodyTypes /\ id \in Positive
    BY <1>1, RastersInWorld
  <1>3. \A p \in Raster(b) : Loaded(p)
    BY <1>1 DEF Resident
  <1>4. Bearing(w, id) = {p \in Cells : w.owner[p] = id}
    <2>1. {id} \in SUBSET DOMAIN w.bodies /\ id \in {id}
      OBVIOUS
    <2>. QED
      BY <2>1, BorneFacts
  <1>5. kept = {p \in Bearing(w, id) : Bondable(w.mat[p])}
    BY DEF Survivors
  <1>6. Bearing(w, id) \subseteq Raster(b)
    BY DEF Bearing
  <1>7. v = IF kept = {} THEN bare ELSE IF slots = b.slots THEN w ELSE Split(clean, id, slots)
    BY <1>3, Zenon DEF Reconcile
  <1> HIDE DEF v, kept
  <1>8. gone \in SUBSET Cells /\ \A p \in Cells : p \in gone <=> w.owner[p] = id /\ p \notin kept
    BY <1>4
  <1> HIDE DEF gone
  <1>9. /\ clean \in Worlds /\ clean.bodies = w.bodies /\ clean.next = w.next
        /\ clean.broken = w.broken
        /\ \A q \in Cells :
             /\ clean.owner[q] = IF q \in gone THEN 0 ELSE w.owner[q]
             /\ q \notin gone /\ w.owner[q] # 0 => clean.mat[q] = w.mat[q]
    BY <1>1, <1>8, ReleaseAllFacts
  <1> HIDE DEF clean
  <1>10. CASE kept = {}
    <2>1. v = bare
      BY <1>7, <1>10
    <2> DEFINE f == Without(w.bodies, {id})  B == w.broken \cup {gap}
    <2>2. bare = [clean EXCEPT !.bodies = f, !.broken = B]
      BY <1>9
    <2>3. f \in BodySets
      BY <1>1, WithoutBodies
    <2>4. B \in SUBSET Breaks
      <3>1. Anchor(b) \in Cells
        BY <1>2, BodyFacts, AnchorIsWithin
      <3>2. {} \in SUBSET Positive
        OBVIOUS
      <3> HIDE DEF b
      <3>. QED
        BY <1>1, <1>2, <3>1, <3>2, WorldFacts DEF Breaks
    <2> HIDE DEF f, B, bare
    <2>5. /\ bare \in Worlds /\ bare.bodies = f /\ bare.broken = B /\ bare.next = w.next
          /\ bare.owner = clean.owner /\ bare.mat = clean.mat
      BY <1>9, <2>2, <2>3, <2>4 DEF Worlds
    <2>6. /\ \A p \in Cells : bare.owner[p] = IF w.owner[p] \in {id} THEN 0 ELSE w.owner[p]
          /\ \A p \in Cells : w.owner[p] # 0 /\ w.owner[p] \notin {id} => bare.mat[p] = w.mat[p]
      BY <1>8, <1>9, <1>10, <2>5
    <2>7. /\ Sound(bare)
          /\ DOMAIN bare.bodies = DOMAIN w.bodies \ {id}
          /\ \A j \in DOMAIN bare.bodies :
               bare.bodies[j] = w.bodies[j] /\ (Whole(w, j) => Whole(bare, j))
      <3> DEFINE ids == {id}
      <3>1. ids \in SUBSET DOMAIN w.bodies
        OBVIOUS
      <3>2. /\ \A p \in Cells : bare.owner[p] = IF w.owner[p] \in ids THEN 0 ELSE w.owner[p]
            /\ \A p \in Cells : w.owner[p] # 0 /\ w.owner[p] \notin ids => bare.mat[p] = w.mat[p]
            /\ bare.bodies = Without(w.bodies, ids)
        BY <2>5, <2>6 DEF f
      <3> HIDE DEF ids
      <3>3. /\ Sound(bare)
            /\ DOMAIN bare.bodies = DOMAIN w.bodies \ ids
            /\ \A j \in DOMAIN bare.bodies :
                 bare.bodies[j] = w.bodies[j] /\ (Whole(w, j) => Whole(bare, j))
        BY <2>5, <3>1, <3>2, ClaimsGo
      <3>. QED
        BY <3>3 DEF ids
    <2>8. LeavesOthers(w, bare, id)
      BY <2>7 DEF LeavesOthers
    <2>9. BreaksInto(w, bare, id, {})
      BY <2>5, <2>7 DEF BreaksInto, B
    <2>10. w.next <= bare.next
      BY <1>1, <2>5, WorldFacts DEF Positive
    <2>. QED
      BY <2>1, <2>7, <2>8, <2>9, <2>10 DEF v
  <1>11. CASE kept # {}
    <2>1. kept \in Rasters /\ kept \subseteq Raster(b)
          /\ \A p \in kept : p \in Cells /\ w.owner[p] = id /\ w.mat[p] \in Bonded
      BY <1>1, <1>4, <1>5, <1>6, <1>11, WorldFacts DEF Rasters, Bonded
    <2>2. slots \in [kept -> Bonded] /\ \A p \in kept : slots[p] = w.mat[p]
      BY <2>1 DEF Restrict
    <2> HIDE DEF slots
    <2>3. slots \in Shapes /\ DOMAIN slots = kept
      BY <2>1, <2>2, MakeShape
    <2>4. CASE slots = b.slots
      <3>1. v = w
        BY <1>7, <1>11, <2>4
      <3>2. Raster(b) = kept
        BY <2>3, <2>4 DEF Raster
      <3>3. Whole(w, id)
        BY <2>1, <2>2, <2>4, <3>2 DEF Whole
      <3>4. LeavesOthers(w, w, id)
        BY DEF LeavesOthers
      <3>5. w.next <= w.next
        BY <1>1, WorldFacts DEF Positive
      <3>. QED
        BY <3>1, <3>3, <3>4, <3>5 DEF v
    <2>5. CASE slots # b.slots
      <3> DEFINE u == Split(clean, id, slots)
      <3>1. v = u
        BY <1>7, <1>11, <2>5
      <3>2. Sound(clean)
        <4>1. \A p \in Cells : clean.owner[p] = 0 \/ clean.owner[p] = w.owner[p]
          BY <1>9
        <4>. QED
          BY <1>9, <4>1, ClaimsStay
      <3>3. \A p \in kept : clean.owner[p] = id /\ clean.mat[p] = slots[p]
        BY <1>2, <1>8, <1>9, <2>1, <2>2 DEF Positive
      <3>4. \A p \in Cells \ kept : clean.owner[p] # id
        BY <1>2, <1>8, <1>9 DEF Positive
      <3>5. ASSUME NEW j \in DOMAIN w.bodies, j # id, Whole(w, j) PROVE Whole(clean, j)
        <4>1. Raster(w.bodies[j]) \subseteq Cells /\ j # 0
          BY <1>1, RastersInWorld DEF Positive
        <4>. QED
          BY <1>8, <1>9, <3>5, <4>1 DEF Whole
      <3> HIDE DEF u, b
      <3>6. /\ Sound(u) /\ clean.next <= u.next /\ LeavesOthers(clean, u, id)
            /\ \E P : BreaksInto(clean, u, id, P)
        <4>1. id \in DOMAIN clean.bodies /\ DOMAIN slots \subseteq Raster(clean.bodies[id])
          BY <1>9, <2>1, <2>3 DEF b
        <4>2. /\ \A p \in DOMAIN slots : clean.owner[p] = id /\ clean.mat[p] = slots[p]
              /\ \A p \in Cells \ DOMAIN slots : clean.owner[p] # id
          BY <2>3, <3>3, <3>4
        <4>. QED
          BY <2>3, <3>2, <4>1, <4>2, SplitKeeps DEF u
      <3>7. LeavesOthers(w, u, id)
        BY <1>9, <3>5, <3>6 DEF LeavesOthers
      <3>8. \A P : BreaksInto(clean, u, id, P) => BreaksInto(w, u, id, P)
        BY <1>9 DEF BreaksInto
      <3>. QED
        BY <1>9, <3>1, <3>6, <3>7, <3>8 DEF v
    <2>. QED
      BY <2>4, <2>5
  <1>. QED
    BY <1>10, <1>11
\* What has become of the bodies of the world o by the time they have been
\* reconciled up to the id k: those that broke left a fracture, the others
\* stand, and what does not settle descends from what did not.
Descends(o, w, k) ==
  /\ o.next <= w.next
  /\ \A f \in w.broken : f.source \in DOMAIN o.bodies /\ f.source <= k
  /\ \A f \in w.broken : \A j \in f.parts : j < w.next /\ (j = f.source \/ o.next <= j)
  /\ \A f \in w.broken : \A j \in f.parts \cap DOMAIN w.bodies :
       w.bodies[j].policy = o.bodies[f.source].policy
  /\ \A j \in DOMAIN o.bodies : j \in DOMAIN w.bodies \/ \E f \in w.broken : f.source = j
  /\ \A j \in DOMAIN w.bodies : j \in DOMAIN o.bodies \/ o.next <= j
  /\ \A j \in DOMAIN o.bodies \cap DOMAIN w.bodies :
       /\ w.bodies[j].policy = o.bodies[j].policy
       /\ Raster(w.bodies[j]) \subseteq Raster(o.bodies[j])
  /\ \A j \in DOMAIN w.bodies : w.bodies[j].policy \in Minds =>
       \/ /\ j \in DOMAIN o.bodies /\ o.bodies[j].policy \in Minds
          /\ \A f \in w.broken : f.source # j
       \/ \E f \in w.broken :
            f.source \in DOMAIN o.bodies /\ o.bodies[f.source].policy \in Minds /\ j \in f.parts
  /\ \A j \in DOMAIN w.bodies : (j <= k \/ o.next <= j) => Whole(w, j)

\* A reconciled body is whole, and those of lower ids stay so.
LEMMA ReconcileDescends ==
  ASSUME NEW o, Sound(o), NEW w, Sound(w), NEW k \in Positive, k < o.next,
         Descends(o, w, k - 1)
  PROVE  LET v == IF k \in DOMAIN w.bodies THEN Reconcile(w, k) ELSE w
         IN  Sound(v) /\ Descends(o, v, k)
  <1> DEFINE v == Reconcile(w, k)
  <1>1. o \in Worlds /\ w \in Worlds
    BY DEF Sound
  <1>2. /\ o.next \in Nat /\ w.next \in Nat /\ k \in Nat /\ k # 0
        /\ \A j \in DOMAIN w.bodies : j \in Nat /\ j < w.next
        /\ \A j \in DOMAIN o.bodies : j \in Nat
    <2>1. o.next \in Nat /\ w.next \in Nat /\ k \in Nat /\ k # 0
      BY <1>1, WorldFacts DEF Positive
    <2>2. \A j \in DOMAIN w.bodies : j \in Nat /\ j < w.next
      BY <1>1, WorldFacts DEF Sound, Numbered, Positive
    <2>3. \A j \in DOMAIN o.bodies : j \in Nat
      BY <1>1, WorldFacts DEF Positive
    <2>. QED
      BY <2>1, <2>2, <2>3
  <1>3. \A f \in w.broken : f.source \in Nat /\ f.source # k /\ f.source <= k
    <2>1. \A f \in w.broken : f.source \in DOMAIN o.bodies /\ f.source <= k - 1
      BY DEF Descends
    <2>. QED
      BY <1>2, <2>1
  <1>4. CASE k \notin DOMAIN w.bodies
    <2>1. \A j \in DOMAIN w.bodies : (j <= k \/ o.next <= j) => Whole(w, j)
      <3>1. \A j \in DOMAIN w.bodies : (j <= k - 1 \/ o.next <= j) => Whole(w, j)
        BY DEF Descends
      <3>. QED
        BY <1>2, <1>4, <3>1
    <2>2. \A f \in w.broken : f.source \in DOMAIN o.bodies /\ f.source <= k
      BY <1>3 DEF Descends
    <2>3. Descends(o, w, k)
      BY <2>1, <2>2 DEF Descends
    <2>. QED
      BY <1>4, <2>3
  <1>5. CASE k \in DOMAIN w.bodies
    <2>1. /\ Sound(v) /\ w.next <= v.next /\ LeavesOthers(w, v, k)
          /\ \/ v = w /\ Whole(w, k)
             \/ \E P : BreaksInto(w, v, k, P)
      BY <1>5, ReconcileKeeps
    <2> HIDE DEF v
    <2>2. /\ k \in DOMAIN o.bodies
          /\ w.bodies[k].policy = o.bodies[k].policy
          /\ Raster(w.bodies[k]) \subseteq Raster(o.bodies[k])
      BY <1>2, <1>5 DEF Descends
    <2>3. CASE v = w /\ Whole(w, k)
      <3>1. \A j \in DOMAIN w.bodies : (j <= k \/ o.next <= j) => Whole(w, j)
        <4>1. \A j \in DOMAIN w.bodies : (j <= k - 1 \/ o.next <= j) => Whole(w, j)
          BY DEF Descends
        <4>. QED
          BY <1>2, <2>3, <4>1
      <3>2. \A f \in w.broken : f.source \in DOMAIN o.bodies /\ f.source <= k
        BY <1>3 DEF Descends
      <3>3. Descends(o, w, k)
        BY <3>1, <3>2 DEF Descends
      <3>. QED
        BY <1>5, <2>1, <2>3, <3>3 DEF v
    <2>4. CASE \E P : BreaksInto(w, v, k, P)
      <3>1. PICK P : BreaksInto(w, v, k, P)
        BY <2>4
      <3> DEFINE gap == [source |-> k, at |-> Anchor(w.bodies[k]), parts |-> P]
      <3>2. gap.source = k /\ gap.parts = P
        OBVIOUS
      <3>3. v.broken = w.broken \cup {gap} /\ gap \in v.broken /\ w.broken \subseteq v.broken
        BY <3>1 DEF BreaksInto
      <3> HIDE DEF gap
      <3>4. /\ DOMAIN v.bodies = (DOMAIN w.bodies \ {k}) \cup P
            /\ \A i \in P : /\ i \in Nat /\ Whole(v, i) /\ (i = k \/ w.next <= i)
                            /\ v.bodies[i].policy = w.bodies[k].policy
                            /\ Raster(v.bodies[i]) \subseteq Raster(w.bodies[k])
        BY <3>1 DEF BreaksInto, Positive
      <3>5. \A j \in DOMAIN w.bodies : j # k =>
              j \in DOMAIN v.bodies /\ v.bodies[j] = w.bodies[j] /\ (Whole(w, j) => Whole(v, j))
        BY <2>1 DEF LeavesOthers
      <3>6. \A j \in DOMAIN w.bodies : j # k => j \notin P
        BY <1>2, <3>4
      <3>7. o.next <= v.next
        <4>1. o.next <= w.next /\ v.next \in Nat
          BY <2>1, WorldFacts DEF Descends, Sound, Positive
        <4>. QED
          BY <1>2, <2>1, <4>1
      <3>8. \A f \in v.broken : f.source \in DOMAIN o.bodies /\ f.source <= k
        <4>1. \A f \in w.broken : f.source \in DOMAIN o.bodies
          BY DEF Descends
        <4>. QED
          BY <1>2, <1>3, <2>2, <3>2, <3>3, <4>1
      <3>9. \A j \in DOMAIN o.bodies : j \in DOMAIN v.bodies \/ \E f \in v.broken : f.source = j
        <4>1. \A j \in DOMAIN o.bodies : j \in DOMAIN w.bodies \/ \E f \in w.broken : f.source = j
          BY DEF Descends
        <4>. QED
          BY <3>2, <3>3, <3>5, <4>1
      <3>10. \A j \in DOMAIN v.bodies : j \in DOMAIN o.bodies \/ o.next <= j
        <4>1. \A j \in DOMAIN w.bodies : j \in DOMAIN o.bodies \/ o.next <= j
          BY DEF Descends
        <4>2. o.next <= w.next
          BY DEF Descends
        <4>. QED
          BY <1>2, <2>2, <3>4, <4>1, <4>2
      <3>11. ASSUME NEW j \in DOMAIN o.bodies, j \in DOMAIN v.bodies
             PROVE  /\ v.bodies[j].policy = o.bodies[j].policy
                    /\ Raster(v.bodies[j]) \subseteq Raster(o.bodies[j])
        <4>1. CASE j \in P
          <5>1. j = k
            <6>1. j < o.next /\ o.next <= w.next
              BY DEF Sound, Numbered, Descends
            <6>. QED
              BY <1>2, <3>4, <4>1, <6>1
          <5>. QED
            BY <2>2, <3>4, <4>1, <5>1
        <4>2. CASE j \notin P
          <5>1. j \in DOMAIN w.bodies /\ v.bodies[j] = w.bodies[j]
            BY <3>4, <3>5, <3>11, <4>2
          <5>. QED
            BY <5>1 DEF Descends
        <4>. QED
          BY <4>1, <4>2
      <3>12. ASSUME NEW j \in DOMAIN v.bodies, v.bodies[j].policy \in Minds
             PROVE  \/ /\ j \in DOMAIN o.bodies /\ o.bodies[j].policy \in Minds
                       /\ \A f \in v.broken : f.source # j
                    \/ \E f \in v.broken :
                         f.source \in DOMAIN o.bodies /\ o.bodies[f.source].policy \in Minds /\ j \in f.parts
        <4>1. CASE j \in P
          BY <2>2, <3>2, <3>3, <3>4, <3>12, <4>1
        <4>2. CASE j \notin P
          <5>1. j \in DOMAIN w.bodies /\ j # k /\ w.bodies[j].policy \in Minds
            BY <3>4, <3>5, <3>12, <4>2
          <5>2. \/ /\ j \in DOMAIN o.bodies /\ o.bodies[j].policy \in Minds
                   /\ \A f \in w.broken : f.source # j
                \/ \E f \in w.broken :
                     f.source \in DOMAIN o.bodies /\ o.bodies[f.source].policy \in Minds /\ j \in f.parts
            BY <5>1 DEF Descends
          <5>. QED
            BY <3>2, <3>3, <5>1, <5>2
        <4>. QED
          BY <4>1, <4>2
      <3>13. ASSUME NEW j \in DOMAIN v.bodies, j <= k \/ o.next <= j PROVE Whole(v, j)
        <4>1. CASE j \in P
          BY <3>4, <4>1
        <4>2. CASE j \notin P
          <5>1. j \in DOMAIN w.bodies /\ j # k
            BY <3>4, <4>2
          <5>2. j <= k - 1 \/ o.next <= j
            BY <1>2, <3>13, <5>1
          <5>3. Whole(w, j)
            BY <5>1, <5>2 DEF Descends
          <5>. QED
            BY <3>5, <5>1, <5>3
        <4>. QED
          BY <4>1, <4>2
      <3>14. \A f \in v.broken : \A j \in f.parts : j < v.next /\ (j = f.source \/ o.next <= j)
        <4>1. v.next \in Nat /\ \A j \in P : j < v.next
          BY <2>1, <3>4, WorldFacts DEF Sound, Numbered, Positive
        <4>2. o.next <= w.next
          BY DEF Descends
        <4>3. \A j \in P : j = k \/ o.next <= j
          BY <1>2, <3>4, <4>2
        <4>4. \A f \in w.broken : \A j \in f.parts : j < v.next /\ (j = f.source \/ o.next <= j)
          <5>1. ASSUME NEW f \in w.broken, NEW j \in f.parts
                PROVE  j < v.next /\ (j = f.source \/ o.next <= j)
            <6>1. j < w.next /\ (j = f.source \/ o.next <= j)
              BY DEF Descends
            <6>2. f \in Breaks
              BY <1>1, WorldFacts
            <6>3. j \in Nat
              BY <6>2 DEF Breaks, Positive
            <6>. QED
              BY <1>2, <2>1, <4>1, <6>1, <6>3
          <5>. QED
            BY <5>1
        <4>. QED
          BY <3>2, <3>3, <4>1, <4>3, <4>4
      <3>15. ASSUME NEW f \in v.broken, NEW j \in f.parts, j \in DOMAIN v.bodies
             PROVE  v.bodies[j].policy = o.bodies[f.source].policy
        <4>1. CASE f = gap
          BY <2>2, <3>2, <3>4, <3>15, <4>1
        <4>2. CASE f # gap
          <5>1. f \in w.broken
            BY <3>3, <3>15, <4>2
          <5>2. j < w.next /\ (j = f.source \/ o.next <= j)
            BY <3>15, <5>1 DEF Descends
          <5>3. j \in Nat
            BY <2>1, <3>15, WorldFacts DEF Sound, Positive
          <5>4. j \notin P /\ j # k
            BY <1>2, <1>3, <3>4, <5>1, <5>2, <5>3
          <5>5. j \in DOMAIN w.bodies /\ v.bodies[j] = w.bodies[j]
            BY <3>4, <3>5, <3>15, <5>4
          <5>. QED
            BY <3>15, <5>1, <5>5 DEF Descends
        <4>. QED
          BY <4>1, <4>2
      <3>16. Descends(o, v, k)
        BY <3>7, <3>8, <3>9, <3>10, <3>11, <3>12, <3>13, <3>14, <3>15 DEF Descends
      <3>. QED
        BY <1>5, <2>1, <3>16 DEF v
    <2>. QED
      BY <2>1, <2>3, <2>4
  <1>. QED
    BY <1>4, <1>5

\* The pass goes through the ids one by one.
LEMMA ReconcileAllRuns ==
  ASSUME NEW o, Sound(o)
  PROVE  \E g : /\ g[0] = o /\ ReconcileAll(o) = g[o.next - 1]
               /\ \A k \in 1..(o.next - 1) : g[k] = IF k \in DOMAIN g[k - 1].bodies
                                                    THEN Reconcile(g[k - 1], k) ELSE g[k - 1]
  <1> DEFINE N == o.next - 1
             pass(x, k) == IF k \in DOMAIN x.bodies THEN Reconcile(x, k) ELSE x
             Follows(g) == g = [k \in 0..N |-> IF k = 0 THEN o ELSE
                                  IF k \in DOMAIN g[k - 1].bodies THEN Reconcile(g[k - 1], k)
                                  ELSE g[k - 1]]
             after == CHOOSE g : Follows(g)
             Sounds == {x \in Worlds : Sound(x)}
             step == [k \in 1..N |-> [x \in Sounds |-> pass(x, k)]]
  <1>1. o \in Worlds /\ o.next \in Nat /\ N \in Nat /\ o \in Sounds
    BY WorldFacts DEF Sound, Positive
  <1>2. ReconcileAll(o) = after[N]
    BY DEF ReconcileAll
  <1> HIDE DEF N
  <1>3. step \in [1..N -> [Sounds -> Sounds]]
    <2>1. ASSUME NEW k \in 1..N, NEW x \in Sounds PROVE pass(x, k) \in Sounds
      <3>1. CASE k \in DOMAIN x.bodies
        <4>1. Sound(Reconcile(x, k))
          BY <3>1, ReconcileKeeps
        <4>. QED
          BY <3>1, <4>1 DEF Sound
      <3>2. CASE k \notin DOMAIN x.bodies
        BY <3>2
      <3>. QED
        BY <3>1, <3>2
    <2> HIDE DEF Sounds, pass
    <2>. QED
      BY <2>1
  <1>4. PICK s \in [0..N -> Sounds] : Runs(s, N, o, step)
    <2> HIDE DEF step, Sounds
    <2>. QED
      BY <1>1, <1>3, BoundedFunctionExists
  <1> HIDE DEF Sounds
  <1>5. Follows(s)
    <2>1. ASSUME NEW k \in 0..N
          PROVE  s[k] = IF k = 0 THEN o ELSE pass(s[k - 1], k)
      <3>1. CASE k = 0
        BY <1>4, <3>1 DEF Runs
      <3>2. CASE k # 0
        <4>1. k \in 1..N /\ k - 1 \in 0..N
          BY <1>1, <3>2
        <4>2. s[k] = step[k][s[k - 1]] /\ s[k - 1] \in Sounds
          BY <1>4, <4>1 DEF Runs
        <4> HIDE DEF pass
        <4>. QED
          BY <3>2, <4>1, <4>2
      <3>. QED
        BY <3>1, <3>2
    <2>2. DOMAIN s = 0..N /\ s = [k \in 0..N |-> s[k]]
      BY <1>4
    <2>. QED
      BY <2>1, <2>2
  <1>6. Follows(after)
    BY <1>5, Zenon
  <1>7. after[0] = o /\ \A k \in 1..N : after[k] = pass(after[k - 1], k)
    <2>1. \A k \in 0..N : after[k] = IF k = 0 THEN o ELSE pass(after[k - 1], k)
      BY <1>6
    <2> HIDE DEF after, pass
    <2>2. \A k \in 1..N : k \in 0..N /\ k # 0
      BY <1>1
    <2>3. 0 \in 0..N
      BY <1>1
    <2>. QED
      BY <2>1, <2>2, <2>3, Zenon
  <1> HIDE DEF after, Follows, step
  <1>. QED
    BY <1>2, <1>7 DEF N

\* After the pass every body is whole, those that were and those that came.
LEMMA ReconcileAllKeeps ==
  ASSUME NEW o, Sound(o), o.broken = {}
  PROVE  LET v == ReconcileAll(o)
         IN  Sound(v) /\ Descends(o, v, o.next - 1) /\ \A j \in DOMAIN v.bodies : Whole(v, j)
  <1> DEFINE N == o.next - 1
             pass(x, k) == IF k \in DOMAIN x.bodies THEN Reconcile(x, k) ELSE x
  <1>1. o \in Worlds /\ o.next \in Nat /\ N \in Nat
    BY WorldFacts DEF Sound, Positive
  <1>7. PICK after : /\ after[0] = o /\ ReconcileAll(o) = after[N]
                     /\ \A k \in 1..N : after[k] = pass(after[k - 1], k)
    BY ReconcileAllRuns
  <1> HIDE DEF N
  <1> DEFINE T == {k \in 0..N : Sound(after[k]) /\ Descends(o, after[k], k)}
  <1>8. 0 \in T
    <2>1. \A j \in DOMAIN o.bodies : ~(j <= 0 \/ o.next <= j)
      BY <1>1, WorldFacts DEF Sound, Numbered, Positive
    <2>2. Descends(o, o, 0)
      BY <1>1, <2>1 DEF Descends
    <2>. QED
      BY <1>1, <1>7, <2>2
  <1>9. ASSUME NEW k \in 0..(N - 1), k \in T PROVE k + 1 \in T
    <2>1. k + 1 \in 1..N /\ (k + 1) - 1 = k /\ k + 1 \in Positive /\ k + 1 < o.next /\ k + 1 \in 0..N
      <3>1. N = o.next - 1 /\ o.next \in Nat
        BY <1>1 DEF N, Positive
      <3>2. k \in Nat /\ k <= N - 1
        BY <1>1
      <3>. QED
        BY <3>1, <3>2 DEF Positive
    <2>2. after[k + 1] = pass(after[k], k + 1)
      BY <1>7, <2>1
    <2>3. Sound(after[k]) /\ Descends(o, after[k], (k + 1) - 1)
      BY <1>9, <2>1
    <2> DEFINE i == k + 1  x == after[k]
    <2>4. i \in Positive /\ i < o.next /\ Sound(x) /\ Descends(o, x, i - 1)
      BY <2>1, <2>3
    <2> HIDE DEF i, x
    <2>5. Sound(pass(x, i)) /\ Descends(o, pass(x, i), i)
      BY <2>4, ReconcileDescends
    <2>. QED
      BY <2>1, <2>2, <2>5 DEF i, x
  <1>10. N \in T
    <2> HIDE DEF T
    <2>1. 0..N \subseteq T
      BY <1>1, <1>8, <1>9, BoundedInduction
    <2>. QED
      BY <1>1, <2>1
  <1>11. Sound(after[N]) /\ Descends(o, after[N], N)
    BY <1>10
  <1>12. \A j \in DOMAIN after[N].bodies : j <= N \/ o.next <= j
    <2>1. \A j \in DOMAIN after[N].bodies : j \in Nat
      BY <1>11, WorldFacts DEF Sound, Positive
    <2>. QED
      BY <1>1, <2>1 DEF N
  <1>13. \A j \in DOMAIN after[N].bodies : Whole(after[N], j)
    BY <1>11, <1>12 DEF Descends
  <1>. QED
    BY <1>7, <1>11, <1>13 DEF N
-----------------------------------------------------------------------------
(* Islands that detach.                                                    *)

LEMMA UnparkedKeeps ==
  ASSUME NEW w, Sound(w)
  PROVE  LET v == Unparked(w)
         IN  /\ Sound(v) /\ v.next = w.next /\ v.broken = w.broken
             /\ v.mat = w.mat /\ v.owner = w.owner /\ v.seeds = w.seeds /\ v.parked = w.parked
             /\ DOMAIN v.bodies = DOMAIN w.bodies
             /\ \A j \in DOMAIN w.bodies :
                  /\ v.bodies[j].slots = w.bodies[j].slots
                  /\ v.bodies[j].policy = w.bodies[j].policy
  <1> DEFINE v == Unparked(w)
             freed(id) == [w.bodies[id] EXCEPT !.parked = w.bodies[id].parked
                                                          /\ Blockers(Raster(w.bodies[id])) # {}]
             f == [id \in DOMAIN w.bodies |-> freed(id)]
  <1>1. w \in Worlds /\ DOMAIN w.bodies \in SUBSET Positive
    BY WorldFacts DEF Sound
  <1>2. ASSUME NEW id \in DOMAIN w.bodies
        PROVE  /\ freed(id) \in BodyTypes
               /\ freed(id).slots = w.bodies[id].slots
               /\ freed(id).policy = w.bodies[id].policy
    <2>1. w.bodies[id] \in BodyTypes
      BY <1>1, RastersInWorld
    <2> DEFINE k == w.bodies[id].parked /\ Blockers(Raster(w.bodies[id])) # {}
    <2>2. freed(id) = [w.bodies[id] EXCEPT !.parked = k]
      OBVIOUS
    <2>3. k \in BOOLEAN
      OBVIOUS
    <2> HIDE DEF k, freed
    <2>. QED
      BY <2>1, <2>2, <2>3 DEF BodyTypes
  <1>4. v = [w EXCEPT !.bodies = f]
    BY Zenon DEF Unparked
  <1> HIDE DEF freed
  <1>3. f \in BodySets /\ DOMAIN f = DOMAIN w.bodies
    <2>1. f \in [DOMAIN w.bodies -> BodyTypes]
      BY <1>2
    <2> HIDE DEF f
    <2>. QED
      BY <1>1, <2>1, MakeBodySet
  <1>5. \A id \in DOMAIN w.bodies : f[id] = freed(id)
    OBVIOUS
  <1> HIDE DEF f, v
  <1>6. /\ v \in Worlds /\ v.bodies = f /\ v.mat = w.mat /\ v.owner = w.owner
        /\ v.next = w.next /\ v.broken = w.broken /\ v.seeds = w.seeds /\ v.parked = w.parked
    BY <1>1, <1>3, <1>4, BodiesField
  <1>7. \A id \in DOMAIN w.bodies : /\ v.bodies[id].slots = w.bodies[id].slots
                                    /\ v.bodies[id].policy = w.bodies[id].policy
    BY <1>2, <1>5, <1>6
  <1>8. Sound(v)
    BY <1>3, <1>6, <1>7, ShapesStay
  <1>. QED
    BY <1>3, <1>6, <1>7, <1>8 DEF v

\* An island is of loaded, bonded cells without an owner.
LEMMA IslandFacts ==
  ASSUME NEW w \in Worlds, NEW p, Rigid(w, p)
  PROVE  /\ Island(w, p) \in Rasters
         /\ \A q \in Island(w, p) : Loaded(q) /\ w.owner[q] = 0 /\ w.mat[q] \in Bonded
  <1> DEFINE D == {q \in Cells : Rigid(w, q)}  N == MaxIsland
             touch(q) == {r \in Beside(q) : Rigid(w, r) /\ Bonds(w.mat[q], w.mat[r])}
             Follows(g) ==
               g = [k \in 0..N |-> IF k = 0 THEN {p} ELSE g[k - 1] \cup UNION {touch(q) : q \in g[k - 1]}]
             Sets == (SUBSET D) \ {{}}
             step == [k \in 1..N |-> [X \in Sets |-> X \cup UNION {touch(q) : q \in X}]]
             after == CHOOSE g : Follows(g)
  <1>1. \A q : Rigid(w, q) => q \in D
    BY DEF Rigid, Loaded
  <1>2. N \in Nat
    BY SizeAssumption
  <1>3. Island(w, p) = after[N]
    BY DEF Island, Spread
  <1> HIDE DEF N
  <1>4. \A q : touch(q) \in SUBSET D
    BY <1>1
  <1> HIDE DEF touch
  <1>5. step \in [1..N -> [Sets -> Sets]]
    <2>1. \A X \in Sets : X \cup UNION {touch(q) : q \in X} \in Sets
      BY <1>4
    <2> HIDE DEF Sets
    <2>. QED
      BY <2>1
  <1>6. {p} \in Sets
    BY <1>1
  <1>7. PICK s \in [0..N -> Sets] : Runs(s, N, {p}, step)
    <2> HIDE DEF step, Sets
    <2>. QED
      BY <1>2, <1>5, <1>6, BoundedFunctionExists
  <1> HIDE DEF Sets
  <1>8. Follows(s)
    <2>1. ASSUME NEW k \in 0..N
          PROVE  s[k] = IF k = 0 THEN {p} ELSE s[k - 1] \cup UNION {touch(q) : q \in s[k - 1]}
      <3>1. CASE k = 0
        BY <1>7, <3>1 DEF Runs
      <3>2. CASE k # 0
        <4>1. k \in 1..N /\ k - 1 \in 0..N
          BY <1>2, <3>2
        <4>2. s[k] = step[k][s[k - 1]] /\ s[k - 1] \in Sets
          BY <1>7, <4>1 DEF Runs
        <4>. QED
          BY <3>2, <4>1, <4>2
      <3>. QED
        BY <3>1, <3>2
    <2>. QED
      BY <2>1
  <1>9. Follows(after)
    BY <1>8
  <1>10. after[0] = {p}
         /\ \A k \in 1..N : after[k] = after[k - 1] \cup UNION {touch(q) : q \in after[k - 1]}
    <2>1. \A k \in 0..N :
            after[k] = IF k = 0 THEN {p} ELSE after[k - 1] \cup UNION {touch(q) : q \in after[k - 1]}
      BY <1>9
    <2> HIDE DEF after, touch
    <2>2. \A k \in 1..N : k \in 0..N /\ k # 0
      BY <1>2
    <2>3. 0 \in 0..N
      BY <1>2
    <2>. QED
      BY <2>1, <2>2, <2>3, Zenon
  <1> HIDE DEF after, Follows, D
  <1>11. \A k \in 1..N : after[k - 1] \in Sets => after[k] \in Sets
    <2>1. TAKE k \in 1..N
    <2> DEFINE X == after[k - 1]  U == UNION {touch(q) : q \in X}
    <2>2. after[k] = X \cup U
      BY <1>10
    <2>3. U \in SUBSET D
      BY <1>4
    <2> HIDE DEF X, U
    <2>4. X \in Sets => X \cup U \in Sets
      BY <2>3 DEF Sets
    <2>. QED
      BY <2>2, <2>4 DEF X
  <1>12. \A k \in 0..N : after[k] \in Sets
    <2>1. after[0] \in Sets
      BY <1>6, <1>10
    <2> HIDE DEF Sets, touch
    <2>. QED
      BY <1>2, <1>11, <2>1, ValuesStay
  <1>13. Island(w, p) \in Sets
    BY <1>2, <1>3, <1>12
  <1>14. \A q \in D : Loaded(q) /\ w.owner[q] = 0 /\ w.mat[q] \in Bonded
    BY WorldFacts DEF Rigid, Bonded, D
  <1>. QED
    BY <1>13, <1>14 DEF Sets, Rasters, D

\* A chunk is a position among chunks.
LEMMA ChunksAreInPlane ==
  ASSUME NEW p \in Plane
  PROVE  ChunkOf(p) \in Plane
  BY SizeAssumption, PointsArePairs, Division DEF ChunkOf, Plane, Positive

\* The corners of a raster are positions around it, as near as can be.
LEMMA CornersInPlane ==
  ASSUME NEW S \in Rasters
  PROVE  /\ MinCorner(S) \in Plane /\ MaxCorner(S) \in Plane
         /\ \A p \in S : /\ MinCorner(S)[1] <= p[1] /\ MinCorner(S)[2] <= p[2]
                         /\ p[1] <= MaxCorner(S)[1] /\ p[2] <= MaxCorner(S)[2]
         /\ (\E p \in S : MinCorner(S)[1] = p[1]) /\ (\E p \in S : MinCorner(S)[2] = p[2])
         /\ (\E p \in S : MaxCorner(S)[1] = p[1]) /\ (\E p \in S : MaxCorner(S)[2] = p[2])
  <1> DEFINE X == Xs(S)  Y == Ys(S)
  <1>1. S \subseteq Cells /\ S # {}
    BY DEF Rasters
  <1>2. Width - 1 \in Nat /\ Height - 1 \in Nat
    BY SizeAssumption
  <1>3. \A p \in S : p[1] \in 0..(Width - 1) /\ p[2] \in 0..(Height - 1) /\ p[1] \in X /\ p[2] \in Y
    BY <1>1, CellsInPlane DEF Xs, Ys
  <1>4. X \in SUBSET (0..(Width - 1)) /\ X # {} /\ Y \in SUBSET (0..(Height - 1)) /\ Y # {}
    BY <1>1, <1>3 DEF Xs, Ys
  <1> HIDE DEF X, Y
  <1>5. Min(X) \in X /\ \A y \in X : Min(X) <= y
    <2>1. X \in SUBSET Nat
      BY <1>4
    <2>. QED
      BY <1>4, <2>1, MinIsLeast
  <1>6. Min(Y) \in Y /\ \A y \in Y : Min(Y) <= y
    <2>1. Y \in SUBSET Nat
      BY <1>4
    <2>. QED
      BY <1>4, <2>1, MinIsLeast
  <1>7. Max(X) \in X /\ \A y \in X : y <= Max(X)
    BY <1>2, <1>4, MaxIsGreatest
  <1>8. Max(Y) \in Y /\ \A y \in Y : y <= Max(Y)
    BY <1>2, <1>4, MaxIsGreatest
  <1>9. MinCorner(S) = <<Min(X), Min(Y)>> /\ MaxCorner(S) = <<Max(X), Max(Y)>>
    BY DEF MinCorner, MaxCorner, X, Y
  <1>10. Min(X) \in Int /\ Min(Y) \in Int /\ Max(X) \in Int /\ Max(Y) \in Int
    <2>1. (\A x \in X : x \in Int) /\ (\A y \in Y : y \in Int)
      BY <1>4
    <2>. QED
      BY <1>5, <1>6, <1>7, <1>8, <2>1
  <1>11. (\A x \in X : \E p \in S : x = p[1]) /\ (\A y \in Y : \E p \in S : y = p[2])
    BY DEF X, Y, Xs, Ys
  <1>. QED
    BY <1>3, <1>5, <1>6, <1>7, <1>8, <1>9, <1>10, <1>11 DEF Plane

\* The chunks that block an island are finitely many.
LEMMA BlockersInPlane ==
  ASSUME NEW S \in Rasters
  PROVE  Blockers(S) \in FiniteIn(Plane)
  <1> DEFINE lo == ChunkOf(Shift(MinCorner(S), <<-1, -1>>))
             hi == ChunkOf(Shift(MaxCorner(S), <<1, 1>>))
             A == (lo[1]..hi[1]) \X (lo[2]..hi[2])
  <1>1. <<-1, -1>> \in Plane /\ <<1, 1>> \in Plane
    BY DEF Plane
  <1>2. lo \in Plane /\ hi \in Plane
    BY <1>1, CornersInPlane, PlaneShift, ChunksAreInPlane
  <1>3. Around(S) = A
    BY DEF Around
  <1> HIDE DEF lo, hi
  <1>4. lo[1] \in Int /\ lo[2] \in Int /\ hi[1] \in Int /\ hi[2] \in Int
    BY <1>2, PointsArePairs
  <1>5. IsFiniteSet(A)
    BY <1>4, BoxIsFinite
  <1>6. A \in SUBSET Plane
    BY <1>4 DEF Plane
  <1>7. Blockers(S) \in SUBSET A
    BY <1>3 DEF Blockers
  <1> HIDE DEF A
  <1>8. IsFiniteSet(Blockers(S))
    BY <1>5, <1>7, FS_Subset
  <1>. QED
    BY <1>6, <1>7, <1>8 DEF FiniteIn

\* A candidate is a position.
LEMMA CandidateType ==
  ASSUME NEW S \in FiniteIn(Plane), NEW k \in 1..(5 * Cardinality(S))
  PROVE  Candidate(S, k) \in Plane
  <1> DEFINE n == Cardinality(S)  j == (k - 1) \div 5  i == (k - 1) % 5
             sides == <<<<1, 0>>, <<-1, 0>>, <<0, 1>>, <<0, -1>>>>
  <1>1. n \in Nat /\ Sorted(S) \in [1..n -> S] /\ S \subseteq Plane
    BY RanksAreAttained DEF FiniteIn
  <1>2. k - 1 \in Int /\ 5 \in Positive /\ k - 1 >= 0 /\ k - 1 < 5 * n
    BY <1>1 DEF Positive
  <1>3. j \in Int /\ i \in 0..4
    BY <1>2, Division
  <1>4. 0 <= j /\ j <= n - 1
    <2>1. 5 * 0 <= k - 1 /\ k - 1 < 5 * (n - 1) + 5
      BY <1>1, <1>2
    <2>2. 0 \in Int /\ n - 1 \in Int
      BY <1>1
    <2> HIDE DEF n, j
    <2>. QED
      BY <1>2, <2>1, <2>2, Quotients DEF j
  <1>5. 1 + j \in 1..n
    BY <1>1, <1>3, <1>4
  <1>6. Sorted(S)[1 + j] \in Plane
    <2> HIDE DEF n, j
    <2>. QED
      BY <1>1, <1>5
  <1>7. Candidate(S, k) = IF i = 0 THEN Sorted(S)[1 + j] ELSE Shift(Sorted(S)[1 + j], sides[i])
    BY DEF Candidate
  <1>8. i # 0 => sides[i] \in Plane
    <2> HIDE DEF i
    <2>. QED
      BY <1>3 DEF Plane
  <1> HIDE DEF i, j, sides
  <1>. QED
    BY <1>6, <1>7, <1>8, PlaneShift

\* A world with other parked seeds is as sound.
LEMMA ParkedField ==
  ASSUME NEW w, Sound(w), NEW S \in FiniteIn(Plane \X Plane)
  PROVE  LET v == [w EXCEPT !.parked = S]
         IN  /\ Sound(v) /\ v.bodies = w.bodies /\ v.next = w.next /\ v.broken = w.broken
             /\ v.seeds = w.seeds /\ v.parked = S
             /\ \A j \in DOMAIN w.bodies : Whole(v, j) <=> Whole(w, j)
  <1> DEFINE v == [w EXCEPT !.parked = S]
  <1>1. w \in Worlds
    BY DEF Sound
  <1>2. /\ v \in Worlds /\ v.mat = w.mat /\ v.owner = w.owner /\ v.bodies = w.bodies
        /\ v.next = w.next /\ v.broken = w.broken /\ v.seeds = w.seeds /\ v.parked = S
    BY <1>1 DEF Worlds
  <1> HIDE DEF v
  <1>3. Sound(v) /\ \A j \in DOMAIN w.bodies : Whole(v, j) <=> Whole(w, j)
    BY <1>2, ShapesStay
  <1>. QED
    BY <1>2, <1>3 DEF v

\* A world with other seeds is as sound.
LEMMA SeedsKeep ==
  ASSUME NEW w, Sound(w), NEW S \in FiniteIn(Plane)
  PROVE  LET v == [w EXCEPT !.seeds = S]
         IN  /\ Sound(v) /\ v.bodies = w.bodies /\ v.next = w.next /\ v.broken = w.broken
             /\ v.parked = w.parked
             /\ \A j \in DOMAIN w.bodies : Whole(v, j) <=> Whole(w, j)
  <1> DEFINE v == [w EXCEPT !.seeds = S]
  <1>1. w \in Worlds
    BY DEF Sound
  <1>2. /\ v \in Worlds /\ v.mat = w.mat /\ v.owner = w.owner /\ v.bodies = w.bodies
        /\ v.next = w.next /\ v.broken = w.broken /\ v.parked = w.parked
    BY <1>1, SeedsField
  <1> HIDE DEF v
  <1>3. Sound(v) /\ \A j \in DOMAIN w.bodies : Whole(v, j) <=> Whole(w, j)
    BY <1>2, ShapesStay
  <1>. QED
    BY <1>2, <1>3 DEF v

\* What Detach adds to the world o: bodies of terrain, which settle.
Grown(o, w) ==
  /\ Sound(w) /\ o.next <= w.next /\ w.broken = o.broken
  /\ \A j \in DOMAIN o.bodies : j \in DOMAIN w.bodies /\ w.bodies[j] = o.bodies[j]
  /\ \A j \in DOMAIN w.bodies :
       Whole(w, j) /\ (j \in DOMAIN o.bodies \/ (o.next <= j /\ w.bodies[j].policy = "DEBRIS"))

Scans == [w : Worlds, scanned : SUBSET Cells]

\* What changes one part of a scan leaves the other.
LEMMA ScanFields ==
  ASSUME NEW acc \in Scans, NEW s, NEW T
  PROVE  /\ [acc EXCEPT !.scanned = s] = [w |-> acc.w, scanned |-> s]
         /\ [acc EXCEPT !.w.parked = T] = [w |-> [acc.w EXCEPT !.parked = T], scanned |-> acc.scanned]
  BY DEF Scans

\* An island that becomes a body owns its cells, and takes nothing from the
\* others.
LEMMA TakeGrows ==
  ASSUME NEW o, NEW w, Grown(o, w), o.next \in Nat, NEW S \in Rasters,
         \A p \in S : Loaded(p) /\ w.owner[p] = 0 /\ w.mat[p] \in Bonded
  PROVE  Take(w, S) \in Worlds /\ Grown(o, Take(w, S))
  <1> DEFINE v == Take(w, S)
  <1>1. Sound(w)
    BY DEF Grown
  <1>2. v = [Capture(w, w.next, S, "DEBRIS") EXCEPT !.next = @ + 1]
    BY DEF Take
  <1> DEFINE u == [Capture(w, w.next, S, "DEBRIS") EXCEPT !.next = @ + 1]
  <1>c. Captured(w, u, S, "DEBRIS")
    <2>1. "DEBRIS" \in Policies
      BY PolicyFacts
    <2>. QED
      BY <1>1, <2>1, CaptureKeeps
  <1>3. /\ Sound(u) /\ Whole(u, w.next)
        /\ u.next = w.next + 1 /\ u.broken = w.broken
        /\ DOMAIN u.bodies = DOMAIN w.bodies \cup {w.next} /\ w.next \notin DOMAIN w.bodies
        /\ u.bodies[w.next].policy = "DEBRIS"
        /\ \A j \in DOMAIN w.bodies :
             u.bodies[j] = w.bodies[j] /\ (Whole(w, j) => Whole(u, j))
    <2> HIDE DEF u
    <2>. QED
      BY <1>c DEF Captured
  <1>4. v = u
    BY <1>2
  <1> HIDE DEF u, v
  <1>5. w.next \in Nat
    BY <1>1, WorldFacts DEF Sound, Positive
  <1>6. o.next <= v.next
    BY <1>3, <1>4, <1>5 DEF Grown
  <1>7. Grown(o, v)
    BY <1>3, <1>4, <1>6 DEF Grown
  <1>. QED
    BY <1>7 DEF v, Grown, Sound

\* What comes of a candidate: nothing, a seed that waits, a scan, or a body.
Idle(acc, p, r) == r = acc /\ (p \in acc.scanned \/ (Loaded(p) /\ ~Rigid(acc.w, p)))
Parks(acc, p, r) ==
  ~Loaded(p) /\ r = [w |-> [acc.w EXCEPT !.parked = @ \cup {<<ChunkOf(p), p>>}], scanned |-> acc.scanned]
Scanned(acc, p, v, r) ==
  Rigid(acc.w, p) /\ r = [w |-> v, scanned |-> acc.scanned \cup Island(acc.w, p)]
Passes(acc, p, r) == ~Detached(acc.w, p) /\ Scanned(acc, p, acc.w, r)
Takes(acc, p, r) ==
  /\ Detached(acc.w, p) /\ Blockers(Island(acc.w, p)) = {}
  /\ Scanned(acc, p, Take(acc.w, Island(acc.w, p)), r)
Waits(acc, p, r) ==
  /\ Detached(acc.w, p) /\ Blockers(Island(acc.w, p)) # {}
  /\ Scanned(acc, p, [acc.w EXCEPT !.parked = @ \cup {<<First(Blockers(Island(acc.w, p))), p>>}], r)

\* One of these.
LEMMA DetachAtIs ==
  ASSUME NEW acc \in Scans, NEW p
  PROVE  LET r == DetachAt(acc, p)
         IN  Idle(acc, p, r) \/ Parks(acc, p, r) \/ Passes(acc, p, r) \/ Takes(acc, p, r)
               \/ Waits(acc, p, r)
  <1> DEFINE w == acc.w  S == Island(w, p)  blockers == Blockers(S)
             seen == [acc EXCEPT !.scanned = @ \cup S]
             parked1 == [acc EXCEPT !.w.parked = @ \cup {<<ChunkOf(p), p>>}]
             parked2 == [seen EXCEPT !.w.parked = @ \cup {<<First(blockers), p>>}]
             taken == [seen EXCEPT !.w = Take(w, S)]
             r == DetachAt(acc, p)
             s == acc.scanned \cup S
  <1>1. acc = [w |-> w, scanned |-> acc.scanned]
    BY DEF Scans
  <1>2. r = IF p \in acc.scanned THEN acc
            ELSE IF ~Loaded(p) THEN parked1
            ELSE IF ~Rigid(w, p) THEN acc
            ELSE IF ~Detached(w, p) THEN seen
            ELSE IF blockers = {} THEN taken ELSE parked2
    BY DEF DetachAt
  <1>3. seen = [w |-> w, scanned |-> s]
    <2>1. seen = [acc EXCEPT !.scanned = s]
      OBVIOUS
    <2> HIDE DEF S, seen, s
    <2>2. [acc EXCEPT !.scanned = s] = [w |-> acc.w, scanned |-> s]
      BY ScanFields
    <2>. QED
      BY <2>1, <2>2
  <1>4. parked1 = [w |-> [w EXCEPT !.parked = @ \cup {<<ChunkOf(p), p>>}], scanned |-> acc.scanned]
    <2> DEFINE T == w.parked \cup {<<ChunkOf(p), p>>}  v == [w EXCEPT !.parked = T]
    <2>1. parked1 = [acc EXCEPT !.w.parked = T] /\ v = [acc.w EXCEPT !.parked = T]
      OBVIOUS
    <2>2. v = [w EXCEPT !.parked = @ \cup {<<ChunkOf(p), p>>}]
      OBVIOUS
    <2> HIDE DEF T, parked1, v
    <2>3. parked1 = [w |-> v, scanned |-> acc.scanned]
      BY <2>1, ScanFields
    <2>. QED
      BY <2>2, <2>3
  <1>5. taken = [w |-> Take(w, S), scanned |-> s]
    <2> DEFINE v == Take(w, S)
    <2>1. taken = [seen EXCEPT !.w = v]
      OBVIOUS
    <2> HIDE DEF seen, v, taken, w, S, s
    <2>2. taken = [w |-> v, scanned |-> s]
      BY <1>3, <2>1
    <2>. QED
      BY <2>2 DEF v
  <1>6. parked2 = [w |-> [w EXCEPT !.parked = @ \cup {<<First(blockers), p>>}], scanned |-> s]
    <2> DEFINE c == First(blockers)  v == [w EXCEPT !.parked = @ \cup {<<c, p>>}]
    <2>1. parked2 = [seen EXCEPT !.w.parked = @ \cup {<<c, p>>}]
      OBVIOUS
    <2>2. parked2 = [w |-> v, scanned |-> s]
      <3> HIDE DEF seen, c, w, s, parked2
      <3>. QED
        BY <1>3, <2>1
    <2>. QED
      BY <2>2
  <1> HIDE DEF seen, parked1, parked2, taken, r
  <1>7. ASSUME Loaded(p), p \notin acc.scanned, Rigid(w, p)
        PROVE  Passes(acc, p, r) \/ Takes(acc, p, r) \/ Waits(acc, p, r)
    <2>1. CASE ~Detached(w, p)
      <3>1. r = [w |-> w, scanned |-> s]
        BY <1>2, <1>3, <1>7, <2>1
      <3>. QED
        BY <1>7, <2>1, <3>1 DEF Passes, Scanned
    <2>2. CASE Detached(w, p) /\ blockers = {}
      <3>1. r = [w |-> Take(w, S), scanned |-> s]
        BY <1>2, <1>5, <1>7, <2>2
      <3>. QED
        BY <1>7, <2>2, <3>1 DEF Takes, Scanned
    <2>3. CASE Detached(w, p) /\ blockers # {}
      <3>1. r = [w |-> [w EXCEPT !.parked = @ \cup {<<First(blockers), p>>}], scanned |-> s]
        BY <1>2, <1>6, <1>7, <2>3
      <3>. QED
        BY <1>7, <2>3, <3>1 DEF Waits, Scanned
    <2>. QED
      BY <2>1, <2>2, <2>3
  <1>8. ASSUME p \in acc.scanned \/ (Loaded(p) /\ ~Rigid(w, p)) PROVE Idle(acc, p, r)
    <2>1. Rigid(w, p) => Loaded(p)
      BY DEF Rigid
    <2>. QED
      BY <1>2, <1>8, <2>1 DEF Idle
  <1>9. ASSUME p \notin acc.scanned, ~Loaded(p) PROVE Parks(acc, p, r)
    BY <1>2, <1>4, <1>9 DEF Parks
  <1>10. r = DetachAt(acc, p)
    BY DEF r
  <1>. QED
    BY <1>7, <1>8, <1>9, <1>10

\* Each of them leaves a world that has grown.
LEMMA DetachAtGrows ==
  ASSUME NEW o, o.next \in Nat, NEW acc \in Scans, Grown(o, acc.w), NEW p \in Plane
  PROVE  DetachAt(acc, p) \in Scans /\ Grown(o, DetachAt(acc, p).w)
  <1> DEFINE w == acc.w  S == Island(w, p)  blockers == Blockers(S)
             r == DetachAt(acc, p)
  <1>1. w \in Worlds /\ acc.scanned \in SUBSET Cells /\ Sound(w) /\ Grown(o, w)
    BY DEF Scans, Grown
  <1>2. Idle(acc, p, r) \/ Parks(acc, p, r) \/ Passes(acc, p, r) \/ Takes(acc, p, r)
          \/ Waits(acc, p, r)
    BY DetachAtIs
  <1>s. SUFFICES r \in Scans /\ Grown(o, r.w)
    OBVIOUS
  <1>w. w = acc.w
    OBVIOUS
  <1> HIDE DEF r, w
  <1>3. ASSUME NEW c \in Plane
        PROVE  LET v == [w EXCEPT !.parked = @ \cup {<<c, p>>}] IN v \in Worlds /\ Grown(o, v)
    <2> DEFINE U == {<<c, p>>}  T == w.parked \cup U  v == [w EXCEPT !.parked = T]
    <2>1. U \in SUBSET (Plane \X Plane) /\ IsFiniteSet(U)
      BY FS_Singleton
    <2>2. T \in FiniteIn(Plane \X Plane)
      <3> HIDE DEF U
      <3>. QED
        BY <1>1, <2>1, WorldFacts, FiniteUnion
    <2> HIDE DEF T
    <2>3. /\ Sound(v) /\ v.bodies = w.bodies /\ v.next = w.next /\ v.broken = w.broken
          /\ \A j \in DOMAIN w.bodies : Whole(v, j) <=> Whole(w, j)
      BY <1>1, <2>2, ParkedField
    <2> HIDE DEF v
    <2>4. Grown(o, v)
      BY <1>1, <2>3 DEF Grown
    <2>5. v \in Worlds
      BY <2>3 DEF Sound
    <2>. QED
      BY <2>4, <2>5 DEF v, T
  <1>4. ASSUME Rigid(w, p)
        PROVE  /\ S \in Rasters /\ S \in SUBSET Cells
               /\ \A q \in S : Loaded(q) /\ w.owner[q] = 0 /\ w.mat[q] \in Bonded
    <2>1. S \in Rasters /\ \A q \in S : Loaded(q) /\ w.owner[q] = 0 /\ w.mat[q] \in Bonded
      BY <1>1, <1>4, IslandFacts
    <2> HIDE DEF S
    <2>. QED
      BY <2>1 DEF Rasters
  <1>5. ASSUME NEW v \in Worlds, Grown(o, v), Scanned(acc, p, v, r)
        PROVE  r \in Scans /\ Grown(o, r.w)
    <2>1. Rigid(w, p) /\ r = [w |-> v, scanned |-> acc.scanned \cup S]
      BY <1>5, <1>w DEF Scanned
    <2>2. S \in SUBSET Cells
      BY <1>4, <2>1
    <2> HIDE DEF S
    <2>. QED
      BY <1>1, <1>5, <2>1, <2>2 DEF Scans
  <1>6. CASE Idle(acc, p, r)
    BY <1>1, <1>6, <1>w DEF Idle
  <1>7. CASE Parks(acc, p, r)
    <2> DEFINE c == ChunkOf(p)  v == [w EXCEPT !.parked = @ \cup {<<c, p>>}]
    <2>1. c \in Plane
      BY ChunksAreInPlane
    <2>2. r = [w |-> v, scanned |-> acc.scanned]
      BY <1>7, <1>w DEF Parks
    <2> HIDE DEF c
    <2>3. v \in Worlds /\ Grown(o, v)
      BY <1>3, <2>1
    <2> HIDE DEF v
    <2>. QED
      BY <1>1, <2>2, <2>3 DEF Scans
  <1>8. CASE Passes(acc, p, r)
    BY <1>1, <1>5, <1>8, <1>w DEF Passes
  <1>9. CASE Takes(acc, p, r)
    <2> DEFINE v == Take(w, S)
    <2>1. Scanned(acc, p, v, r) /\ Rigid(w, p)
      BY <1>9, <1>w DEF Takes, Scanned
    <2>2. v \in Worlds /\ Grown(o, v)
      <3>1. S \in Rasters /\ \A q \in S : Loaded(q) /\ w.owner[q] = 0 /\ w.mat[q] \in Bonded
        BY <1>4, <2>1
      <3> HIDE DEF S
      <3>. QED
        BY <1>1, <3>1, TakeGrows
    <2> HIDE DEF v
    <2>. QED
      BY <1>5, <2>1, <2>2
  <1>10. CASE Waits(acc, p, r)
    <2> DEFINE c == First(blockers)  v == [w EXCEPT !.parked = @ \cup {<<c, p>>}]
    <2>1. Scanned(acc, p, v, r) /\ Rigid(w, p) /\ blockers # {}
      BY <1>10, <1>w DEF Waits, Scanned
    <2>2. c \in Plane
      <3>1. blockers \in FiniteIn(Plane)
        BY <1>4, <2>1, BlockersInPlane
      <3> HIDE DEF blockers
      <3>2. First(blockers) \in blockers
        BY <2>1, <3>1, FirstIsThere
      <3>. QED
        BY <3>1, <3>2 DEF FiniteIn
    <2> HIDE DEF c
    <2>3. v \in Worlds /\ Grown(o, v)
      BY <1>3, <2>2
    <2> HIDE DEF v
    <2>. QED
      BY <1>5, <2>1, <2>3
  <1>. QED
    BY <1>2, <1>6, <1>7, <1>8, <1>9, <1>10

\* The scans of a tick.
Tries(S) == 5 * Cardinality(S)
Detaching(o, g) ==
  /\ g[0] = [w |-> [o EXCEPT !.seeds = {}], scanned |-> {}]
  /\ Detach(o) = g[Tries(o.seeds)].w
  /\ \A k \in 1..Tries(o.seeds) : g[k] = DetachAt(g[k - 1], Candidate(o.seeds, k))
  /\ \A k \in 0..Tries(o.seeds) : g[k] \in Scans /\ Grown(o, g[k].w)

\* And for all candidates of a tick, one by one.
LEMMA DetachRuns ==
  ASSUME NEW o, Sound(o), \A j \in DOMAIN o.bodies : Whole(o, j)
  PROVE  /\ Tries(o.seeds) \in Nat
         /\ \A k \in 1..Tries(o.seeds) : Candidate(o.seeds, k) \in Plane
         /\ \E g : Detaching(o, g)
  <1> DEFINE N == 5 * Cardinality(o.seeds)
             start == [w |-> [o EXCEPT !.seeds = {}], scanned |-> {}]
             Follows(g) == g = [k \in 0..N |-> IF k = 0 THEN start
                                               ELSE DetachAt(g[k - 1], Candidate(o.seeds, k))]
             Fine == {acc \in Scans : Grown(o, acc.w)}
             step == [k \in 1..N |-> [x \in Fine |-> DetachAt(x, Candidate(o.seeds, k))]]
             after == CHOOSE g : Follows(g)
  <1>1. o \in Worlds /\ o.next \in Nat /\ o.seeds \in FiniteIn(Plane)
    BY WorldFacts DEF Sound, Positive
  <1>2. N \in Nat /\ \A k \in 1..N : Candidate(o.seeds, k) \in Plane
    <2>1. Cardinality(o.seeds) \in Nat
      BY <1>1, RanksAreAttained
    <2>. QED
      BY <1>1, <2>1, CandidateType
  <1>3. Detach(o) = after[N].w
    BY DEF Detach
  <1>4. start \in Fine
    <2> DEFINE v == [o EXCEPT !.seeds = {}]
    <2>1. {} \in FiniteIn(Plane)
      BY FS_EmptySet DEF FiniteIn
    <2>2. /\ Sound(v) /\ v.bodies = o.bodies /\ v.next = o.next /\ v.broken = o.broken
          /\ \A j \in DOMAIN o.bodies : Whole(v, j) <=> Whole(o, j)
      BY <2>1, SeedsKeep
    <2> HIDE DEF v
    <2>3. Grown(o, v) /\ v \in Worlds
      BY <1>1, <2>2 DEF Grown, Sound
    <2>4. start = [w |-> v, scanned |-> {}]
      BY DEF v
    <2> HIDE DEF start
    <2>5. start \in Scans /\ start.w = v
      BY <2>3, <2>4 DEF Scans
    <2>. QED
      BY <2>3, <2>5
  <1> HIDE DEF N, start
  <1>5. step \in [1..N -> [Fine -> Fine]]
    <2>1. ASSUME NEW k \in 1..N, NEW x \in Fine
          PROVE  DetachAt(x, Candidate(o.seeds, k)) \in Fine
      BY <1>1, <1>2, DetachAtGrows
    <2> HIDE DEF Fine
    <2>. QED
      BY <2>1
  <1>6. PICK s \in [0..N -> Fine] : Runs(s, N, start, step)
    <2> HIDE DEF step, Fine
    <2>. QED
      BY <1>2, <1>4, <1>5, BoundedFunctionExists
  <1> HIDE DEF Fine
  <1>7. Follows(s)
    <2>1. ASSUME NEW k \in 0..N
          PROVE  s[k] = IF k = 0 THEN start ELSE DetachAt(s[k - 1], Candidate(o.seeds, k))
      <3>1. CASE k = 0
        BY <1>6, <3>1 DEF Runs
      <3>2. CASE k # 0
        <4>1. k \in 1..N /\ k - 1 \in 0..N
          BY <1>2, <3>2
        <4>2. s[k] = step[k][s[k - 1]] /\ s[k - 1] \in Fine
          BY <1>6, <4>1 DEF Runs
        <4>. QED
          BY <3>2, <4>1, <4>2
      <3>. QED
        BY <3>1, <3>2
    <2>. QED
      BY <2>1
  <1>8. Follows(after)
    BY <1>7
  <1>9. after[0] = start
        /\ \A k \in 1..N : after[k] = DetachAt(after[k - 1], Candidate(o.seeds, k))
    <2>1. \A k \in 0..N :
            after[k] = IF k = 0 THEN start ELSE DetachAt(after[k - 1], Candidate(o.seeds, k))
      BY <1>8
    <2> HIDE DEF after
    <2>. QED
      BY <1>2, <2>1
  <1> HIDE DEF after, Follows, step
  <1>10. \A k \in 1..N : after[k - 1] \in Fine => after[k] \in Fine
    <2>1. ASSUME NEW k \in 1..N, NEW x \in Fine
          PROVE  DetachAt(x, Candidate(o.seeds, k)) \in Fine
      BY <1>1, <1>2, DetachAtGrows DEF Fine
    <2>. QED
      BY <1>9, <2>1
  <1>11. \A k \in 0..N : after[k] \in Fine
    BY <1>2, <1>4, <1>9, <1>10, ValuesStay
  <1>12. \A k \in 0..N : after[k] \in Scans /\ Grown(o, after[k].w)
    BY <1>11 DEF Fine
  <1>. QED
    BY <1>2, <1>3, <1>9, <1>12 DEF N, start, Tries, Detaching

\* So what comes of them all is grown.
LEMMA DetachGrows ==
  ASSUME NEW o, Sound(o), \A j \in DOMAIN o.bodies : Whole(o, j)
  PROVE  Grown(o, Detach(o))
  <1>1. Tries(o.seeds) \in Nat /\ \E g : Detaching(o, g)
    BY DetachRuns
  <1>2. PICK g : Detaching(o, g)
    BY <1>1
  <1>3. Detach(o) = g[Tries(o.seeds)].w /\ \A k \in 0..Tries(o.seeds) : Grown(o, g[k].w)
    BY <1>2 DEF Detaching
  <1>. QED
    BY <1>1, <1>3
-----------------------------------------------------------------------------
(* Regions that come in.                                                   *)

LEMMA WakeKeeps ==
  ASSUME NEW w, Sound(w), NEW chunks
  PROVE  LET v == Wake(w, chunks)
         IN  /\ Sound(v) /\ v.bodies = w.bodies /\ v.next = w.next /\ v.broken = w.broken
             /\ \A j \in DOMAIN w.bodies : Whole(v, j) <=> Whole(w, j)
  <1> DEFINE v == Wake(w, chunks)
             woken == {e \in w.parked : e[1] \in chunks}
             P == w.parked \ woken
             Q == {e[2] : e \in woken}
             T == w.seeds \cup Q
  <1>1. w \in Worlds
    BY DEF Sound
  <1>2. w.parked \in SUBSET (Plane \X Plane) /\ IsFiniteSet(w.parked)
    BY <1>1, WorldFacts DEF FiniteIn
  <1>3. IsFiniteSet(woken) /\ IsFiniteSet(P) /\ woken \in SUBSET (Plane \X Plane)
    <2>1. woken \in SUBSET w.parked /\ P \in SUBSET w.parked
      OBVIOUS
    <2> HIDE DEF woken, P
    <2>. QED
      BY <1>2, <2>1, FS_Subset
  <1>4. P \in FiniteIn(Plane \X Plane)
    BY <1>2, <1>3 DEF FiniteIn
  <1>5. Q \in SUBSET Plane
    BY <1>3
  <1>6. IsFiniteSet(Q)
    <2> DEFINE f == [e \in woken |-> e[2]]
    <2>1. DOMAIN f = woken /\ Q = {f[e] : e \in woken}
      OBVIOUS
    <2> HIDE DEF f, Q, woken
    <2>. QED
      BY <1>3, <2>1, ImageIsFinite
  <1>7. T \in FiniteIn(Plane)
    <2> HIDE DEF Q
    <2>. QED
      BY <1>1, <1>5, <1>6, WorldFacts, FiniteUnion
  <1>8. v = [w EXCEPT !.parked = P, !.seeds = T]
    BY DEF Wake
  <1> HIDE DEF P, T, v
  <1>9. /\ v \in Worlds /\ v.mat = w.mat /\ v.owner = w.owner /\ v.bodies = w.bodies
        /\ v.next = w.next /\ v.broken = w.broken
    BY <1>1, <1>4, <1>7, <1>8 DEF Worlds
  <1>10. Sound(v) /\ \A j \in DOMAIN w.bodies : Whole(v, j) <=> Whole(w, j)
    BY <1>9, ShapesStay
  <1>. QED
    BY <1>9, <1>10 DEF v

\* Regions that come in touch no body.
LEMMA LoadKeeps ==
  ASSUME NEW w, Sound(w), NEW arrived
  PROVE  LET v == Load(w, arrived)
         IN  Sound(v) /\ v.bodies = w.bodies /\ v.next = w.next /\ v.broken = w.broken
  <1> DEFINE v == Load(w, arrived)  u == Wake(w, ChunksOf(arrived))  T == u.seeds \cup Exposed(w, arrived)
  <1>1. Sound(u) /\ u.bodies = w.bodies /\ u.next = w.next /\ u.broken = w.broken
    BY WakeKeeps
  <1>2. v = [u EXCEPT !.seeds = T]
    BY DEF Load
  <1> HIDE DEF u, v
  <1>3. T \in FiniteIn(Plane)
    <2> DEFINE E == Exposed(w, arrived)
    <2>1. E \in SUBSET Cells
      BY DEF Exposed
    <2> HIDE DEF E
    <2>2. E \in SUBSET Plane /\ IsFiniteSet(E)
      BY <2>1, CellsAreFinite, CellsInPlane
    <2>3. u.seeds \cup E \in FiniteIn(Plane)
      BY <1>1, <2>2, WorldFacts, FiniteUnion DEF Sound
    <2>. QED
      BY <2>3 DEF E
  <1> HIDE DEF T
  <1>4. Sound(v) /\ v.bodies = u.bodies /\ v.next = u.next /\ v.broken = u.broken
    BY <1>1, <1>2, <1>3, SeedsKeep
  <1>. QED
    BY <1>1, <1>4 DEF v
-----------------------------------------------------------------------------
(* The inductive invariant.  Beside what the theorems state it says that   *)
(* ids are handed out once, that an avatar is no larger than what is       *)
(* simulated around it, and which parts of a broken body its mind still    *)
(* has to bury.                                                            *)

Small(S) == \A i \in {1, 2} : \A p, q \in S : p[i] - q[i] <= ViewRadius * ChunkSize

Seated ==
  /\ pc \in {"input", "simulate", "resolve", "drive", "advance", "hazards"}
  /\ loaded \subseteq Regions
  /\ simulated \subseteq Plane
  /\ mobs \subseteq Positive
  /\ players \in [Players -> Lives \cup {Nil}]
  /\ next <= MaxId
  /\ acts \in 0..MaxActs

Reconciled ==
  pc \notin {"input", "simulate"} => \A id \in DOMAIN bodies : Whole(World, id)

Sources == {f.source : f \in fractures}

MindsOwn ==
  /\ AvatarsHaveBodies
  /\ \A id \in Minded : id < next
  /\ \A id \in Avatars \cap DOMAIN bodies : bodies[id].policy \in Minds /\ Small(Raster(bodies[id]))

Broken ==
  /\ pc # "resolve" => fractures = {}
  /\ \A f \in fractures : /\ f.source < next
                          /\ \A j \in f.parts : j < next /\ (j = f.source \/ j \notin Minded)

Kept ==
  /\ pc # "resolve" => \A id \in DOMAIN bodies : bodies[id].policy \in Minds => id \in Minded
  /\ pc = "resolve" => \A id \in DOMAIN bodies : bodies[id].policy \in Minds =>
       \/ id \in Minded \ Sources
       \/ \E f \in fractures : f.source \in Minded /\ id \in f.parts

BodiesInv == Seated /\ Sound(World) /\ Reconciled /\ MindsOwn /\ Broken /\ Kept

\* The parts of the world are the variables.
LEMMA WorldIs ==
  /\ World.mat = mat /\ World.owner = owner /\ World.bodies = bodies /\ World.next = next
  /\ World.seeds = seeds /\ World.parked = parkedSeeds /\ World.broken = fractures
  BY DEF World

\* What a sound world says of the variables.
LEMMA StateFacts ==
  ASSUME Sound(World)
  PROVE  /\ World \in Worlds
         /\ mat \in [Cells -> Materials] /\ owner \in [Cells -> Nat]
         /\ bodies \in BodySets /\ DOMAIN bodies \in SUBSET Positive
         /\ next \in Positive /\ next \in Nat /\ fractures \in SUBSET Breaks
         /\ \A id \in DOMAIN bodies : /\ id \in Positive /\ id \in Nat /\ id < next
                                      /\ bodies[id] \in BodyTypes
                                      /\ Raster(bodies[id]) \in Rasters
                                      /\ Raster(bodies[id]) \subseteq Cells
                                      /\ \A p \in Raster(bodies[id]) : Loaded(p)
  <1>1. World \in Worlds /\ Numbered(World) /\ Resident(World)
    BY DEF Sound
  <1>2. \A id \in DOMAIN bodies : /\ id \in Positive /\ bodies[id] \in BodyTypes
                                  /\ Raster(bodies[id]) \in Rasters
                                  /\ Raster(bodies[id]) \subseteq Cells
    BY <1>1, WorldIs, RastersInWorld
  <1>3. \A id \in DOMAIN bodies : id < next /\ \A p \in Raster(bodies[id]) : Loaded(p)
    BY <1>1, WorldIs DEF Numbered, Resident
  <1>4. /\ mat \in [Cells -> Materials] /\ owner \in [Cells -> Nat]
        /\ bodies \in BodySets /\ DOMAIN bodies \in SUBSET Positive
        /\ next \in Positive /\ next \in Nat /\ fractures \in SUBSET Breaks
    BY <1>1, WorldIs, WorldFacts DEF Positive
  <1>. QED
    BY <1>1, <1>2, <1>3, <1>4 DEF Positive

\* The variables after a step are the parts of the world it makes.
LEMMA NextWorld ==
  ASSUME NEW w \in Worlds, Become(w)
  PROVE  /\ World' = w
         /\ mat' = w.mat /\ owner' = w.owner /\ bodies' = w.bodies /\ next' = w.next
         /\ seeds' = w.seeds /\ parkedSeeds' = w.parked /\ fractures' = w.broken
  BY WorldFacts DEF World, Become

\* A sound world that comes about while no region comes or goes.
LEMMA SoundNext ==
  ASSUME NEW w, Sound(w), Become(w), loaded' = loaded,
         pc' \notin {"input", "simulate"} => \A id \in DOMAIN w.bodies : Whole(w, id)
  PROVE  Sound(World)' /\ Reconciled'
  <1>1. w \in Worlds
    BY DEF Sound
  <1>2. World' = w /\ bodies' = w.bodies
    BY <1>1, NextWorld
  <1>3. (World \in Worlds)' /\ Claimed(World)' /\ Numbered(World)'
    BY <1>1, <1>2 DEF Sound, Claimed, Numbered
  <1>4. Resident(World)'
    BY <1>2 DEF Sound, Resident, Loaded
  <1>5. Reconciled'
    BY <1>2 DEF Reconciled, Whole
  <1>. QED
    BY <1>3, <1>4, <1>5 DEF Sound

\* Nobody comes to life or gets another body.
NoNewLife ==
  \A p \in Players : Is(p, "alive")' => Is(p, "alive") /\ players'[p].body = players[p].body

\* Avatars are the bodies of the living.
LEMMA AvatarsAre ==
  /\ \A p \in Players : Is(p, "alive") => players[p].body \in Avatars
  /\ \A id \in Avatars : \E p \in Players : Is(p, "alive") /\ players[p].body = id
  BY DEF Avatars

\* Where nobody comes to life there are no new avatars.
LEMMA FewerAvatars ==
  ASSUME NoNewLife
  PROVE  Avatars' \subseteq Avatars
  BY DEF NoNewLife, Avatars

\* Minds end, and bodies with them.
LEMMA MindsShrink ==
  ASSUME BodiesInv, NoNewLife, mobs' \subseteq mobs,
         next' \in Nat, next <= next', pc' # "resolve", fractures' = {},
         Avatars' \subseteq DOMAIN bodies',
         \A id \in Avatars' : bodies'[id].policy \in Minds /\ Small(Raster(bodies'[id])),
         \A id \in DOMAIN bodies' : bodies'[id].policy \in Minds => id \in Avatars' \cup mobs'
  PROVE  MindsOwn' /\ Broken' /\ Kept'
  <1>1. Avatars' \subseteq Avatars
    BY FewerAvatars
  <1>2. AvatarsHaveBodies'
    <2>1. AvatarsHaveBodies
      BY DEF BodiesInv, MindsOwn
    <2>2. \A p, q \in Players : p # q /\ Is(p, "alive")' /\ Is(q, "alive")'
                                 => players'[p].body # players'[q].body
      BY <2>1 DEF AvatarsHaveBodies, NoNewLife
    <2>. QED
      BY <1>1, <2>1, <2>2 DEF AvatarsHaveBodies
  <1>3. \A id \in Minded' : id < next'
    <2>1. \A id \in Minded : id < next
      BY DEF BodiesInv, MindsOwn
    <2>2. next \in Nat
      BY StateFacts DEF BodiesInv
    <2>3. Minded' \subseteq Minded
      BY <1>1 DEF Minded
    <2>4. \A id \in Minded : id \in Int
      <3>1. \A p \in Players : Is(p, "alive") => players[p].body \in Int
        BY DEF BodiesInv, Seated, Is, Lives, Ids
      <3>2. \A id \in mobs : id \in Int
        BY DEF BodiesInv, Seated, Positive
      <3>. QED
        BY <3>1, <3>2, AvatarsAre DEF Minded
    <2>. QED
      BY <2>1, <2>2, <2>3, <2>4
  <1>4. MindsOwn'
    BY <1>2, <1>3 DEF MindsOwn
  <1>5. Broken'
    BY DEF Broken
  <1>6. Kept'
    BY DEF Kept, Minded
  <1>. QED
    BY <1>4, <1>5, <1>6

\* Minds and bodies stay as they are; a body may change its place or shape.
LEMMA MindsStay ==
  ASSUME BodiesInv, pc # "resolve", pc' # "resolve", NoNewLife, Avatars' = Avatars, mobs' = mobs,
         fractures' = fractures, next' \in Nat, next <= next', DOMAIN bodies' = DOMAIN bodies,
         \A id \in DOMAIN bodies :
           /\ bodies'[id].policy = bodies[id].policy
           /\ id \in Avatars /\ Small(Raster(bodies[id])) => Small(Raster(bodies'[id]))
  PROVE  MindsOwn' /\ Broken' /\ Kept'
  <1>1. fractures = {} /\ Avatars \subseteq DOMAIN bodies
    BY DEF BodiesInv, MindsOwn, Broken, AvatarsHaveBodies
  <1>2. \A id \in Avatars' : bodies'[id].policy \in Minds /\ Small(Raster(bodies'[id]))
    BY <1>1 DEF BodiesInv, MindsOwn
  <1>3. \A id \in DOMAIN bodies' : bodies'[id].policy \in Minds => id \in Avatars' \cup mobs'
    BY DEF BodiesInv, Kept, Minded
  <1>. QED
    BY <1>1, <1>2, <1>3, MindsShrink

\* What a life is.
LEMMA LifeFacts ==
  ASSUME BodiesInv, NEW p \in Players
  PROVE  /\ players[p] # Nil => players[p] \in Lives
         /\ Is(p, "alive") => players[p].body \in Ids /\ players[p].body \in Positive
         /\ Is(p, "entering") => players[p].at \in Cells
         /\ Is(p, "dead") => players[p].at \in Cells
         /\ Is(p, "reviving") => players[p].at \in Cells /\ players[p].death \in Cells
         /\ players[p] # Nil =>
              Is(p, "alive") \/ Is(p, "entering") \/ Is(p, "dead") \/ Is(p, "reviving")
  BY DEF BodiesInv, Seated, Is, Lives, Ids, Positive

\* The body of an avatar is there, but for the moment between the physics and
\* the deaths that follow from it.
LEMMA AvatarFacts ==
  ASSUME BodiesInv, pc # "resolve"
  PROVE  /\ fractures = {}
         /\ Avatars \subseteq DOMAIN bodies
         /\ \A p \in Players : Is(p, "alive") => players[p].body \in DOMAIN bodies
  BY AvatarsAre DEF BodiesInv, MindsOwn, Broken, AvatarsHaveBodies

\* The count of acts stays below its bound.
LEMMA DoCounts ==
  ASSUME BodiesInv, Do
  PROVE  acts' \in 0..MaxActs
  BY SizeAssumption DEF BodiesInv, Seated, Do

\* Whoever is present looks from some cell.
LEMMA ViewAnchorType ==
  ASSUME BodiesInv, pc # "resolve", NEW p \in Players, players[p] # Nil
  PROVE  ViewAnchor(p) \in Cells
  <1>1. CASE Is(p, "alive")
    <2>1. players[p].body \in DOMAIN bodies
      BY <1>1, AvatarFacts
    <2>2. Raster(bodies[players[p].body]) \in Rasters
      BY <2>1, StateFacts DEF BodiesInv
    <2>3. Anchor(bodies[players[p].body]) \in Cells
      BY <2>2, AnchorIsWithin
    <2>4. ~Is(p, "reviving")
      BY <1>1 DEF Is
    <2>5. ViewAnchor(p) = Anchor(bodies[players[p].body])
      BY <1>1, <2>4, Zenon DEF ViewAnchor
    <2>. QED
      BY <2>3, <2>5
  <1>2. CASE ~Is(p, "alive")
    <2>1. ViewAnchor(p) = IF Is(p, "reviving") THEN players[p].death ELSE players[p].at
      BY <1>2, Zenon DEF ViewAnchor
    <2>. QED
      BY <1>2, <2>1, LifeFacts
  <1>. QED
    BY <1>1, <1>2

\* The invariant holds at the start.
LEMMA InitHolds ==
  ASSUME Init
  PROVE  BodiesInv
  <1>1. bodies \in BodySets /\ DOMAIN bodies = {}
    <2>1. DOMAIN bodies = {} /\ bodies \in [{} -> BodyTypes] /\ {} \in SUBSET Positive
      BY DEF Init
    <2>. QED
      BY <2>1, MakeBodySet
  <1>2. {} \in FiniteIn(Plane) /\ {} \in FiniteIn(Plane \X Plane)
    BY FS_EmptySet DEF FiniteIn
  <1>3. World \in Worlds
    <2>1. mat \in [Cells -> Materials] /\ owner \in [Cells -> Nat] /\ next \in Positive
      BY InitialAssumption DEF Init, Positive
    <2>. QED
      BY <1>1, <1>2, <2>1 DEF World, Worlds, Init
  <1>4. Sound(World)
    BY <1>1, <1>3, WorldIs DEF Init, Sound, Claimed, Numbered, Resident
  <1>5. Seated
    <2>1. 1 <= MaxId /\ MaxActs \in Nat
      BY SizeAssumption
    <2>. QED
      BY <2>1 DEF Init, Seated
  <1>6. Avatars = {} /\ mobs = {} /\ fractures = {} /\ \A p \in Players : ~Is(p, "alive")
    BY DEF Init, Avatars, Is
  <1>7. MindsOwn /\ Broken /\ Kept /\ Reconciled
    BY <1>1, <1>6 DEF MindsOwn, Broken, Kept, Reconciled, AvatarsHaveBodies, Minded, Init
  <1>. QED
    BY <1>4, <1>5, <1>7 DEF BodiesInv

-----------------------------------------------------------------------------
(* Nothing but players or the phase changes.                               *)

LEMMA WorldStays ==
  ASSUME BodiesInv, pc # "resolve", pc' # "resolve", loaded' = loaded,
         UNCHANGED <<terrainVars, bodies, next, seeds, parkedSeeds, fractures>>,
         pc' \notin {"input", "simulate"} => pc \notin {"input", "simulate"},
         NoNewLife, Avatars' = Avatars, mobs' = mobs \/ mobs' = mobs \cap DOMAIN bodies
  PROVE  Sound(World)' /\ Reconciled' /\ MindsOwn' /\ Broken' /\ Kept'
  <1>1. Sound(World) /\ World \in Worlds
    BY DEF BodiesInv, Sound
  <1>2. PICK w : w = World
    OBVIOUS
  <1>3. Become(w)
    BY <1>2 DEF Become, World, terrainVars
  <1>4. pc' \notin {"input", "simulate"} => \A id \in DOMAIN w.bodies : Whole(w, id)
    BY <1>2, WorldIs DEF BodiesInv, Reconciled
  <1>5. Sound(World)' /\ Reconciled'
    BY <1>1, <1>2, <1>3, <1>4, SoundNext
  <1>6. MindsOwn' /\ Broken' /\ Kept'
    <2>1. mobs' \subseteq mobs /\ bodies' = bodies /\ fractures' = fractures /\ next' = next
      BY DEF terrainVars
    <2>2. next' \in Nat /\ next <= next'
      BY <2>1, StateFacts DEF BodiesInv
    <2>3. fractures' = {} /\ Avatars' \subseteq DOMAIN bodies'
      BY <2>1, AvatarFacts
    <2>4. \A id \in Avatars' : bodies'[id].policy \in Minds /\ Small(Raster(bodies'[id]))
      BY <2>1, AvatarFacts DEF BodiesInv, MindsOwn
    <2>5. \A id \in DOMAIN bodies' : bodies'[id].policy \in Minds => id \in Avatars' \cup mobs'
      BY <2>1 DEF BodiesInv, Kept, Minded
    <2>. QED
      BY <2>1, <2>2, <2>3, <2>4, <2>5, MindsShrink
  <1>. QED
    BY <1>5, <1>6

\* A player who joins keeps the invariant.
LEMMA JoinStep ==
  ASSUME BodiesInv, NEW p \in Players, NEW at \in Spawns, Join(p, at)
  PROVE  BodiesInv'
  <1>1. Entering(at) \in Lives /\ Entering(at) # Nil /\ Entering(at).life = "entering"
    BY InitialAssumption, NilIsNoLife DEF Entering, Lives
  <1>2. players \in [Players -> Lives \cup {Nil}] /\ players' = [players EXCEPT ![p] = Entering(at)]
        /\ players[p] = Nil
    BY DEF BodiesInv, Seated, Join
  <1>3. \A q \in Players : Is(q, "alive")' <=> Is(q, "alive") /\ q # p
    BY <1>1, <1>2 DEF Is
  <1>4. ~Is(p, "alive") /\ \A q \in Players : q # p => players'[q] = players[q]
    BY <1>2 DEF Is
  <1>5. NoNewLife /\ Avatars' = Avatars
    BY <1>3, <1>4 DEF NoNewLife, Avatars
  <1>6. Seated'
    BY <1>1, <1>2, DoCounts DEF BodiesInv, Seated, Join
  <1>7. Sound(World)' /\ Reconciled' /\ MindsOwn' /\ Broken' /\ Kept'
    <2>1. /\ pc = "input" /\ pc' = pc /\ loaded' = loaded /\ mobs' = mobs
          /\ UNCHANGED <<terrainVars, bodies, next, seeds, parkedSeeds, fractures>>
      BY DEF Join
    <2>. QED
      BY <1>5, <2>1, WorldStays
  <1>. QED
    BY <1>6, <1>7 DEF BodiesInv

\* So does a player who asks to be revived.
LEMMA ReviveStep ==
  ASSUME BodiesInv, NEW p \in Players, NEW spawn \in Spawns, Revive(p, spawn)
  PROVE  BodiesInv'
  <1> DEFINE l == Reviving(spawn, players[p].at)
  <1>0. players[p].at \in Cells /\ ~Is(p, "alive")
    BY LifeFacts DEF Revive, Is
  <1>1. l \in Lives /\ l # Nil /\ l.life = "reviving"
    BY <1>0, InitialAssumption, NilIsNoLife DEF Reviving, Lives
  <1>2. players \in [Players -> Lives \cup {Nil}] /\ players' = [players EXCEPT ![p] = l]
    BY DEF BodiesInv, Seated, Revive
  <1> HIDE DEF l
  <1>3. \A q \in Players : Is(q, "alive")' <=> Is(q, "alive") /\ q # p
    BY <1>1, <1>2 DEF Is
  <1>4. \A q \in Players : q # p => players'[q] = players[q]
    BY <1>2
  <1>5. NoNewLife /\ Avatars' = Avatars
    BY <1>0, <1>3, <1>4 DEF NoNewLife, Avatars
  <1>6. Seated'
    BY <1>1, <1>2, DoCounts DEF BodiesInv, Seated, Revive
  <1>7. Sound(World)' /\ Reconciled' /\ MindsOwn' /\ Broken' /\ Kept'
    <2>1. /\ pc = "input" /\ pc' = pc /\ loaded' = loaded /\ mobs' = mobs
          /\ UNCHANGED <<terrainVars, bodies, next, seeds, parkedSeeds, fractures>>
      BY DEF Revive
    <2>. QED
      BY <1>5, <2>1, WorldStays
  <1>. QED
    BY <1>6, <1>7 DEF BodiesInv

\* So do the minds that are driven.
LEMMA DriveStep ==
  ASSUME BodiesInv, Drive
  PROVE  BodiesInv'
  <1>1. NoNewLife /\ Avatars' = Avatars
    BY DEF NoNewLife, Avatars, Is, Drive
  <1>2. /\ pc = "drive" /\ pc' = "advance" /\ loaded' = loaded /\ mobs' = mobs \cap DOMAIN bodies
        /\ UNCHANGED <<terrainVars, bodies, next, seeds, parkedSeeds, fractures>>
    BY DEF Drive
  <1>3. Seated'
    BY DEF BodiesInv, Seated, Drive
  <1>4. Sound(World)' /\ Reconciled' /\ MindsOwn' /\ Broken' /\ Kept'
    BY <1>1, <1>2, WorldStays
  <1>. QED
    BY <1>3, <1>4 DEF BodiesInv

\* So does the end of a tick.
LEMMA EndTickStep ==
  ASSUME BodiesInv, EndTick
  PROVE  BodiesInv'
  <1>1. NoNewLife /\ Avatars' = Avatars
    BY DEF NoNewLife, Avatars, Is, EndTick
  <1>2. /\ pc = "hazards" /\ pc' = "input" /\ loaded' = loaded /\ mobs' = mobs
        /\ UNCHANGED <<terrainVars, bodies, next, seeds, parkedSeeds, fractures>>
    BY DEF EndTick
  <1>3. Seated'
    BY DEF BodiesInv, Seated, EndTick
  <1>4. Sound(World)' /\ Reconciled' /\ MindsOwn' /\ Broken' /\ Kept'
    BY <1>1, <1>2, WorldStays
  <1>. QED
    BY <1>3, <1>4 DEF BodiesInv
-----------------------------------------------------------------------------
(* Hands, fire and decay.                                                  *)

\* One cell gets another material, and keeps or loses its stamp.
LEMMA CellChanges ==
  ASSUME BodiesInv, NEW p \in Cells, NEW m \in Materials, NEW id \in {0, owner[p]},
         pc \in {"input", "simulate"}, pc' = pc, UNCHANGED <<loaded, mobs, players>>,
         Become(Put(Disturb(World, {p}, m), p, m, id))
  PROVE  Sound(World)' /\ Reconciled' /\ MindsOwn' /\ Broken' /\ Kept'
  <1>1. PICK o : o = World
    OBVIOUS
  <1> DEFINE d == Disturb(o, {p}, m)  v == Put(d, p, m, id)
  <1>2. Sound(o) /\ o \in Worlds
    BY <1>1 DEF BodiesInv, Sound
  <1>3. id \in Nat
    BY StateFacts DEF BodiesInv
  <1>4. d \in Worlds /\ d.bodies = o.bodies /\ d.owner = o.owner /\ d.next = o.next
        /\ d.broken = o.broken
    <2> DEFINE S == {p}
    <2>1. S \in SUBSET Cells
      OBVIOUS
    <2> HIDE DEF S
    <2>2. PICK x : x = Disturb(o, S, m)
      OBVIOUS
    <2>3. x \in Worlds /\ x.bodies = o.bodies /\ x.owner = o.owner /\ x.next = o.next
          /\ x.broken = o.broken
      BY <1>2, <2>1, <2>2, DisturbFacts
    <2>. QED
      BY <2>2, <2>3 DEF S
  <1> HIDE DEF d
  <1>5. /\ v \in Worlds /\ v.bodies = o.bodies /\ v.next = o.next /\ v.broken = o.broken
        /\ \A q \in Cells : v.owner[q] = IF q = p THEN id ELSE o.owner[q]
    BY <1>3, <1>4, PutFacts
  <1> HIDE DEF v
  <1>6. Sound(v)
    <2>1. \A q \in Cells : v.owner[q] = 0 \/ v.owner[q] = o.owner[q]
      BY <1>1, <1>5, WorldIs
    <2>. QED
      BY <1>2, <1>5, <2>1, ClaimsStay
  <1>7. Become(v)
    BY <1>1 DEF v, d
  <1>8. Sound(World)' /\ Reconciled'
    BY <1>6, <1>7, SoundNext
  <1>9. bodies' = bodies /\ next' = next /\ fractures' = fractures
    BY <1>1, <1>5, <1>7, NextWorld, WorldIs
  <1>10. NoNewLife /\ Avatars' = Avatars
    BY DEF NoNewLife, Avatars, Is
  <1>11. MindsOwn' /\ Broken' /\ Kept'
    <2>1. next' \in Nat /\ next <= next'
      BY <1>9, StateFacts DEF BodiesInv
    <2>2. pc # "resolve" /\ pc' # "resolve" /\ mobs' = mobs
      OBVIOUS
    <2>3. DOMAIN bodies' = DOMAIN bodies
          /\ \A j \in DOMAIN bodies :
               /\ bodies'[j].policy = bodies[j].policy
               /\ j \in Avatars /\ Small(Raster(bodies[j])) => Small(Raster(bodies'[j]))
      BY <1>9
    <2>. QED
      BY <1>9, <1>10, <2>1, <2>2, <2>3, MindsStay
  <1>. QED
    BY <1>8, <1>11

\* A step that moves nobody leaves everyone seated.
LEMMA SeatsStay ==
  ASSUME BodiesInv, acts' \in 0..MaxActs, UNCHANGED <<loaded, simulated, mobs, players>>,
         pc' \in {"input", "simulate", "resolve", "drive", "advance", "hazards"},
         next' <= MaxId
  PROVE  Seated'
  BY DEF BodiesInv, Seated

\* A dig keeps the invariant.
LEMMA DigStep ==
  ASSUME BodiesInv, NEW p, Dig(p)
  PROVE  BodiesInv'
  <1>1. p \in Cells /\ "air" \in Materials /\ 0 \in {0, owner[p]}
    BY DEF Dig, Loaded, Materials
  <1>2. /\ pc = "input" /\ pc' = pc /\ UNCHANGED <<loaded, simulated, mobs, players>>
        /\ Become(Put(Disturb(World, {p}, "air"), p, "air", 0)) /\ acts' \in 0..MaxActs
    BY DoCounts DEF Dig
  <1>3. Sound(World)' /\ Reconciled' /\ MindsOwn' /\ Broken' /\ Kept'
    BY <1>1, <1>2, CellChanges
  <1>4. next' = next
    BY DEF Become, Dig, Put, PutAll, Write, Disturb, World
  <1>5. Seated'
    BY <1>2, <1>4, SeatsStay DEF BodiesInv, Seated
  <1>. QED
    BY <1>3, <1>5 DEF BodiesInv

\* So does a placement.
LEMMA PlaceStep ==
  ASSUME BodiesInv, NEW p, NEW m \in Blocks, Place(p, m)
  PROVE  BodiesInv'
  <1>1. p \in Cells /\ m \in Materials /\ 0 \in {0, owner[p]}
    BY InitialAssumption DEF Place, Free, Loaded
  <1>2. /\ pc = "input" /\ pc' = pc /\ UNCHANGED <<loaded, simulated, mobs, players>>
        /\ Become(Put(Disturb(World, {p}, m), p, m, 0)) /\ acts' \in 0..MaxActs
    BY DoCounts DEF Place
  <1>3. Sound(World)' /\ Reconciled' /\ MindsOwn' /\ Broken' /\ Kept'
    BY <1>1, <1>2, CellChanges
  <1>4. next' = next
    BY DEF Become, Place, Put, PutAll, Write, Disturb, World
  <1>5. Seated'
    BY <1>2, <1>4, SeatsStay DEF BodiesInv, Seated
  <1>. QED
    BY <1>3, <1>5 DEF BodiesInv

\* A cell that burns or melts keeps the invariant.
LEMMA TransformStep ==
  ASSUME BodiesInv, NEW p, NEW m, Transform(p, m)
  PROVE  BodiesInv'
  <1>1. p \in Cells /\ owner[p] \in {0, owner[p]}
    BY DEF Transform, Loaded
  <1>2. m \in Materials
    <2>1. m \in Becomes(mat[p])
      BY DEF Transform
    <2>. QED
      BY <2>1 DEF Becomes, Materials
  <1>3. /\ pc = "simulate" /\ pc' = pc /\ UNCHANGED <<loaded, simulated, mobs, players>>
        /\ Become(Put(Disturb(World, {p}, m), p, m, owner[p])) /\ acts' \in 0..MaxActs
    BY DoCounts DEF Transform
  <1>4. Sound(World)' /\ Reconciled' /\ MindsOwn' /\ Broken' /\ Kept'
    BY <1>1, <1>2, <1>3, CellChanges
  <1>5. next' = next
    BY DEF Become, Transform, Put, PutAll, Write, Disturb, World
  <1>6. Seated'
    BY <1>3, <1>5, SeatsStay DEF BodiesInv, Seated
  <1>. QED
    BY <1>4, <1>6 DEF BodiesInv
-----------------------------------------------------------------------------
(* Bodies that settle, die or go.                                          *)

\* An avatar that stays has its own body.
LEMMA OthersAvatars ==
  ASSUME BodiesInv, NEW p \in Players, Is(p, "alive")
  PROVE  /\ players[p].body \in Avatars /\ players[p].body \notin mobs
         /\ \A q \in Players : q # p /\ Is(q, "alive") => players[q].body # players[p].body
  BY AvatarsAre DEF BodiesInv, MindsOwn, AvatarsHaveBodies

\* A player who leaves keeps the invariant: the avatar goes with its owner.
LEMMA LeaveStep ==
  ASSUME BodiesInv, NEW p \in Players, Leave(p)
  PROVE  BodiesInv'
  <1>1. /\ pc = "input" /\ pc' = pc /\ UNCHANGED <<loaded, simulated, mobs>>
        /\ acts' \in 0..MaxActs /\ players' = [players EXCEPT ![p] = Nil]
        /\ players \in [Players -> Lives \cup {Nil}]
    BY DoCounts DEF Leave, BodiesInv, Seated
  <1>2. \A q \in Players : players'[q] = IF q = p THEN Nil ELSE players[q]
    BY <1>1
  <1>3. \A q \in Players : Is(q, "alive")' <=> Is(q, "alive") /\ q # p
    BY <1>2 DEF Is
  <1>4. NoNewLife
    BY <1>2, <1>3 DEF NoNewLife
  <1>5. players' \in [Players -> Lives \cup {Nil}]
    BY <1>1
  <1>6. Seated' <=> next' <= MaxId
    BY <1>1, <1>5 DEF BodiesInv, Seated
  <1>7. CASE ~Is(p, "alive")
    <2>1. Become(World) /\ Avatars' = Avatars
      BY <1>2, <1>3, <1>7 DEF Leave, Avatars
    <2>2. UNCHANGED <<terrainVars, bodies, next, seeds, parkedSeeds, fractures>>
      BY <2>1 DEF Become, World, terrainVars
    <2>3. Sound(World)' /\ Reconciled' /\ MindsOwn' /\ Broken' /\ Kept'
      BY <1>1, <1>4, <2>1, <2>2, WorldStays
    <2>. QED
      BY <1>6, <2>2, <2>3 DEF BodiesInv, Seated
  <1>8. CASE Is(p, "alive")
    <2> DEFINE id == players[p].body
    <2>1. PICK o : o = World
      OBVIOUS
    <2>2. PICK ids : ids = {id}
      OBVIOUS
    <2>3. PICK v : v = Despawn(o, ids)
      OBVIOUS
    <2>4. Sound(o) /\ o.bodies = bodies /\ o.next = next /\ o.broken = fractures
      BY <2>1, WorldIs DEF BodiesInv
    <2>5. fractures = {} /\ Avatars \subseteq DOMAIN bodies
      BY <1>1, AvatarFacts
    <2>6. ids \in SUBSET DOMAIN o.bodies
      BY <1>8, <2>2, <2>4, <2>5, OthersAvatars
    <2>7. /\ Sound(v) /\ v.next = o.next /\ v.broken = o.broken
          /\ DOMAIN v.bodies = DOMAIN o.bodies \ ids
          /\ \A j \in DOMAIN v.bodies : v.bodies[j] = o.bodies[j]
      BY <2>3, <2>4, <2>6, DespawnKeeps
    <2>8. Become(v)
      BY <1>8, <2>1, <2>2, <2>3 DEF Leave
    <2>9. Sound(World)' /\ Reconciled'
      BY <1>1, <2>7, <2>8, SoundNext
    <2>10. bodies' = v.bodies /\ next' = next /\ fractures' = {}
      BY <2>4, <2>5, <2>7, <2>8, NextWorld DEF Sound
    <2>11. Avatars' = Avatars \ {id}
      BY <1>2, <1>3, <1>8, OthersAvatars DEF Avatars
    <2>12. Avatars' \subseteq DOMAIN bodies'
      BY <2>2, <2>4, <2>5, <2>7, <2>10, <2>11
    <2>13. \A j \in DOMAIN bodies' : j \in DOMAIN bodies /\ bodies'[j] = bodies[j] /\ j # id
      BY <2>2, <2>4, <2>7, <2>10
    <2> HIDE DEF id
    <2>14. \A j \in Avatars' : bodies'[j].policy \in Minds /\ Small(Raster(bodies'[j]))
      BY <2>11, <2>12, <2>13 DEF BodiesInv, MindsOwn
    <2>15. \A j \in DOMAIN bodies' : bodies'[j].policy \in Minds => j \in Avatars' \cup mobs'
      BY <1>1, <2>11, <2>13 DEF BodiesInv, Kept, Minded
    <2>16. next' \in Nat /\ next <= next'
      BY <2>10, StateFacts DEF BodiesInv
    <2>17. MindsOwn' /\ Broken' /\ Kept'
      BY <1>1, <1>4, <2>10, <2>12, <2>14, <2>15, <2>16, MindsShrink
    <2>. QED
      BY <1>6, <2>9, <2>10, <2>17 DEF BodiesInv, Seated
  <1>. QED
    BY <1>7, <1>8

\* Bodies that settle keep it: no avatar is among them.
LEMMA SettleStep ==
  ASSUME BodiesInv, NEW S \in SUBSET DOMAIN bodies, SettleBodies(S)
  PROVE  BodiesInv'
  <1>1. /\ pc = "advance" /\ pc' = "hazards" /\ UNCHANGED <<loaded, simulated, mobs, players, acts>>
        /\ \A id \in S : bodies[id].policy = "DEBRIS"
    BY DEF SettleBodies, Settles
  <1>2. NoNewLife /\ Avatars' = Avatars
    BY <1>1 DEF NoNewLife, Avatars, Is
  <1>3. PICK o : o = World
    OBVIOUS
  <1>4. PICK v : v = Settle(o, S)
    OBVIOUS
  <1>5. Sound(o) /\ o.bodies = bodies /\ o.next = next /\ o.broken = fractures
    BY <1>3, WorldIs DEF BodiesInv
  <1>6. /\ Sound(v) /\ v.next = o.next /\ v.broken = o.broken
        /\ DOMAIN v.bodies = DOMAIN o.bodies \ S
        /\ \A j \in DOMAIN v.bodies : v.bodies[j] = o.bodies[j] /\ (Whole(o, j) => Whole(v, j))
    BY <1>4, <1>5, SettleKeeps
  <1>7. Become(v)
    BY <1>3, <1>4 DEF SettleBodies
  <1>8. fractures = {} /\ Avatars \subseteq DOMAIN bodies
    BY <1>1, AvatarFacts
  <1>9. Sound(World)' /\ Reconciled'
    <2>1. \A j \in DOMAIN v.bodies : Whole(v, j)
      BY <1>1, <1>3, <1>5, <1>6 DEF BodiesInv, Reconciled
    <2>. QED
      BY <1>1, <1>6, <1>7, <2>1, SoundNext
  <1>10. bodies' = v.bodies /\ next' = next /\ fractures' = {}
    BY <1>5, <1>6, <1>7, <1>8, NextWorld DEF Sound
  <1>11. \A j \in Avatars : j \in DOMAIN bodies /\ bodies[j].policy \in Minds /\ Small(Raster(bodies[j]))
    BY <1>8 DEF BodiesInv, MindsOwn
  <1>12. Avatars' \subseteq DOMAIN bodies'
    BY <1>1, <1>2, <1>5, <1>6, <1>10, <1>11, PolicyFacts
  <1>13. \A j \in DOMAIN bodies' : j \in DOMAIN bodies /\ bodies'[j] = bodies[j]
    BY <1>5, <1>6, <1>10
  <1>14. \A j \in Avatars' : bodies'[j].policy \in Minds /\ Small(Raster(bodies'[j]))
    BY <1>2, <1>11, <1>12, <1>13
  <1>15. \A j \in DOMAIN bodies' : bodies'[j].policy \in Minds => j \in Avatars' \cup mobs'
    BY <1>1, <1>2, <1>13 DEF BodiesInv, Kept, Minded
  <1>16. next' \in Nat /\ next <= next'
    BY <1>10, StateFacts DEF BodiesInv
  <1>17. MindsOwn' /\ Broken' /\ Kept'
    BY <1>1, <1>2, <1>10, <1>12, <1>14, <1>15, <1>16, MindsShrink
  <1>18. Seated'
    BY <1>1, <1>10 DEF BodiesInv, Seated
  <1>. QED
    BY <1>9, <1>17, <1>18 DEF BodiesInv

\* The bodies of ids die; those of the avatars that remain do not.
LEMMA DeathsHappen ==
  ASSUME BodiesInv, NEW ids, NEW o, o = World, NEW v \in Worlds,
         v.mat = Die(o, ids).mat, v.owner = Die(o, ids).owner, v.bodies = Die(o, ids).bodies,
         v.next = Die(o, ids).next, v.broken = {},
         pc \notin {"input", "simulate"}, pc' # "resolve", Become(v), loaded' = loaded,
         mobs' \subseteq mobs, NoNewLife, Avatars' \subseteq DOMAIN bodies,
         Avatars' \cap ids = {},
         \A j \in DOMAIN bodies : bodies[j].policy \in Minds /\ j \notin ids => j \in Avatars' \cup mobs'
  PROVE  Sound(World)' /\ Reconciled' /\ MindsOwn' /\ Broken' /\ Kept' /\ next' = next
  <1>1. PICK u : u = Die(o, ids)
    OBVIOUS
  <1>2. Sound(o) /\ o.bodies = bodies /\ o.next = next
    BY WorldIs DEF BodiesInv
  <1>3. /\ Sound(u) /\ u.next = o.next /\ u.owner = o.owner
        /\ DOMAIN u.bodies = DOMAIN o.bodies
        /\ \A j \in DOMAIN u.bodies :
             /\ Raster(u.bodies[j]) = Raster(o.bodies[j])
             /\ j \in ids => u.bodies[j].policy = "DEBRIS"
             /\ j \notin ids => u.bodies[j] = o.bodies[j]
             /\ Whole(o, j) => Whole(u, j)
    BY <1>1, <1>2, DieKeeps
  <1>4. v.mat = u.mat /\ v.owner = u.owner /\ v.bodies = u.bodies /\ v.next = u.next
    BY <1>1
  <1>5. Sound(v) /\ \A j \in DOMAIN u.bodies : Whole(v, j) <=> Whole(u, j)
    BY <1>3, <1>4, ShapesStay
  <1>6. \A j \in DOMAIN v.bodies : Whole(v, j)
    BY <1>2, <1>3, <1>4, <1>5 DEF BodiesInv, Reconciled
  <1>7. Sound(World)' /\ Reconciled'
    BY <1>5, <1>6, SoundNext
  <1>8. bodies' = u.bodies /\ next' = next /\ fractures' = {}
    BY <1>2, <1>3, <1>4, NextWorld
  <1>9. \A j \in DOMAIN bodies' :
          /\ j \in DOMAIN bodies
          /\ j \in ids => bodies'[j].policy = "DEBRIS"
          /\ j \notin ids => bodies'[j] = bodies[j]
    BY <1>2, <1>3, <1>8
  <1>10. Avatars' \subseteq DOMAIN bodies'
    BY <1>2, <1>3, <1>8
  <1>11. Avatars' \subseteq Avatars
    BY FewerAvatars
  <1>12. \A j \in Avatars' : bodies'[j].policy \in Minds /\ Small(Raster(bodies'[j]))
    <2>1. \A j \in Avatars' : j \in Avatars \cap DOMAIN bodies /\ bodies'[j] = bodies[j]
      BY <1>9, <1>10, <1>11
    <2>. QED
      BY <2>1 DEF BodiesInv, MindsOwn
  <1>13. \A j \in DOMAIN bodies' : bodies'[j].policy \in Minds => j \in Avatars' \cup mobs'
    BY <1>9, PolicyFacts
  <1>14. next' \in Nat /\ next <= next'
    BY <1>8, StateFacts DEF BodiesInv
  <1>15. MindsOwn' /\ Broken' /\ Kept'
    BY <1>8, <1>10, <1>12, <1>13, <1>14, MindsShrink
  <1>. QED
    BY <1>7, <1>8, <1>15

\* A mob that is killed keeps it.
LEMMA KillMobStep ==
  ASSUME BodiesInv, NEW id \in mobs, KillMob(id)
  PROVE  BodiesInv'
  <1>1. /\ pc = "hazards" /\ pc' = pc /\ UNCHANGED <<loaded, simulated, players>>
        /\ acts' \in 0..MaxActs /\ mobs' = mobs \ {id}
    BY DoCounts DEF KillMob
  <1>2. NoNewLife /\ Avatars' = Avatars
    BY <1>1 DEF NoNewLife, Avatars, Is
  <1>3. fractures = {} /\ Avatars \subseteq DOMAIN bodies
    BY <1>1, AvatarFacts
  <1>4. PICK o : o = World
    OBVIOUS
  <1>5. PICK ids : ids = {id}
    OBVIOUS
  <1>6. PICK v : v = Die(o, ids)
    OBVIOUS
  <1>7. Become(v)
    BY <1>4, <1>5, <1>6 DEF KillMob
  <1>8. v \in Worlds /\ v.broken = {}
    <2>1. Sound(o) /\ o.broken = {}
      BY <1>3, <1>4, WorldIs DEF BodiesInv
    <2>2. Sound(v) /\ v.broken = o.broken
      BY <1>6, <2>1, DieKeeps
    <2>. QED
      BY <2>1, <2>2 DEF Sound
  <1>9. Avatars' \cap ids = {}
    BY <1>2, <1>5 DEF BodiesInv, MindsOwn, AvatarsHaveBodies
  <1>10. \A j \in DOMAIN bodies : bodies[j].policy \in Minds /\ j \notin ids => j \in Avatars' \cup mobs'
    BY <1>1, <1>2, <1>5 DEF BodiesInv, Kept, Minded
  <1>11. Sound(World)' /\ Reconciled' /\ MindsOwn' /\ Broken' /\ Kept' /\ next' = next
    BY <1>1, <1>2, <1>3, <1>4, <1>6, <1>7, <1>8, <1>9, <1>10, DeathsHappen
  <1>12. Seated'
    BY <1>1, <1>11 DEF BodiesInv, Seated
  <1>. QED
    BY <1>11, <1>12 DEF BodiesInv

\* So does a player that is killed.
LEMMA KillPlayerStep ==
  ASSUME BodiesInv, NEW p \in Players, KillPlayer(p)
  PROVE  BodiesInv'
  <1> DEFINE id == players[p].body
  <1>1. /\ pc = "hazards" /\ pc' = pc /\ UNCHANGED <<loaded, simulated, mobs>>
        /\ acts' \in 0..MaxActs /\ players' = [players EXCEPT ![p] = Dead(ViewAnchor(p))]
        /\ players \in [Players -> Lives \cup {Nil}] /\ Is(p, "alive")
    BY DoCounts DEF KillPlayer, BodiesInv, Seated
  <1>2. Dead(ViewAnchor(p)) \in Lives /\ Dead(ViewAnchor(p)).life = "dead"
    <2>1. players[p] # Nil
      BY <1>1 DEF Is
    <2>2. ViewAnchor(p) \in Cells
      BY <1>1, <2>1, ViewAnchorType
    <2>. QED
      BY <2>2 DEF Dead, Lives
  <1>3. players' \in [Players -> Lives \cup {Nil}]
    BY <1>1, <1>2
  <1>4. \A q \in Players : players'[q] = IF q = p THEN Dead(ViewAnchor(p)) ELSE players[q]
    BY <1>1
  <1>5. \A q \in Players : Is(q, "alive")' <=> Is(q, "alive") /\ q # p
    BY <1>2, <1>4 DEF Is
  <1>6. NoNewLife
    BY <1>4, <1>5 DEF NoNewLife
  <1>7. Avatars' = Avatars \ {id}
    BY <1>1, <1>4, <1>5, OthersAvatars DEF Avatars
  <1>8. fractures = {} /\ Avatars \subseteq DOMAIN bodies
    BY <1>1, AvatarFacts
  <1>9. PICK o : o = World
    OBVIOUS
  <1>10. PICK ids : ids = {id}
    OBVIOUS
  <1>11. PICK v : v = Die(o, ids)
    OBVIOUS
  <1>12. Become(v)
    BY <1>9, <1>10, <1>11 DEF KillPlayer
  <1>13. v \in Worlds /\ v.broken = {}
    <2>1. Sound(o) /\ o.broken = {}
      BY <1>8, <1>9, WorldIs DEF BodiesInv
    <2>2. Sound(v) /\ v.broken = o.broken
      BY <1>11, <2>1, DieKeeps
    <2>. QED
      BY <2>1, <2>2 DEF Sound
  <1> HIDE DEF id
  <1>14. Avatars' \cap ids = {} /\ Avatars' \subseteq DOMAIN bodies
    BY <1>7, <1>8, <1>10
  <1>15. \A j \in DOMAIN bodies : bodies[j].policy \in Minds /\ j \notin ids => j \in Avatars' \cup mobs'
    BY <1>1, <1>7, <1>10 DEF BodiesInv, Kept, Minded
  <1>16. Sound(World)' /\ Reconciled' /\ MindsOwn' /\ Broken' /\ Kept' /\ next' = next
    BY <1>1, <1>6, <1>9, <1>11, <1>12, <1>13, <1>14, <1>15, DeathsHappen
  <1>17. Seated'
    BY <1>1, <1>3, <1>16 DEF BodiesInv, Seated
  <1>. QED
    BY <1>16, <1>17 DEF BodiesInv

\* Broken minds: what is left of their bodies is buried, a player dies.
LEMMA ResolveStep ==
  ASSUME BodiesInv, Resolve
  PROVE  BodiesInv'
  <1>1. /\ pc = "resolve" /\ pc' = "drive" /\ UNCHANGED <<loaded, simulated, acts>>
        /\ mobs' = mobs \ Sources
        /\ players \in [Players -> Lives \cup {Nil}]
    BY DEF Resolve, Sources, BodiesInv, Seated
  <1>2. PICK o : o = World
    OBVIOUS
  <1>3. PICK ids : ids = UNION {f.parts : f \in {g \in fractures : g.source \in Minded}}
    OBVIOUS
  <1>4. PICK u : u = Die(o, ids)
    OBVIOUS
  <1>5. PICK v : v = [u EXCEPT !.broken = {}]
    OBVIOUS
  <1>6. Become(v)
    BY <1>2, <1>3, <1>4, <1>5 DEF Resolve, Buried
  <1>7. Sound(o) /\ Sound(u)
    <2>1. Sound(o)
      BY <1>2 DEF BodiesInv
    <2>. QED
      BY <1>4, <2>1, DieKeeps
  <1>8. /\ v \in Worlds /\ v.mat = u.mat /\ v.owner = u.owner /\ v.bodies = u.bodies
        /\ v.next = u.next /\ v.broken = {}
    <2>1. u \in Worlds /\ {} \in SUBSET Breaks
      BY <1>7 DEF Sound
    <2>. QED
      BY <1>5, <2>1 DEF Worlds
  <1> DEFINE gone(p) == Is(p, "alive") /\ players[p].body \in Sources
             grave(p) == Dead((CHOOSE f \in fractures : f.source = players[p].body).at)
  <1>9. \A p \in Players : players'[p] = IF gone(p) THEN grave(p) ELSE players[p]
    BY DEF Resolve, Sources
  <1>10. ASSUME NEW p \in Players, gone(p)
         PROVE  grave(p) \in Lives /\ grave(p).life = "dead"
    <2> DEFINE f == CHOOSE f \in fractures : f.source = players[p].body
    <2>1. f \in fractures
      BY <1>10 DEF Sources
    <2>2. fractures \in SUBSET Breaks
      BY StateFacts DEF BodiesInv
    <2> HIDE DEF f
    <2>3. f.at \in Cells
      BY <2>1, <2>2 DEF Breaks
    <2>4. Dead(f.at) \in Lives /\ Dead(f.at).life = "dead"
      BY <2>3 DEF Dead, Lives
    <2>. QED
      BY <2>4 DEF f
  <1>11. players' \in [Players -> Lives \cup {Nil}]
    <2>1. players' = [p \in Players |-> players'[p]]
      BY DEF Resolve
    <2>2. \A p \in Players : players'[p] \in Lives \cup {Nil}
      <3> HIDE DEF gone, grave
      <3>. QED
        BY <1>1, <1>9, <1>10
    <2>. QED
      BY <2>1, <2>2
  <1>12. ASSUME NEW p \in Players
         PROVE  Is(p, "alive")' <=> Is(p, "alive") /\ players[p].body \notin Sources
    <2>1. CASE gone(p)
      <3>1. grave(p).life = "dead" /\ players'[p] = grave(p)
        BY <1>9, <1>10, <2>1
      <3> HIDE DEF grave
      <3>2. ~Is(p, "alive")'
        BY <3>1 DEF Is
      <3>. QED
        BY <2>1, <3>2
    <2>2. CASE ~gone(p)
      <3>1. players'[p] = players[p]
        BY <1>9, <2>2
      <3>2. Is(p, "alive")' <=> Is(p, "alive")
        BY <3>1 DEF Is
      <3>. QED
        BY <2>2, <3>2
    <2>. QED
      BY <2>1, <2>2
  <1>13. \A p \in Players : Is(p, "alive")' => players'[p].body = players[p].body
    BY <1>9, <1>12
  <1> HIDE DEF gone, grave
  <1>14. NoNewLife
    BY <1>12, <1>13 DEF NoNewLife
  <1>15. Avatars' = Avatars \ Sources
    <2>1. \A id : id \in Avatars' <=> \E p \in Players : Is(p, "alive")' /\ players'[p].body = id
      BY DEF Avatars
    <2>2. \A id : id \in Avatars <=> \E p \in Players : Is(p, "alive") /\ players[p].body = id
      BY DEF Avatars
    <2>3. \A id : id \in Avatars' => id \in Avatars \ Sources
      BY <1>12, <1>13, <2>1, <2>2
    <2>4. \A id : id \in Avatars \ Sources => id \in Avatars'
      BY <1>12, <1>13, <2>1, <2>2
    <2>. QED
      BY <2>3, <2>4
  <1>16. Avatars' \subseteq DOMAIN bodies
    BY <1>15 DEF BodiesInv, MindsOwn, AvatarsHaveBodies, Sources
  <1>17. Avatars' \cap ids = {}
    <2>1. \A f \in fractures : \A j \in f.parts : j = f.source \/ j \notin Minded
      BY DEF BodiesInv, Broken
    <2>2. \A j \in ids : \E f \in fractures : j \in f.parts
      BY <1>3
    <2>. QED
      BY <1>15, <2>1, <2>2 DEF Sources, Minded
  <1>18. \A j \in DOMAIN bodies : bodies[j].policy \in Minds /\ j \notin ids => j \in Avatars' \cup mobs'
    <2>1. \A j \in DOMAIN bodies : bodies[j].policy \in Minds =>
            j \in Minded \ Sources \/ \E f \in fractures : f.source \in Minded /\ j \in f.parts
      BY <1>1 DEF BodiesInv, Kept
    <2>2. \A j : (\E f \in fractures : f.source \in Minded /\ j \in f.parts) => j \in ids
      BY <1>3
    <2>. QED
      BY <1>1, <1>15, <2>1, <2>2 DEF Minded
  <1>19. Sound(World)' /\ Reconciled' /\ MindsOwn' /\ Broken' /\ Kept' /\ next' = next
    <2>1. mobs' \subseteq mobs /\ pc \notin {"input", "simulate"} /\ pc' # "resolve" /\ loaded' = loaded
      BY <1>1
    <2>2. /\ v.mat = Die(o, ids).mat /\ v.owner = Die(o, ids).owner
          /\ v.bodies = Die(o, ids).bodies /\ v.next = Die(o, ids).next
      BY <1>4, <1>8
    <2>. QED
      BY <1>2, <1>6, <1>8, <1>14, <1>16, <1>17, <1>18, <2>1, <2>2, DeathsHappen
  <1>20. Seated'
    BY <1>1, <1>11, <1>19 DEF BodiesInv, Seated
  <1>. QED
    BY <1>19, <1>20 DEF BodiesInv
-----------------------------------------------------------------------------
(* Bodies that move.                                                       *)

LEMMA ShiftBack ==
  ASSUME NEW d \in Plane, NEW o \in Plane
  PROVE  Shift(d, o) \in Plane /\ Shift(Shift(d, o), <<-d[1], -d[2]>>) = o
  <1>1. d[1] \in Int /\ d[2] \in Int /\ o[1] \in Int /\ o[2] \in Int /\ o = <<o[1], o[2]>>
    BY PointsArePairs
  <1>2. Shift(d, o) = <<d[1] + o[1], d[2] + o[2]>>
    BY DEF Shift
  <1>3. Shift(Shift(d, o), <<-d[1], -d[2]>>) = <<d[1] + o[1] + (-d[1]), d[2] + o[2] + (-d[2])>>
    BY <1>2 DEF Shift
  <1>. QED
    BY <1>1, <1>2, <1>3 DEF Plane

\* The cardinal steps are positions.
LEMMA CardinalsInPlane == Cardinals \subseteq Plane
  BY DEF Cardinals, Plane

\* What is small stays so wherever it is put.
LEMMA SmallAnywhere ==
  ASSUME NEW d \in Plane, NEW R \in SUBSET Plane, Small(R)
  PROVE  Small(At(d, R))
  <1> DEFINE n == ViewRadius * ChunkSize
  <1>1. n \in Int
    BY SizeAssumption
  <1> HIDE DEF n
  <1>2. ASSUME NEW o \in R, NEW q \in R
        PROVE  /\ Shift(d, o)[1] - Shift(d, q)[1] <= n
               /\ Shift(d, o)[2] - Shift(d, q)[2] <= n
    <2>1. o[1] - q[1] <= n /\ o[2] - q[2] <= n
      BY DEF Small, n
    <2>2. /\ o[1] \in Int /\ o[2] \in Int /\ q[1] \in Int /\ q[2] \in Int
          /\ d[1] \in Int /\ d[2] \in Int
      BY PointsArePairs
    <2>3. /\ Shift(d, o)[1] = d[1] + o[1] /\ Shift(d, q)[1] = d[1] + q[1]
          /\ Shift(d, o)[2] = d[2] + o[2] /\ Shift(d, q)[2] = d[2] + q[2]
      BY DEF Shift
    <2>. QED
      BY <1>1, <2>1, <2>2, <2>3
  <1>3. \A x \in At(d, R) : \E o \in R : x = Shift(d, o)
    BY DEF At
  <1>. QED
    BY <1>2, <1>3 DEF Small, n

\* What clearing cells changes.
LEMMA ClearedFacts ==
  ASSUME NEW w \in Worlds, NEW S \in SUBSET Cells
  PROVE  LET v == PutAll(w, S, "air", 0)
         IN  /\ v \in Worlds /\ v.bodies = w.bodies /\ v.next = w.next /\ v.broken = w.broken
             /\ v.parked = w.parked
             /\ \A p \in Cells : /\ v.mat[p] = IF p \in S THEN "air" ELSE w.mat[p]
                                 /\ v.owner[p] = IF p \in S THEN 0 ELSE w.owner[p]
  <1>1. PICK m \in Materials : m = "air"
    BY DEF Materials
  <1>2. PICK n \in Nat : n = 0
    OBVIOUS
  <1>3. PICK v : v = PutAll(w, S, m, n)
    OBVIOUS
  <1>4. /\ v \in Worlds /\ v.bodies = w.bodies /\ v.next = w.next /\ v.parked = w.parked
        /\ v.broken = w.broken
        /\ \A p \in Cells : /\ v.mat[p] = IF p \in S THEN m ELSE w.mat[p]
                            /\ v.owner[p] = IF p \in S THEN n ELSE w.owner[p]
    BY <1>3, PutAllFacts
  <1>. QED
    BY <1>1, <1>2, <1>3, <1>4

\* What Slide makes of a world when it moves a body.
Moved(o, id, d) ==
  LET b == o.bodies[id]
      S == At(d, Raster(b))
      from(p) == Shift(p, <<-d[1], -d[2]>>)
      w == Write(PutAll(o, Raster(b) \ S, "air", 0), [p \in S |-> o.mat[from(p)]], id)
  IN  [w EXCEPT !.bodies = With(@, id, [b EXCEPT !.slots = [p \in S |-> b.slots[from(p)]]])]

\* A body moved into free cells owns them, and takes nothing from the others.
LEMMA MoveKeeps ==
  ASSUME NEW o, Sound(o), NEW id \in DOMAIN o.bodies, Whole(o, id), NEW d \in Plane,
         Fits(o, At(d, Raster(o.bodies[id])) \ Raster(o.bodies[id]))
  PROVE  LET v == Moved(o, id, d)
         IN  /\ Sound(v) /\ Whole(v, id) /\ v.next = o.next /\ v.broken = o.broken
             /\ DOMAIN v.bodies = DOMAIN o.bodies
             /\ v.bodies[id].policy = o.bodies[id].policy
             /\ Raster(v.bodies[id]) = At(d, Raster(o.bodies[id]))
             /\ \A j \in DOMAIN o.bodies : j # id =>
                  v.bodies[j] = o.bodies[j] /\ (Whole(o, j) => Whole(v, j))
  <1> DEFINE b == o.bodies[id]
             R == Raster(b)
             S == At(d, R)
             from(p) == Shift(p, <<-d[1], -d[2]>>)
             u == PutAll(o, R \ S, "air", 0)
             patch == [p \in S |-> o.mat[from(p)]]
             w == Write(u, patch, id)
             slots == [p \in S |-> b.slots[from(p)]]
             c == [b EXCEPT !.slots = slots]
             v == [w EXCEPT !.bodies = With(@, id, c)]
  <1>1. /\ o \in Worlds /\ o.bodies \in BodySets /\ id \in Positive /\ id \in Nat
        /\ b \in BodyTypes /\ R \in Rasters /\ R \subseteq Cells /\ R # {} /\ R \subseteq Plane
        /\ id < o.next /\ \A p \in R : Loaded(p)
    BY WorldFacts, RastersInWorld, CellsInPlane DEF Sound, Numbered, Resident, Positive
  <1>2. b.slots \in [R -> Bonded] /\ b.policy \in Policies /\ b.parked \in BOOLEAN
        /\ b = [slots |-> b.slots, policy |-> b.policy, parked |-> b.parked]
    BY <1>1, BodyFacts
  <1>3. \A p \in R : o.owner[p] = id /\ o.mat[p] = b.slots[p]
    BY DEF Whole
  <1>4. \A p \in S \ R : Loaded(p) /\ o.owner[p] = 0
    BY DEF Fits, Free
  <1>5. \A p \in S : Loaded(p) /\ p \in Cells /\ (o.owner[p] = 0 \/ o.owner[p] = id)
    BY <1>1, <1>3, <1>4 DEF Loaded
  <1>6. \A p \in S : from(p) \in R
    <2>1. \A p \in S : \E q \in R : p = Shift(d, q)
      BY DEF At
    <2>. QED
      BY <1>1, <2>1, ShiftBack
  <1>7. S \in Rasters
    <2>1. S # {}
      BY <1>1 DEF At
    <2>. QED
      BY <1>5, <2>1 DEF Rasters
  <1>8. slots \in [S -> Bonded] /\ \A p \in S : slots[p] = b.slots[from(p)]
    BY <1>2, <1>6
  <1>9. patch \in [S -> Materials] /\ \A p \in S : patch[p] = o.mat[from(p)]
    <2>1. \A p \in R : o.mat[p] \in Materials
      BY <1>1, WorldFacts
    <2>. QED
      BY <1>6, <2>1
  <1>10. \A p \in S : patch[p] = slots[p]
    BY <1>3, <1>6, <1>8, <1>9
  <1>11. c = [slots |-> slots, policy |-> b.policy, parked |-> b.parked]
    <2> HIDE DEF slots, b
    <2>. QED
      BY <1>2
  <1>13. "air" \in Materials /\ R \ S \in SUBSET Cells /\ 0 \in Nat
    BY <1>1 DEF Materials
  <1> HIDE DEF slots, S, from, R, b
  <1>12. c \in BodyTypes /\ Raster(c) = S /\ c.policy = b.policy /\ c.slots = slots
    <2>. HIDE DEF c
    <2>. QED
      BY <1>2, <1>7, <1>8, <1>11, MakeBody
  <1> HIDE DEF patch, c, u, w, v
  <1>14. /\ u \in Worlds /\ u.bodies = o.bodies /\ u.next = o.next /\ u.broken = o.broken
         /\ \A p \in Cells : /\ u.mat[p] = IF p \in R \ S THEN "air" ELSE o.mat[p]
                             /\ u.owner[p] = IF p \in R \ S THEN 0 ELSE o.owner[p]
    <2>1. PICK T : T = R \ S
      OBVIOUS
    <2> DEFINE x == PutAll(o, T, "air", 0)
    <2>2. /\ x \in Worlds /\ x.bodies = o.bodies /\ x.next = o.next /\ x.broken = o.broken
          /\ \A p \in Cells : /\ x.mat[p] = IF p \in T THEN "air" ELSE o.mat[p]
                              /\ x.owner[p] = IF p \in T THEN 0 ELSE o.owner[p]
      <3>1. o \in Worlds /\ T \in SUBSET Cells /\ "air" \in Materials
        BY <1>1, <1>13, <2>1
      <3>. QED
        BY <3>1, ClearedFacts
    <2> HIDE DEF x
    <2>3. u = x
      BY <2>1 DEF u, x
    <2>. QED
      BY <2>1, <2>2, <2>3
  <1>15. /\ w \in Worlds /\ w.bodies = o.bodies /\ w.next = o.next /\ w.broken = o.broken
         /\ \A p \in Cells : /\ w.mat[p] = IF p \in S THEN patch[p] ELSE u.mat[p]
                             /\ w.owner[p] = IF p \in S THEN id ELSE u.owner[p]
    <2>1. S \in SUBSET Cells
      BY <1>7 DEF Rasters
    <2>2. PICK x : x = Write(u, patch, id)
      OBVIOUS
    <2>3. /\ x \in Worlds /\ x.bodies = u.bodies /\ x.next = u.next /\ x.broken = u.broken
          /\ \A p \in Cells : /\ x.mat[p] = IF p \in S THEN patch[p] ELSE u.mat[p]
                              /\ x.owner[p] = IF p \in S THEN id ELSE u.owner[p]
      <3>1. u \in Worlds /\ patch \in [S -> Materials] /\ id \in Nat
        BY <1>1, <1>9, <1>14
      <3>. QED
        BY <2>1, <2>2, <3>1, WriteFacts
    <2>. QED
      BY <1>14, <2>2, <2>3 DEF w
  <1> DEFINE f == With(o.bodies, id, c)
  <1>16. f \in BodySets
    BY <1>1, <1>12, WithBody
  <1>17. v = [w EXCEPT !.bodies = f]
    BY <1>15 DEF v
  <1> HIDE DEF f
  <1>18. /\ v \in Worlds /\ v.bodies = f /\ v.mat = w.mat /\ v.owner = w.owner
         /\ v.next = o.next /\ v.broken = o.broken
    BY <1>15, <1>16, <1>17, BodiesField
  <1>19. \A p \in Raster(c) : /\ Loaded(p) /\ v.owner[p] = id /\ v.mat[p] = c.slots[p]
                              /\ o.owner[p] = 0 \/ o.owner[p] = id
    BY <1>5, <1>10, <1>12, <1>15, <1>18
  <1>20. \A p \in Cells \ Raster(c) :
           /\ v.owner[p] # id /\ (v.owner[p] = 0 \/ v.owner[p] = o.owner[p])
           /\ o.owner[p] # id => v.owner[p] = o.owner[p] /\ (o.owner[p] # 0 => v.mat[p] = o.mat[p])
    <2>1. SUFFICES ASSUME NEW p \in Cells, p \notin S
                   PROVE  /\ v.owner[p] # id /\ (v.owner[p] = 0 \/ v.owner[p] = o.owner[p])
                          /\ o.owner[p] # id => v.owner[p] = o.owner[p] /\ v.mat[p] = o.mat[p]
      BY <1>12
    <2>2. v.owner[p] = u.owner[p] /\ v.mat[p] = u.mat[p]
      BY <1>15, <1>18, <2>1
    <2>4. o.owner[p] = id => p \in R
      <3>1. id # 0 /\ Claimed(o)
        BY <1>1 DEF Sound, Positive
      <3>. QED
        BY <3>1 DEF Claimed, R, b
    <2>5. id # 0
      BY <1>1 DEF Positive
    <2>. QED
      BY <1>3, <1>14, <2>1, <2>2, <2>4, <2>5
  <1>21. v.bodies = With(o.bodies, id, c) /\ id < v.next /\ o.next <= v.next
    <2>1. o.next \in Nat
      BY <1>1, WorldFacts DEF Positive
    <2>. QED
      BY <1>1, <1>18, <2>1 DEF f
  <1>22. /\ Sound(v) /\ Whole(v, id)
         /\ DOMAIN v.bodies = DOMAIN o.bodies \cup {id} /\ v.bodies[id] = c
         /\ \A j \in DOMAIN o.bodies : j # id =>
              v.bodies[j] = o.bodies[j] /\ (Whole(o, j) => Whole(v, j))
    <2>1. Claims(o, v, id, c)
      BY <1>19, <1>20, <1>21 DEF Claims
    <2>2. Came(o, v, id, c)
      BY <1>1, <1>12, <1>18, <2>1, ClaimsCome
    <2>. QED
      BY <2>2 DEF Came
  <1>. QED
    <2>1. Moved(o, id, d) = v
      BY DEF Moved, v, w, u, patch, c, slots, S, R, b, from
    <2>2. c.policy = o.bodies[id].policy /\ S = At(d, Raster(o.bodies[id]))
      BY <1>12 DEF S, R, b
    <2>. QED
      BY <1>12, <1>18, <1>22, <2>1, <2>2

\* A body's step leaves minds as they are.
LEMMA BodyChanges ==
  ASSUME BodiesInv, pc \in {"drive", "advance"}, pc' = pc, Do,
         UNCHANGED <<loaded, simulated, mobs, players>>,
         NEW v, Sound(v), Become(v), v.next = next, v.broken = fractures,
         DOMAIN v.bodies = DOMAIN bodies,
         \A j \in DOMAIN v.bodies : Whole(v, j),
         \A j \in DOMAIN bodies :
           /\ v.bodies[j].policy = bodies[j].policy
           /\ j \in Avatars /\ Small(Raster(bodies[j])) => Small(Raster(v.bodies[j]))
  PROVE  BodiesInv'
  <1>1. bodies' = v.bodies /\ next' = next /\ fractures' = fractures
    <2>1. v \in Worlds
      BY DEF Sound
    <2>. QED
      BY <2>1, NextWorld
  <1>2. Sound(World)' /\ Reconciled'
    BY SoundNext
  <1>3. NoNewLife /\ Avatars' = Avatars
    BY DEF NoNewLife, Avatars, Is
  <1>4. MindsOwn' /\ Broken' /\ Kept'
    <2>1. next' \in Nat /\ next <= next'
      BY <1>1, StateFacts DEF BodiesInv
    <2>2. pc # "resolve" /\ pc' # "resolve" /\ mobs' = mobs
      OBVIOUS
    <2>3. DOMAIN bodies' = DOMAIN bodies
          /\ \A j \in DOMAIN bodies :
               /\ bodies'[j].policy = bodies[j].policy
               /\ j \in Avatars /\ Small(Raster(bodies[j])) => Small(Raster(bodies'[j]))
      BY <1>1
    <2>. QED
      BY <1>1, <1>3, <2>1, <2>2, <2>3, MindsStay
  <1>5. Seated'
    <2>1. acts' \in 0..MaxActs
      BY DoCounts
    <2>2. next' <= MaxId
      BY <1>1 DEF BodiesInv, Seated
    <2>3. pc' \in {"input", "simulate", "resolve", "drive", "advance", "hazards"}
      OBVIOUS
    <2>. QED
      BY <2>1, <2>2, <2>3, SeatsStay
  <1>. QED
    BY <1>2, <1>4, <1>5 DEF BodiesInv

\* A body that moves keeps the invariant.
LEMMA SlideStep ==
  ASSUME BodiesInv, NEW id \in DOMAIN bodies, NEW d \in Cardinals, Slide(id, d)
  PROVE  BodiesInv'
  <1> DEFINE b == bodies[id]
             S == At(d, Raster(b))
             from(p) == Shift(p, <<-d[1], -d[2]>>)
             moved == Write(PutAll(World, Raster(b) \ S, "air", 0), [p \in S |-> mat[from(p)]], id)
             there == [b EXCEPT !.slots = [p \in S |-> b.slots[from(p)]]]
             v == [moved EXCEPT !.bodies = With(@, id, there)]
             k == [World EXCEPT !.bodies = With(@, id, [b EXCEPT !.parked = TRUE])]
  <1>1. /\ pc = "advance" /\ pc' = pc /\ Do /\ UNCHANGED <<loaded, simulated, mobs, players>>
        /\ Become(k) \/ (Fits(World, S \ Raster(b)) /\ Become(v))
    BY DEF Slide
  <1>2. PICK o : o = World
    OBVIOUS
  <1>3. /\ Sound(o) /\ id \in DOMAIN o.bodies /\ o.bodies = bodies /\ o.mat = mat /\ o.next = next
        /\ o.broken = fractures /\ \A j \in DOMAIN bodies : Whole(o, j)
    BY <1>1, <1>2, WorldIs DEF BodiesInv, Reconciled
  <1>4. CASE Become(k)
    <2> DEFINE x == [o EXCEPT !.bodies = With(@, id, [o.bodies[id] EXCEPT !.parked = TRUE])]
    <2>1. /\ Sound(x) /\ x.next = o.next /\ x.broken = o.broken
          /\ DOMAIN x.bodies = DOMAIN o.bodies
          /\ \A j \in DOMAIN o.bodies :
               /\ x.bodies[j].slots = o.bodies[j].slots
               /\ x.bodies[j].policy = o.bodies[j].policy
               /\ Whole(x, j) <=> Whole(o, j)
      BY <1>3, ParkKeeps
    <2>2. x = k
      BY <1>2, <1>3
    <2> HIDE DEF x, k
    <2>3. \A j \in DOMAIN bodies :
            /\ x.bodies[j].policy = bodies[j].policy
            /\ j \in Avatars /\ Small(Raster(bodies[j])) => Small(Raster(x.bodies[j]))
      BY <1>3, <2>1 DEF Raster
    <2>4. pc \in {"drive", "advance"}
      BY <1>1
    <2>. QED
      BY <1>1, <1>3, <1>4, <2>1, <2>2, <2>3, <2>4, BodyChanges
  <1>5. CASE Fits(World, S \ Raster(b)) /\ Become(v)
    <2>1. d \in Plane
      BY CardinalsInPlane
    <2> DEFINE x == Moved(o, id, d)
    <2>2. Fits(o, At(d, Raster(o.bodies[id])) \ Raster(o.bodies[id])) /\ Whole(o, id)
      BY <1>2, <1>3, <1>5
    <2>3. /\ Sound(x) /\ Whole(x, id) /\ x.next = o.next /\ x.broken = o.broken
          /\ DOMAIN x.bodies = DOMAIN o.bodies
          /\ x.bodies[id].policy = o.bodies[id].policy
          /\ Raster(x.bodies[id]) = At(d, Raster(o.bodies[id]))
          /\ \A j \in DOMAIN o.bodies : j # id =>
               x.bodies[j] = o.bodies[j] /\ (Whole(o, j) => Whole(x, j))
      BY <1>3, <2>1, <2>2, MoveKeeps
    <2>4. x = v /\ o.bodies[id] = b /\ Raster(x.bodies[id]) = S
      BY <1>2, <1>3, <2>3 DEF Moved
    <2> HIDE DEF x, v
    <2>5. ASSUME Small(Raster(b)) PROVE Small(S)
      <3>1. Raster(b) \in SUBSET Plane
        BY StateFacts, CellsInPlane DEF BodiesInv
      <3>. QED
        BY <2>1, <2>5, <3>1, SmallAnywhere
    <2> HIDE DEF S
    <2>6. ASSUME NEW j \in DOMAIN bodies
          PROVE  /\ x.bodies[j].policy = bodies[j].policy
                 /\ j \in Avatars /\ Small(Raster(bodies[j])) => Small(Raster(x.bodies[j]))
                 /\ Whole(x, j)
      <3>1. CASE j = id
        BY <2>3, <2>4, <2>5, <3>1
      <3>2. CASE j # id
        BY <1>3, <2>3, <3>2
      <3>. QED
        BY <3>1, <3>2
    <2>7. pc \in {"drive", "advance"}
      BY <1>1
    <2>8. \A j \in DOMAIN x.bodies : Whole(x, j)
      BY <1>3, <2>3, <2>6
    <2>. QED
      BY <1>1, <1>3, <1>5, <2>3, <2>4, <2>6, <2>7, <2>8, BodyChanges
  <1>. QED
    BY <1>1, <1>4, <1>5

\* What Reshape makes of a world.
Recast(o, id, S) ==
  LET held == Raster(o.bodies[id])
      w == PutAll(PutAll(o, held \ S, "air", 0), S, "flesh", 0)
  IN  [w EXCEPT !.owner = Stamp(w, S, id).owner,
                !.bodies = With(@, id, [o.bodies[id] EXCEPT !.slots = Restrict(w.mat, S)])]

\* A body recast into free cells owns them, and takes nothing from the others.
LEMMA RecastKeeps ==
  ASSUME NEW o, Sound(o), NEW id \in DOMAIN o.bodies, Whole(o, id), NEW S, S # {},
         Fits(o, S \ Raster(o.bodies[id]))
  PROVE  LET v == Recast(o, id, S)
         IN  /\ Sound(v) /\ Whole(v, id) /\ v.next = o.next /\ v.broken = o.broken
             /\ DOMAIN v.bodies = DOMAIN o.bodies
             /\ v.bodies[id].policy = o.bodies[id].policy
             /\ Raster(v.bodies[id]) = S
             /\ \A j \in DOMAIN o.bodies : j # id =>
                  v.bodies[j] = o.bodies[j] /\ (Whole(o, j) => Whole(v, j))
  <1> DEFINE b == o.bodies[id]
             R == Raster(b)
             u == PutAll(o, R \ S, "air", 0)
             w == PutAll(u, S, "flesh", 0)
             t == Stamp(w, S, id)
             slots == Restrict(w.mat, S)
             c == [b EXCEPT !.slots = slots]
             f == With(o.bodies, id, c)
             v == Recast(o, id, S)
  <1>1. /\ o \in Worlds /\ o.bodies \in BodySets /\ id \in Positive /\ id \in Nat /\ id # 0
        /\ b \in BodyTypes /\ R \subseteq Cells
        /\ id < o.next /\ (\A p \in R : Loaded(p)) /\ Claimed(o)
    BY WorldFacts, RastersInWorld DEF Sound, Numbered, Resident, Positive
  <1>2. b.policy \in Policies /\ b.parked \in BOOLEAN
        /\ b = [slots |-> b.slots, policy |-> b.policy, parked |-> b.parked]
    BY <1>1, BodyFacts
  <1>3. \A p \in R : o.owner[p] = id
    BY DEF Whole
  <1>4. \A p \in S \ R : Loaded(p) /\ o.owner[p] = 0
    BY DEF Fits, Free
  <1>5. \A p \in S : Loaded(p) /\ p \in Cells /\ (o.owner[p] = 0 \/ o.owner[p] = id)
    BY <1>1, <1>3, <1>4 DEF Loaded
  <1>6. S \in Rasters /\ S \in SUBSET Cells /\ R \ S \in SUBSET Cells
    BY <1>1, <1>5 DEF Rasters
  <1>7. \A p \in Cells : o.owner[p] = id => p \in R
    BY <1>1 DEF Claimed
  <1> HIDE DEF R, b, u, w, t, slots, c, f, v
  <1>8. /\ u \in Worlds /\ u.bodies = o.bodies /\ u.next = o.next /\ u.broken = o.broken
        /\ \A p \in Cells : /\ u.mat[p] = IF p \in R \ S THEN "air" ELSE o.mat[p]
                            /\ u.owner[p] = IF p \in R \ S THEN 0 ELSE o.owner[p]
    <2>1. PICK T \in SUBSET Cells : T = R \ S
      BY <1>6
    <2>. QED
      BY <1>1, <2>1, ClearedFacts DEF u
  <1>9. /\ w \in Worlds /\ w.bodies = o.bodies /\ w.next = o.next /\ w.broken = o.broken
        /\ \A p \in Cells : /\ w.mat[p] = IF p \in S THEN "flesh" ELSE u.mat[p]
                            /\ w.owner[p] = IF p \in S THEN 0 ELSE u.owner[p]
    BY <1>6, <1>8, FleshFacts DEF w
  <1>10. /\ t \in Worlds /\ t.mat = w.mat /\ t.bodies = o.bodies /\ t.next = o.next
         /\ t.broken = o.broken /\ t = [w EXCEPT !.owner = t.owner]
         /\ \A p \in Cells : t.owner[p] = IF p \in S THEN id ELSE w.owner[p]
    BY <1>1, <1>9, StampFacts DEF t
  <1>11. slots \in [S -> Bonded] /\ \A p \in S : slots[p] = w.mat[p]
    <2>1. "flesh" \in Bonded
      BY DEF Bonded, Bondable, Materials
    <2>2. \A p \in S : w.mat[p] = "flesh"
      BY <1>5, <1>9
    <2>. QED
      BY <2>1, <2>2 DEF slots, Restrict
  <1>12. c \in BodyTypes /\ Raster(c) = S /\ c.policy = b.policy /\ c.slots = slots
    <2>1. c = [slots |-> slots, policy |-> b.policy, parked |-> b.parked]
      BY <1>2 DEF c
    <2>. QED
      BY <1>2, <1>6, <1>11, <2>1, MakeBody
  <1>13. f \in BodySets
    BY <1>1, <1>12, WithBody DEF f
  <1>14. v = [t EXCEPT !.bodies = f]
    <2>1. v = [w EXCEPT !.owner = t.owner, !.bodies = With(@, id, c)]
      BY DEF v, Recast, t, w, u, R, b, slots, c
    <2>2. v = [w EXCEPT !.owner = t.owner, !.bodies = f]
      BY <1>9, <2>1 DEF f
    <2>. QED
      BY <1>10, <2>2
  <1>15. /\ v \in Worlds /\ v.bodies = f /\ v.mat = w.mat /\ v.owner = t.owner
         /\ v.next = o.next /\ v.broken = o.broken
    BY <1>10, <1>13, <1>14, BodiesField
  <1>16. \A p \in Raster(c) : /\ Loaded(p) /\ v.owner[p] = id /\ v.mat[p] = c.slots[p]
                              /\ o.owner[p] = 0 \/ o.owner[p] = id
    BY <1>5, <1>10, <1>11, <1>12, <1>15
  <1>17. \A p \in Cells \ Raster(c) :
           /\ v.owner[p] # id /\ (v.owner[p] = 0 \/ v.owner[p] = o.owner[p])
           /\ o.owner[p] # id => v.owner[p] = o.owner[p] /\ (o.owner[p] # 0 => v.mat[p] = o.mat[p])
    BY <1>1, <1>3, <1>7, <1>8, <1>9, <1>10, <1>12, <1>15
  <1>18. v.bodies = With(o.bodies, id, c) /\ id < v.next /\ o.next <= v.next
    <2>1. o.next \in Nat
      BY <1>1, WorldFacts DEF Positive
    <2>. QED
      BY <1>1, <1>15, <2>1 DEF f
  <1>19. /\ Sound(v) /\ Whole(v, id)
         /\ DOMAIN v.bodies = DOMAIN o.bodies \cup {id} /\ v.bodies[id] = c
         /\ \A j \in DOMAIN o.bodies : j # id =>
              v.bodies[j] = o.bodies[j] /\ (Whole(o, j) => Whole(v, j))
    <2>1. Claims(o, v, id, c)
      BY <1>16, <1>17, <1>18 DEF Claims
    <2>2. Came(o, v, id, c)
      BY <1>1, <1>12, <1>15, <2>1, ClaimsCome
    <2>. QED
      BY <2>2 DEF Came
  <1>. QED
    BY <1>12, <1>15, <1>19 DEF v, b

\* Figures are small and there is something of them.
LEMMA FiguresAreSmall ==
  ASSUME NEW pose \in {Stand, Duck}, NEW x \in Plane
  PROVE  Small(At(x, pose)) /\ At(x, pose) # {}
  <1>1. pose \in SUBSET Plane /\ pose # {}
    BY FigureAssumption DEF Plane
  <1>2. \A o, q \in pose : /\ o[1] - q[1] <= ViewRadius * ChunkSize
                           /\ o[2] - q[2] <= ViewRadius * ChunkSize
    BY FigureAssumption
  <1>3. Small(pose)
    BY <1>2 DEF Small
  <1>4. At(x, pose) # {}
    BY <1>1 DEF At
  <1>. QED
    BY <1>1, <1>3, <1>4, SmallAnywhere

\* An avatar that stands or ducks keeps the invariant.
LEMMA ReshapeStep ==
  ASSUME BodiesInv, NEW p \in Players, NEW S, Reshape(p, S)
  PROVE  BodiesInv'
  <1> DEFINE id == players[p].body
             held == Raster(bodies[id])
             w == PutAll(PutAll(World, held \ S, "air", 0), S, "flesh", 0)
             v == [w EXCEPT !.owner = Stamp(w, S, id).owner,
                            !.bodies = With(@, id, [bodies[id] EXCEPT !.slots = Restrict(w.mat, S)])]
  <1>1. /\ pc = "drive" /\ pc' = pc /\ Do /\ UNCHANGED <<loaded, simulated, mobs, players>>
        /\ id \in DOMAIN bodies /\ Fits(World, S \ held) /\ Become(v)
        /\ S \in {At(MinCorner(held), Stand), At(MinCorner(held), Duck)}
    BY DEF Reshape
  <1>2. PICK o : o = World
    OBVIOUS
  <1>3. /\ Sound(o) /\ id \in DOMAIN o.bodies /\ o.bodies = bodies /\ o.mat = mat /\ o.next = next
        /\ o.broken = fractures /\ \A j \in DOMAIN bodies : Whole(o, j)
    BY <1>1, <1>2, WorldIs DEF BodiesInv, Reconciled
  <1>4. Small(S) /\ S # {}
    <2>1. held \in Rasters
      BY <1>1, StateFacts DEF BodiesInv
    <2>2. MinCorner(held) \in Plane
      BY <2>1, CornersInPlane
    <2>. QED
      BY <1>1, <2>2, FiguresAreSmall
  <1> DEFINE x == Recast(o, id, S)
  <1>5. x = v
    BY <1>2, <1>3 DEF Recast
  <1>6. Fits(o, S \ Raster(o.bodies[id])) /\ Whole(o, id)
    BY <1>1, <1>2, <1>3
  <1> HIDE DEF v, w, id, held
  <1>7. /\ Sound(x) /\ Whole(x, id) /\ x.next = o.next /\ x.broken = o.broken
        /\ DOMAIN x.bodies = DOMAIN o.bodies
        /\ x.bodies[id].policy = o.bodies[id].policy
        /\ Raster(x.bodies[id]) = S
        /\ \A j \in DOMAIN o.bodies : j # id =>
             x.bodies[j] = o.bodies[j] /\ (Whole(o, j) => Whole(x, j))
    BY <1>3, <1>4, <1>6, RecastKeeps
  <1> HIDE DEF x
  <1>8. ASSUME NEW j \in DOMAIN bodies
        PROVE  /\ x.bodies[j].policy = bodies[j].policy
               /\ j \in Avatars /\ Small(Raster(bodies[j])) => Small(Raster(x.bodies[j]))
               /\ Whole(x, j)
    <2>1. CASE j = id
      BY <1>3, <1>4, <1>7, <2>1
    <2>2. CASE j # id
      BY <1>3, <1>7, <2>2
    <2>. QED
      BY <2>1, <2>2
  <1>9. pc \in {"drive", "advance"} /\ \A j \in DOMAIN x.bodies : Whole(x, j)
    BY <1>1, <1>3, <1>7, <1>8
  <1>. QED
    BY <1>1, <1>3, <1>5, <1>7, <1>8, <1>9, BodyChanges
-----------------------------------------------------------------------------
(* Mobs and players who enter the world.                                   *)

\* A body that nobody has yet, with the next id.
LEMMA FreshFacts ==
  ASSUME BodiesInv, pc \in {"input", "hazards"}, next < MaxId
  PROVE  /\ next \in Ids /\ next + 1 <= MaxId /\ next \in Positive /\ next + 1 \in Positive
         /\ next \notin Minded /\ next \notin DOMAIN bodies
  <1>1. next \in Positive /\ next \in Nat /\ MaxId \in Nat
    BY StateFacts, SizeAssumption DEF BodiesInv
  <1>2. \A id \in Minded : id < next
    BY DEF BodiesInv, MindsOwn
  <1>3. \A id \in DOMAIN bodies : id < next
    BY StateFacts DEF BodiesInv
  <1>. QED
    BY <1>1, <1>2, <1>3 DEF Ids, Positive

\* An id that is taken for a body that finds no room.
LEMMA IdIsSpent ==
  ASSUME BodiesInv, pc \in {"input", "hazards"}, pc' = pc, Do, next < MaxId,
         Become([World EXCEPT !.next = @ + 1]), UNCHANGED <<loaded, simulated, mobs, players>>
  PROVE  BodiesInv'
  <1>1. PICK o : o = World
    OBVIOUS
  <1>2. /\ Sound(o) /\ o \in Worlds /\ o.bodies = bodies /\ o.next = next /\ o.broken = fractures
        /\ pc = "hazards" => \A j \in DOMAIN bodies : Whole(o, j)
    BY <1>1, WorldIs DEF BodiesInv, Reconciled, Sound
  <1>3. next + 1 <= MaxId /\ next + 1 \in Positive /\ next \in Nat
    BY FreshFacts, StateFacts DEF BodiesInv
  <1> DEFINE x == [o EXCEPT !.next = next + 1]
  <1>4. Become(x)
    BY <1>1, <1>2
  <1>5. /\ x \in Worlds /\ x.next = next + 1 /\ x.bodies = o.bodies /\ x.mat = o.mat
        /\ x.owner = o.owner /\ x.broken = o.broken
    BY <1>2, <1>3, NextField
  <1> HIDE DEF x
  <1>6. Sound(x)
    <2>1. Claimed(x) /\ Resident(x)
      BY <1>2, <1>5 DEF Sound, Claimed, Resident
    <2>2. Numbered(x)
      BY <1>2, <1>3, <1>5, StateFacts DEF BodiesInv, Numbered
    <2>. QED
      BY <1>5, <2>1, <2>2 DEF Sound
  <1>7. pc = "hazards" => \A j \in DOMAIN x.bodies : Whole(x, j)
    BY <1>2, <1>5 DEF Whole
  <1>8. Sound(World)' /\ Reconciled'
    BY <1>4, <1>6, <1>7, SoundNext
  <1>9. bodies' = bodies /\ next' = next + 1 /\ fractures' = fractures
    BY <1>2, <1>4, <1>5, NextWorld
  <1>10. NoNewLife /\ Avatars' = Avatars
    BY DEF NoNewLife, Avatars, Is
  <1>11. MindsOwn' /\ Broken' /\ Kept'
    <2>1. next' \in Nat /\ next <= next' /\ pc # "resolve" /\ pc' # "resolve"
      BY <1>3, <1>9
    <2>2. DOMAIN bodies' = DOMAIN bodies
          /\ \A j \in DOMAIN bodies :
               /\ bodies'[j].policy = bodies[j].policy
               /\ j \in Avatars /\ Small(Raster(bodies[j])) => Small(Raster(bodies'[j]))
      BY <1>9
    <2>. QED
      BY <1>9, <1>10, <2>1, <2>2, MindsStay
  <1>12. Seated'
    BY <1>3, <1>9, DoCounts DEF BodiesInv, Seated
  <1>. QED
    BY <1>8, <1>11, <1>12 DEF BodiesInv

\* What is summoned where there is room.
LEMMA SummonedEnters ==
  ASSUME BodiesInv, pc = "input", pc' = pc, Do, next < MaxId,
         NEW S, S # {}, Fits(World, S), NEW m \in Bonded,
         NEW policy \in Policies, policy # "PLAYER",
         Become([Spawn(World, next, S, m, policy) EXCEPT !.next = @ + 1]),
         mobs' = mobs \cup {i \in {next} : policy = "MOB"},
         UNCHANGED <<loaded, simulated, players>>
  PROVE  BodiesInv'
  <1> DEFINE v == [Spawn(World, next, S, m, policy) EXCEPT !.next = @ + 1]
  <1>1. Become(v) /\ mobs' \subseteq mobs \cup {next}
    OBVIOUS
  <1>2. PICK o : o = World
    OBVIOUS
  <1>3. Sound(o) /\ o.bodies = bodies /\ o.next = next /\ o.broken = fractures
    BY <1>2, WorldIs DEF BodiesInv
  <1>4. S \in Rasters
    BY DEF Fits, Free, Loaded, Rasters
  <1> DEFINE x == [Spawn(o, o.next, S, m, policy) EXCEPT !.next = @ + 1]
  <1>5. x = v
    BY <1>2, <1>3
  <1>6. Fits(o, S)
    BY <1>1, <1>2
  <1> HIDE DEF v
  <1>7. /\ Sound(x) /\ Whole(x, o.next)
        /\ x.next = o.next + 1 /\ x.broken = o.broken
        /\ DOMAIN x.bodies = DOMAIN o.bodies \cup {o.next} /\ o.next \notin DOMAIN o.bodies
        /\ x.bodies[o.next].policy = policy /\ Raster(x.bodies[o.next]) = S
        /\ \A j \in DOMAIN o.bodies :
             x.bodies[j] = o.bodies[j] /\ (Whole(o, j) => Whole(x, j))
    BY <1>3, <1>4, <1>6, SpawnKeeps
  <1> HIDE DEF x
  <1>8. /\ next \in Ids /\ next + 1 <= MaxId /\ next \in Positive /\ next + 1 \in Positive
        /\ next \notin Minded /\ next \notin DOMAIN bodies
    BY <1>1, FreshFacts
  <1>9. /\ bodies' = x.bodies /\ next' = next + 1 /\ fractures' = fractures
        /\ DOMAIN bodies' = DOMAIN bodies \cup {next} /\ bodies'[next].policy = policy
        /\ \A j \in DOMAIN bodies : bodies'[j] = bodies[j]
    <2>1. x \in Worlds /\ Become(x)
      BY <1>1, <1>5, <1>7 DEF Sound
    <2>. QED
      BY <1>3, <1>7, <2>1, NextWorld
  <1>10. Sound(World)' /\ Reconciled'
    <2>1. Become(x) /\ pc' = "input" /\ loaded' = loaded
      BY <1>1, <1>5
    <2>. QED
      BY <1>7, <2>1, SoundNext
  <1>11. Seated'
    BY <1>1, <1>8, <1>9, DoCounts DEF BodiesInv, Seated
  <1>12. /\ Avatars' = Avatars /\ fractures = {} /\ Avatars \subseteq DOMAIN bodies
         /\ pc' # "resolve"
         /\ \A q \in Players : Is(q, "alive")' <=> Is(q, "alive")
         /\ players' = players
    BY <1>1, AvatarFacts DEF Avatars, Is
  <1>13. MindsOwn'
    <2>1. AvatarsHaveBodies'
      BY <1>1, <1>8, <1>9, <1>12 DEF BodiesInv, MindsOwn, AvatarsHaveBodies, Minded
    <2>2. \A id \in Minded' : id < next'
      <3>1. \A id \in Minded : id < next
        BY DEF BodiesInv, MindsOwn
      <3>2. \A id \in Minded : id \in Int
        <4>1. \A q \in Players : Is(q, "alive") => players[q].body \in Int
          BY LifeFacts DEF Positive
        <4>2. \A id \in mobs : id \in Int
          BY DEF BodiesInv, Seated, Positive
        <4>. QED
          BY <4>1, <4>2, AvatarsAre DEF Minded
      <3>3. Minded' \subseteq Minded \cup {next}
        BY <1>1, <1>12 DEF Minded
      <3>. QED
        BY <1>8, <1>9, <3>1, <3>2, <3>3 DEF Positive
    <2>3. \A id \in Avatars' \cap DOMAIN bodies' : bodies'[id].policy \in Minds /\ Small(Raster(bodies'[id]))
      BY <1>9, <1>12 DEF BodiesInv, MindsOwn
    <2>. QED
      BY <2>1, <2>2, <2>3 DEF MindsOwn
  <1>14. Broken'
    BY <1>9, <1>12 DEF Broken
  <1>15. Kept'
    <2>1. mobs \subseteq mobs' /\ (policy \in Minds => next \in mobs')
      BY DEF Minds
    <2>. QED
      BY <1>9, <1>12, <2>1 DEF BodiesInv, Kept, Minded
  <1>. QED
    BY <1>10, <1>11, <1>13, <1>14, <1>15 DEF BodiesInv

\* What is summoned keeps it.
LEMMA SummonStep ==
  ASSUME BodiesInv, NEW p \in Players, NEW species \in Species, Summon(p, species)
  PROVE  BodiesInv'
  <1> DEFINE S == At(Shift(ViewAnchor(p), Throw), species.frame)
  <1>1. /\ pc = "input" /\ pc' = pc /\ Do /\ next < MaxId
        /\ UNCHANGED <<loaded, simulated, players>>
        /\ IF Fits(World, S)
             THEN /\ Become([Spawn(World, next, S, species.of, species.policy) EXCEPT !.next = @ + 1])
                  /\ mobs' = mobs \cup {i \in {next} : species.lives}
             ELSE Become([World EXCEPT !.next = @ + 1]) /\ UNCHANGED mobs
    BY DEF Summon
  <1>2. PICK m, policy : m = species.of /\ policy = species.policy
    OBVIOUS
  <1>3. /\ S # {} /\ m \in Bonded /\ policy \in Policies /\ policy # "PLAYER"
        /\ species.lives <=> policy = "MOB"
    BY <1>2, SpeciesAssumption DEF At, Bonded
  <1> HIDE DEF S
  <1>4. CASE Fits(World, S)
    BY <1>1, <1>2, <1>3, <1>4, SummonedEnters
  <1>5. CASE ~Fits(World, S)
    BY <1>1, <1>5, IdIsSpent
  <1>. QED
    BY <1>4, <1>5

\* A candidate with room for an avatar.
LEMMA AvatarEnters ==
  ASSUME BodiesInv, NEW p \in Players, players[p] # Nil, Seeking(p), pc = "hazards", pc' = pc, Do,
         NEW S, Small(S), S # {}, Fits(World, S), next < MaxId,
         Become([Spawn(World, next, S, "flesh", "PLAYER") EXCEPT !.next = @ + 1]),
         players' = [players EXCEPT ![p] = Alive(next)],
         UNCHANGED <<loaded, simulated, mobs>>
  PROVE  BodiesInv'
  <1> DEFINE v == [Spawn(World, next, S, "flesh", "PLAYER") EXCEPT !.next = @ + 1]
  <1>1. Become(v)
    OBVIOUS
  <1>2. PICK o : o = World
    OBVIOUS
  <1>3. Sound(o) /\ o.bodies = bodies /\ o.next = next /\ o.broken = fractures
        /\ \A j \in DOMAIN bodies : Whole(o, j)
    BY <1>2, WorldIs DEF BodiesInv, Reconciled
  <1>4. S \in Rasters
    <2>1. S \subseteq Cells
      BY DEF Fits, Free, Loaded
    <2>. QED
      BY <2>1 DEF Rasters
  <1> DEFINE x == [Spawn(o, o.next, S, "flesh", "PLAYER") EXCEPT !.next = @ + 1]
  <1>5. x = v
    BY <1>2, <1>3
  <1>6. Fits(o, S)
    BY <1>2
  <1> HIDE DEF v
  <1>7. /\ Sound(x) /\ Whole(x, o.next)
        /\ x.next = o.next + 1 /\ x.broken = o.broken
        /\ DOMAIN x.bodies = DOMAIN o.bodies \cup {o.next} /\ o.next \notin DOMAIN o.bodies
        /\ x.bodies[o.next].policy = "PLAYER" /\ Raster(x.bodies[o.next]) = S
        /\ \A j \in DOMAIN o.bodies :
             x.bodies[j] = o.bodies[j] /\ (Whole(o, j) => Whole(x, j))
    <2>1. "flesh" \in Bonded /\ "PLAYER" \in Policies
      BY PolicyFacts DEF Bonded, Bondable, Materials
    <2>. QED
      BY <1>3, <1>4, <1>6, <2>1, SpawnKeeps
  <1> HIDE DEF x
  <1>8. /\ next \in Ids /\ next + 1 <= MaxId /\ next \in Positive /\ next + 1 \in Positive
        /\ next \notin Minded /\ next \notin DOMAIN bodies
    BY FreshFacts
  <1>9. /\ bodies' = x.bodies /\ next' = next + 1 /\ fractures' = fractures
        /\ DOMAIN bodies' = DOMAIN bodies \cup {next} /\ bodies'[next].policy = "PLAYER"
        /\ Raster(bodies'[next]) = S
        /\ \A j \in DOMAIN bodies : bodies'[j] = bodies[j]
    <2>1. x \in Worlds /\ Become(x)
      BY <1>1, <1>5, <1>7 DEF Sound
    <2>. QED
      BY <1>3, <1>7, <2>1, NextWorld
  <1>10. Sound(World)' /\ Reconciled'
    <2>1. Become(x) /\ loaded' = loaded
      BY <1>1, <1>5
    <2>2. \A j \in DOMAIN x.bodies : Whole(x, j)
      BY <1>3, <1>7
    <2>. QED
      BY <1>7, <2>1, <2>2, SoundNext
  <1>11. Alive(next) \in Lives /\ Alive(next) # Nil /\ Alive(next).life = "alive"
         /\ Alive(next).body = next
    BY <1>8, NilIsNoLife DEF Alive, Lives
  <1>12. Seated'
    BY <1>8, <1>9, <1>11, DoCounts DEF BodiesInv, Seated
  <1>13. /\ players \in [Players -> Lives \cup {Nil}] /\ ~Is(p, "alive")
         /\ \A q \in Players : q # p => players'[q] = players[q]
         /\ players'[p] = Alive(next)
    BY DEF BodiesInv, Seated, Seeking, Is
  <1>14. /\ Is(p, "alive")' /\ players'[p].body = next
         /\ \A q \in Players : q # p => (Is(q, "alive")' <=> Is(q, "alive"))
    BY <1>11, <1>13 DEF Is
  <1>15. Avatars' = Avatars \cup {next}
    <2>1. Avatars' \subseteq Avatars \cup {next}
      BY <1>13, <1>14 DEF Avatars
    <2>2. Avatars \cup {next} \subseteq Avatars'
      BY <1>13, <1>14 DEF Avatars
    <2>. QED
      BY <2>1, <2>2
  <1>16. fractures = {} /\ Avatars \subseteq DOMAIN bodies
    BY AvatarFacts
  <1>17. \A q \in Players : Is(q, "alive") => players[q].body # next
    BY <1>8, AvatarsAre DEF Minded
  <1>18. MindsOwn'
    <2>1. AvatarsHaveBodies'
      <3>1. Avatars' \subseteq DOMAIN bodies'
        BY <1>9, <1>15, <1>16
      <3>2. Avatars' \cap mobs' = {}
        BY <1>8, <1>15 DEF BodiesInv, MindsOwn, AvatarsHaveBodies, Minded
      <3>3. ASSUME NEW q \in Players, NEW r \in Players, q # r, Is(q, "alive")', Is(r, "alive")'
            PROVE  players'[q].body # players'[r].body
        <4>1. AvatarsHaveBodies
          BY DEF BodiesInv, MindsOwn
        <4>2. CASE q # p /\ r # p
          BY <1>13, <1>14, <3>3, <4>1, <4>2 DEF AvatarsHaveBodies
        <4>3. CASE q = p
          BY <1>13, <1>14, <1>17, <3>3, <4>3
        <4>4. CASE r = p
          BY <1>13, <1>14, <1>17, <3>3, <4>4
        <4>. QED
          BY <4>2, <4>3, <4>4
      <3>. QED
        BY <3>1, <3>2, <3>3 DEF AvatarsHaveBodies
    <2>2. \A id \in Minded' : id < next'
      <3>1. \A id \in Minded : id < next
        BY DEF BodiesInv, MindsOwn
      <3>2. \A id \in Minded : id \in Int
        <4>1. \A q \in Players : Is(q, "alive") => players[q].body \in Int
          BY LifeFacts DEF Positive
        <4>2. \A id \in mobs : id \in Int
          BY DEF BodiesInv, Seated, Positive
        <4>. QED
          BY <4>1, <4>2, AvatarsAre DEF Minded
      <3>3. Minded' = Minded \cup {next}
        BY <1>15 DEF Minded
      <3>. QED
        BY <1>8, <1>9, <3>1, <3>2, <3>3 DEF Positive
    <2>3. \A id \in Avatars' \cap DOMAIN bodies' : bodies'[id].policy \in Minds /\ Small(Raster(bodies'[id]))
      BY <1>9, <1>15, <1>16, PolicyFacts DEF BodiesInv, MindsOwn
    <2>. QED
      BY <2>1, <2>2, <2>3 DEF MindsOwn
  <1>19. Broken'
    BY <1>9, <1>16 DEF Broken
  <1>20. Kept'
    BY <1>9, <1>15 DEF BodiesInv, Kept, Minded
  <1>. QED
    BY <1>10, <1>12, <1>18, <1>19, <1>20 DEF BodiesInv

\* A player who enters the world keeps it.
LEMMA MaterializeStep ==
  ASSUME BodiesInv, NEW p \in Players, NEW at \in Spawns, Materialize(p, at)
  PROVE  BodiesInv'
  <1> DEFINE poses == <<At(at, Stand), At(at, Duck)>>
             room == {i \in DOMAIN poses : Fits(World, poses[i])}
             v == [World EXCEPT !.next = @ + 1]
  <1>1. /\ pc = "hazards" /\ pc' = pc /\ Do /\ players[p] # Nil /\ Seeking(p) /\ next < MaxId
        /\ UNCHANGED <<loaded, simulated, mobs>>
    BY DEF Materialize
  <1>2. IF room # {}
          THEN /\ Become([Spawn(World, next, poses[Min(room)], "flesh", "PLAYER")
                            EXCEPT !.next = @ + 1])
               /\ players' = [players EXCEPT ![p] = Alive(next)]
          ELSE Become(v) /\ UNCHANGED players
    BY DEF Materialize
  <1>3. CASE room # {}
    <2>1. room \subseteq {1, 2} /\ \A i \in room : Fits(World, poses[i])
      OBVIOUS
    <2>2. at \in Plane
      BY InitialAssumption, CellsInPlane
    <2>3. \A i \in {1, 2} : Small(poses[i]) /\ poses[i] # {}
      BY <2>2, FiguresAreSmall
    <2> HIDE DEF poses, room
    <2>4. Min(room) \in room
      BY <1>3, <2>1, MinIsLeast
    <2>5. PICK S : S = poses[Min(room)]
      OBVIOUS
    <2>6. Small(S) /\ S # {} /\ Fits(World, S)
      BY <2>1, <2>3, <2>4, <2>5
    <2>. QED
      BY <1>1, <1>2, <1>3, <2>5, <2>6, AvatarEnters
  <1>4. CASE room = {}
    BY <1>1, <1>2, <1>4, IdIsSpent DEF v
  <1>. QED
    BY <1>3, <1>4
-----------------------------------------------------------------------------
(* Regions come and go.                                                    *)

\* What is no farther than the view reaches is in a chunk of the view.
LEMMA NearChunks ==
  ASSUME NEW a \in Plane, NEW p \in Plane,
         \A i \in {1, 2} : /\ p[i] - a[i] <= ViewRadius * ChunkSize
                           /\ a[i] - p[i] <= ViewRadius * ChunkSize
  PROVE  ChunkOf(p) \in SquareAround(ChunkOf(a))
  <1>1. ChunkSize \in Positive /\ ViewRadius \in Nat
    BY SizeAssumption DEF Positive
  <1>2. p[1] \in Int /\ p[2] \in Int /\ a[1] \in Int /\ a[2] \in Int
    BY PointsArePairs
  <1>3. p[1] \div ChunkSize \in ((a[1] \div ChunkSize) - ViewRadius)..((a[1] \div ChunkSize) + ViewRadius)
    BY <1>1, <1>2, NearQuotients
  <1>4. p[2] \div ChunkSize \in ((a[2] \div ChunkSize) - ViewRadius)..((a[2] \div ChunkSize) + ViewRadius)
    BY <1>1, <1>2, NearQuotients
  <1>5. /\ ChunkOf(p) = <<p[1] \div ChunkSize, p[2] \div ChunkSize>>
        /\ ChunkOf(a)[1] = a[1] \div ChunkSize /\ ChunkOf(a)[2] = a[2] \div ChunkSize
    BY DEF ChunkOf
  <1>. QED
    BY <1>3, <1>4, <1>5 DEF SquareAround

\* Tickets are chunks, and cover the bodies of the avatars.
LEMMA TicketsAreChunks ==
  ASSUME BodiesInv, pc # "resolve"
  PROVE  Tickets \subseteq Plane
  <1>1. ViewRadius \in Nat /\ ChunkSize \in Positive /\ ChunkSize \in Int
    BY SizeAssumption DEF Positive
  <1>2. \A a, b, c, d \in Int : (a..b) \X (c..d) \subseteq Plane
    BY DEF Plane
  <1>3. ASSUME NEW p \in Present PROVE SquareAround(ChunkOf(ViewAnchor(p))) \subseteq Plane
    <2>1. ChunkOf(ViewAnchor(p)) \in Plane
      BY ViewAnchorType, CellsInPlane, ChunksAreInPlane DEF Present
    <2>2. PICK c \in Plane : c = ChunkOf(ViewAnchor(p))
      BY <2>1
    <2>3. c[1] \in Int /\ c[2] \in Int
      BY PointsArePairs
    <2>4. /\ c[1] - ViewRadius \in Int /\ c[1] + ViewRadius \in Int
          /\ c[2] - ViewRadius \in Int /\ c[2] + ViewRadius \in Int
      BY <1>1, <2>3
    <2>5. SquareAround(c) \subseteq Plane
      BY <1>2, <2>4 DEF SquareAround
    <2>. QED
      BY <2>2, <2>5
  <1>4. ASSUME NEW p \in Present, Seeking(p) PROVE Window(players[p].at) \subseteq Plane
    <2>1. players[p].at \in Plane
      BY <1>4, LifeFacts, CellsInPlane DEF Present, Seeking
    <2>2. PICK x \in Plane : x = players[p].at
      BY <2>1
    <2>3. <<-ChunkSize, -ChunkSize>> \in Plane /\ <<ChunkSize, ChunkSize>> \in Plane
      BY <1>1 DEF Plane
    <2> DEFINE lo == ChunkOf(Shift(x, <<-ChunkSize, -ChunkSize>>))
               hi == ChunkOf(Shift(x, <<ChunkSize, ChunkSize>>))
    <2>4. lo \in Plane /\ hi \in Plane
      <3>1. Shift(x, <<-ChunkSize, -ChunkSize>>) \in Plane /\ Shift(x, <<ChunkSize, ChunkSize>>) \in Plane
        BY <2>3, PlaneShift
      <3>. QED
        BY <3>1, ChunksAreInPlane
    <2>5. Window(x) = (lo[1]..hi[1]) \X (lo[2]..hi[2])
      BY DEF Window
    <2> HIDE DEF lo, hi
    <2>6. lo[1] \in Int /\ lo[2] \in Int /\ hi[1] \in Int /\ hi[2] \in Int
      BY <2>4, PointsArePairs
    <2>. QED
      BY <1>2, <2>2, <2>5, <2>6
  <1>5. \A c \in Tickets :
          \/ \E p \in Present : c \in SquareAround(ChunkOf(ViewAnchor(p)))
          \/ \E p \in Present : Seeking(p) /\ c \in Window(players[p].at)
    <2> DEFINE A == {SquareAround(ChunkOf(ViewAnchor(p))) : p \in Present}
               Q == {q \in Present : Seeking(q)}
               B == {Window(players[p].at) : p \in Q}
    <2>1. Tickets = (UNION A) \cup UNION B
      BY DEF Tickets
    <2>2. \A T \in A : \E p \in Present : T = SquareAround(ChunkOf(ViewAnchor(p)))
      OBVIOUS
    <2>3. \A T \in B : \E p \in Q : T = Window(players[p].at)
      OBVIOUS
    <2>4. \A p \in Q : p \in Present /\ Seeking(p)
      OBVIOUS
    <2> HIDE DEF A, B, Q
    <2>5. SUFFICES ASSUME NEW c \in Tickets
                   PROVE  \/ \E p \in Present : c \in SquareAround(ChunkOf(ViewAnchor(p)))
                          \/ \E p \in Present : Seeking(p) /\ c \in Window(players[p].at)
      OBVIOUS
    <2>6. CASE c \in UNION A
      <3>1. PICK T \in A : c \in T
        BY <2>6
      <3>2. PICK p \in Present : T = SquareAround(ChunkOf(ViewAnchor(p)))
        BY <2>2
      <3>. QED
        BY <3>1, <3>2
    <2>7. CASE c \in UNION B
      <3>1. PICK T \in B : c \in T
        BY <2>7
      <3>2. PICK p \in Q : T = Window(players[p].at)
        BY <2>3
      <3>. QED
        BY <2>4, <3>1, <3>2
    <2>. QED
      BY <2>1, <2>5, <2>6, <2>7
  <1>. QED
    BY <1>3, <1>4, <1>5

\* The tickets of a tick hold the regions of every avatar, to its last cell.
LEMMA TicketsCoverAvatars ==
  ASSUME BodiesInv, pc # "resolve", NEW id \in Avatars, NEW p \in Raster(bodies[id])
  PROVE  Home(p) \in {RegionOf(c) : c \in Tickets}
  <1>1. PICK q \in Players : Is(q, "alive") /\ players[q].body = id
    BY AvatarsAre
  <1>2. PICK b : b = bodies[id]
    OBVIOUS
  <1>3. id \in DOMAIN bodies /\ Small(Raster(b)) /\ Raster(b) \in Rasters
    BY <1>2, AvatarFacts, StateFacts DEF BodiesInv, MindsOwn
  <1>4. ViewAnchor(q) = Anchor(b)
    <2>1. ~Is(q, "reviving")
      BY <1>1 DEF Is
    <2>. QED
      BY <1>1, <1>2, <2>1, Zenon DEF ViewAnchor
  <1>5. ViewRadius * ChunkSize \in Nat
    BY SizeAssumption
  <1>6. Anchor(b) \in Plane /\ p \in Plane
    BY <1>2, <1>3, AnchorIsWithin, CellsInPlane DEF Rasters
  <1>7. \A i \in {1, 2} : /\ p[i] - Anchor(b)[i] <= ViewRadius * ChunkSize
                          /\ Anchor(b)[i] - p[i] <= ViewRadius * ChunkSize
    <2> DEFINE n == ViewRadius * ChunkSize
    <2>1. n \in Nat /\ \A i \in {1, 2} : \A x, y \in Raster(b) : x[i] - y[i] <= n
      BY <1>3, <1>5 DEF Small
    <2> HIDE DEF n
    <2>2. \A i \in {1, 2} : \A x \in Raster(b) : x[i] - Anchor(b)[i] <= n /\ Anchor(b)[i] - x[i] <= n
      BY <1>3, <2>1, AnchorIsWithin
    <2>. QED
      BY <1>2, <2>2 DEF n
  <1>8. ChunkOf(p) \in SquareAround(ChunkOf(ViewAnchor(q)))
    BY <1>4, <1>6, <1>7, NearChunks
  <1>9. q \in Present
    BY <1>1 DEF Present, Is
  <1>10. ChunkOf(p) \in Tickets
    BY <1>8, <1>9 DEF Tickets
  <1>. QED
    BY <1>10 DEF Home

\* Regions that come in and expire keep the invariant: no avatar reaches into
\* one that expires.
LEMMA ManageRegionsStep ==
  ASSUME BodiesInv, ManageRegions
  PROVE  BodiesInv'
  <1> DEFINE wanted == {RegionOf(c) : c \in Tickets}
  <1>1. PICK arrived \in {{}} \cup {{r} : r \in (wanted \cap Regions) \ loaded},
             expired \in SUBSET (loaded \ wanted) :
          /\ loaded' = (loaded \cup arrived) \ expired
          /\ LET w1 == Load(World, arrived)
                 doomed == Doomed(w1, expired)
                 w2 == Despawn(w1, doomed)
             IN  /\ Become(Wake(Settle(w2, Crossing(w2, expired)), Tickets \ simulated))
                 /\ mobs' = mobs \ doomed
    BY DEF ManageRegions
  <1>2. /\ pc = "input" /\ pc' = "simulate" /\ simulated' = Tickets /\ UNCHANGED <<players, acts>>
    BY DEF ManageRegions
  <1>3. arrived \subseteq Regions /\ expired \cap wanted = {} /\ expired \subseteq loaded
    BY <1>1
  <1>4. \A id \in Avatars : \A p \in Raster(bodies[id]) : Home(p) \notin expired
    BY <1>2, <1>3, TicketsCoverAvatars
  <1>5. NoNewLife /\ Avatars' = Avatars
    BY <1>2 DEF NoNewLife, Avatars, Is
  <1>6. fractures = {} /\ Avatars \subseteq DOMAIN bodies
    BY <1>2, AvatarFacts
  <1> HIDE DEF wanted
  <1>7. PICK o : o = World
    OBVIOUS
  <1>8. Sound(o) /\ o.bodies = bodies /\ o.next = next /\ o.broken = fractures
    BY <1>7, WorldIs DEF BodiesInv
  <1>9. PICK w1 : w1 = Load(o, arrived)
    OBVIOUS
  <1>10. Sound(w1) /\ w1.bodies = bodies /\ w1.next = next /\ w1.broken = fractures
    BY <1>8, <1>9, LoadKeeps
  <1>11. PICK doomed : doomed = Doomed(w1, expired)
    OBVIOUS
  <1>12. doomed \in SUBSET DOMAIN w1.bodies /\ doomed \subseteq mobs
    BY <1>11 DEF Doomed
  <1>13. PICK w2 : w2 = Despawn(w1, doomed)
    OBVIOUS
  <1>14. /\ Sound(w2) /\ w2.next = next /\ w2.broken = fractures
         /\ DOMAIN w2.bodies = DOMAIN bodies \ doomed
         /\ \A j \in DOMAIN w2.bodies : w2.bodies[j] = bodies[j]
    <2>1. /\ Sound(w2)
          /\ w2.next = w1.next /\ w2.broken = w1.broken
          /\ DOMAIN w2.bodies = DOMAIN w1.bodies \ doomed
          /\ \A id \in DOMAIN w2.bodies :
               w2.bodies[id] = w1.bodies[id] /\ (Whole(w1, id) => Whole(w2, id))
      BY <1>10, <1>12, <1>13, DespawnKeeps
    <2>. QED
      BY <1>10, <2>1
  <1>15. PICK gone : gone = Crossing(w2, expired)
    OBVIOUS
  <1>16. /\ gone \in SUBSET DOMAIN w2.bodies
         /\ \A j \in DOMAIN w2.bodies :
              j \in gone <=> \E p \in Raster(w2.bodies[j]) : Home(p) \in expired
    BY <1>15 DEF Crossing
  <1>17. PICK w3 : w3 = Settle(w2, gone)
    OBVIOUS
  <1>18. /\ Sound(w3) /\ w3.next = next /\ w3.broken = fractures
         /\ DOMAIN w3.bodies = DOMAIN w2.bodies \ gone
         /\ \A j \in DOMAIN w3.bodies : w3.bodies[j] = w2.bodies[j]
    <2>1. /\ Sound(w3)
          /\ w3.next = w2.next /\ w3.broken = w2.broken
          /\ DOMAIN w3.bodies = DOMAIN w2.bodies \ gone
          /\ \A id \in DOMAIN w3.bodies :
               w3.bodies[id] = w2.bodies[id] /\ (Whole(w2, id) => Whole(w3, id))
      BY <1>14, <1>16, <1>17, SettleKeeps
    <2>. QED
      BY <1>14, <2>1
  <1>19. PICK v : v = Wake(w3, Tickets \ simulated)
    OBVIOUS
  <1>20. Sound(v) /\ v.bodies = w3.bodies /\ v.next = next /\ v.broken = fractures
    <2>1. Sound(v) /\ v.bodies = w3.bodies /\ v.next = w3.next /\ v.broken = w3.broken
      BY <1>18, <1>19, WakeKeeps
    <2>. QED
      BY <1>18, <2>1
  <1>21. Become(v) /\ mobs' = mobs \ doomed
    BY <1>1, <1>7, <1>9, <1>11, <1>13, <1>15, <1>17, <1>19
  <1>22. World' = v /\ bodies' = v.bodies /\ next' = next /\ fractures' = {}
    BY <1>6, <1>20, <1>21, NextWorld DEF Sound
  <1>23. /\ DOMAIN bodies' \subseteq DOMAIN bodies \ doomed
         /\ \A j \in DOMAIN bodies' : bodies'[j] = bodies[j]
         /\ \A j \in DOMAIN bodies \ doomed :
              j \notin DOMAIN bodies' <=> \E p \in Raster(bodies[j]) : Home(p) \in expired
    BY <1>14, <1>16, <1>18, <1>20, <1>22
  <1>24. Sound(World)'
    <2>1. (World \in Worlds)' /\ Claimed(World)' /\ Numbered(World)'
      BY <1>20, <1>22 DEF Sound, Claimed, Numbered
    <2>2. Resident(World)'
      <3>1. SUFFICES ASSUME NEW id \in DOMAIN bodies', NEW p \in Raster(bodies'[id])
                     PROVE  p \in Cells /\ Home(p) \in loaded'
        BY <1>20, <1>22 DEF Resident, Loaded
      <3>2. id \in DOMAIN bodies /\ bodies'[id] = bodies[id] /\ Home(p) \notin expired
        BY <1>23
      <3>3. p \in Cells /\ Home(p) \in loaded
        BY <3>2, StateFacts DEF BodiesInv, Loaded
      <3>. QED
        BY <1>1, <3>2, <3>3
    <2>. QED
      BY <2>1, <2>2 DEF Sound
  <1>25. Reconciled'
    BY <1>2 DEF Reconciled
  <1>26. Avatars' \subseteq DOMAIN bodies'
    <2>1. Avatars \cap doomed = {}
      BY <1>12 DEF BodiesInv, MindsOwn, AvatarsHaveBodies
    <2>. QED
      BY <1>4, <1>5, <1>6, <1>23, <2>1
  <1>27. MindsOwn' /\ Broken' /\ Kept'
    <2>1. \A id \in Avatars' : bodies'[id].policy \in Minds /\ Small(Raster(bodies'[id]))
      BY <1>5, <1>6, <1>23, <1>26 DEF BodiesInv, MindsOwn
    <2>2. \A id \in DOMAIN bodies' : bodies'[id].policy \in Minds => id \in Avatars' \cup mobs'
      BY <1>2, <1>5, <1>21, <1>23 DEF BodiesInv, Kept, Minded
    <2>3. next' \in Nat /\ next <= next'
      BY <1>22, StateFacts DEF BodiesInv
    <2>4. mobs' \subseteq mobs /\ pc' # "resolve" /\ fractures' = {}
      BY <1>2, <1>21, <1>22
    <2>. QED
      BY <1>5, <1>26, <2>1, <2>2, <2>3, <2>4, MindsShrink
  <1>28. Seated'
    <2>1. simulated' \subseteq Plane
      BY <1>2, TicketsAreChunks
    <2>2. loaded' \subseteq Regions
      BY <1>1, <1>3 DEF BodiesInv, Seated
    <2>. QED
      BY <1>2, <1>21, <1>22, <2>1, <2>2 DEF BodiesInv, Seated
  <1>. QED
    BY <1>24, <1>25, <1>27, <1>28 DEF BodiesInv
-----------------------------------------------------------------------------
(* The physics reconciles every body, and detaches islands.                *)

\* The bodies of v come of those of o: every one is whole, and one that is gone
\* or in parts is told.
Integrated(o, v) ==
  /\ Sound(v) /\ (\A j \in DOMAIN v.bodies : Whole(v, j))
  /\ o.next <= v.next /\ v.next \in Nat
  /\ \A j \in DOMAIN v.bodies : j \in DOMAIN o.bodies \/ o.next <= j
  /\ \A f \in v.broken : f.source \in DOMAIN o.bodies
  /\ \A f \in v.broken : \A j \in f.parts : j < v.next /\ (j = f.source \/ o.next <= j)
  /\ \A f \in v.broken : \A j \in f.parts \cap DOMAIN v.bodies :
       v.bodies[j].policy = o.bodies[f.source].policy
  /\ \A j \in DOMAIN o.bodies : j \in DOMAIN v.bodies \/ \E f \in v.broken : f.source = j
  /\ \A j \in DOMAIN o.bodies \cap DOMAIN v.bodies :
       /\ v.bodies[j].policy = o.bodies[j].policy
       /\ Raster(v.bodies[j]) \subseteq Raster(o.bodies[j])
  /\ \A j \in DOMAIN v.bodies : v.bodies[j].policy \in Minds =>
       \/ /\ j \in DOMAIN o.bodies /\ o.bodies[j].policy \in Minds
          /\ \A f \in v.broken : f.source # j
       \/ \E f \in v.broken :
            f.source \in DOMAIN o.bodies /\ o.bodies[f.source].policy \in Minds /\ j \in f.parts

\* What reconciling and detaching together make of the bodies of o.
LEMMA BodiesIntegrate ==
  ASSUME NEW o, Sound(o), o.broken = {}
  PROVE  Integrated(o, Detach(ReconcileAll(Unparked(o))))
  <1>1. PICK u : u = Unparked(o)
    OBVIOUS
  <1>2. /\ Sound(u) /\ u.next = o.next /\ u.broken = {} /\ DOMAIN u.bodies = DOMAIN o.bodies
        /\ \A j \in DOMAIN o.bodies :
             /\ u.bodies[j].slots = o.bodies[j].slots
             /\ u.bodies[j].policy = o.bodies[j].policy
    BY <1>1, UnparkedKeeps
  <1>3. PICK r : r = ReconcileAll(u)
    OBVIOUS
  <1>4. Sound(r) /\ Descends(u, r, u.next - 1) /\ \A j \in DOMAIN r.bodies : Whole(r, j)
    BY <1>2, <1>3, ReconcileAllKeeps
  <1>5. PICK v : v = Detach(r)
    OBVIOUS
  <1>6. Grown(r, v)
    BY <1>4, <1>5, DetachGrows
  <1>7. /\ Sound(v) /\ r.next <= v.next /\ v.broken = r.broken
        /\ \A j \in DOMAIN r.bodies : j \in DOMAIN v.bodies /\ v.bodies[j] = r.bodies[j]
        /\ \A j \in DOMAIN v.bodies :
             Whole(v, j) /\ (j \in DOMAIN r.bodies \/ (r.next <= j /\ v.bodies[j].policy = "DEBRIS"))
    BY <1>6 DEF Grown
  <1>8. o.next \in Nat /\ r.next \in Nat /\ v.next \in Nat
    BY <1>4, <1>7, WorldFacts DEF Sound, Positive
  <1>9. /\ o.next <= r.next
        /\ \A f \in r.broken : f.source \in DOMAIN o.bodies
        /\ \A f \in r.broken : \A j \in f.parts : j < r.next /\ (j = f.source \/ o.next <= j)
        /\ \A j \in DOMAIN o.bodies : j \in DOMAIN r.bodies \/ \E f \in r.broken : f.source = j
        /\ \A j \in DOMAIN o.bodies \cap DOMAIN r.bodies :
             /\ r.bodies[j].policy = o.bodies[j].policy
             /\ Raster(r.bodies[j]) \subseteq Raster(o.bodies[j])
        /\ \A j \in DOMAIN r.bodies : r.bodies[j].policy \in Minds =>
             \/ /\ j \in DOMAIN o.bodies /\ o.bodies[j].policy \in Minds
                /\ \A f \in r.broken : f.source # j
             \/ \E f \in r.broken :
                  f.source \in DOMAIN o.bodies /\ o.bodies[f.source].policy \in Minds /\ j \in f.parts
    BY <1>2, <1>4 DEF Descends, Raster
  <1>10. \A j \in DOMAIN o.bodies \cap DOMAIN v.bodies : j \in DOMAIN r.bodies
    <2>1. \A j \in DOMAIN o.bodies : j < o.next /\ j \in Nat
      BY WorldFacts DEF Sound, Numbered, Positive
    <2>. QED
      BY <1>7, <1>8, <1>9, <2>1
  <1>11. \A f \in v.broken : \A j \in f.parts : j < v.next /\ (j = f.source \/ o.next <= j)
    <2>1. ASSUME NEW f \in v.broken, NEW j \in f.parts PROVE j < v.next
      <3>1. v.broken \in SUBSET Breaks
        BY <1>7, WorldFacts DEF Sound
      <3>2. f.parts \in SUBSET Positive
        BY <3>1 DEF Breaks
      <3>3. j < r.next /\ j \in Nat
        BY <1>7, <1>9, <2>1, <3>2 DEF Positive
      <3>. QED
        BY <1>7, <1>8, <3>3
    <2>. QED
      BY <1>7, <1>9, <2>1
  <1>12. o.next <= v.next
    BY <1>7, <1>8, <1>9
  <1>13. \A j \in DOMAIN o.bodies : j \in DOMAIN v.bodies \/ \E f \in v.broken : f.source = j
    BY <1>7, <1>9
  <1>14. \A j \in DOMAIN o.bodies \cap DOMAIN v.bodies :
           /\ v.bodies[j].policy = o.bodies[j].policy
           /\ Raster(v.bodies[j]) \subseteq Raster(o.bodies[j])
    BY <1>7, <1>9, <1>10
  <1>15. ASSUME NEW j \in DOMAIN v.bodies, v.bodies[j].policy \in Minds
         PROVE  \/ /\ j \in DOMAIN o.bodies /\ o.bodies[j].policy \in Minds
                   /\ \A f \in v.broken : f.source # j
                \/ \E f \in v.broken :
                     f.source \in DOMAIN o.bodies /\ o.bodies[f.source].policy \in Minds /\ j \in f.parts
    <2>1. j \in DOMAIN r.bodies /\ r.bodies[j].policy \in Minds
      BY <1>7, <1>15, PolicyFacts
    <2>. QED
      BY <1>7, <1>9, <2>1
  <1>16. ASSUME NEW f \in v.broken, NEW j \in f.parts, j \in DOMAIN v.bodies
         PROVE  v.bodies[j].policy = o.bodies[f.source].policy
    <2>1. f \in r.broken /\ f.source \in DOMAIN o.bodies /\ j < r.next /\ j \in Nat
      BY <1>7, <1>9, <1>16, WorldFacts DEF Sound, Positive
    <2>2. j \in DOMAIN r.bodies /\ v.bodies[j] = r.bodies[j]
      BY <1>7, <1>8, <1>16, <2>1
    <2>3. r.bodies[j].policy = u.bodies[f.source].policy
      BY <1>4, <1>16, <2>1, <2>2 DEF Descends
    <2>. QED
      BY <1>2, <2>1, <2>2, <2>3
  <1>17. Detach(ReconcileAll(Unparked(o))) = v
    BY <1>1, <1>3, <1>5
  <1>18. Integrated(o, v)
    <2>1. \A f \in v.broken : f.source \in DOMAIN o.bodies
      BY <1>7, <1>9
    <2>2. Sound(v) /\ \A j \in DOMAIN v.bodies : Whole(v, j)
      BY <1>7
    <2>3. ASSUME NEW j \in DOMAIN v.bodies PROVE j \in DOMAIN o.bodies \/ o.next <= j
      <3>1. CASE j \in DOMAIN r.bodies
        BY <1>2, <1>4, <3>1 DEF Descends
      <3>2. CASE j \notin DOMAIN r.bodies
        <4>1. r.next <= j /\ j \in Nat
          BY <1>7, <2>3, <3>2, WorldFacts DEF Sound, Positive
        <4>. QED
          BY <1>8, <1>9, <4>1
      <3>. QED
        BY <3>1, <3>2
    <2>. QED
      BY <1>8, <1>11, <1>12, <1>13, <1>14, <1>15, <1>16, <2>1, <2>2, <2>3 DEF Integrated
  <1>. QED
    BY <1>17, <1>18

\* The pass over bodies and seeds keeps it.
LEMMA IntegrateStep ==
  ASSUME BodiesInv, Integrate
  PROVE  BodiesInv'
  <1>1. PICK o : o = World
    OBVIOUS
  <1>2. PICK v : v = Detach(ReconcileAll(Unparked(o)))
    OBVIOUS
  <1>3. /\ pc = "simulate" /\ pc' = "resolve" /\ UNCHANGED <<loaded, simulated, mobs, players, acts>>
        /\ v.next <= MaxId /\ Become(v)
    BY <1>1, <1>2 DEF Integrate
  <1>4. fractures = {} /\ Avatars \subseteq DOMAIN bodies
    BY <1>3, AvatarFacts
  <1>5. Sound(o) /\ o.bodies = bodies /\ o.next = next /\ o.broken = {}
    BY <1>1, <1>4, WorldIs DEF BodiesInv
  <1>6. /\ Sound(v) /\ (\A j \in DOMAIN v.bodies : Whole(v, j))
        /\ o.next <= v.next /\ v.next \in Nat
        /\ \A j \in DOMAIN v.bodies : j \in DOMAIN o.bodies \/ o.next <= j
        /\ \A f \in v.broken : f.source \in DOMAIN o.bodies
        /\ \A f \in v.broken : \A j \in f.parts : j < v.next /\ (j = f.source \/ o.next <= j)
        /\ \A f \in v.broken : \A j \in f.parts \cap DOMAIN v.bodies :
             v.bodies[j].policy = o.bodies[f.source].policy
        /\ \A j \in DOMAIN o.bodies : j \in DOMAIN v.bodies \/ \E f \in v.broken : f.source = j
        /\ \A j \in DOMAIN o.bodies \cap DOMAIN v.bodies :
             /\ v.bodies[j].policy = o.bodies[j].policy
             /\ Raster(v.bodies[j]) \subseteq Raster(o.bodies[j])
        /\ \A j \in DOMAIN v.bodies : v.bodies[j].policy \in Minds =>
             \/ /\ j \in DOMAIN o.bodies /\ o.bodies[j].policy \in Minds
                /\ \A f \in v.broken : f.source # j
             \/ \E f \in v.broken :
                  f.source \in DOMAIN o.bodies /\ o.bodies[f.source].policy \in Minds /\ j \in f.parts
    <2>1. Integrated(o, v)
      BY <1>2, <1>5, BodiesIntegrate
    <2>. QED
      BY <2>1 DEF Integrated
  <1>7. bodies' = v.bodies /\ next' = v.next /\ fractures' = v.broken
    BY <1>3, <1>6, NextWorld DEF Sound
  <1>8. Sound(World)' /\ Reconciled'
    BY <1>3, <1>6, SoundNext
  <1>9. /\ Avatars' = Avatars /\ Minded' = Minded
        /\ \A p \in Players : Is(p, "alive")' <=> Is(p, "alive")
    BY <1>3 DEF Avatars, Minded, Is
  <1>10. \A id \in Minded : id < next /\ id \in Nat
    <2>1. \A id \in Minded : id < next
      BY DEF BodiesInv, MindsOwn
    <2>2. \A q \in Players : Is(q, "alive") => players[q].body \in Nat
      BY LifeFacts DEF Positive
    <2>3. \A id \in mobs : id \in Nat
      BY DEF BodiesInv, Seated, Positive
    <2>. QED
      BY <2>1, <2>2, <2>3, AvatarsAre DEF Minded
  <1>11. next \in Nat /\ \A j \in DOMAIN bodies : j < next /\ j \in Nat
    BY StateFacts DEF BodiesInv
  <1>12. MindsOwn'
    <2>1. AvatarsHaveBodies'
      <3>1. Avatars' \subseteq DOMAIN bodies' \cup {f.source : f \in fractures'}
        BY <1>4, <1>5, <1>6, <1>7, <1>9
      <3>2. AvatarsHaveBodies
        BY DEF BodiesInv, MindsOwn
      <3>. QED
        BY <1>3, <1>9, <3>1, <3>2 DEF AvatarsHaveBodies
    <2>2. \A id \in Minded' : id < next'
      BY <1>5, <1>6, <1>7, <1>9, <1>10, <1>11
    <2>3. ASSUME NEW id \in Avatars' \cap DOMAIN bodies'
          PROVE  bodies'[id].policy \in Minds /\ Small(Raster(bodies'[id]))
      <3>1. id \in DOMAIN bodies /\ bodies[id].policy \in Minds /\ Small(Raster(bodies[id]))
        BY <1>4, <1>9, <2>3 DEF BodiesInv, MindsOwn
      <3>2. bodies'[id].policy = bodies[id].policy /\ Raster(bodies'[id]) \subseteq Raster(bodies[id])
        BY <1>5, <1>6, <1>7, <2>3, <3>1
      <3>. QED
        BY <3>1, <3>2 DEF Small
    <2>. QED
      BY <2>1, <2>2, <2>3 DEF MindsOwn
  <1>13. Broken'
    <2>1. ASSUME NEW f \in fractures'
          PROVE  /\ f.source < next'
                 /\ \A j \in f.parts : j < next' /\ (j = f.source \/ j \notin Minded')
      <3>1. f.source < next /\ f.source \in Nat
        BY <1>5, <1>6, <1>7, <1>11, <2>1
      <3>2. f.parts \in SUBSET Positive
        <4>1. v.broken \in SUBSET Breaks
          BY <1>6, WorldFacts DEF Sound
        <4>. QED
          BY <1>7, <2>1, <4>1 DEF Breaks
      <3>3. ASSUME NEW j \in f.parts PROVE j < next' /\ (j = f.source \/ j \notin Minded')
        <4>1. j < v.next /\ (j = f.source \/ next <= j) /\ j \in Nat
          BY <1>5, <1>6, <1>7, <2>1, <3>2, <3>3 DEF Positive
        <4>. QED
          BY <1>7, <1>9, <1>10, <1>11, <4>1
      <3>. QED
        BY <1>5, <1>6, <1>7, <1>11, <3>1, <3>3
    <2>. QED
      BY <1>3, <2>1 DEF Broken
  <1>14. Kept'
    <2>1. ASSUME NEW j \in DOMAIN bodies', bodies'[j].policy \in Minds
          PROVE  \/ j \in Minded' \ Sources'
                 \/ \E f \in fractures' : f.source \in Minded' /\ j \in f.parts
      <3>1. \/ /\ j \in DOMAIN bodies /\ bodies[j].policy \in Minds
               /\ \A f \in fractures' : f.source # j
            \/ \E f \in fractures' :
                 f.source \in DOMAIN bodies /\ bodies[f.source].policy \in Minds /\ j \in f.parts
        BY <1>5, <1>6, <1>7, <2>1
      <3>2. \A i \in DOMAIN bodies : bodies[i].policy \in Minds => i \in Minded
        BY <1>3 DEF BodiesInv, Kept
      <3>. QED
        BY <1>9, <3>1, <3>2 DEF Sources
    <2>. QED
      BY <1>3, <2>1 DEF Kept
  <1>15. Seated'
    BY <1>3, <1>7 DEF BodiesInv, Seated
  <1>. QED
    BY <1>8, <1>12, <1>13, <1>14, <1>15 DEF BodiesInv
-----------------------------------------------------------------------------
(* Every step keeps the invariant, and the invariant says what the runs    *)
(* check.                                                                  *)

LEMMA StutterHolds ==
  ASSUME BodiesInv, UNCHANGED vars
  PROVE  BodiesInv'
  <1>1. /\ UNCHANGED <<pc, loaded, simulated, mat, owner, bodies, mobs, players, next, seeds,
                       parkedSeeds, fractures, acts>>
    BY DEF vars, terrainVars
  <1>2. World' = World
    BY <1>1 DEF World
  <1>3. Sound(World)'
    BY <1>1, <1>2 DEF BodiesInv, Sound, Claimed, Numbered, Resident, Loaded
  <1>4. Reconciled'
    BY <1>1, <1>2 DEF BodiesInv, Reconciled, Whole
  <1>5. /\ Avatars' = Avatars /\ Minded' = Minded /\ Sources' = Sources
        /\ \A p \in Players : Is(p, "alive")' <=> Is(p, "alive")
    BY <1>1 DEF Avatars, Minded, Sources, Is
  <1>6. MindsOwn'
    BY <1>1, <1>5 DEF BodiesInv, MindsOwn, AvatarsHaveBodies
  <1>7. Broken' /\ Kept'
    BY <1>1, <1>5 DEF BodiesInv, Broken, Kept
  <1>8. Seated'
    BY <1>1 DEF BodiesInv, Seated
  <1>. QED
    BY <1>3, <1>4, <1>6, <1>7, <1>8 DEF BodiesInv

\* Every step keeps the invariant.
LEMMA NextHolds ==
  ASSUME BodiesInv, [Next]_vars
  PROVE  BodiesInv'
  <1>1. CASE \E p \in Players, at \in Spawns : Join(p, at)
    BY <1>1, JoinStep
  <1>2. CASE \E p \in Players, at \in Spawns : Revive(p, at)
    BY <1>2, ReviveStep
  <1>3. CASE \E p \in Players, at \in Spawns : Materialize(p, at)
    BY <1>3, MaterializeStep
  <1>4. CASE \E p \in Players : Leave(p)
    BY <1>4, LeaveStep
  <1>5. CASE \E p \in Players : KillPlayer(p)
    BY <1>5, KillPlayerStep
  <1>6. CASE \E p \in Players, species \in Species : Summon(p, species)
    BY <1>6, SummonStep
  <1>7. CASE \E p \in Hands : Dig(p)
    BY <1>7, DigStep
  <1>8. CASE \E p \in Hands, m \in Blocks : Place(p, m)
    BY <1>8, PlaceStep
  <1>9. CASE ManageRegions
    BY <1>9, ManageRegionsStep
  <1>10. CASE \E p \in Hands : \E m \in Becomes(mat[p]) : Transform(p, m)
    BY <1>10, TransformStep
  <1>11. CASE Integrate
    BY <1>11, IntegrateStep
  <1>12. CASE Resolve
    BY <1>12, ResolveStep
  <1>13. CASE \E p \in Players : \E S : Reshape(p, S)
    BY <1>13, ReshapeStep
  <1>14. CASE Drive
    BY <1>14, DriveStep
  <1>15. CASE \E id \in DOMAIN bodies, d \in Cardinals : Slide(id, d)
    BY <1>15, SlideStep
  <1>16. CASE \E S \in SUBSET DOMAIN bodies : SettleBodies(S)
    BY <1>16, SettleStep
  <1>17. CASE \E id \in mobs : KillMob(id)
    BY <1>17, KillMobStep
  <1>18. CASE EndTick
    BY <1>18, EndTickStep
  <1>19. CASE UNCHANGED vars
    BY <1>19, StutterHolds
  <1>20. (\E p \in Players : Is(p, "alive")
            /\ \E pose \in {Stand, Duck} :
                 Reshape(p, At(MinCorner(Raster(bodies[players[p].body])), pose)))
         => \E p \in Players : \E S : Reshape(p, S)
    OBVIOUS
  <1>. QED
    BY <1>1, <1>2, <1>3, <1>4, <1>5, <1>6, <1>7, <1>8, <1>9, <1>10, <1>11, <1>12, <1>13, <1>14,
       <1>15, <1>16, <1>17, <1>18, <1>19, <1>20 DEF Next

\* The invariant has the types.
LEMMA TypesFollow ==
  ASSUME BodiesInv
  PROVE  TypeOK
  <1>1. next \in Positive /\ next <= MaxId /\ MaxId \in Nat
    BY StateFacts, SizeAssumption DEF BodiesInv, Seated
  <1>2. \A j \in Positive : j < next => j \in Ids
    BY <1>1 DEF Ids, Positive
  <1>3. DOMAIN bodies \subseteq Ids
    BY <1>2, StateFacts DEF BodiesInv
  <1>4. mobs \subseteq Ids
    BY <1>2 DEF BodiesInv, MindsOwn, Minded, Seated
  <1>5. owner \in [Cells -> 0..MaxId]
    <2>1. ASSUME NEW p \in Cells PROVE owner[p] \in 0..MaxId
      <3>1. CASE owner[p] = 0
        BY <1>1, <3>1
      <3>2. CASE owner[p] # 0
        <4>1. owner[p] \in DOMAIN bodies
          BY <3>2, WorldIs DEF BodiesInv, Sound, Claimed
        <4>. QED
          BY <1>1, <1>3, <4>1 DEF Ids
      <3>. QED
        BY <3>1, <3>2
    <2>2. owner \in [Cells -> Nat]
      BY StateFacts DEF BodiesInv
    <2>. QED
      BY <2>1, <2>2
  <1>6. ASSUME NEW id \in DOMAIN bodies
        PROVE  LET S == Raster(bodies[id])
               IN  /\ S \in (SUBSET Cells) \ {{}}
                   /\ bodies[id] \in [slots : [S -> {m \in Materials : Bondable(m)}],
                                      policy : Policies, parked : BOOLEAN]
    <2>1. PICK b : b = bodies[id]
      OBVIOUS
    <2>2. b \in BodyTypes
      BY <2>1, StateFacts DEF BodiesInv
    <2>3. /\ b.slots \in [Raster(b) -> Bonded] /\ b.policy \in Policies /\ b.parked \in BOOLEAN
          /\ Raster(b) \subseteq Cells /\ Raster(b) # {}
          /\ b = [slots |-> b.slots, policy |-> b.policy, parked |-> b.parked]
      BY <2>2, BodyFacts
    <2>4. b \in [slots : [Raster(b) -> Bonded], policy : Policies, parked : BOOLEAN]
      BY <2>3
    <2>. QED
      BY <2>1, <2>3, <2>4 DEF Bonded
  <1>7. seeds \subseteq Int \X Int /\ parkedSeeds \subseteq (Int \X Int) \X (Int \X Int)
    BY WorldIs, WorldFacts DEF BodiesInv, Sound, FiniteIn, Plane
  <1>8. fractures \subseteq [source : Ids, at : Cells, parts : SUBSET Ids]
    <2>1. ASSUME NEW f \in fractures
          PROVE  f \in [source : Ids, at : Cells, parts : SUBSET Ids]
      <3>1. f \in Breaks
        BY StateFacts DEF BodiesInv
      <3>2. f.source < next /\ \A j \in f.parts : j < next
        BY DEF BodiesInv, Broken
      <3>. QED
        BY <1>2, <3>1, <3>2 DEF Breaks
    <2>. QED
      BY <2>1
  <1>9. next \in Ids
    BY <1>1 DEF Ids, Positive
  <1>10. mat \in [Cells -> Materials]
    BY StateFacts DEF BodiesInv
  <1>. QED
    BY <1>3, <1>4, <1>5, <1>6, <1>7, <1>8, <1>9, <1>10 DEF TypeOK, BodiesInv, Seated, Plane

\* The invariant says what the theorems say.
LEMMA InvariantSays ==
  ASSUME BodiesInv
  PROVE  StampsMatchBodies /\ RastersAreLoaded /\ MindsMatchBodies
  <1>1. StampsAreClaimed
    BY WorldIs DEF BodiesInv, Sound, Claimed, StampsAreClaimed
  <1>2. ReconciledBodiesOwnTheirCells
    BY WorldIs DEF BodiesInv, Reconciled, Whole, ReconciledBodiesOwnTheirCells
  <1>3. RastersAreLoaded
    BY StateFacts DEF BodiesInv, RastersAreLoaded
  <1>4. MindsMatchBodies
    <2>1. \A id \in DOMAIN bodies : ~Turns(bodies[id]) => bodies[id].policy \in Minds
      BY StateFacts, BodyFacts, PolicyFacts DEF BodiesInv
    <2>. QED
      BY <2>1 DEF BodiesInv, MindsOwn, Kept, MindsMatchBodies, NoBodyIsAbandoned
  <1>. QED
    BY <1>1, <1>2, <1>3, <1>4, TypesFollow DEF StampsMatchBodies

\* The inductive invariant holds in every state: beside the stamps and the
\* minds, ids are handed out once, avatars are no larger than what is simulated
\* around them, and a broken mind has only its own parts to bury.
THEOREM BodiesInvHolds == Spec => []BodiesInv
  <1>1. Init => BodiesInv
    BY InitHolds
  <1>2. BodiesInv /\ [Next]_vars => BodiesInv'
    BY NextHolds
  <1>. QED
    BY <1>1, <1>2, PTL DEF Spec

\* Every value has its type; no cell, loaded or stored, bears the stamp of a
\* body that does not claim it; and from the physics to the end of the tick
\* every body owns all of its cells, as it remembers them (Bodies::reconcile,
\* spawn, despawn, settle_body, split).
THEOREM StampsAndRastersAgree == Spec => []StampsMatchBodies
  <1>1. BodiesInv => StampsMatchBodies
    BY InvariantSays
  <1>. QED
    BY <1>1, BodiesInvHolds, PTL

\* A body lies in loaded regions, whichever come in and expire under it
\* (manage_regions, despawn_crossing, settle_crossing).
THEOREM BodiesLieInWhatIsLoaded == Spec => []RastersAreLoaded
  <1>1. BodiesInv => RastersAreLoaded
    BY InvariantSays
  <1>. QED
    BY <1>1, BodiesInvHolds, PTL

\* The avatar of a player who is alive has a body, but for the moment between
\* the physics and the deaths that follow from it, no two minds share one, and
\* a body that is kept from settling has a mind that can end it
\* (Player::view_anchor, Mobs::kill, Bodies::die).
THEOREM MindsAndBodiesAgree == Spec => []MindsMatchBodies
  <1>1. BodiesInv => MindsMatchBodies
    BY InvariantSays
  <1>. QED
    BY <1>1, BodiesInvHolds, PTL
-----------------------------------------------------------------------------
(* What spreads from a cell.                                               *)

\* A component of neighbours is in one piece, and no other meets it.
LEMMA ComponentFacts ==
  ASSUME NEW D, NEW t \in [D -> SUBSET D], NEW S, Component(S, D, t)
  PROVE  /\ (\A q \in D : t[q] \subseteq Beside(q)) => Joined(S)
         /\ \A R : Component(R, D, t) /\ R \cap S # {} => R = S
  <1>1. S \in SUBSET D /\ Shut(S, t)
        /\ \A X \in SUBSET D : Shut(X, t) /\ X \cap S # {} => S \subseteq X
    BY DEF Component
  <1>2. ASSUME \A q \in D : t[q] \subseteq Beside(q), NEW X \in SUBSET S, X # {},
               \A x \in X, y \in S \ X : y \notin Beside(x)
        PROVE  X = S
    <2>1. Shut(X, t)
      BY <1>1, <1>2 DEF Shut
    <2>2. X \in SUBSET D /\ X \cap S # {}
      BY <1>1, <1>2
    <2>. QED
      BY <1>1, <2>1, <2>2
  <1>3. ASSUME NEW R, Component(R, D, t), R \cap S # {} PROVE R = S
    BY <1>3 DEF Component
  <1>. QED
    BY <1>2, <1>3 DEF Joined

\* Cells of a body that bond, and cells of the terrain that do.
PartTouch(slots) ==
  [q \in DOMAIN slots |-> {r \in Beside(q) \cap DOMAIN slots : Bonds(slots[q], slots[r])}]
Ground(w) == {q \in Cells : Rigid(w, q)}
GroundTouch(w) ==
  [q \in Ground(w) |-> {r \in Beside(q) : Rigid(w, r) /\ Bonds(w.mat[q], w.mat[r])}]

\* Neighbours are neighbours of each other.
LEMMA BesideIsMutual ==
  ASSUME NEW p \in Plane
  PROVE  /\ Beside(p) \subseteq Plane
         /\ \A q \in Beside(p) : p \in Beside(q)
  <1>1. p[1] \in Int /\ p[2] \in Int /\ p = <<p[1], p[2]>>
    BY PointsArePairs
  <1>2. ASSUME NEW q \in Beside(p) PROVE q \in Plane /\ p \in Beside(q)
    <2>1. PICK o \in Cardinals : q = <<p[1] + o[1], p[2] + o[2]>>
      BY DEF Beside, At, Shift
    <2> DEFINE n == <<-o[1], -o[2]>>
    <2>2. o[1] \in Int /\ o[2] \in Int /\ n \in Cardinals
      BY DEF Cardinals
    <2>3. n[1] = -o[1] /\ n[2] = -o[2]
      OBVIOUS
    <2>4. q[1] = p[1] + o[1] /\ q[2] = p[2] + o[2] /\ q \in Plane
      BY <1>1, <2>1, <2>2 DEF Plane
    <2>5. (p[1] + o[1]) + (-o[1]) = p[1] /\ (p[2] + o[2]) + (-o[2]) = p[2]
      BY <1>1, <2>2
    <2>6. Shift(q, n) = p
      BY <1>1, <2>3, <2>4, <2>5 DEF Shift
    <2> HIDE DEF n
    <2>7. p \in Beside(q)
      BY <2>2, <2>6 DEF Beside, At
    <2>. QED
      BY <2>4, <2>7
  <1>. QED
    BY <1>2

\* A part is what is reached within as many rounds as there are cells.
LEMMA PartRounds ==
  ASSUME NEW slots \in Shapes, NEW p \in DOMAIN slots
  PROVE  \E g : /\ Reaches(g, Cardinality(DOMAIN slots), p, PartTouch(slots))
                /\ PartOf(slots, p) = g[Cardinality(DOMAIN slots)]
  <1> DEFINE D == DOMAIN slots  N == Cardinality(D)  t == PartTouch(slots)
             touch(q) == {r \in Beside(q) \cap D : Bonds(slots[q], slots[r])}
             Follows(g) ==
               g = [k \in 0..N |-> IF k = 0 THEN {p} ELSE g[k - 1] \cup UNION {touch(q) : q \in g[k - 1]}]
             Sets == (SUBSET D) \ {{}}
             step == [k \in 1..N |-> [X \in Sets |-> X \cup UNION {touch(q) : q \in X}]]
             after == CHOOSE g : Follows(g)
  <1>1. D \in Rasters /\ D \in SUBSET Cells
    BY ShapeFacts DEF Rasters
  <1>2. N \in Nat
    BY <1>1, CellsAreFinite, FS_CardinalityType
  <1>3. PartOf(slots, p) = after[N]
    BY DEF PartOf, Spread
  <1> HIDE DEF N, t
  <1>4. \A q : touch(q) \in SUBSET D
    OBVIOUS
  <1> HIDE DEF touch
  <1>5. step \in [1..N -> [Sets -> Sets]]
    <2>1. \A X \in Sets : X \cup UNION {touch(q) : q \in X} \in Sets
      BY <1>4
    <2> HIDE DEF Sets
    <2>. QED
      BY <2>1
  <1>6. {p} \in Sets
    OBVIOUS
  <1>7. PICK s \in [0..N -> Sets] : Runs(s, N, {p}, step)
    <2> HIDE DEF step, Sets
    <2>. QED
      BY <1>2, <1>5, <1>6, BoundedFunctionExists
  <1> HIDE DEF Sets
  <1>8. Follows(s)
    <2>1. ASSUME NEW k \in 0..N
          PROVE  s[k] = IF k = 0 THEN {p} ELSE s[k - 1] \cup UNION {touch(q) : q \in s[k - 1]}
      <3>1. CASE k = 0
        BY <1>7, <3>1 DEF Runs
      <3>2. CASE k # 0
        <4>1. k \in 1..N /\ k - 1 \in 0..N
          BY <1>2, <3>2
        <4>2. s[k] = step[k][s[k - 1]] /\ s[k - 1] \in Sets
          BY <1>7, <4>1 DEF Runs
        <4>. QED
          BY <3>2, <4>1, <4>2
      <3>. QED
        BY <3>1, <3>2
    <2>. QED
      BY <2>1
  <1>9. Follows(after)
    BY <1>8
  <1>10. after[0] = {p}
         /\ \A k \in 1..N : after[k] = after[k - 1] \cup UNION {touch(q) : q \in after[k - 1]}
    <2>1. \A k \in 0..N :
            after[k] = IF k = 0 THEN {p} ELSE after[k - 1] \cup UNION {touch(q) : q \in after[k - 1]}
      BY <1>9
    <2> HIDE DEF after, touch
    <2>2. \A k \in 1..N : k \in 0..N /\ k # 0
      BY <1>2
    <2>3. 0 \in 0..N
      BY <1>2
    <2>. QED
      BY <2>1, <2>2, <2>3, Zenon
  <1> HIDE DEF after, Follows, touch
  <1>11. \A k \in 0..N : after[k] \in SUBSET D
    <2>1. after[0] \in SUBSET D
      BY <1>10
    <2>2. ASSUME NEW k \in 1..N, after[k - 1] \in SUBSET D PROVE after[k] \in SUBSET D
      <3>1. UNION {touch(q) : q \in after[k - 1]} \subseteq D
        BY <1>4
      <3>. QED
        BY <1>10, <2>2, <3>1
    <2> HIDE DEF D
    <2>. QED
      BY <1>2, <2>1, <2>2, ValuesStay
  <1>12. ASSUME NEW k \in 1..N
         PROVE  after[k] = after[k - 1] \cup UNION {t[q] : q \in after[k - 1]}
    <2>1. after[k - 1] \in SUBSET D
      BY <1>2, <1>11
    <2>2. \A q \in after[k - 1] : touch(q) = t[q]
      BY <2>1 DEF touch, PartTouch, t
    <2>3. {touch(q) : q \in after[k - 1]} = {t[q] : q \in after[k - 1]}
      BY <2>2
    <2>. QED
      BY <1>10, <2>3
  <1>13. Reaches(after, N, p, t)
    BY <1>10, <1>12 DEF Reaches
  <1>. QED
    BY <1>3, <1>13 DEF N, t

\* An island is what is reached within one round less than it may have cells.
LEMMA IslandRounds ==
  ASSUME NEW w \in Worlds, NEW p, Rigid(w, p)
  PROVE  \E g : /\ Reaches(g, MaxIsland, p, GroundTouch(w))
                /\ Island(w, p) = g[MaxIsland]
  <1> DEFINE D == {q \in Cells : Rigid(w, q)}  N == MaxIsland  t == GroundTouch(w)
             touch(q) == {r \in Beside(q) : Rigid(w, r) /\ Bonds(w.mat[q], w.mat[r])}
             Follows(g) ==
               g = [k \in 0..N |-> IF k = 0 THEN {p} ELSE g[k - 1] \cup UNION {touch(q) : q \in g[k - 1]}]
             Sets == (SUBSET D) \ {{}}
             step == [k \in 1..N |-> [X \in Sets |-> X \cup UNION {touch(q) : q \in X}]]
             after == CHOOSE g : Follows(g)
  <1>1. \A q : Rigid(w, q) => q \in D
    BY DEF Rigid, Loaded
  <1>2. N \in Nat
    BY SizeAssumption
  <1>3. Island(w, p) = after[N]
    BY DEF Island, Spread
  <1> HIDE DEF N, t
  <1>4. \A q : touch(q) \in SUBSET D
    BY <1>1
  <1> HIDE DEF touch
  <1>5. step \in [1..N -> [Sets -> Sets]]
    <2>1. \A X \in Sets : X \cup UNION {touch(q) : q \in X} \in Sets
      BY <1>4
    <2> HIDE DEF Sets
    <2>. QED
      BY <2>1
  <1>6. {p} \in Sets
    BY <1>1
  <1>7. PICK s \in [0..N -> Sets] : Runs(s, N, {p}, step)
    <2> HIDE DEF step, Sets
    <2>. QED
      BY <1>2, <1>5, <1>6, BoundedFunctionExists
  <1> HIDE DEF Sets
  <1>8. Follows(s)
    <2>1. ASSUME NEW k \in 0..N
          PROVE  s[k] = IF k = 0 THEN {p} ELSE s[k - 1] \cup UNION {touch(q) : q \in s[k - 1]}
      <3>1. CASE k = 0
        BY <1>7, <3>1 DEF Runs
      <3>2. CASE k # 0
        <4>1. k \in 1..N /\ k - 1 \in 0..N
          BY <1>2, <3>2
        <4>2. s[k] = step[k][s[k - 1]] /\ s[k - 1] \in Sets
          BY <1>7, <4>1 DEF Runs
        <4>. QED
          BY <3>2, <4>1, <4>2
      <3>. QED
        BY <3>1, <3>2
    <2>. QED
      BY <2>1
  <1>9. Follows(after)
    BY <1>8
  <1>10. after[0] = {p}
         /\ \A k \in 1..N : after[k] = after[k - 1] \cup UNION {touch(q) : q \in after[k - 1]}
    <2>1. \A k \in 0..N :
            after[k] = IF k = 0 THEN {p} ELSE after[k - 1] \cup UNION {touch(q) : q \in after[k - 1]}
      BY <1>9
    <2> HIDE DEF after, touch
    <2>2. \A k \in 1..N : k \in 0..N /\ k # 0
      BY <1>2
    <2>3. 0 \in 0..N
      BY <1>2
    <2>. QED
      BY <2>1, <2>2, <2>3, Zenon
  <1> HIDE DEF after, Follows, touch
  <1>11. \A k \in 0..N : after[k] \in SUBSET D
    <2>1. after[0] \in SUBSET D
      BY <1>1, <1>10
    <2>2. ASSUME NEW k \in 1..N, after[k - 1] \in SUBSET D PROVE after[k] \in SUBSET D
      <3>1. UNION {touch(q) : q \in after[k - 1]} \subseteq D
        BY <1>4
      <3>. QED
        BY <1>10, <2>2, <3>1
    <2> HIDE DEF D
    <2>. QED
      BY <1>2, <2>1, <2>2, ValuesStay
  <1>12. ASSUME NEW k \in 1..N
         PROVE  after[k] = after[k - 1] \cup UNION {t[q] : q \in after[k - 1]}
    <2>1. after[k - 1] \in SUBSET D
      BY <1>2, <1>11
    <2>2. \A q \in after[k - 1] : touch(q) = t[q]
      BY <2>1 DEF touch, GroundTouch, Ground, D, t
    <2>3. {touch(q) : q \in after[k - 1]} = {t[q] : q \in after[k - 1]}
      BY <2>2
    <2>. QED
      BY <1>10, <2>3
  <1>13. Reaches(after, N, p, t)
    BY <1>10, <1>12 DEF Reaches
  <1>. QED
    BY <1>3, <1>13 DEF N, t

\* Parts of the same shape are components.
LEMMA PartIsComponent ==
  ASSUME NEW slots \in Shapes, NEW p \in DOMAIN slots
  PROVE  /\ Component(PartOf(slots, p), DOMAIN slots, PartTouch(slots))
         /\ p \in PartOf(slots, p) /\ Joined(PartOf(slots, p))
         /\ \A q \in PartOf(slots, p) : slots[q] = slots[p]
  <1> DEFINE D == DOMAIN slots  t == PartTouch(slots)  S == PartOf(slots, p)
             N == Cardinality(D)
  <1>1. D \in SUBSET Cells /\ IsFiniteSet(D) /\ N \in Nat /\ D \subseteq Plane
    BY ShapeFacts, CellsAreFinite, CellsInPlane, FS_CardinalityType DEF Rasters
  <1>2. t \in [D -> SUBSET D]
    BY DEF PartTouch
  <1>3. \A q, r \in D : r \in t[q] <=> r \in Beside(q) /\ slots[q] = slots[r] /\ Bondable(slots[q])
    BY DEF PartTouch, Bonds
  <1>4. PICK g : Reaches(g, N, p, t) /\ S = g[N]
    BY PartRounds
  <1> HIDE DEF D, t, N, S
  <1>5. /\ S \in SUBSET D /\ p \in S
        /\ \A X \in SUBSET D : p \in X /\ Shut(X, t) => S \subseteq X
        /\ Cardinality(S) <= N => Shut(S, t)
    BY <1>1, <1>2, <1>4, ReachFacts DEF D
  <1>6. Shut(S, t)
    <2>1. Cardinality(S) <= N
      BY <1>1, <1>5, FS_Subset DEF N
    <2>. QED
      BY <1>5, <2>1
  <1>7. \A q, r \in D : r \in t[q] => q \in t[r]
    BY <1>1, <1>3, BesideIsMutual
  <1>8. Component(S, D, t)
    BY <1>2, <1>5, <1>6, <1>7, ReachedComponent DEF D
  <1>9. \A q \in D : t[q] \subseteq Beside(q)
    BY <1>2, <1>3
  <1>10. Joined(S)
    BY <1>2, <1>8, <1>9, ComponentFacts
  <1> DEFINE X == {q \in D : slots[q] = slots[p]}
  <1>11. S \subseteq X
    <2>1. p \in X /\ X \in SUBSET D
      BY DEF D
    <2>2. Shut(X, t)
      BY <1>2, <1>3 DEF Shut
    <2> HIDE DEF X
    <2>. QED
      BY <1>5, <2>1, <2>2
  <1>. QED
    BY <1>5, <1>8, <1>10, <1>11 DEF D, t, S

\* What touches in the terrain.
LEMMA GroundFacts ==
  ASSUME NEW w \in Worlds
  PROVE  /\ Ground(w) \in SUBSET Cells /\ IsFiniteSet(Ground(w))
         /\ \A q : Rigid(w, q) <=> q \in Ground(w)
         /\ GroundTouch(w) \in [Ground(w) -> SUBSET Ground(w)]
         /\ \A q, r \in Ground(w) :
              r \in GroundTouch(w)[q] <=> r \in Beside(q) /\ w.mat[q] = w.mat[r]
         /\ \A q, r \in Ground(w) : r \in GroundTouch(w)[q] => q \in GroundTouch(w)[r]
         /\ \A q \in Ground(w) : GroundTouch(w)[q] \subseteq Beside(q)
  <1> DEFINE D == Ground(w)  t == GroundTouch(w)
  <1>1. D \in SUBSET Cells /\ IsFiniteSet(D) /\ D \subseteq Plane
    BY CellsAreFinite, CellsInPlane DEF Ground
  <1>2. \A q : Rigid(w, q) <=> q \in D
    BY DEF Ground, Rigid, Loaded
  <1>3. \A q \in D : Bondable(w.mat[q])
    BY DEF Ground, Rigid
  <1>4. t = [q \in D |-> {r \in Beside(q) : Rigid(w, r) /\ Bonds(w.mat[q], w.mat[r])}]
    BY DEF GroundTouch
  <1> HIDE DEF D, t
  <1>5. t \in [D -> SUBSET D] /\ \A q \in D : t[q] \subseteq Beside(q)
    BY <1>2, <1>4
  <1>6. \A q, r \in D : r \in t[q] <=> r \in Beside(q) /\ w.mat[q] = w.mat[r]
    BY <1>2, <1>3, <1>4 DEF Bonds
  <1>7. \A q, r \in D : r \in t[q] => q \in t[r]
    BY <1>1, <1>6, BesideIsMutual
  <1>. QED
    BY <1>1, <1>2, <1>5, <1>6, <1>7 DEF D, t

\* An island is of one material and part of whatever holds its start and is
\* closed; one that is small enough is a component of the terrain.
LEMMA IslandIsComponent ==
  ASSUME NEW w \in Worlds, NEW p, Rigid(w, p)
  PROVE  /\ Island(w, p) \in SUBSET Ground(w) /\ p \in Island(w, p)
         /\ \A X \in SUBSET Ground(w) :
              p \in X /\ Shut(X, GroundTouch(w)) => Island(w, p) \subseteq X
         /\ \A q \in Island(w, p) : w.mat[q] = w.mat[p]
         /\ Cardinality(Island(w, p)) <= MaxIsland =>
              Component(Island(w, p), Ground(w), GroundTouch(w)) /\ Joined(Island(w, p))
  <1> DEFINE D == Ground(w)  t == GroundTouch(w)  S == Island(w, p)  N == MaxIsland
  <1>1. D \in SUBSET Cells /\ IsFiniteSet(D) /\ N \in Nat /\ p \in D
    BY GroundFacts, SizeAssumption
  <1>2. /\ t \in [D -> SUBSET D]
        /\ \A q, r \in D : r \in t[q] <=> r \in Beside(q) /\ w.mat[q] = w.mat[r]
        /\ \A q, r \in D : r \in t[q] => q \in t[r]
        /\ \A q \in D : t[q] \subseteq Beside(q)
    BY GroundFacts
  <1>4. PICK g : Reaches(g, N, p, t) /\ S = g[N]
    BY IslandRounds
  <1> HIDE DEF D, t, N, S
  <1>5. /\ S \in SUBSET D /\ p \in S
        /\ \A X \in SUBSET D : p \in X /\ Shut(X, t) => S \subseteq X
        /\ Cardinality(S) <= N => Shut(S, t)
    BY <1>1, <1>2, <1>4, ReachFacts
  <1>8. ASSUME Cardinality(S) <= N PROVE Component(S, D, t) /\ Joined(S)
    <2>1. Component(S, D, t)
      BY <1>1, <1>2, <1>5, <1>8, ReachedComponent
    <2>. QED
      BY <1>2, <2>1, ComponentFacts
  <1> DEFINE X == {q \in D : w.mat[q] = w.mat[p]}
  <1>11. S \subseteq X
    <2>1. p \in X /\ X \in SUBSET D
      BY <1>1
    <2>2. Shut(X, t)
      BY <1>2 DEF Shut
    <2> HIDE DEF X
    <2>. QED
      BY <1>5, <2>1, <2>2
  <1>. QED
    BY <1>5, <1>8, <1>11 DEF D, t, S, N
-----------------------------------------------------------------------------
(* Terrain that hangs, and what will lead to it.                           *)

Near(T) == T \cup UNION {Beside(p) : p \in T}

\* q does not tie terrain of m down, and will not when a body settles that q
\* belongs to: what settles is of one material.
Slack(w, m, q) ==
  \/ w.mat[q] = "air"
  \/ w.owner[q] # 0 /\ (w.mat[q] = m \/ w.bodies[w.owner[q]].policy # "DEBRIS")

Adrift(w, m, T) ==
  /\ T \in Rasters /\ Joined(T) /\ m \in Bonded /\ Cardinality(T) <= MaxIsland /\ Compact(T)
  /\ \A p \in T : Beside(p) \subseteq Cells /\ w.owner[p] = 0 /\ w.mat[p] = m
  /\ \A q \in Near(T) \ T : Slack(w, m, q)

\* A seed leads to T, now or once a chunk around T is simulated.
Seeded(w, T) == Near(T) \cap w.seeds # {}
Awaited(w, T, L, C) ==
  \E e \in w.parked : /\ e[2] \in Near(T) /\ e[1] \in Around(T)
                      /\ RegionOf(e[1]) \notin L \/ e[1] \notin C
Heeded(w, T, L, C) == Seeded(w, T) \/ Awaited(w, T, L, C)

Within(T, L) == \A p \in T : Home(p) \in L
Watched(w, L, C) ==
  \A m \in Bonded, T \in Rasters : Adrift(w, m, T) /\ Within(T, L) => Heeded(w, T, L, C)

\* The neighbours of what hangs are cells.
LEMMA NearFacts ==
  ASSUME NEW T \in Rasters, \A p \in T : Beside(p) \subseteq Cells
  PROVE  /\ T \subseteq Near(T) /\ Near(T) \subseteq Cells
         /\ \A q \in Near(T) \ T : \E p \in T : q \in Beside(p) /\ p \in Beside(q)
         /\ \A p \in T : Beside(p) \subseteq Near(T)
  <1>1. T \subseteq Cells /\ Cells \subseteq Plane
    BY CellsInPlane DEF Rasters
  <1>2. \A q \in Near(T) \ T : \E p \in T : q \in Beside(p)
    BY DEF Near
  <1>. QED
    BY <1>1, <1>2, BesideIsMutual DEF Near

\* What hangs is closed in the terrain.
LEMMA AdriftIsShut ==
  ASSUME NEW w \in Worlds, NEW m, NEW T, Adrift(w, m, T), Within(T, loaded)
  PROVE  T \in SUBSET Ground(w) /\ Shut(T, GroundTouch(w))
  <1>1. /\ T \in Rasters /\ m \in Bonded
        /\ \A p \in T : Beside(p) \subseteq Cells /\ w.owner[p] = 0 /\ w.mat[p] = m
        /\ \A q \in Near(T) \ T : Slack(w, m, q)
    BY DEF Adrift
  <1>2. T \subseteq Near(T) /\ \A p \in T : Beside(p) \subseteq Near(T)
    BY <1>1, NearFacts
  <1>3. Bondable(m) /\ ~Bondable("air")
    BY <1>1 DEF Bonded, Bondable
  <1>4. T \in SUBSET Ground(w)
    BY <1>1, <1>3 DEF Ground, Rigid, Loaded, Within, Rasters
  <1>5. ASSUME NEW q \in T, NEW r \in GroundTouch(w)[q], r \notin T PROVE FALSE
    <2>1. r \in Ground(w) /\ r \in Beside(q) /\ w.mat[r] = w.mat[q]
      BY <1>4, <1>5, GroundFacts
    <2>2. w.owner[r] = 0 /\ Bondable(w.mat[r])
      BY <2>1 DEF Ground, Rigid
    <2>3. Slack(w, m, r)
      BY <1>1, <1>2, <1>5, <2>1
    <2>. QED
      BY <1>3, <2>2, <2>3 DEF Slack
  <1>. QED
    BY <1>4, <1>5 DEF Shut

\* A seed in what hangs leads to all of it.
LEMMA AdriftIsIsland ==
  ASSUME NEW w \in Worlds, NEW m, NEW T, Adrift(w, m, T), Within(T, loaded), NEW p \in T
  PROVE  Rigid(w, p) /\ Island(w, p) = T /\ Detached(w, p)
  <1>1. /\ T \in Rasters /\ m \in Bonded /\ Joined(T) /\ Cardinality(T) <= MaxIsland /\ Compact(T)
        /\ \A q \in T : Beside(q) \subseteq Cells /\ w.owner[q] = 0 /\ w.mat[q] = m
        /\ \A q \in Near(T) \ T : Slack(w, m, q)
    BY DEF Adrift
  <1>2. T \in SUBSET Ground(w) /\ Shut(T, GroundTouch(w))
    BY AdriftIsShut
  <1>3. Rigid(w, p)
    BY <1>2, GroundFacts
  <1> DEFINE S == Island(w, p)
  <1>4. S \subseteq T /\ p \in S
    BY <1>2, <1>3, IslandIsComponent
  <1>5. Cardinality(S) <= MaxIsland
    <2>1. T \subseteq Cells
      BY <1>1 DEF Rasters
    <2>2. IsFiniteSet(T) /\ Cardinality(T) \in Nat /\ MaxIsland \in Nat
      BY <2>1, CellsAreFinite, FS_CardinalityType, SizeAssumption
    <2>3. Cardinality(S) <= Cardinality(T) /\ Cardinality(S) \in Nat
      BY <1>4, <2>2, FS_Subset, FS_CardinalityType
    <2>. QED
      BY <1>1, <2>2, <2>3
  <1>6. Shut(S, GroundTouch(w))
    BY <1>3, <1>5, IslandIsComponent DEF Component
  <1> HIDE DEF S
  <1>7. S = T
    <2>1. SUFFICES ASSUME S # T PROVE FALSE
      OBVIOUS
    <2>2. PICK x \in S, y \in T \ S : y \in Beside(x)
      BY <1>1, <1>4, <2>1 DEF Joined
    <2>3. x \in Ground(w) /\ y \in Ground(w) /\ w.mat[x] = w.mat[y]
      BY <1>1, <1>2, <1>4, <2>2
    <2>4. y \in GroundTouch(w)[x]
      BY <2>2, <2>3, GroundFacts
    <2>. QED
      BY <1>6, <2>2, <2>4 DEF Shut
  <1>8. ~Supported(w, T)
    <2>1. ASSUME NEW q \in T, NEW d \in Cardinals, Shift(q, d) \notin T,
                 w.owner[Shift(q, d)] = 0,
                 Holds(w.mat[Shift(q, d)]) \/ w.mat[Shift(q, d)] = "ash"
          PROVE  FALSE
      <3>1. Shift(q, d) \in Beside(q)
        BY DEF Beside, At
      <3>2. Slack(w, m, Shift(q, d))
        BY <1>1, <2>1, <3>1, NearFacts
      <3>. QED
        BY <2>1, <3>2 DEF Slack, Holds
    <2>. QED
      BY <2>1 DEF Supported
  <1>. QED
    BY <1>1, <1>3, <1>7, <1>8 DEF S, Detached

\* A seed elsewhere leads elsewhere.
LEMMA AdriftIsApart ==
  ASSUME NEW w \in Worlds, NEW m, NEW T, Adrift(w, m, T), Within(T, loaded),
         NEW p, Rigid(w, p), p \notin T
  PROVE  Island(w, p) \cap T = {}
  <1>1. T \in SUBSET Ground(w) /\ Shut(T, GroundTouch(w))
    BY AdriftIsShut
  <1> DEFINE Y == Ground(w) \ T
  <1>2. p \in Y /\ Y \in SUBSET Ground(w)
    BY GroundFacts
  <1>3. Shut(Y, GroundTouch(w))
    BY <1>1, GroundFacts DEF Shut
  <1> HIDE DEF Y
  <1>4. Island(w, p) \subseteq Y
    BY <1>2, <1>3, IslandIsComponent
  <1>. QED
    BY <1>4 DEF Y

\* Terrain with air around is adrift.
LEMMA FloatingIsAdrift ==
  ASSUME NEW w \in Worlds, NEW p, Rigid(w, p), Cardinality(Island(w, p)) <= MaxIsland,
         Compact(Island(w, p)),
         \A q \in Near(Island(w, p)) \ Island(w, p) : Free(w, q)
  PROVE  w.mat[p] \in Bonded /\ Island(w, p) \in Rasters
         /\ Adrift(w, w.mat[p], Island(w, p)) /\ Within(Island(w, p), loaded)
  <1> DEFINE S == Island(w, p)
  <1>1. S \in SUBSET Ground(w) /\ p \in S /\ Joined(S) /\ \A q \in S : w.mat[q] = w.mat[p]
    BY IslandIsComponent
  <1>2. S \in Rasters /\ \A q \in S : Loaded(q) /\ w.owner[q] = 0 /\ w.mat[q] \in Bonded
    BY IslandFacts
  <1>3. Within(S, loaded)
    BY <1>2 DEF Within, Loaded
  <1>4. \A q \in Near(S) \ S : q \in Cells /\ w.mat[q] = "air"
    BY DEF Free, Loaded
  <1> HIDE DEF S
  <1>5. \A q \in S : Beside(q) \subseteq Cells
    <2>1. S \subseteq Cells
      BY <1>2 DEF Rasters
    <2>. QED
      BY <1>4, <2>1 DEF Near
  <1>6. Cardinality(S) <= MaxIsland /\ Compact(S)
    BY DEF S
  <1>7. Adrift(w, w.mat[p], S)
    BY <1>1, <1>2, <1>4, <1>5, <1>6 DEF Adrift, Slack
  <1>. QED
    BY <1>1, <1>2, <1>3, <1>7 DEF S
-----------------------------------------------------------------------------
(* Changes that lose nothing that hangs.                                   *)

\* Whatever hangs in v hung in w too, or a seed of v leads to it.
Stirs(w, v) ==
  /\ w.seeds \subseteq v.seeds /\ w.parked \subseteq v.parked
  /\ \A p \in Cells : p \notin v.seeds =>
       /\ v.owner[p] = 0 /\ v.mat[p] \in Bonded => w.owner[p] = 0 /\ w.mat[p] = v.mat[p]
       /\ \A m \in Bonded : Slack(v, m, p) => Slack(w, m, p)

\* Such changes keep the watch.
LEMMA StirsKeepsWatch ==
  ASSUME NEW w, NEW v, Stirs(w, v), NEW L, NEW C, Watched(w, L, C)
  PROVE  Watched(v, L, C)
  <1>1. SUFFICES ASSUME NEW m \in Bonded, NEW T \in Rasters, Adrift(v, m, T), Within(T, L)
                 PROVE  Heeded(v, T, L, C)
    BY DEF Watched
  <1>2. /\ Joined(T) /\ Cardinality(T) <= MaxIsland /\ Compact(T)
        /\ \A p \in T : Beside(p) \subseteq Cells /\ v.owner[p] = 0 /\ v.mat[p] = m
        /\ \A q \in Near(T) \ T : Slack(v, m, q)
    BY <1>1 DEF Adrift
  <1>3. T \subseteq Near(T) /\ Near(T) \subseteq Cells
    BY <1>2, NearFacts
  <1>4. CASE Near(T) \cap v.seeds # {}
    BY <1>4 DEF Heeded, Seeded
  <1>5. CASE Near(T) \cap v.seeds = {}
    <2>1. \A p \in Near(T) : p \in Cells /\ p \notin v.seeds
      BY <1>3, <1>5
    <2>2. \A p \in T : w.owner[p] = 0 /\ w.mat[p] = m
      BY <1>2, <1>3, <2>1 DEF Stirs
    <2>3. \A q \in Near(T) \ T : Slack(w, m, q)
      BY <1>2, <2>1 DEF Stirs
    <2>4. Adrift(w, m, T)
      BY <1>2, <2>2, <2>3 DEF Adrift
    <2>5. Heeded(w, T, L, C)
      BY <1>1, <2>4 DEF Watched
    <2>. QED
      BY <2>5 DEF Heeded, Seeded, Awaited, Stirs
  <1>. QED
    BY <1>4, <1>5

\* One after the other.
LEMMA StirsCompose ==
  ASSUME NEW w, NEW u, NEW v, Stirs(w, u), Stirs(u, v)
  PROVE  Stirs(w, v)
  <1>1. w.seeds \subseteq v.seeds /\ w.parked \subseteq v.parked
    BY DEF Stirs
  <1>2. ASSUME NEW p \in Cells, p \notin v.seeds
        PROVE  /\ v.owner[p] = 0 /\ v.mat[p] \in Bonded => w.owner[p] = 0 /\ w.mat[p] = v.mat[p]
               /\ \A m \in Bonded : Slack(v, m, p) => Slack(w, m, p)
    <2>1. p \notin u.seeds
      BY <1>2 DEF Stirs
    <2>. QED
      BY <1>2, <2>1 DEF Stirs
  <1>. QED
    BY <1>1, <1>2 DEF Stirs

\* A cell whose change stirs nothing: it has what it had, or it was slack and
\* is no terrain.
Keeps(w, v, p) ==
  /\ v.mat[p] = w.mat[p] /\ v.owner[p] = w.owner[p]
  /\ w.owner[p] # 0 /\ v.bodies[w.owner[p]].policy # "DEBRIS" => w.bodies[w.owner[p]].policy # "DEBRIS"
Loose(w, p) == w.mat[p] = "air" \/ (w.owner[p] # 0 /\ w.bodies[w.owner[p]].policy # "DEBRIS")
Firm(v, p) == v.owner[p] = 0 /\ v.mat[p] \notin Bonded /\ v.mat[p] # "air"

\* A change cell by cell.
LEMMA StirsWhere ==
  ASSUME NEW w, NEW v, w.seeds \subseteq v.seeds, w.parked \subseteq v.parked,
         \A p \in Cells : \/ p \in v.seeds \/ Keeps(w, v, p) \/ Firm(v, p)
                          \/ Loose(w, p) /\ (v.owner[p] # 0 \/ v.mat[p] \notin Bonded)
  PROVE  Stirs(w, v)
  BY DEF Stirs, Keeps, Loose, Firm, Slack
-----------------------------------------------------------------------------
(* The seeds that writes leave.                                            *)

\* A write seeds what it clears.
LEMMA WriteSeeds ==
  ASSUME NEW w \in Worlds, NEW S, NEW patch, DOMAIN patch = S, NEW id
  PROVE  /\ w.seeds \subseteq Write(w, patch, id).seeds
         /\ \A p \in S : w.mat[p] # "air" /\ patch[p] = "air" => p \in Write(w, patch, id).seeds
  <1> DEFINE T == {p \in DOMAIN patch : Obstructs(w.mat[p]) /\ ~Obstructs(patch[p])}
             m == [p \in Cells |-> IF p \in DOMAIN patch THEN patch[p] ELSE w.mat[p]]
             o == [p \in Cells |-> IF p \in DOMAIN patch THEN id ELSE w.owner[p]]
  <1>1. Write(w, patch, id) = [w EXCEPT !.mat = m, !.owner = o, !.seeds = w.seeds \cup T]
    BY Zenon DEF Write
  <1>2. w = [mat |-> w.mat, owner |-> w.owner, bodies |-> w.bodies, next |-> w.next,
             seeds |-> w.seeds, parked |-> w.parked, broken |-> w.broken]
    BY WorldFacts
  <1>3. \A p \in S : w.mat[p] # "air" /\ patch[p] = "air" => p \in T
    BY DEF Obstructs
  <1> HIDE DEF m, o, T
  <1>4. Write(w, patch, id).seeds = w.seeds \cup T
    BY <1>1, <1>2
  <1>. QED
    BY <1>3, <1>4

\* So does a write of air.
LEMMA PutAllSeeds ==
  ASSUME NEW w \in Worlds, NEW S, NEW m, NEW id
  PROVE  /\ w.seeds \subseteq PutAll(w, S, m, id).seeds
         /\ m = "air" => \A p \in S : w.mat[p] # "air" => p \in PutAll(w, S, m, id).seeds
  <1> DEFINE patch == [p \in S |-> m]
  <1>1. DOMAIN patch = S /\ \A p \in S : patch[p] = m
    OBVIOUS
  <1>2. PutAll(w, S, m, id) = Write(w, patch, id)
    BY DEF PutAll
  <1> HIDE DEF patch
  <1>. QED
    BY <1>1, <1>2, WriteSeeds

\* And of one cell.
LEMMA PutSeeds ==
  ASSUME NEW w \in Worlds, NEW p, NEW m, NEW id
  PROVE  /\ w.seeds \subseteq Put(w, p, m, id).seeds
         /\ m = "air" /\ w.mat[p] # "air" => p \in Put(w, p, m, id).seeds
  <1>1. PICK S : S = {p}
    OBVIOUS
  <1>2. Put(w, p, m, id) = PutAll(w, S, m, id) /\ p \in S
    BY <1>1 DEF Put
  <1>. QED
    BY <1>2, PutAllSeeds

\* A disturbance seeds the cells where a bond comes or goes.
LEMMA DisturbSeeds ==
  ASSUME NEW w \in Worlds, NEW S, NEW m
  PROVE  /\ w.seeds \subseteq Disturb(w, S, m).seeds
         /\ \A p \in S : w.mat[p] # m /\ (Bondable(w.mat[p]) \/ Bondable(m)) =>
              p \in Disturb(w, S, m).seeds
  <1> DEFINE T == {p \in S : w.mat[p] # m /\ (Bondable(w.mat[p]) \/ Bondable(m))}
  <1>1. Disturb(w, S, m) = [w EXCEPT !.seeds = w.seeds \cup T]
    BY DEF Disturb
  <1>2. w = [mat |-> w.mat, owner |-> w.owner, bodies |-> w.bodies, next |-> w.next,
             seeds |-> w.seeds, parked |-> w.parked, broken |-> w.broken]
    BY WorldFacts
  <1>3. \A p \in S : w.mat[p] # m /\ (Bondable(w.mat[p]) \/ Bondable(m)) => p \in T
    OBVIOUS
  <1> HIDE DEF T
  <1>4. Disturb(w, S, m).seeds = w.seeds \cup T
    BY <1>1, <1>2
  <1>. QED
    BY <1>3, <1>4

\* A cell that is dug, filled or burnt stirs what hangs beside it.
LEMMA CellStirs ==
  ASSUME NEW w \in Worlds, NEW p \in Cells, NEW m \in Materials, NEW id \in Nat,
         \/ w.mat[p] # "air" /\ m = "air"
         \/ w.mat[p] = "air" /\ w.owner[p] = 0
         \/ w.mat[p] # m /\ Bondable(w.mat[p])
  PROVE  LET v == Put(Disturb(w, {p}, m), p, m, id)
         IN  /\ Stirs(w, v) /\ v.bodies = w.bodies
             /\ w.seeds \subseteq v.seeds
             /\ w.mat[p] # "air" => p \in v.seeds
             /\ \A q \in Cells : q # p => v.mat[q] = w.mat[q] /\ v.owner[q] = w.owner[q]
  <1>1. PICK S : S = {p}
    OBVIOUS
  <1> DEFINE d == Disturb(w, S, m)  v == Put(d, p, m, id)
  <1>2. S \in SUBSET Cells /\ p \in S
    BY <1>1
  <1>3. d \in Worlds /\ d.bodies = w.bodies /\ d.mat = w.mat /\ d.owner = w.owner
        /\ d.parked = w.parked
    BY <1>2, DisturbFacts
  <1>4. /\ w.seeds \subseteq d.seeds
        /\ w.mat[p] # m /\ (Bondable(w.mat[p]) \/ Bondable(m)) => p \in d.seeds
    BY <1>2, DisturbSeeds
  <1> HIDE DEF d
  <1>5. /\ v.bodies = w.bodies /\ v.parked = w.parked
        /\ \A q \in Cells : /\ v.mat[q] = IF q = p THEN m ELSE w.mat[q]
                            /\ v.owner[q] = IF q = p THEN id ELSE w.owner[q]
    BY <1>3, PutFacts
  <1>6. d.seeds \subseteq v.seeds /\ (m = "air" /\ w.mat[p] # "air" => p \in v.seeds)
    BY <1>3, PutSeeds
  <1> HIDE DEF v
  <1>7. w.seeds \subseteq v.seeds
    BY <1>4, <1>6
  <1>8. w.mat[p] # "air" => p \in v.seeds
    BY <1>4, <1>6
  <1>9. ASSUME NEW q \in Cells
        PROVE  \/ q \in v.seeds \/ Keeps(w, v, q) \/ Firm(v, q)
               \/ Loose(w, q) /\ (v.owner[q] # 0 \/ v.mat[q] \notin Bonded)
    <2>1. CASE q # p
      BY <1>5, <2>1 DEF Keeps
    <2>2. CASE q = p /\ w.mat[p] = "air"
      <3>1. CASE Bondable(m)
        <4>1. m # "air"
          BY <3>1 DEF Bondable
        <4>. QED
          BY <1>4, <1>6, <2>2, <3>1, <4>1
      <3>2. CASE ~Bondable(m)
        BY <1>5, <2>2, <3>2 DEF Loose, Bonded
      <3>. QED
        BY <3>1, <3>2
    <2>3. CASE q = p /\ w.mat[p] # "air"
      BY <1>8, <2>3
    <2>. QED
      BY <2>1, <2>2, <2>3
  <1>10. Stirs(w, v)
    <2>1. w.parked \subseteq v.parked
      BY <1>5
    <2>. QED
      BY <1>7, <1>9, <2>1, StirsWhere
  <1>11. \A q \in Cells : q # p => v.mat[q] = w.mat[q] /\ v.owner[q] = w.owner[q]
    BY <1>5
  <1>12. v = Put(Disturb(w, {p}, m), p, m, id)
    BY <1>1 DEF v, d
  <1>. QED
    BY <1>5, <1>7, <1>8, <1>10, <1>11, <1>12

\* So does a body that goes with its cells.
LEMMA DespawnStirs ==
  ASSUME NEW w, Sound(w), NEW ids \in SUBSET DOMAIN w.bodies
  PROVE  LET v == Despawn(w, ids)
         IN  /\ Stirs(w, v) /\ w.seeds \subseteq v.seeds
             /\ \A p \in Cells : w.owner[p] \notin ids =>
                  v.mat[p] = w.mat[p] /\ v.owner[p] = w.owner[p]
  <1> DEFINE v == Despawn(w, ids)  S == Borne(w, ids)  f == Without(w.bodies, ids)
             u == PutAll(w, S, "air", 0)
  <1>1. w \in Worlds /\ Claimed(w) /\ "air" \in Materials /\ 0 \in Nat
    BY DEF Sound, Materials
  <1>2. /\ f \in BodySets /\ DOMAIN f = DOMAIN w.bodies \ ids
        /\ \A i \in DOMAIN w.bodies \ ids : f[i] = w.bodies[i]
    BY <1>1, WorldFacts, WithoutBodies
  <1>3. S = {p \in Cells : w.owner[p] \in ids}
    BY BorneFacts
  <1>4. S \in SUBSET Cells
    BY <1>3
  <1> HIDE DEF f, S
  <1>5. /\ u \in Worlds /\ u.bodies = w.bodies /\ u.parked = w.parked
        /\ \A p \in Cells : /\ u.mat[p] = IF p \in S THEN "air" ELSE w.mat[p]
                            /\ u.owner[p] = IF p \in S THEN 0 ELSE w.owner[p]
    BY <1>1, <1>4, PutAllFacts
  <1>6. w.seeds \subseteq u.seeds /\ \A p \in S : w.mat[p] # "air" => p \in u.seeds
    BY <1>1, PutAllSeeds
  <1>7. v = [u EXCEPT !.bodies = f]
    BY <1>5 DEF Despawn, f, S
  <1> HIDE DEF u, v
  <1>8. /\ v.mat = u.mat /\ v.owner = u.owner /\ v.seeds = u.seeds /\ v.parked = u.parked
        /\ v.bodies = f
    BY <1>2, <1>5, <1>7, BodiesField
  <1>9. ASSUME NEW p \in Cells
        PROVE  \/ p \in v.seeds \/ Keeps(w, v, p) \/ Firm(v, p)
               \/ Loose(w, p) /\ (v.owner[p] # 0 \/ v.mat[p] \notin Bonded)
    <2>1. CASE p \in S
      <3>1. "air" \notin Bonded /\ v.mat[p] = "air"
        BY <1>5, <1>8, <2>1 DEF Bonded, Bondable
      <3>. QED
        BY <1>6, <1>8, <2>1, <3>1 DEF Loose
    <2>2. CASE p \notin S
      <3>1. v.mat[p] = w.mat[p] /\ v.owner[p] = w.owner[p]
        BY <1>5, <1>8, <2>2
      <3>2. w.owner[p] \notin ids
        BY <1>3, <2>2
      <3>3. w.owner[p] # 0 => v.bodies[w.owner[p]] = w.bodies[w.owner[p]]
        BY <1>1, <1>2, <1>8, <3>2 DEF Claimed
      <3>. QED
        BY <3>1, <3>3 DEF Keeps
    <2>. QED
      BY <2>1, <2>2
  <1>10. w.seeds \subseteq v.seeds /\ w.parked \subseteq v.parked
    BY <1>5, <1>6, <1>8
  <1>11. Stirs(w, v)
    BY <1>9, <1>10, StirsWhere
  <1>12. \A p \in Cells : w.owner[p] \notin ids => v.mat[p] = w.mat[p] /\ v.owner[p] = w.owner[p]
    BY <1>3, <1>5, <1>8
  <1>. QED
    BY <1>10, <1>11, <1>12 DEF v

\* Only stamps differ.
Stamped(w, v, S, id) ==
  /\ v.mat = w.mat /\ v.seeds = w.seeds /\ v.parked = w.parked
  /\ \A p \in Cells : v.owner[p] = IF p \in S THEN id ELSE w.owner[p]

\* What a capture changes but for the bodies.
LEMMA CaptureStamps ==
  ASSUME NEW w \in Worlds, NEW S, NEW id \in Nat, NEW policy \in Policies
  PROVE  Stamped(w, [Capture(w, id, S, policy) EXCEPT !.next = @ + 1], S, id)
  <1> DEFINE u == Stamp(w, S, id)
             f == With(u.bodies, id, [slots |-> Restrict(w.mat, S), policy |-> policy,
                                      parked |-> FALSE])
             v == [Capture(w, id, S, policy) EXCEPT !.next = @ + 1]
             c == Capture(w, id, S, policy)
  <1>1. c = [u EXCEPT !.bodies = f] /\ v = [c EXCEPT !.next = c.next + 1]
    BY DEF Capture
  <1>2. /\ u \in Worlds /\ u.mat = w.mat /\ u.seeds = w.seeds /\ u.parked = w.parked
        /\ \A p \in Cells : u.owner[p] = IF p \in S THEN id ELSE w.owner[p]
    BY StampFacts
  <1> HIDE DEF u, f, c, v
  <1>3. u = [mat |-> u.mat, owner |-> u.owner, bodies |-> u.bodies, next |-> u.next,
             seeds |-> u.seeds, parked |-> u.parked, broken |-> u.broken]
    BY <1>2, WorldFacts
  <1>4. c = [mat |-> u.mat, owner |-> u.owner, bodies |-> f, next |-> u.next,
             seeds |-> u.seeds, parked |-> u.parked, broken |-> u.broken]
    BY <1>1, <1>3
  <1>5. v.mat = c.mat /\ v.owner = c.owner /\ v.seeds = c.seeds /\ v.parked = c.parked
    BY <1>1, <1>4
  <1>. QED
    BY <1>2, <1>4, <1>5 DEF v, c, Stamped

\* Matter put down loose.
LEMMA PutLoose ==
  ASSUME NEW w \in Worlds, NEW S \in SUBSET Cells, NEW m \in Materials
  PROVE  /\ PutAll(w, S, m, 0) \in Worlds /\ PutAll(w, S, m, 0).parked = w.parked
         /\ \A p \in Cells :
              /\ PutAll(w, S, m, 0).mat[p] = IF p \in S THEN m ELSE w.mat[p]
              /\ PutAll(w, S, m, 0).owner[p] = IF p \in S THEN 0 ELSE w.owner[p]
  BY PutAllFacts

\* A body that comes seeds its cells.
LEMMA SpawnStirs ==
  ASSUME NEW w, Sound(w), NEW S \in Rasters, Fits(w, S),
         NEW m \in Bonded, NEW policy \in Policies
  PROVE  LET v == [Spawn(w, w.next, S, m, policy) EXCEPT !.next = @ + 1]
         IN  /\ Stirs(w, v) /\ w.seeds \subseteq v.seeds
             /\ \A p \in S : v.mat[p] = m
             /\ \A p \in Cells \ S : v.mat[p] = w.mat[p] /\ v.owner[p] = w.owner[p]
  <1> DEFINE d == Disturb(w, S, m)  u == PutAll(d, S, m, 0)
             v == [Spawn(w, w.next, S, m, policy) EXCEPT !.next = @ + 1]
  <1>1. /\ w \in Worlds /\ Claimed(w) /\ S \in SUBSET Cells /\ m \in Materials /\ 0 \in Nat
        /\ w.next \in Nat
    BY WorldFacts DEF Sound, Rasters, Bonded, Bondable, Positive
  <1>2. d \in Worlds /\ d.mat = w.mat /\ d.owner = w.owner /\ d.parked = w.parked
    BY <1>1, DisturbFacts
  <1>3. w.seeds \subseteq d.seeds /\ S \subseteq d.seeds
    <2>1. \A p \in S : w.mat[p] # m /\ Bondable(m)
      BY DEF Fits, Free, Bonded, Bondable
    <2>. QED
      BY <1>1, <2>1, DisturbSeeds
  <1> HIDE DEF d
  <1>4. /\ u \in Worlds /\ u.parked = w.parked
        /\ \A p \in Cells : /\ u.mat[p] = IF p \in S THEN m ELSE w.mat[p]
                            /\ u.owner[p] = IF p \in S THEN 0 ELSE w.owner[p]
    <2>1. /\ u \in Worlds /\ u.parked = d.parked
          /\ \A p \in Cells : /\ u.mat[p] = IF p \in S THEN m ELSE d.mat[p]
                              /\ u.owner[p] = IF p \in S THEN 0 ELSE d.owner[p]
      <3>1. d \in Worlds /\ S \in SUBSET Cells /\ m \in Materials
        BY <1>1, <1>2
      <3>. QED
        BY <3>1, PutLoose
    <2> HIDE DEF u
    <2>. QED
      BY <1>2, <2>1
  <1>5. d.seeds \subseteq u.seeds
    BY <1>2, PutAllSeeds
  <1>6. v = [Capture(u, w.next, S, policy) EXCEPT !.next = @ + 1]
    BY DEF Spawn, u, d
  <1> DEFINE x == [Capture(u, w.next, S, policy) EXCEPT !.next = @ + 1]
  <1> HIDE DEF u
  <1>c. Stamped(u, x, S, w.next)
    BY <1>1, <1>4, CaptureStamps
  <1>7. /\ x.mat = u.mat /\ x.seeds = u.seeds /\ x.parked = u.parked
        /\ \A p \in Cells : x.owner[p] = IF p \in S THEN w.next ELSE u.owner[p]
    <2> HIDE DEF x
    <2>. QED
      BY <1>c DEF Stamped
  <1>8. v = x
    BY <1>6
  <1>k. /\ Sound(v) /\ Whole(v, w.next)
        /\ v.next = w.next + 1 /\ v.broken = w.broken
        /\ DOMAIN v.bodies = DOMAIN w.bodies \cup {w.next} /\ w.next \notin DOMAIN w.bodies
        /\ v.bodies[w.next].policy = policy /\ Raster(v.bodies[w.next]) = S
        /\ \A j \in DOMAIN w.bodies :
             v.bodies[j] = w.bodies[j] /\ (Whole(w, j) => Whole(v, j))
    BY SpawnKeeps
  <1> HIDE DEF x, v
  <1>9. /\ DOMAIN v.bodies = DOMAIN w.bodies \cup {w.next}
        /\ \A j \in DOMAIN w.bodies : v.bodies[j] = w.bodies[j]
    BY <1>k
  <1>10. ASSUME NEW p \in Cells
         PROVE  \/ p \in v.seeds \/ Keeps(w, v, p) \/ Firm(v, p)
                \/ Loose(w, p) /\ (v.owner[p] # 0 \/ v.mat[p] \notin Bonded)
    <2>1. CASE p \in S
      BY <1>3, <1>5, <1>7, <1>8, <2>1
    <2>2. CASE p \notin S
      <3>1. v.mat[p] = w.mat[p] /\ v.owner[p] = w.owner[p]
        BY <1>4, <1>7, <1>8, <2>2
      <3>2. w.owner[p] # 0 => v.bodies[w.owner[p]] = w.bodies[w.owner[p]]
        BY <1>1, <1>9 DEF Claimed
      <3>. QED
        BY <3>1, <3>2 DEF Keeps
    <2>. QED
      BY <2>1, <2>2
  <1>11. w.seeds \subseteq v.seeds /\ w.parked \subseteq v.parked
    BY <1>3, <1>4, <1>5, <1>7, <1>8
  <1>12. Stirs(w, v)
    BY <1>10, <1>11, StirsWhere
  <1>13. /\ \A p \in S : v.mat[p] = m
         /\ \A p \in Cells \ S : v.mat[p] = w.mat[p] /\ v.owner[p] = w.owner[p]
    BY <1>1, <1>4, <1>7, <1>8
  <1>. QED
    BY <1>11, <1>12, <1>13 DEF v

\* Minds that die are no terrain, before or after.
LEMMA DieStirs ==
  ASSUME NEW w, Sound(w), NEW ids, \A id \in ids \cap DOMAIN w.bodies : w.bodies[id].policy # "DEBRIS"
  PROVE  Stirs(w, Die(w, ids)) /\ w.seeds \subseteq Die(w, ids).seeds
  <1> DEFINE v == Die(w, ids)
             dying == ids \cap DOMAIN w.bodies
             S == Borne(w, dying)
             m == [p \in Cells |-> IF p \in S THEN "corpse" ELSE w.mat[p]]
             f == [id \in DOMAIN w.bodies |-> IF id \in dying THEN Corpse(w, id) ELSE w.bodies[id]]
  <1>1. w \in Worlds /\ Claimed(w)
    BY DEF Sound
  <1>2. dying \in SUBSET DOMAIN w.bodies
    OBVIOUS
  <1>3. S = {p \in Cells : w.owner[p] \in dying}
    <2> HIDE DEF dying
    <2>. QED
      BY <1>2, BorneFacts
  <1>4. w = [mat |-> w.mat, owner |-> w.owner, bodies |-> w.bodies, next |-> w.next,
             seeds |-> w.seeds, parked |-> w.parked, broken |-> w.broken]
    BY <1>1, WorldFacts
  <1>5. v = [w EXCEPT !.mat = m, !.bodies = f]
    BY DEF Die
  <1>6. \A p \in Cells : m[p] = IF p \in S THEN "corpse" ELSE w.mat[p]
    OBVIOUS
  <1>7. \A j \in DOMAIN w.bodies \ dying : f[j] = w.bodies[j]
    OBVIOUS
  <1> HIDE DEF v, m, f, S
  <1>8. v.mat = m /\ v.bodies = f /\ v.owner = w.owner /\ v.seeds = w.seeds /\ v.parked = w.parked
    BY <1>4, <1>5
  <1>9. ASSUME NEW p \in Cells
        PROVE  \/ p \in v.seeds \/ Keeps(w, v, p) \/ Firm(v, p)
               \/ Loose(w, p) /\ (v.owner[p] # 0 \/ v.mat[p] \notin Bonded)
    <2>1. CASE p \in S
      <3>1. w.owner[p] \in dying /\ w.owner[p] # 0
        BY <1>1, <1>3, <2>1, WorldFacts DEF Positive
      <3>. QED
        BY <1>8, <3>1 DEF Loose
    <2>2. CASE p \notin S
      <3>1. v.mat[p] = w.mat[p] /\ v.owner[p] = w.owner[p]
        BY <1>6, <1>8, <2>2
      <3>2. w.owner[p] # 0 => v.bodies[w.owner[p]] = w.bodies[w.owner[p]]
        <4>1. w.owner[p] \notin dying
          BY <1>3, <2>2
        <4> HIDE DEF dying
        <4>. QED
          BY <1>1, <1>7, <1>8, <4>1 DEF Claimed
      <3>. QED
        BY <3>1, <3>2 DEF Keeps
    <2>. QED
      BY <2>1, <2>2
  <1>10. w.seeds \subseteq v.seeds /\ w.parked \subseteq v.parked
    BY <1>8
  <1>11. Stirs(w, v)
    BY <1>9, <1>10, StirsWhere
  <1>. QED
    BY <1>10, <1>11 DEF v

\* A body in one piece, of one material.
Solid(b) == Joined(Raster(b)) /\ \A p, q \in Raster(b) : b.slots[p] = b.slots[q]

\* A figure that takes another shape is slack where it was and owned where it is.
LEMMA RecastStirs ==
  ASSUME NEW o, Sound(o), NEW id \in DOMAIN o.bodies, Whole(o, id), NEW S, S # {},
         Fits(o, S \ Raster(o.bodies[id])), o.bodies[id].policy # "DEBRIS"
  PROVE  LET v == Recast(o, id, S)
         IN  Stirs(o, v) /\ o.seeds \subseteq v.seeds /\ \A p \in S : v.mat[p] = "flesh"
  <1> DEFINE R == Raster(o.bodies[id])
             u == PutAll(o, R \ S, "air", 0)
             w == PutAll(u, S, "flesh", 0)
             t == Stamp(w, S, id)
             f == With(w.bodies, id, [o.bodies[id] EXCEPT !.slots = Restrict(w.mat, S)])
             v == Recast(o, id, S)
  <1>1. /\ o \in Worlds /\ id \in Positive /\ id \in Nat /\ id # 0 /\ Claimed(o)
        /\ R \subseteq Cells
    BY RastersInWorld DEF Sound, Positive
  <1>2. \A p \in R : o.owner[p] = id /\ o.mat[p] # "air"
    <2>1. \A p \in R : o.bodies[id].slots[p] \in Bonded
      BY <1>1, RastersInWorld, BodyFacts
    <2>. QED
      BY <2>1 DEF Whole, Bonded, Bondable
  <1>3. \A p \in S \ R : Loaded(p) /\ o.owner[p] = 0 /\ o.mat[p] = "air"
    BY DEF Fits, Free
  <1>4. S \in SUBSET Cells /\ R \ S \in SUBSET Cells
    BY <1>1, <1>3 DEF Loaded
  <1>5. /\ Sound(v) /\ Whole(v, id) /\ v.next = o.next /\ v.broken = o.broken
        /\ DOMAIN v.bodies = DOMAIN o.bodies
        /\ v.bodies[id].policy = o.bodies[id].policy
        /\ Raster(v.bodies[id]) = S
        /\ \A j \in DOMAIN o.bodies : j # id =>
             v.bodies[j] = o.bodies[j] /\ (Whole(o, j) => Whole(v, j))
    BY RecastKeeps
  <1>6. v = [w EXCEPT !.owner = t.owner, !.bodies = f]
    BY DEF Recast
  <1> HIDE DEF R, u, w, t, f, v
  <1>7. /\ u \in Worlds /\ u.parked = o.parked
        /\ \A p \in Cells : /\ u.mat[p] = IF p \in R \ S THEN "air" ELSE o.mat[p]
                            /\ u.owner[p] = IF p \in R \ S THEN 0 ELSE o.owner[p]
    <2>1. PICK T \in SUBSET Cells : T = R \ S
      BY <1>4
    <2>. QED
      BY <1>1, <2>1, ClearedFacts DEF u
  <1>8. o.seeds \subseteq u.seeds /\ \A p \in R \ S : o.mat[p] # "air" => p \in u.seeds
    BY <1>1, PutAllSeeds DEF u
  <1>9. /\ w \in Worlds /\ w.parked = u.parked
        /\ \A p \in Cells : /\ w.mat[p] = IF p \in S THEN "flesh" ELSE u.mat[p]
                            /\ w.owner[p] = IF p \in S THEN 0 ELSE u.owner[p]
    BY <1>4, <1>7, FleshFacts DEF w
  <1>10. u.seeds \subseteq w.seeds
    BY <1>7, PutAllSeeds DEF w
  <1>11. \A p \in Cells : t.owner[p] = IF p \in S THEN id ELSE w.owner[p]
    BY <1>1, <1>9, StampFacts DEF t
  <1>12. v.mat = w.mat /\ v.owner = t.owner /\ v.seeds = w.seeds /\ v.parked = w.parked
    <2>1. w = [mat |-> w.mat, owner |-> w.owner, bodies |-> w.bodies, next |-> w.next,
               seeds |-> w.seeds, parked |-> w.parked, broken |-> w.broken]
      BY <1>9, WorldFacts
    <2>. QED
      BY <1>6, <2>1
  <1>13. ASSUME NEW p \in Cells
         PROVE  \/ p \in v.seeds \/ Keeps(o, v, p) \/ Firm(v, p)
                \/ Loose(o, p) /\ (v.owner[p] # 0 \/ v.mat[p] \notin Bonded)
    <2>1. CASE p \in S
      <3>1. v.owner[p] # 0
        BY <1>1, <1>11, <1>12, <2>1
      <3>2. Loose(o, p)
        BY <1>1, <1>2, <1>3, <2>1 DEF Loose, R
      <3>. QED
        BY <3>1, <3>2
    <2>2. CASE p \in R \ S
      BY <1>2, <1>8, <1>10, <1>12, <2>2
    <2>3. CASE p \notin R /\ p \notin S
      <3>1. v.mat[p] = o.mat[p] /\ v.owner[p] = o.owner[p]
        BY <1>7, <1>9, <1>11, <1>12, <2>3
      <3>2. o.owner[p] # 0 => v.bodies[o.owner[p]] = o.bodies[o.owner[p]]
        BY <1>1, <1>5, <2>3 DEF Claimed, R
      <3>. QED
        BY <3>1, <3>2 DEF Keeps
    <2>. QED
      BY <2>1, <2>2, <2>3
  <1>14. o.seeds \subseteq v.seeds /\ o.parked \subseteq v.parked
    BY <1>7, <1>8, <1>9, <1>10, <1>12
  <1>15. Stirs(o, v)
    BY <1>13, <1>14, StirsWhere
  <1>16. \A p \in S : v.mat[p] = "flesh"
    BY <1>4, <1>9, <1>12
  <1>. QED
    BY <1>14, <1>15, <1>16 DEF v

\* A body of one material that moves keeps it where it was and is.
LEMMA MoveStirs ==
  ASSUME NEW o, Sound(o), NEW id \in DOMAIN o.bodies, Whole(o, id), NEW d \in Plane,
         Fits(o, At(d, Raster(o.bodies[id])) \ Raster(o.bodies[id])), Solid(o.bodies[id])
  PROVE  LET v == Moved(o, id, d)
         IN  /\ Stirs(o, v) /\ o.seeds \subseteq v.seeds
             /\ \A p \in Raster(v.bodies[id]) : \E q \in Raster(o.bodies[id]) :
                  v.mat[p] = o.bodies[id].slots[q]
  <1> DEFINE b == o.bodies[id]
             R == Raster(b)
             S == At(d, R)
             from(p) == Shift(p, <<-d[1], -d[2]>>)
             patch == [p \in S |-> o.mat[from(p)]]
             u == PutAll(o, R \ S, "air", 0)
             w == Write(u, patch, id)
             f == With(w.bodies, id, [b EXCEPT !.slots = [p \in S |-> b.slots[from(p)]]])
             v == Moved(o, id, d)
  <1>1. /\ o \in Worlds /\ id \in Positive /\ id \in Nat /\ id # 0 /\ Claimed(o)
        /\ R \subseteq Cells /\ R \subseteq Plane
    BY RastersInWorld, CellsInPlane DEF Sound, Positive
  <1>2. \A p \in R : o.owner[p] = id /\ o.mat[p] = b.slots[p] /\ o.mat[p] # "air"
    <2>1. \A p \in R : o.bodies[id].slots[p] \in Bonded
      BY <1>1, RastersInWorld, BodyFacts
    <2>. QED
      BY <2>1 DEF Whole, Bonded, Bondable
  <1>3. \A p \in S \ R : Loaded(p) /\ o.owner[p] = 0 /\ o.mat[p] = "air"
    BY DEF Fits, Free
  <1>4. S \in SUBSET Cells /\ R \ S \in SUBSET Cells
    BY <1>1, <1>3 DEF Loaded
  <1>5. \A p \in S : from(p) \in R
    <2>1. \A p \in S : \E q \in R : p = Shift(d, q)
      BY DEF At
    <2>. QED
      BY <1>1, <2>1, ShiftBack
  <1>6. patch \in [S -> Materials] /\ \A p \in S : patch[p] = b.slots[from(p)]
    <2>1. \A p \in R : o.mat[p] \in Materials
      BY <1>1, WorldFacts
    <2>2. \A p \in S : from(p) \in R /\ patch[p] = o.mat[from(p)]
      BY <1>5
    <2> HIDE DEF from, S, R
    <2>. QED
      BY <1>2, <2>1, <2>2
  <1>7. /\ Sound(v) /\ Whole(v, id) /\ v.next = o.next /\ v.broken = o.broken
        /\ DOMAIN v.bodies = DOMAIN o.bodies
        /\ v.bodies[id].policy = o.bodies[id].policy
        /\ Raster(v.bodies[id]) = At(d, Raster(o.bodies[id]))
        /\ \A j \in DOMAIN o.bodies : j # id =>
             v.bodies[j] = o.bodies[j] /\ (Whole(o, j) => Whole(v, j))
    BY MoveKeeps
  <1>8. v = [w EXCEPT !.bodies = f]
    BY DEF Moved
  <1>9. \A p \in S, q \in R : patch[p] = b.slots[q]
    <2> HIDE DEF patch, from, S
    <2>. QED
      BY <1>5, <1>6 DEF Solid
  <1> HIDE DEF b, R, S, from, patch, u, w, f, v
  <1>10. /\ u \in Worlds /\ u.parked = o.parked
         /\ \A p \in Cells : /\ u.mat[p] = IF p \in R \ S THEN "air" ELSE o.mat[p]
                             /\ u.owner[p] = IF p \in R \ S THEN 0 ELSE o.owner[p]
    <2>1. PICK T \in SUBSET Cells : T = R \ S
      BY <1>4
    <2>. QED
      BY <1>1, <2>1, ClearedFacts DEF u
  <1>11. o.seeds \subseteq u.seeds /\ \A p \in R \ S : o.mat[p] # "air" => p \in u.seeds
    BY <1>1, PutAllSeeds DEF u
  <1>12. /\ w \in Worlds /\ w.parked = u.parked
         /\ \A p \in Cells : /\ w.mat[p] = IF p \in S THEN patch[p] ELSE u.mat[p]
                             /\ w.owner[p] = IF p \in S THEN id ELSE u.owner[p]
    <2>1. u \in Worlds /\ S \in SUBSET Cells /\ patch \in [S -> Materials] /\ id \in Nat
      BY <1>1, <1>4, <1>6, <1>10
    <2>. QED
      BY <2>1, WriteFacts DEF w
  <1>13. u.seeds \subseteq w.seeds
    <2>1. DOMAIN patch = S
      BY <1>6
    <2>. QED
      BY <1>10, <2>1, WriteSeeds DEF w
  <1>14. v.mat = w.mat /\ v.owner = w.owner /\ v.seeds = w.seeds /\ v.parked = w.parked
    <2>1. w = [mat |-> w.mat, owner |-> w.owner, bodies |-> w.bodies, next |-> w.next,
               seeds |-> w.seeds, parked |-> w.parked, broken |-> w.broken]
      BY <1>12, WorldFacts
    <2>. QED
      BY <1>8, <2>1
  <1>15. ASSUME NEW p \in Cells
         PROVE  \/ p \in v.seeds \/ Keeps(o, v, p) \/ Firm(v, p)
                \/ Loose(o, p) /\ (v.owner[p] # 0 \/ v.mat[p] \notin Bonded)
    <2>1. CASE p \in S \ R
      <3>1. v.owner[p] # 0
        BY <1>1, <1>12, <1>14, <2>1
      <3>2. Loose(o, p)
        BY <1>3, <2>1 DEF Loose
      <3>. QED
        BY <3>1, <3>2
    <2>2. CASE p \in R \ S
      BY <1>2, <1>11, <1>13, <1>14, <2>2
    <2>3. CASE p \in S /\ p \in R
      <3>1. v.mat[p] = o.mat[p] /\ v.owner[p] = o.owner[p]
        BY <1>2, <1>9, <1>12, <1>14, <2>3
      <3>. QED
        BY <1>2, <1>7, <2>3, <3>1 DEF Keeps
    <2>4. CASE p \notin R /\ p \notin S
      <3>1. v.mat[p] = o.mat[p] /\ v.owner[p] = o.owner[p]
        BY <1>10, <1>12, <1>14, <2>4
      <3>2. o.owner[p] # 0 => v.bodies[o.owner[p]] = o.bodies[o.owner[p]]
        BY <1>1, <1>7, <2>4 DEF Claimed, R, b
      <3>. QED
        BY <3>1, <3>2 DEF Keeps
    <2>. QED
      BY <2>1, <2>2, <2>3, <2>4
  <1>16. o.seeds \subseteq v.seeds /\ o.parked \subseteq v.parked
    BY <1>10, <1>11, <1>12, <1>13, <1>14
  <1>17. Stirs(o, v)
    BY <1>15, <1>16, StirsWhere
  <1>18. \A p \in S : \E q \in R : v.mat[p] = b.slots[q]
    BY <1>4, <1>5, <1>6, <1>12, <1>14
  <1>. QED
    BY <1>7, <1>16, <1>17, <1>18 DEF v, S, R, b
-----------------------------------------------------------------------------
(* What integration does to the terrain before it looks for islands.       *)

\* Where cells, stamps and seeds stay, and what settles does not change.
LEMMA StillStirs ==
  ASSUME NEW w, NEW v, v.mat = w.mat, v.owner = w.owner, v.seeds = w.seeds, v.parked = w.parked,
         \A p \in Cells : w.owner[p] # 0 =>
           v.bodies[w.owner[p]].policy = w.bodies[w.owner[p]].policy
  PROVE  Stirs(w, v)
  <1>1. \A p \in Cells : Keeps(w, v, p)
    BY DEF Keeps
  <1>. QED
    BY <1>1, StirsWhere

\* A cell that burnt to what does not bond is no terrain that hangs, wherever
\* it goes, and seeds the gap it leaves.
LEMMA ReleaseStirs ==
  ASSUME NEW w \in Worlds, NEW p \in Cells, w.mat[p] \notin Bonded
  PROVE  LET v == Release(w, p)
         IN  Stirs(w, v) /\ \A q \in Cells : v.mat[q] \in Bonded => w.mat[q] \in Bonded
  <1> DEFINE v == Release(w, p)  c == Stamp(w, {p}, 0)  X == Outlets(c, p)
             q0 == Neighbours(p)[Min(X)]
             d == Put(c, p, "air", 0)
             e == Put(d, q0, w.mat[p], 0)
  <1>1. /\ v \in Worlds /\ v.bodies = w.bodies
        /\ \A q \in Cells : v.owner[q] = IF q = p THEN 0 ELSE w.owner[q]
    BY ReleaseFacts
  <1>2. v = IF w.mat[p] = "air" \/ X = {} THEN c ELSE e
    BY DEF Release
  <1>3. /\ c \in Worlds /\ c.mat = w.mat /\ c.bodies = w.bodies /\ c.seeds = w.seeds
        /\ c.parked = w.parked
        /\ \A q \in Cells : c.owner[q] = IF q = p THEN 0 ELSE w.owner[q]
    <2>1. 0 \in Nat
      OBVIOUS
    <2>2. \A q \in Cells : c.owner[q] = IF q \in {p} THEN 0 ELSE w.owner[q]
      BY <2>1, StampFacts
    <2>. QED
      BY <2>1, <2>2, StampFacts
  <1>4. w.mat[p] \in Materials /\ "air" \in Materials /\ 0 \in Nat
    BY WorldFacts DEF Materials
  <1>5. "air" \notin Bonded
    BY DEF Bonded, Bondable
  <1> HIDE DEF v, c, e
  <1>6. CASE w.mat[p] = "air" \/ X = {}
    <2>1. v.mat = w.mat /\ v.seeds = w.seeds /\ v.parked = w.parked
      BY <1>2, <1>3, <1>6
    <2>2. ASSUME NEW q \in Cells
          PROVE  \/ q \in v.seeds \/ Keeps(w, v, q) \/ Firm(v, q)
                 \/ Loose(w, q) /\ (v.owner[q] # 0 \/ v.mat[q] \notin Bonded)
      <3>1. CASE q = p
        BY <1>1, <2>1, <3>1 DEF Firm, Loose
      <3>2. CASE q # p
        BY <1>1, <2>1, <3>2 DEF Keeps
      <3>. QED
        BY <3>1, <3>2
    <2>3. Stirs(w, v)
      BY <2>1, <2>2, StirsWhere
    <2>. QED
      BY <2>1, <2>3 DEF v
  <1>7. CASE ~(w.mat[p] = "air" \/ X = {})
    <2>1. X \in SUBSET Nat /\ \A i \in X : Free(c, Neighbours(p)[i])
      BY DEF Outlets
    <2>2. Min(X) \in X
      <3> HIDE DEF X
      <3>. QED
        BY <1>7, <2>1, MinIsLeast
    <2>3. Free(c, q0)
      BY <2>1, <2>2
    <2> HIDE DEF X, q0, d
    <2>4. q0 \in Cells /\ w.owner[q0] = 0 /\ w.mat[q0] = "air" /\ q0 # p
      BY <1>3, <1>7, <2>3 DEF Free, Loaded
    <2>5. /\ d \in Worlds /\ d.parked = c.parked
          /\ \A q \in Cells : d.mat[q] = IF q = p THEN "air" ELSE w.mat[q]
      BY <1>3, <1>4, PutFacts DEF d
    <2>6. c.seeds \subseteq d.seeds /\ p \in d.seeds
      BY <1>3, <1>7, PutSeeds DEF d
    <2>7. /\ e.parked = d.parked
          /\ \A q \in Cells : e.mat[q] = IF q = q0 THEN w.mat[p] ELSE d.mat[q]
      BY <1>4, <2>4, <2>5, PutFacts DEF e
    <2>8. d.seeds \subseteq e.seeds
      BY <2>5, PutSeeds DEF e
    <2>9. v = e
      BY <1>2, <1>7
    <2>10. w.seeds \subseteq v.seeds /\ p \in v.seeds /\ v.parked = w.parked
      BY <1>3, <2>5, <2>6, <2>7, <2>8, <2>9
    <2>11. \A q \in Cells : /\ q = q0 => v.mat[q] = w.mat[p] /\ Loose(w, q)
                            /\ q # q0 /\ q # p => v.mat[q] = w.mat[q]
                            /\ q = p => v.mat[q] = "air"
      BY <2>4, <2>5, <2>7, <2>9 DEF Loose
    <2>12. ASSUME NEW q \in Cells
           PROVE  \/ q \in v.seeds \/ Keeps(w, v, q) \/ Firm(v, q)
                  \/ Loose(w, q) /\ (v.owner[q] # 0 \/ v.mat[q] \notin Bonded)
      <3>1. CASE q = p
        BY <2>10, <3>1
      <3>2. CASE q = q0
        BY <2>11, <3>2
      <3>3. CASE q # p /\ q # q0
        BY <1>1, <2>11, <3>3 DEF Keeps
      <3>. QED
        BY <3>1, <3>2, <3>3
    <2>13. Stirs(w, v)
      BY <2>10, <2>12, StirsWhere
    <2>14. \A q \in Cells : v.mat[q] \in Bonded => w.mat[q] \in Bonded
      BY <1>5, <2>11
    <2>. QED
      BY <2>13, <2>14 DEF v
  <1>. QED
    BY <1>6, <1>7

\* So do all the cells that a body loses.
LEMMA ReleaseAllStirs ==
  ASSUME NEW w \in Worlds, NEW S \in SUBSET Cells, \A p \in S : w.mat[p] \notin Bonded
  PROVE  Stirs(w, ReleaseAll(w, S))
  <1> DEFINE N == Cardinality(S)
  <1>1. N \in Nat /\ \A k \in 1..N : Sorted(S)[k] \in S /\ Sorted(S)[k] \in Cells
    BY ReleaseAllRuns
  <1>2. PICK g : /\ g[0] = w /\ ReleaseAll(w, S) = g[N]
                 /\ \A k \in 1..N : g[k] = Release(g[k - 1], Sorted(S)[k])
    BY ReleaseAllRuns
  <1> HIDE DEF N
  <1> DEFINE Good == {x \in Worlds : Stirs(w, x) /\ \A q \in Cells : x.mat[q] \in Bonded => w.mat[q] \in Bonded}
  <1>3. g[0] \in Good
    <2>1. Stirs(w, w)
      BY DEF Stirs
    <2>. QED
      BY <1>2, <2>1
  <1>4. ASSUME NEW k \in 1..N, g[k - 1] \in Good PROVE g[k] \in Good
    <2> DEFINE p == Sorted(S)[k]  x == g[k - 1]  v == Release(x, p)
    <2>1. p \in S /\ p \in Cells /\ g[k] = v
      BY <1>1, <1>2
    <2>2. x \in Worlds /\ Stirs(w, x) /\ \A q \in Cells : x.mat[q] \in Bonded => w.mat[q] \in Bonded
      BY <1>4
    <2> HIDE DEF p, x
    <2>3. x.mat[p] \notin Bonded
      BY <2>1, <2>2
    <2>4. v \in Worlds
      BY <2>1, <2>2, ReleaseFacts
    <2>5. Stirs(x, v) /\ \A q \in Cells : v.mat[q] \in Bonded => x.mat[q] \in Bonded
      BY <2>1, <2>2, <2>3, ReleaseStirs
    <2> HIDE DEF v
    <2>6. Stirs(w, v)
      BY <2>2, <2>5, StirsCompose
    <2>. QED
      BY <2>1, <2>2, <2>4, <2>5, <2>6
  <1>5. g[N] \in Good
    <2> HIDE DEF Good
    <2>1. \A k \in 0..N : g[k] \in Good
      BY <1>1, <1>3, <1>4, ValuesStay
    <2>. QED
      BY <1>1, <2>1
  <1>. QED
    BY <1>2, <1>5

\* Cells whose parts start alike are one part.
LEMMA PartsAreApart ==
  ASSUME NEW slots \in Shapes, NEW p \in DOMAIN slots
  PROVE  {q \in DOMAIN slots : First(PartOf(slots, q)) = First(PartOf(slots, p))} = PartOf(slots, p)
  <1> DEFINE D == DOMAIN slots  t == PartTouch(slots)  S == PartOf(slots, p)
  <1>1. D \in SUBSET Cells /\ t \in [D -> SUBSET D]
    BY ShapeFacts DEF Rasters, PartTouch
  <1>2. \A q \in D : Component(PartOf(slots, q), D, t) /\ q \in PartOf(slots, q)
    BY PartIsComponent
  <1>3. \A q \in D : First(PartOf(slots, q)) \in PartOf(slots, q)
    <2>1. TAKE q \in D
    <2>2. PartOf(slots, q) \in SUBSET D /\ PartOf(slots, q) # {}
      BY PartFacts
    <2>3. PartOf(slots, q) \in FiniteIn(Plane)
      BY <1>1, <2>2, CellsAreFinite, CellsInPlane DEF FiniteIn
    <2>. QED
      BY <2>2, <2>3, FirstIsThere
  <1>4. S \in SUBSET D
    BY PartFacts
  <1> HIDE DEF D, t, S
  <1>5. ASSUME NEW q \in D, PartOf(slots, q) \cap S # {} PROVE PartOf(slots, q) = S
    <2>1. Component(S, D, t) /\ Component(PartOf(slots, q), D, t)
      BY <1>2 DEF S, D
    <2>. QED
      BY <1>1, <1>5, <2>1, ComponentFacts
  <1>6. ASSUME NEW q \in D, First(PartOf(slots, q)) = First(S) PROVE q \in S
    <2>1. First(S) \in S /\ First(S) \in PartOf(slots, q)
      BY <1>3, <1>6 DEF S, D
    <2>. QED
      BY <1>2, <1>5, <2>1
  <1>7. ASSUME NEW q \in S PROVE q \in D /\ First(PartOf(slots, q)) = First(S)
    BY <1>2, <1>4, <1>5
  <1>. QED
    BY <1>6, <1>7 DEF D, S

Shapely(w) == \A id \in DOMAIN w.bodies : Solid(w.bodies[id])

\* A body that breaks is as loose as before, and its parts are in one piece.
LEMMA PartedStirs ==
  ASSUME NEW w, Sound(w), NEW v, Sound(v), NEW id \in DOMAIN w.bodies, NEW slots \in Shapes,
         \A p \in DOMAIN slots : w.owner[p] = id /\ w.mat[p] = slots[p],
         \A p \in Cells \ DOMAIN slots : w.owner[p] # id,
         Parted(w, v, id, slots), LeavesOthers(w, v, id)
  PROVE  Stirs(w, v) /\ (Shapely(w) => Shapely(v))
  <1>1. /\ v.mat = w.mat /\ v.seeds = w.seeds /\ v.parked = w.parked
        /\ \A p \in Cells : p \notin DOMAIN slots => v.owner[p] = w.owner[p]
        /\ \A p \in DOMAIN slots : /\ v.owner[p] # 0
                                   /\ v.bodies[v.owner[p]].policy = w.bodies[id].policy
        /\ \A i \in DOMAIN v.bodies :
             \/ i \in DOMAIN w.bodies /\ v.bodies[i] = w.bodies[i]
             \/ /\ Whole(v, i)
                /\ \E p \in DOMAIN slots : Raster(v.bodies[i]) =
                     {q \in DOMAIN slots : First(PartOf(slots, q)) = First(PartOf(slots, p))}
    BY DEF Parted
  <1>2. w \in Worlds /\ v \in Worlds /\ Claimed(w) /\ id # 0
    BY WorldFacts DEF Sound, Positive
  <1>3. \A j \in DOMAIN w.bodies : j # id => v.bodies[j] = w.bodies[j]
    BY DEF LeavesOthers
  <1>4. ASSUME NEW p \in Cells
        PROVE  /\ v.owner[p] = 0 /\ v.mat[p] \in Bonded => w.owner[p] = 0 /\ w.mat[p] = v.mat[p]
               /\ \A m \in Bonded : Slack(v, m, p) => Slack(w, m, p)
    <2>1. CASE p \in DOMAIN slots
      BY <1>1, <1>2, <2>1 DEF Slack
    <2>2. CASE p \notin DOMAIN slots
      <3>1. v.owner[p] = w.owner[p] /\ w.owner[p] # id
        BY <1>1, <2>2
      <3>2. w.owner[p] # 0 => v.bodies[w.owner[p]] = w.bodies[w.owner[p]]
        BY <1>2, <1>3, <3>1 DEF Claimed
      <3>. QED
        BY <1>1, <3>1, <3>2 DEF Slack
    <2>. QED
      BY <2>1, <2>2
  <1>5. Stirs(w, v)
    BY <1>1, <1>4 DEF Stirs
  <1>6. ASSUME Shapely(w), NEW i \in DOMAIN v.bodies PROVE Solid(v.bodies[i])
    <2>1. CASE i \in DOMAIN w.bodies /\ v.bodies[i] = w.bodies[i]
      BY <1>6, <2>1 DEF Shapely
    <2>2. CASE /\ Whole(v, i)
               /\ \E p \in DOMAIN slots : Raster(v.bodies[i]) =
                    {q \in DOMAIN slots : First(PartOf(slots, q)) = First(PartOf(slots, p))}
      <3>1. PICK p \in DOMAIN slots : Raster(v.bodies[i]) =
                    {q \in DOMAIN slots : First(PartOf(slots, q)) = First(PartOf(slots, p))}
        BY <2>2
      <3>2. Raster(v.bodies[i]) = PartOf(slots, p)
        BY <3>1, PartsAreApart
      <3>3. Joined(PartOf(slots, p)) /\ \A q \in PartOf(slots, p) : q \in DOMAIN slots /\ slots[q] = slots[p]
        BY PartIsComponent, PartFacts
      <3>4. \A q \in Raster(v.bodies[i]) : v.bodies[i].slots[q] = slots[p]
        BY <1>1, <2>2, <3>2, <3>3 DEF Whole
      <3>. QED
        BY <3>2, <3>3, <3>4 DEF Solid
    <2>. QED
      BY <1>1, <2>1, <2>2
  <1>. QED
    BY <1>5, <1>6 DEF Shapely

\* One body against its cells.
LEMMA ReconcileStirs ==
  ASSUME NEW w, Sound(w), NEW id \in DOMAIN w.bodies
  PROVE  LET v == Reconcile(w, id)
         IN  Stirs(w, v) /\ (Shapely(w) => Shapely(v))
  <1> DEFINE v == Reconcile(w, id)
             b == w.bodies[id]
             kept == Survivors(w, id)
             gone == Bearing(w, id) \ kept
             clean == ReleaseAll(w, gone)
             slots == Restrict(w.mat, kept)
             gap == [source |-> id, at |-> Anchor(b), parts |-> {}]
             bare == [clean EXCEPT !.bodies = Without(@, {id}), !.broken = @ \cup {gap}]
  <1>1. w \in Worlds /\ Claimed(w) /\ Resident(w) /\ w.bodies \in BodySets
    BY WorldFacts DEF Sound
  <1>2. id \in Positive /\ id \in Nat /\ id # 0
    BY <1>1, RastersInWorld DEF Positive
  <1>3. \A p \in Raster(b) : Loaded(p)
    BY <1>1 DEF Resident
  <1>4. Bearing(w, id) = {p \in Cells : w.owner[p] = id}
    <2>1. {id} \in SUBSET DOMAIN w.bodies /\ id \in {id}
      OBVIOUS
    <2>. QED
      BY <2>1, BorneFacts
  <1>5. kept = {p \in Bearing(w, id) : Bondable(w.mat[p])}
    BY DEF Survivors
  <1>6. Bearing(w, id) \subseteq Raster(b)
    BY DEF Bearing
  <1>7. v = IF kept = {} THEN bare ELSE IF slots = b.slots THEN w ELSE Split(clean, id, slots)
    BY <1>3, Zenon DEF Reconcile
  <1> HIDE DEF v, kept
  <1>8. gone \in SUBSET Cells /\ \A p \in Cells : p \in gone <=> w.owner[p] = id /\ p \notin kept
    BY <1>4
  <1>g. \A p \in gone : w.mat[p] \notin Bonded
    BY <1>5 DEF Bonded
  <1> HIDE DEF gone
  <1>9. /\ clean \in Worlds /\ clean.bodies = w.bodies /\ clean.next = w.next
        /\ clean.broken = w.broken
        /\ \A q \in Cells :
             /\ clean.owner[q] = IF q \in gone THEN 0 ELSE w.owner[q]
             /\ q \notin gone /\ w.owner[q] # 0 => clean.mat[q] = w.mat[q]
    BY <1>1, <1>8, ReleaseAllFacts
  <1>10. Stirs(w, clean)
    BY <1>1, <1>8, <1>g, ReleaseAllStirs
  <1> HIDE DEF clean
  <1>11. CASE kept = {}
    <2> DEFINE f == Without(w.bodies, {id})  B == w.broken \cup {gap}
    <2>1. v = [clean EXCEPT !.bodies = f, !.broken = B]
      BY <1>7, <1>9, <1>11
    <2>2. f \in BodySets /\ DOMAIN f = DOMAIN w.bodies \ {id}
          /\ \A i \in DOMAIN w.bodies \ {id} : f[i] = w.bodies[i]
      BY <1>1, WithoutBodies
    <2> HIDE DEF f, B
    <2>3. clean = [mat |-> clean.mat, owner |-> clean.owner, bodies |-> clean.bodies,
                   next |-> clean.next, seeds |-> clean.seeds, parked |-> clean.parked,
                   broken |-> clean.broken]
      BY <1>9, WorldFacts
    <2>4. v.mat = clean.mat /\ v.owner = clean.owner /\ v.seeds = clean.seeds
          /\ v.parked = clean.parked /\ v.bodies = f
      BY <2>1, <2>3
    <2>5. \A p \in Cells : clean.owner[p] # 0 =>
            clean.owner[p] \in DOMAIN w.bodies \ {id}
      BY <1>1, <1>8, <1>9, <1>11 DEF Claimed
    <2>6. Stirs(clean, v)
      <3>1. \A p \in Cells : clean.owner[p] # 0 =>
              v.bodies[clean.owner[p]].policy = clean.bodies[clean.owner[p]].policy
        BY <1>9, <2>2, <2>4, <2>5
      <3>. QED
        BY <2>4, <3>1, StillStirs
    <2>7. Shapely(w) => Shapely(v)
      BY <2>2, <2>4 DEF Shapely
    <2>. QED
      BY <1>10, <2>6, <2>7, StirsCompose DEF v
  <1>12. CASE kept # {}
    <2>1. kept \in Rasters /\ kept \subseteq Raster(b)
          /\ \A p \in kept : p \in Cells /\ w.owner[p] = id /\ w.mat[p] \in Bonded
      BY <1>1, <1>4, <1>5, <1>6, <1>12, WorldFacts DEF Rasters, Bonded
    <2>2. slots \in [kept -> Bonded] /\ \A p \in kept : slots[p] = w.mat[p]
      BY <2>1 DEF Restrict
    <2> HIDE DEF slots
    <2>3. slots \in Shapes /\ DOMAIN slots = kept
      BY <2>1, <2>2, MakeShape
    <2>4. CASE slots = b.slots
      <3>1. v = w
        BY <1>7, <1>12, <2>4
      <3>2. Stirs(w, w)
        BY DEF Stirs
      <3>. QED
        BY <3>1, <3>2 DEF v
    <2>5. CASE slots # b.slots
      <3> DEFINE u == Split(clean, id, slots)
      <3>1. v = u
        BY <1>7, <1>12, <2>5
      <3>2. Sound(clean)
        <4>1. \A p \in Cells : clean.owner[p] = 0 \/ clean.owner[p] = w.owner[p]
          BY <1>9
        <4>. QED
          BY <1>9, <4>1, ClaimsStay
      <3>3. \A p \in kept : clean.owner[p] = id /\ clean.mat[p] = slots[p]
        BY <1>2, <1>8, <1>9, <2>1, <2>2 DEF Positive
      <3>4. \A p \in Cells \ kept : clean.owner[p] # id
        BY <1>2, <1>8, <1>9 DEF Positive
      <3> HIDE DEF u, b
      <3>5. id \in DOMAIN clean.bodies /\ DOMAIN slots \subseteq Raster(clean.bodies[id])
        BY <1>9, <2>1, <2>3 DEF b
      <3>6. /\ \A p \in DOMAIN slots : clean.owner[p] = id /\ clean.mat[p] = slots[p]
            /\ \A p \in Cells \ DOMAIN slots : clean.owner[p] # id
        BY <2>3, <3>3, <3>4
      <3>7. /\ Sound(u) /\ clean.next <= u.next /\ LeavesOthers(clean, u, id)
            /\ \E P : BreaksInto(clean, u, id, P)
            /\ Parted(clean, u, id, slots)
        BY <2>3, <3>2, <3>5, <3>6, SplitKeeps DEF u
      <3>8. Stirs(clean, u) /\ (Shapely(clean) => Shapely(u))
        BY <2>3, <3>2, <3>5, <3>6, <3>7, PartedStirs
      <3>9. Shapely(w) => Shapely(clean)
        BY <1>9 DEF Shapely
      <3>. QED
        BY <1>10, <3>1, <3>8, <3>9, StirsCompose DEF v
    <2>. QED
      BY <2>4, <2>5
  <1>. QED
    BY <1>11, <1>12

\* Every body against its cells.
LEMMA ReconcileAllStirs ==
  ASSUME NEW o, Sound(o)
  PROVE  Stirs(o, ReconcileAll(o)) /\ (Shapely(o) => Shapely(ReconcileAll(o)))
  <1> DEFINE N == o.next - 1
             pass(x, k) == IF k \in DOMAIN x.bodies THEN Reconcile(x, k) ELSE x
  <1>1. o \in Worlds /\ o.next \in Nat /\ N \in Nat
    BY WorldFacts DEF Sound, Positive
  <1>2. PICK g : /\ g[0] = o /\ ReconcileAll(o) = g[N]
                 /\ \A k \in 1..N : g[k] = pass(g[k - 1], k)
    BY ReconcileAllRuns
  <1> HIDE DEF N
  <1> DEFINE Good == {x \in Worlds : Sound(x) /\ Stirs(o, x) /\ (Shapely(o) => Shapely(x))}
  <1>3. g[0] \in Good
    <2>1. Stirs(o, o)
      BY DEF Stirs
    <2>. QED
      BY <1>1, <1>2, <2>1
  <1>4. ASSUME NEW k \in 1..N, g[k - 1] \in Good PROVE g[k] \in Good
    <2> DEFINE x == g[k - 1]
    <2>1. Sound(x) /\ Stirs(o, x) /\ (Shapely(o) => Shapely(x)) /\ g[k] = pass(x, k)
      BY <1>2, <1>4
    <2>2. CASE k \notin DOMAIN x.bodies
      BY <1>4, <2>1, <2>2
    <2>3. CASE k \in DOMAIN x.bodies
      <3> DEFINE v == Reconcile(x, k)
      <3>1. g[k] = v
        BY <2>1, <2>3
      <3> HIDE DEF x
      <3>2. Sound(v)
        BY <2>1, <2>3, ReconcileKeeps
      <3>3. Stirs(x, v) /\ (Shapely(x) => Shapely(v))
        BY <2>1, <2>3, ReconcileStirs
      <3> HIDE DEF v
      <3>4. Stirs(o, v)
        BY <2>1, <3>3, StirsCompose
      <3>. QED
        BY <2>1, <3>1, <3>2, <3>3, <3>4 DEF Sound
    <2>. QED
      BY <2>2, <2>3
  <1>5. g[N] \in Good
    <2> HIDE DEF Good, pass
    <2>1. \A k \in 0..N : g[k] \in Good
      BY <1>1, <1>3, <1>4, ValuesStay
    <2>. QED
      BY <1>1, <2>1
  <1>. QED
    BY <1>2, <1>5

\* A body that is freed from its chunk.
LEMMA UnparkedStirs ==
  ASSUME NEW w, Sound(w)
  PROVE  Stirs(w, Unparked(w)) /\ (Shapely(w) => Shapely(Unparked(w)))
  <1> DEFINE v == Unparked(w)
  <1>1. /\ Sound(v) /\ v.next = w.next /\ v.broken = w.broken
        /\ v.mat = w.mat /\ v.owner = w.owner /\ v.seeds = w.seeds /\ v.parked = w.parked
        /\ DOMAIN v.bodies = DOMAIN w.bodies
        /\ \A j \in DOMAIN w.bodies :
             /\ v.bodies[j].slots = w.bodies[j].slots
             /\ v.bodies[j].policy = w.bodies[j].policy
    BY UnparkedKeeps
  <1> HIDE DEF v
  <1>2. \A p \in Cells : w.owner[p] # 0 => w.owner[p] \in DOMAIN w.bodies
    BY DEF Sound, Claimed
  <1>3. Stirs(w, v)
    BY <1>1, <1>2, StillStirs
  <1>4. Shapely(w) => Shapely(v)
    BY <1>1 DEF Shapely, Solid, Raster
  <1>. QED
    BY <1>3, <1>4 DEF v
-----------------------------------------------------------------------------
(* What becomes of the seeds.                                              *)

\* Every seed is a candidate, and so is what is beside it.
LEMMA CandidatesAre ==
  ASSUME NEW S \in FiniteIn(Plane), NEW s \in S, NEW t, t = s \/ t \in Beside(s)
  PROVE  \E j \in 1..Tries(S) : Candidate(S, j) = t
  <1> DEFINE n == Cardinality(S)
             sides == <<<<1, 0>>, <<-1, 0>>, <<0, 1>>, <<0, -1>>>>
  <1>1. n \in Nat
    BY RanksAreAttained
  <1>2. PICK i \in 1..n : Sorted(S)[i] = s
    BY RanksAreAttained
  <1>3. Tries(S) = 5 * n
    BY DEF Tries
  <1> HIDE DEF n
  <1>4. ASSUME NEW e \in 0..4
        PROVE  LET j == 5 * (i - 1) + e + 1
               IN  /\ j \in 1..Tries(S) /\ (j - 1) \div 5 = i - 1 /\ (j - 1) % 5 = e
    <2> DEFINE a == i - 1  k == 5 * a + e
    <2>1. a \in Nat /\ a <= n - 1 /\ e \in Nat /\ e <= 4 /\ i = a + 1
      BY <1>1
    <2> HIDE DEF a
    <2>2. k \in Nat /\ k \div 5 = a /\ k % 5 = e /\ k < 5 * n
      BY <1>1, <2>1
    <2>3. 5 * (i - 1) + e + 1 = k + 1 /\ (k + 1) - 1 = k
      BY <2>1, <2>2
    <2> HIDE DEF k
    <2>4. k + 1 \in 1..(5 * n)
      BY <1>1, <2>2
    <2>. QED
      BY <1>3, <2>1, <2>2, <2>3, <2>4
  <1>5. \A j, e : (j - 1) \div 5 = i - 1 /\ (j - 1) % 5 = e =>
          Candidate(S, j) = IF e = 0 THEN Sorted(S)[1 + (i - 1)]
                            ELSE Shift(Sorted(S)[1 + (i - 1)], sides[e])
    BY DEF Candidate
  <1>6. 1 + (i - 1) = i
    OBVIOUS
  <1>7. CASE t = s
    <2>1. PICK e \in 0..4 : e = 0
      OBVIOUS
    <2>2. PICK j \in 1..Tries(S) : (j - 1) \div 5 = i - 1 /\ (j - 1) % 5 = e
      BY <1>4
    <2>3. Candidate(S, j) = t
      BY <1>2, <1>5, <1>6, <1>7, <2>1, <2>2
    <2>. QED
      BY <2>3
  <1>8. CASE t \in Beside(s)
    <2>1. PICK o \in Cardinals : t = Shift(s, o)
      BY <1>8 DEF Beside, At
    <2>2. \E e \in 1..4 : sides[e] = o
      BY DEF Cardinals
    <2>3. PICK e \in 1..4 : sides[e] = o
      BY <2>2
    <2> HIDE DEF sides
    <2>4. e \in 0..4 /\ e # 0
      OBVIOUS
    <2>5. PICK j \in 1..Tries(S) : (j - 1) \div 5 = i - 1 /\ (j - 1) % 5 = e
      BY <1>4, <2>4
    <2>6. Candidate(S, j) = t
      BY <1>2, <1>5, <1>6, <2>1, <2>3, <2>4, <2>5
    <2>. QED
      BY <2>6
  <1>. QED
    BY <1>7, <1>8

\* What hangs beside an island that becomes a body hung there before.
LEMMA TakeLeaves ==
  ASSUME NEW w, Sound(w), NEW p, Rigid(w, p), Detached(w, p)
  PROVE  LET v == Take(w, Island(w, p))
         IN  /\ Sound(v) /\ v.parked = w.parked /\ v.owner[p] # 0
             /\ \A m, T : Adrift(v, m, T) /\ Within(T, loaded) =>
                            Adrift(w, m, T) /\ Island(w, p) \cap T = {}
             /\ Shapely(w) => Shapely(v)
  <1> DEFINE S == Island(w, p)  v == Take(w, S)
             u == [Capture(w, w.next, S, "DEBRIS") EXCEPT !.next = @ + 1]
  <1>1. w \in Worlds /\ Claimed(w) /\ w.next \in Nat /\ w.next # 0
    BY WorldFacts DEF Sound, Positive
  <1>2. S \in Rasters /\ \A q \in S : Loaded(q) /\ w.owner[q] = 0 /\ w.mat[q] \in Bonded
    BY <1>1, IslandFacts
  <1>3. /\ S \in SUBSET Ground(w) /\ p \in S /\ \A q \in S : w.mat[q] = w.mat[p]
        /\ Component(S, Ground(w), GroundTouch(w)) /\ Joined(S)
    <2>1. Cardinality(S) <= MaxIsland
      BY DEF Detached
    <2>. QED
      BY <1>1, <2>1, IslandIsComponent
  <1> HIDE DEF S
  <1>4. v = u
    BY DEF Take
  <1>5. Captured(w, u, S, "DEBRIS") /\ Stamped(w, u, S, w.next)
    <2>1. "DEBRIS" \in Policies
      BY PolicyFacts
    <2>2. Captured(w, u, S, "DEBRIS")
      BY <1>2, <2>1, CaptureKeeps
    <2>3. Stamped(w, u, S, w.next)
      BY <1>1, <2>1, CaptureStamps
    <2>. QED
      BY <2>2, <2>3
  <1> HIDE DEF u, v
  <1>6. /\ Sound(v) /\ Whole(v, w.next)
        /\ DOMAIN v.bodies = DOMAIN w.bodies \cup {w.next}
        /\ v.bodies[w.next].policy = "DEBRIS" /\ Raster(v.bodies[w.next]) = S
        /\ \A j \in DOMAIN w.bodies : v.bodies[j] = w.bodies[j]
    BY <1>4, <1>5 DEF Captured
  <1>7. /\ v.mat = w.mat /\ v.parked = w.parked
        /\ \A q \in Cells : v.owner[q] = IF q \in S THEN w.next ELSE w.owner[q]
    BY <1>4, <1>5 DEF Stamped
  <1>8. S \subseteq Cells /\ p \in S
    BY <1>2, <1>3 DEF Rasters
  <1>9. ASSUME NEW m, NEW T, Adrift(v, m, T), Within(T, loaded)
        PROVE  Adrift(w, m, T) /\ S \cap T = {}
    <2>1. /\ T \in Rasters /\ m \in Bonded /\ Joined(T) /\ Cardinality(T) <= MaxIsland /\ Compact(T)
          /\ \A q \in T : Beside(q) \subseteq Cells /\ v.owner[q] = 0 /\ v.mat[q] = m
          /\ \A q \in Near(T) \ T : Slack(v, m, q)
      BY <1>9 DEF Adrift
    <2>2. T \subseteq Cells /\ Near(T) \subseteq Cells
          /\ \A q \in Near(T) \ T : \E t \in T : q \in Beside(t) /\ t \in Beside(q)
      BY <2>1, NearFacts DEF Rasters
    <2>3. \A q \in T : q \notin S /\ w.owner[q] = 0 /\ w.mat[q] = m
      BY <1>1, <1>7, <2>1, <2>2
    <2>4. \A q \in T : q \in Ground(w)
      BY <1>9, <2>1, <2>2, <2>3 DEF Ground, Rigid, Loaded, Within, Bonded
    <2>5. ASSUME NEW q \in Near(T) \ T PROVE Slack(w, m, q)
      <3>1. CASE q \in S
        <4>1. w.mat[q] = m
          <5>1. v.owner[q] = w.next /\ w.mat[q] # "air"
            BY <1>2, <1>7, <1>8, <3>1 DEF Bonded, Bondable
          <5>. QED
            BY <1>1, <1>6, <1>7, <2>1, <2>5, <5>1 DEF Slack
        <4>2. PICK t \in T : t \in Beside(q)
          BY <2>2, <2>5
        <4>3. q \in Ground(w) /\ t \in Ground(w) /\ w.mat[t] = w.mat[q]
          BY <1>3, <2>3, <2>4, <3>1, <4>1
        <4>4. t \in GroundTouch(w)[q]
          BY <1>1, <4>2, <4>3, GroundFacts
        <4>5. t \in S
          BY <1>3, <3>1, <4>4 DEF Component, Shut
        <4>. QED
          BY <2>3, <4>5
      <3>2. CASE q \notin S
        <4>1. v.owner[q] = w.owner[q] /\ v.mat[q] = w.mat[q] /\ q \in Cells
          BY <1>7, <2>2, <2>5, <3>2
        <4>2. w.owner[q] # 0 => v.bodies[w.owner[q]] = w.bodies[w.owner[q]]
          BY <1>1, <1>6, <4>1 DEF Claimed
        <4>3. Slack(v, m, q)
          BY <2>1, <2>5
        <4>. QED
          BY <4>1, <4>2, <4>3 DEF Slack
      <3>. QED
        BY <3>1, <3>2
    <2>6. Adrift(w, m, T)
      BY <2>1, <2>3, <2>5 DEF Adrift
    <2>. QED
      BY <2>3, <2>6
  <1>10. ASSUME Shapely(w), NEW j \in DOMAIN v.bodies PROVE Solid(v.bodies[j])
    <2>1. CASE j = w.next
      <3>1. \A q \in S : v.bodies[j].slots[q] = w.mat[p]
        BY <1>3, <1>6, <1>7, <2>1 DEF Whole
      <3>. QED
        BY <1>3, <1>6, <2>1, <3>1 DEF Solid
    <2>2. CASE j # w.next
      BY <1>6, <1>10, <2>2 DEF Shapely
    <2>. QED
      BY <2>1, <2>2
  <1>11. Shapely(w) => Shapely(v)
    BY <1>10 DEF Shapely
  <1>12. v.owner[p] # 0
    BY <1>1, <1>7, <1>8
  <1>. QED
    BY <1>6, <1>7, <1>9, <1>11, <1>12 DEF v, S

\* After k candidates: what hangs waits for a chunk, or for a candidate to come.
Pending(o, acc, k, T) ==
  /\ T \cap acc.scanned = {}
  /\ \E j \in 1..Tries(o.seeds) : k < j /\ Candidate(o.seeds, j) \in T
Minding(o, acc, k) ==
  \A m, T : Adrift(acc.w, m, T) /\ Within(T, loaded) =>
              Awaited(acc.w, T, loaded, simulated) \/ Pending(o, acc, k, T)

\* A candidate that leads elsewhere leaves what hangs to those that follow.
LEMMA PendingPasses ==
  ASSUME NEW o, NEW acc, NEW r, NEW T, NEW k \in 1..Tries(o.seeds), Tries(o.seeds) \in Nat,
         Pending(o, acc, k - 1, T), Candidate(o.seeds, k) \notin T, T \cap r.scanned = {}
  PROVE  Pending(o, r, k, T)
  <1>1. PICK j \in 1..Tries(o.seeds) : k - 1 < j /\ Candidate(o.seeds, j) \in T
    BY DEF Pending
  <1>2. j # k
    BY <1>1
  <1>3. k < j
    BY <1>1, <1>2
  <1>. QED
    BY <1>1, <1>3 DEF Pending

\* A chunk that keeps what hangs from moving is one that a seed can wait for.
LEMMA BlockedAwaits ==
  ASSUME NEW w, NEW T \in Rasters, NEW p \in T, Blockers(T) # {},
         <<First(Blockers(T)), p>> \in w.parked
  PROVE  Awaited(w, T, loaded, simulated)
  <1>1. Blockers(T) \in FiniteIn(Plane)
    BY BlockersInPlane
  <1>2. First(Blockers(T)) \in Blockers(T)
    BY <1>1, FirstIsThere
  <1> DEFINE c == First(Blockers(T))  e == <<c, p>>
  <1>3. c \in Around(T) /\ (RegionOf(c) \notin loaded \/ c \notin simulated)
    BY <1>2 DEF Blockers
  <1>4. e \in w.parked /\ e[1] = c /\ e[2] = p /\ p \in Near(T)
    BY DEF Near
  <1> HIDE DEF c, e
  <1>. QED
    BY <1>3, <1>4 DEF Awaited

\* No candidate loses what hangs.
LEMMA DetachAtMinds ==
  ASSUME NEW o, Tries(o.seeds) \in Nat, NEW k \in 1..Tries(o.seeds),
         NEW acc \in Scans, Sound(acc.w), Minding(o, acc, k - 1)
  PROVE  LET r == DetachAt(acc, Candidate(o.seeds, k))
         IN  Minding(o, r, k) /\ (Shapely(acc.w) => Shapely(r.w))
  <1> DEFINE w == acc.w  p == Candidate(o.seeds, k)  S == Island(w, p)  r == DetachAt(acc, p)
  <1>1. w \in Worlds /\ Sound(w) /\ acc = [w |-> w, scanned |-> acc.scanned]
    BY DEF Sound, Scans
  <1>2. Idle(acc, p, r) \/ Parks(acc, p, r) \/ Passes(acc, p, r) \/ Takes(acc, p, r)
          \/ Waits(acc, p, r)
    BY DetachAtIs
  <1>w. w = acc.w /\ p = Candidate(o.seeds, k)
    OBVIOUS
  <1>s. SUFFICES Minding(o, r, k) /\ (Shapely(w) => Shapely(r.w))
    OBVIOUS
  <1> HIDE DEF w, p, r
  <1>3. ASSUME NEW T, Pending(o, acc, k - 1, T), p \notin T, T \cap r.scanned = {}
        PROVE  Pending(o, r, k, T)
    BY <1>3, <1>w, PendingPasses
  <1>4. ASSUME NEW m, NEW T, Adrift(w, m, T), Within(T, loaded)
        PROVE  Awaited(w, T, loaded, simulated) \/ Pending(o, acc, k - 1, T)
    BY <1>4, <1>w DEF Minding
  <1>5. ASSUME NEW v, v.mat = w.mat, v.owner = w.owner, v.bodies = w.bodies,
               w.parked \subseteq v.parked
        PROVE  /\ \A m, T : Adrift(v, m, T) => Adrift(w, m, T)
               /\ \A T : Awaited(w, T, loaded, simulated) => Awaited(v, T, loaded, simulated)
               /\ Shapely(w) => Shapely(v)
    BY <1>5 DEF Adrift, Slack, Awaited, Shapely
  <1>6. CASE Idle(acc, p, r)
    <2>1. r = acc /\ r.w = w /\ (p \in acc.scanned \/ ~Rigid(w, p))
      BY <1>6, <1>w DEF Idle
    <2>2. ASSUME NEW m, NEW T, Adrift(w, m, T), Within(T, loaded),
                 Pending(o, acc, k - 1, T)
          PROVE  Pending(o, r, k, T)
      <3>1. T \cap acc.scanned = {}
        BY <2>2 DEF Pending
      <3>2. p \notin T
        BY <1>1, <2>1, <2>2, <3>1, AdriftIsIsland
      <3>. QED
        BY <1>3, <2>1, <2>2, <3>1, <3>2
    <2>3. Minding(o, r, k)
      BY <1>4, <2>1, <2>2 DEF Minding
    <2>. QED
      BY <2>1, <2>3
  <1>7. CASE Parks(acc, p, r)
    <2> DEFINE v == [w EXCEPT !.parked = @ \cup {<<ChunkOf(p), p>>}]
    <2>1. ~Loaded(p) /\ r = [w |-> v, scanned |-> acc.scanned]
      BY <1>7, <1>w DEF Parks
    <2>2. v.mat = w.mat /\ v.owner = w.owner /\ v.bodies = w.bodies /\ w.parked \subseteq v.parked
      BY <1>1, WorldFacts
    <2> HIDE DEF v
    <2>3. r.w = v /\ r.scanned = acc.scanned
      BY <2>1
    <2>4. /\ \A m, T : Adrift(v, m, T) => Adrift(w, m, T)
          /\ \A T : Awaited(w, T, loaded, simulated) => Awaited(v, T, loaded, simulated)
          /\ Shapely(w) => Shapely(v)
      BY <1>5, <2>2
    <2>5. ASSUME NEW m, NEW T, Adrift(w, m, T), Within(T, loaded),
                 Pending(o, acc, k - 1, T)
          PROVE  Pending(o, r, k, T)
      <3>1. T \cap acc.scanned = {}
        BY <2>5 DEF Pending
      <3>2. p \notin T
        BY <1>1, <2>1, <2>5, AdriftIsIsland DEF Rigid
      <3>. QED
        BY <1>3, <2>3, <2>5, <3>1, <3>2
    <2>6. Minding(o, r, k)
      BY <1>4, <2>3, <2>4, <2>5 DEF Minding
    <2>. QED
      BY <2>3, <2>4, <2>6
  <1>8. CASE Passes(acc, p, r)
    <2>1. /\ ~Detached(w, p) /\ Rigid(w, p)
          /\ r.w = w /\ r.scanned = acc.scanned \cup S
      BY <1>8, <1>w DEF Passes, Scanned
    <2>2. ASSUME NEW m, NEW T, Adrift(w, m, T), Within(T, loaded),
                 Pending(o, acc, k - 1, T)
          PROVE  Pending(o, r, k, T)
      <3>1. T \cap acc.scanned = {}
        BY <2>2 DEF Pending
      <3>2. p \notin T
        BY <1>1, <2>1, <2>2, AdriftIsIsland
      <3>3. S \cap T = {}
        BY <1>1, <2>1, <2>2, <3>2, AdriftIsApart
      <3> HIDE DEF S
      <3>. QED
        BY <1>3, <2>1, <2>2, <3>1, <3>2, <3>3
    <2>3. Minding(o, r, k)
      BY <1>4, <2>1, <2>2 DEF Minding
    <2>. QED
      BY <2>1, <2>3
  <1>9. CASE Takes(acc, p, r)
    <2> DEFINE v == Take(w, S)
    <2>1. /\ Detached(w, p) /\ Rigid(w, p)
          /\ r.w = v /\ r.scanned = acc.scanned \cup S
      BY <1>9, <1>w DEF Takes, Scanned
    <2>2. /\ v.parked = w.parked /\ v.owner[p] # 0
          /\ \A m, T : Adrift(v, m, T) /\ Within(T, loaded) =>
                         Adrift(w, m, T) /\ S \cap T = {}
          /\ Shapely(w) => Shapely(v)
      BY <1>1, <2>1, TakeLeaves
    <2> HIDE DEF v, S
    <2>3. ASSUME NEW m, NEW T, Adrift(v, m, T), Within(T, loaded)
          PROVE  Awaited(v, T, loaded, simulated) \/ Pending(o, r, k, T)
      <3>1. Adrift(w, m, T) /\ S \cap T = {}
        BY <2>2, <2>3
      <3>2. CASE Awaited(w, T, loaded, simulated)
        BY <2>2, <3>2 DEF Awaited
      <3>3. CASE Pending(o, acc, k - 1, T)
        <4>1. T \cap r.scanned = {}
          BY <2>1, <3>1, <3>3 DEF Pending
        <4>2. p \notin T
          BY <2>2, <2>3 DEF Adrift
        <4>. QED
          BY <1>3, <3>3, <4>1, <4>2
      <3>. QED
        BY <1>4, <2>3, <3>1, <3>2, <3>3
    <2>4. Minding(o, r, k)
      BY <2>1, <2>3 DEF Minding
    <2>. QED
      BY <2>1, <2>2, <2>4
  <1>10. CASE Waits(acc, p, r)
    <2> DEFINE e == <<First(Blockers(S)), p>>  v == [w EXCEPT !.parked = @ \cup {e}]
    <2>1. /\ Detached(w, p) /\ Rigid(w, p) /\ Blockers(S) # {}
          /\ r.w = v /\ r.scanned = acc.scanned \cup S
      BY <1>10, <1>w DEF Waits, Scanned
    <2>2. v.mat = w.mat /\ v.owner = w.owner /\ v.bodies = w.bodies /\ w.parked \subseteq v.parked
          /\ e \in v.parked
      BY <1>1, WorldFacts
    <2> HIDE DEF v
    <2>3. /\ \A m, T : Adrift(v, m, T) => Adrift(w, m, T)
          /\ \A T : Awaited(w, T, loaded, simulated) => Awaited(v, T, loaded, simulated)
          /\ Shapely(w) => Shapely(v)
      BY <1>5, <2>2
    <2>4. ASSUME NEW m, NEW T, Adrift(w, m, T), Within(T, loaded)
          PROVE  Awaited(v, T, loaded, simulated) \/ Pending(o, r, k, T)
      <3>1. CASE Awaited(w, T, loaded, simulated)
        BY <2>3, <3>1
      <3>2. CASE p \in T
        <4>1. S = T
          BY <1>1, <2>4, <3>2, AdriftIsIsland
        <4>2. T \in Rasters
          BY <2>4 DEF Adrift
        <4>3. <<First(Blockers(T)), p>> \in v.parked /\ Blockers(T) # {}
          BY <2>1, <2>2, <4>1
        <4>. QED
          BY <3>2, <4>2, <4>3, BlockedAwaits
      <3>3. CASE p \notin T /\ Pending(o, acc, k - 1, T)
        <4>1. S \cap T = {}
          BY <1>1, <2>1, <2>4, <3>3, AdriftIsApart
        <4>2. T \cap r.scanned = {}
          BY <2>1, <3>3, <4>1 DEF Pending
        <4>. QED
          BY <1>3, <3>3, <4>2
      <3>. QED
        BY <1>4, <2>4, <3>1, <3>2, <3>3
    <2> HIDE DEF e
    <2>5. Minding(o, r, k)
      BY <2>1, <2>3, <2>4 DEF Minding
    <2>. QED
      BY <2>1, <2>3, <2>5
  <1>. QED
    BY <1>2, <1>6, <1>7, <1>8, <1>9, <1>10

\* So what the seeds of a tick lead to moves, or waits for a chunk.
LEMMA DetachKeepsWatch ==
  ASSUME NEW o, Sound(o), \A j \in DOMAIN o.bodies : Whole(o, j), Shapely(o),
         Watched(o, loaded, simulated)
  PROVE  Watched(Detach(o), loaded, simulated) /\ Shapely(Detach(o))
  <1> DEFINE N == Tries(o.seeds)
  <1>1. N \in Nat /\ o \in Worlds /\ o.seeds \in FiniteIn(Plane)
    BY DetachRuns, WorldFacts DEF Sound
  <1>2. PICK g : Detaching(o, g)
    BY DetachRuns
  <1>3. /\ g[0] = [w |-> [o EXCEPT !.seeds = {}], scanned |-> {}]
        /\ Detach(o) = g[N].w
        /\ \A k \in 1..N : g[k] = DetachAt(g[k - 1], Candidate(o.seeds, k))
        /\ \A k \in 0..N : g[k] \in Scans /\ Sound(g[k].w)
    BY <1>2 DEF Detaching, Grown
  <1> HIDE DEF N
  <1> DEFINE Good == {k \in 0..N : Minding(o, g[k], k) /\ Shapely(g[k].w)}
  <1>4. 0 \in Good
    <2> DEFINE v == [o EXCEPT !.seeds = {}]
    <2>1. v.mat = o.mat /\ v.owner = o.owner /\ v.bodies = o.bodies /\ v.parked = o.parked
      BY <1>1, WorldFacts
    <2> HIDE DEF v
    <2>2. g[0].w = v /\ g[0].scanned = {}
      BY <1>3 DEF v
    <2>3. ASSUME NEW m, NEW T, Adrift(v, m, T), Within(T, loaded)
          PROVE  Awaited(v, T, loaded, simulated) \/ Pending(o, g[0], 0, T)
      <3>1. Adrift(o, m, T)
        BY <2>1, <2>3 DEF Adrift, Slack
      <3>2. T \in Rasters /\ m \in Bonded /\ \A p \in T : Beside(p) \subseteq Cells
        BY <3>1 DEF Adrift
      <3>3. CASE Awaited(o, T, loaded, simulated)
        BY <2>1, <3>3 DEF Awaited
      <3>4. CASE Seeded(o, T)
        <4>1. PICK s \in o.seeds : s \in Near(T)
          BY <3>4 DEF Seeded
        <4>2. \E t \in T : t = s \/ t \in Beside(s)
          BY <3>2, <4>1, NearFacts
        <4>3. PICK t \in T : t = s \/ t \in Beside(s)
          BY <4>2
        <4>4. PICK j \in 1..N : Candidate(o.seeds, j) = t
          BY <1>1, <4>3, CandidatesAre DEF N
        <4>5. 0 < j
          OBVIOUS
        <4>. QED
          BY <2>2, <4>3, <4>4, <4>5 DEF Pending, N
      <3>. QED
        BY <2>3, <3>1, <3>2, <3>3, <3>4 DEF Watched, Heeded
    <2>4. Minding(o, g[0], 0)
      BY <2>2, <2>3 DEF Minding
    <2>5. Shapely(v)
      BY <2>1 DEF Shapely
    <2>. QED
      BY <1>1, <2>2, <2>4, <2>5
  <1>5. ASSUME NEW k \in 0..(N - 1), k \in Good PROVE k + 1 \in Good
    <2>1. k + 1 \in 1..N /\ (k + 1) - 1 = k /\ k \in 0..N /\ k + 1 \in 0..N
      BY <1>1
    <2> DEFINE l == k + 1
    <2>2. l \in 1..N /\ l - 1 = k /\ l \in 0..N
      BY <2>1
    <2> HIDE DEF l
    <2>3. g[l] = DetachAt(g[l - 1], Candidate(o.seeds, l))
      BY <1>3, <2>2
    <2>4. g[l - 1] \in Scans /\ Sound(g[l - 1].w) /\ Minding(o, g[l - 1], l - 1)
          /\ Shapely(g[l - 1].w)
      BY <1>3, <1>5, <2>1, <2>2
    <2>5. Minding(o, g[l], l) /\ Shapely(g[l].w)
      BY <1>1, <2>2, <2>3, <2>4, DetachAtMinds DEF N
    <2>. QED
      BY <2>2, <2>5 DEF l
  <1>6. N \in Good
    <2> HIDE DEF Good
    <2>1. 0..N \subseteq Good
      BY <1>1, <1>4, <1>5, BoundedInduction
    <2>2. N \in 0..N
      BY <1>1
    <2>. QED
      BY <2>1, <2>2
  <1>7. Minding(o, g[N], N) /\ Shapely(g[N].w)
    BY <1>6
  <1>8. \A T : ~Pending(o, g[N], N, T)
    BY <1>1 DEF Pending, N
  <1>9. Watched(g[N].w, loaded, simulated)
    BY <1>7, <1>8 DEF Watched, Heeded, Minding
  <1>. QED
    BY <1>3, <1>7, <1>9
-----------------------------------------------------------------------------
(* Bodies that become terrain.                                             *)

\* What physics has not reconciled yet is stirred.
Bruised(w) ==
  \A id \in DOMAIN w.bodies : \A p \in Raster(w.bodies[id]) :
    (w.owner[p] = id /\ w.mat[p] = w.bodies[id].slots[p]) \/ p \in w.seeds

\* What settling changes.
LEMMA SettleFields ==
  ASSUME NEW w, Sound(w), NEW ids \in SUBSET DOMAIN w.bodies
  PROVE  LET v == Settle(w, ids)
         IN  /\ v.mat = w.mat /\ v.seeds = w.seeds /\ v.parked = w.parked
             /\ \A p \in Cells : v.owner[p] = IF w.owner[p] \in ids THEN 0 ELSE w.owner[p]
             /\ \A j \in DOMAIN w.bodies \ ids : v.bodies[j] = w.bodies[j]
             /\ \A m, p : p \in Cells /\ Slack(v, m, p) =>
                  Slack(w, m, p) /\ (w.mat[p] = "air" \/ w.owner[p] \notin ids)
  <1> DEFINE v == Settle(w, ids)  S == Borne(w, ids)  f == Without(w.bodies, ids)
  <1>1. w \in Worlds /\ Claimed(w) /\ 0 \notin ids
    BY WorldFacts DEF Sound, Positive
  <1>2. f \in BodySets /\ \A i \in DOMAIN w.bodies \ ids : f[i] = w.bodies[i]
    BY <1>1, WorldFacts, WithoutBodies
  <1>3. v = [Stamp(w, S, 0) EXCEPT !.bodies = f]
    <2>1. Stamp(w, S, 0).bodies = w.bodies
      BY <1>1, StampFacts
    <2>. QED
      BY <2>1 DEF Settle
  <1>4. S = {p \in Cells : w.owner[p] \in ids}
    BY BorneFacts
  <1> HIDE DEF f, S, v
  <1>5. /\ Stamp(w, S, 0) \in Worlds /\ Stamp(w, S, 0).mat = w.mat
        /\ Stamp(w, S, 0).seeds = w.seeds /\ Stamp(w, S, 0).parked = w.parked
        /\ \A p \in Cells : Stamp(w, S, 0).owner[p] = IF p \in S THEN 0 ELSE w.owner[p]
    BY <1>1, StampFacts
  <1>6. /\ v.bodies = f /\ v.mat = w.mat /\ v.seeds = w.seeds /\ v.parked = w.parked
        /\ v.owner = Stamp(w, S, 0).owner
    BY <1>2, <1>3, <1>5, BodiesField
  <1>7. \A p \in Cells : v.owner[p] = IF w.owner[p] \in ids THEN 0 ELSE w.owner[p]
    BY <1>4, <1>5, <1>6
  <1>8. ASSUME NEW m, NEW p \in Cells, Slack(v, m, p)
        PROVE  Slack(w, m, p) /\ (w.mat[p] = "air" \/ w.owner[p] \notin ids)
    <2>1. w.owner[p] # 0 /\ w.owner[p] \notin ids => v.bodies[w.owner[p]] = w.bodies[w.owner[p]]
      BY <1>1, <1>2, <1>6 DEF Claimed
    <2>. QED
      BY <1>6, <1>7, <1>8, <2>1 DEF Slack
  <1>. QED
    BY <1>2, <1>6, <1>7, <1>8 DEF v

\* What hangs and holds nothing of what has settled hung before.
LEMMA SettledIsElsewhere ==
  ASSUME NEW w, Sound(w), NEW ids \in SUBSET DOMAIN w.bodies,
         NEW m, NEW T, Adrift(Settle(w, ids), m, T), \A p \in T : w.owner[p] \notin ids
  PROVE  Adrift(w, m, T)
  <1> DEFINE v == Settle(w, ids)
  <1>1. /\ v.mat = w.mat
        /\ \A p \in Cells : v.owner[p] = IF w.owner[p] \in ids THEN 0 ELSE w.owner[p]
        /\ \A k, p : p \in Cells /\ Slack(v, k, p) =>
             Slack(w, k, p) /\ (w.mat[p] = "air" \/ w.owner[p] \notin ids)
    BY SettleFields
  <1> HIDE DEF v
  <1>2. /\ T \in Rasters /\ m \in Bonded /\ Joined(T) /\ Cardinality(T) <= MaxIsland /\ Compact(T)
        /\ \A p \in T : Beside(p) \subseteq Cells /\ v.owner[p] = 0 /\ v.mat[p] = m
        /\ \A q \in Near(T) \ T : Slack(v, m, q)
    BY DEF Adrift, v
  <1>3. T \subseteq Cells /\ Near(T) \subseteq Cells
    BY <1>2, NearFacts DEF Rasters
  <1>. QED
    BY <1>1, <1>2, <1>3 DEF Adrift

\* What hangs and holds a cell of a body that has settled holds all of it,
\* unless a cell where the body was bruised leads there.
LEMMA SettledIsHeld ==
  ASSUME NEW w, Sound(w), Shapely(w), Bruised(w), NEW ids \in SUBSET DOMAIN w.bodies,
         NEW m, NEW T, Adrift(Settle(w, ids), m, T), NEW id \in ids,
         NEW p \in T, w.owner[p] = id
  PROVE  Seeded(w, T) \/ Raster(w.bodies[id]) \subseteq T
  <1> DEFINE v == Settle(w, ids)  b == w.bodies[id]  R == Raster(b)  X == R \cap T
  <1>1. /\ v.mat = w.mat
        /\ \A k, q : q \in Cells /\ Slack(v, k, q) =>
             Slack(w, k, q) /\ (w.mat[q] = "air" \/ w.owner[q] \notin ids)
    BY SettleFields
  <1> HIDE DEF v
  <1>2. /\ T \in Rasters /\ m \in Bonded
        /\ \A q \in T : Beside(q) \subseteq Cells /\ v.mat[q] = m
        /\ \A q \in Near(T) \ T : Slack(v, m, q)
    BY DEF Adrift, v
  <1>3. T \subseteq Cells /\ Near(T) \subseteq Cells /\ T \subseteq Near(T)
        /\ \A q \in T : Beside(q) \subseteq Near(T)
    BY <1>2, NearFacts DEF Rasters
  <1>4. Joined(R) /\ \A x, y \in R : b.slots[x] = b.slots[y]
    BY DEF Shapely, Solid
  <1>5. \A x \in R : (w.owner[x] = id /\ w.mat[x] = b.slots[x]) \/ x \in w.seeds
    BY DEF Bruised
  <1>6. p \in X
    <2>1. w \in Worlds /\ Claimed(w) /\ id # 0
      BY WorldFacts DEF Sound, Positive
    <2>. QED
      BY <1>3, <2>1 DEF Claimed
  <1>7. ASSUME X # R, ~Seeded(w, T) PROVE FALSE
    <2>1. \E x \in X, y \in R \ X : y \in Beside(x)
      <3>1. X \in SUBSET R /\ X # {} /\ X # R
        BY <1>6, <1>7
      <3> HIDE DEF X, R
      <3>. QED
        BY <1>4, <3>1 DEF Joined
    <2>6. PICK x \in X, y \in R \ X : y \in Beside(x)
      BY <2>1
    <2>2. y \in Near(T) \ T /\ y \in Cells /\ x \in Near(T)
      BY <1>3, <2>6
    <2>3. x \notin w.seeds /\ y \notin w.seeds
      BY <1>7, <2>2 DEF Seeded
    <2>4. w.mat[x] = b.slots[x] /\ w.owner[y] = id /\ w.mat[y] = b.slots[y]
          /\ b.slots[x] = b.slots[y] /\ w.mat[x] = m
      BY <1>1, <1>2, <1>4, <1>5, <2>6, <2>3
    <2>5. w.mat[y] # "air"
      BY <1>2, <2>4 DEF Bonded, Bondable
    <2>. QED
      BY <1>1, <1>2, <2>2, <2>4, <2>5
  <1>8. X = R => R \subseteq T
    OBVIOUS
  <1>. QED
    BY <1>7, <1>8 DEF R, b

\* Bodies of a region that goes take all that hangs on them along.
LEMMA CrossingKeepsWatch ==
  ASSUME NEW w, Sound(w), Shapely(w), Bruised(w), NEW expired, NEW L, NEW C,
         Watched(w, L, C)
  PROVE  LET v == Settle(w, Crossing(w, expired))
         IN  Watched(v, L \ expired, C) /\ Shapely(v)
  <1> DEFINE ids == Crossing(w, expired)  v == Settle(w, ids)
  <1>1. /\ ids \in SUBSET DOMAIN w.bodies
        /\ \A id \in ids : \E p \in Raster(w.bodies[id]) : Home(p) \in expired
    BY DEF Crossing
  <1> HIDE DEF ids
  <1>2. v.seeds = w.seeds /\ v.parked = w.parked
    BY <1>1, SettleFields
  <1>3. ASSUME NEW m, NEW T, Adrift(v, m, T), Within(T, L \ expired)
        PROVE  Heeded(v, T, L \ expired, C)
    <2>1. CASE \A p \in T : w.owner[p] \notin ids
      <3>1. Adrift(w, m, T)
        BY <1>1, <1>3, <2>1, SettledIsElsewhere
      <3>2. Within(T, L) /\ m \in Bonded /\ T \in Rasters
        BY <1>3, <3>1 DEF Within, Adrift
      <3>3. Heeded(w, T, L, C)
        BY <3>1, <3>2 DEF Watched
      <3> HIDE DEF v
      <3>. QED
        BY <1>2, <3>3 DEF Heeded, Seeded, Awaited
    <2>2. CASE \E p \in T : w.owner[p] \in ids
      <3>1. PICK p \in T : w.owner[p] \in ids
        BY <2>2
      <3>2. PICK id \in ids : w.owner[p] = id
        BY <3>1
      <3>3. Seeded(w, T) \/ Raster(w.bodies[id]) \subseteq T
        BY <1>1, <1>3, <3>2, SettledIsHeld
      <3>4. ~(Raster(w.bodies[id]) \subseteq T)
        BY <1>1, <1>3 DEF Within
      <3> HIDE DEF v
      <3>. QED
        BY <1>2, <3>3, <3>4 DEF Heeded, Seeded
    <2>. QED
      BY <2>1, <2>2
  <1>4. Shapely(v)
    <2>1. \A j \in DOMAIN v.bodies : j \in DOMAIN w.bodies /\ v.bodies[j] = w.bodies[j]
      <3>1. /\ Sound(v)
            /\ v.next = w.next /\ v.broken = w.broken
            /\ DOMAIN v.bodies = DOMAIN w.bodies \ ids
            /\ \A id \in DOMAIN v.bodies :
                 v.bodies[id] = w.bodies[id] /\ (Whole(w, id) => Whole(v, id))
        BY <1>1, SettleKeeps
      <3>. QED
        BY <3>1
    <2>. QED
      BY <2>1 DEF Shapely
  <1>5. Watched(v, L \ expired, C)
    BY <1>3 DEF Watched
  <1>. QED
    BY <1>4, <1>5 DEF v, ids

\* The chunks around what is larger are more.
LEMMA AroundGrows ==
  ASSUME NEW S \in Rasters, NEW T \in Rasters, S \subseteq T
  PROVE  Around(S) \subseteq Around(T)
  <1>1. ChunkSize \in Positive /\ <<-1, -1>> \in Plane /\ <<1, 1>> \in Plane
    BY SizeAssumption DEF Positive, Plane
  <1>2. \A i \in {1, 2} : MinCorner(T)[i] <= MinCorner(S)[i] /\ MaxCorner(S)[i] <= MaxCorner(T)[i]
    <2>1. /\ \A p \in T : /\ MinCorner(T)[1] <= p[1] /\ MinCorner(T)[2] <= p[2]
                          /\ p[1] <= MaxCorner(T)[1] /\ p[2] <= MaxCorner(T)[2]
          /\ (\E p \in S : MinCorner(S)[1] = p[1]) /\ (\E p \in S : MinCorner(S)[2] = p[2])
          /\ (\E p \in S : MaxCorner(S)[1] = p[1]) /\ (\E p \in S : MaxCorner(S)[2] = p[2])
      BY CornersInPlane
    <2>2. \A p \in S : p \in T
      OBVIOUS
    <2>. QED
      BY <2>1, <2>2
  <1>3. ASSUME NEW p \in Plane, NEW q \in Plane, NEW o \in Plane, p[1] <= q[1], p[2] <= q[2]
        PROVE  /\ ChunkOf(Shift(p, o))[1] <= ChunkOf(Shift(q, o))[1]
               /\ ChunkOf(Shift(p, o))[2] <= ChunkOf(Shift(q, o))[2]
               /\ ChunkOf(Shift(p, o)) \in Plane
    <2>1. PICK x \in Plane, y \in Plane : x = Shift(p, o) /\ y = Shift(q, o)
      BY PlaneShift
    <2>2. x[1] = p[1] + o[1] /\ x[2] = p[2] + o[2] /\ y[1] = q[1] + o[1] /\ y[2] = q[2] + o[2]
      BY <2>1, PlaneShift
    <2>3. x[1] \in Int /\ x[2] \in Int /\ y[1] \in Int /\ y[2] \in Int
          /\ p[1] \in Int /\ p[2] \in Int /\ q[1] \in Int /\ q[2] \in Int
          /\ o[1] \in Int /\ o[2] \in Int
      BY PointsArePairs
    <2>4. x[1] <= y[1] /\ x[2] <= y[2]
      BY <1>3, <2>2, <2>3
    <2>5. x[1] \div ChunkSize <= y[1] \div ChunkSize /\ x[2] \div ChunkSize <= y[2] \div ChunkSize
      BY <1>1, <2>3, <2>4, QuotientsAscend
    <2>6. ChunkOf(x) \in Plane
      BY ChunksAreInPlane
    <2>. QED
      BY <2>1, <2>5, <2>6 DEF ChunkOf
  <1> DEFINE a == ChunkOf(Shift(MinCorner(S), <<-1, -1>>))
             b == ChunkOf(Shift(MaxCorner(S), <<1, 1>>))
             c == ChunkOf(Shift(MinCorner(T), <<-1, -1>>))
             d == ChunkOf(Shift(MaxCorner(T), <<1, 1>>))
  <1>4. MinCorner(S) \in Plane /\ MaxCorner(S) \in Plane /\ MinCorner(T) \in Plane
        /\ MaxCorner(T) \in Plane
    BY CornersInPlane
  <1>5. c[1] <= a[1] /\ c[2] <= a[2] /\ c \in Plane
    BY <1>1, <1>2, <1>3, <1>4
  <1>6. b[1] <= d[1] /\ b[2] <= d[2] /\ b \in Plane
    BY <1>1, <1>2, <1>3, <1>4
  <1>7. a \in Plane /\ d \in Plane
    BY <1>1, <1>4, PlaneShift, ChunksAreInPlane
  <1>8. /\ Around(S) = (a[1]..b[1]) \X (a[2]..b[2])
        /\ Around(T) = (c[1]..d[1]) \X (c[2]..d[2])
    BY DEF Around
  <1> HIDE DEF a, b, c, d
  <1>9. a[1] \in Int /\ a[2] \in Int /\ b[1] \in Int /\ b[2] \in Int
        /\ c[1] \in Int /\ c[2] \in Int /\ d[1] \in Int /\ d[2] \in Int
    BY <1>5, <1>6, <1>7, PointsArePairs
  <1>10. a[1]..b[1] \subseteq c[1]..d[1] /\ a[2]..b[2] \subseteq c[2]..d[2]
    BY <1>5, <1>6, <1>9
  <1>. QED
    BY <1>8, <1>10

\* The terrain in what hangs hangs by itself, but for bodies of its material.
LEMMA GroundIsAdrift ==
  ASSUME NEW w, NEW v, w \in Worlds, v.mat = w.mat,
         \A p \in Cells : w.owner[p] = 0 => v.owner[p] = 0,
         \A k, p : p \in Cells /\ Slack(v, k, p) => Slack(w, k, p),
         NEW m, NEW T, Adrift(v, m, T), Within(T, loaded), NEW p \in T, w.owner[p] = 0
  PROVE  \E S : S \subseteq T /\ S \in Rasters /\ Adrift(w, m, S)
  <1> DEFINE S == Island(w, p)  D == Ground(w)  t == GroundTouch(w)  X == T \cap D
  <1>1. /\ T \in Rasters /\ m \in Bonded /\ Cardinality(T) <= MaxIsland /\ Compact(T)
        /\ \A q \in T : Beside(q) \subseteq Cells /\ v.mat[q] = m
        /\ \A q \in Near(T) \ T : Slack(v, m, q)
    BY DEF Adrift
  <1>2. T \subseteq Cells /\ Near(T) \subseteq Cells /\ \A q \in T : Beside(q) \subseteq Near(T)
    BY <1>1, NearFacts DEF Rasters
  <1>3. \A q \in T : w.owner[q] = 0 => Rigid(w, q)
    BY <1>1, <1>2 DEF Rigid, Loaded, Within, Bonded
  <1>4. Rigid(w, p) /\ p \in X /\ X \in SUBSET D
    BY <1>3, GroundFacts
  <1>5. Shut(X, t)
    <2>1. ASSUME NEW q \in X, NEW r \in t[q], r \notin X PROVE FALSE
      <3>1. q \in D /\ r \in D
        BY <2>1, GroundFacts
      <3>2. r \in Beside(q) /\ w.mat[q] = w.mat[r]
        BY <2>1, <3>1, GroundFacts
      <3>3. r \in Near(T) \ T /\ r \in Cells /\ w.owner[r] = 0
        BY <1>2, <2>1, <3>1, <3>2 DEF Ground, Rigid
      <3>4. Slack(v, m, r) /\ v.owner[r] = 0 /\ v.mat[r] = m
        BY <1>1, <2>1, <3>2, <3>3
      <3>. QED
        BY <1>1, <3>4 DEF Slack, Bonded, Bondable
    <2>. QED
      BY <2>1 DEF Shut
  <1>6. S \subseteq X /\ p \in S
    <2> HIDE DEF X
    <2>. QED
      BY <1>4, <1>5, IslandIsComponent
  <1>7. S \subseteq T /\ Compact(S)
    BY <1>1, <1>6 DEF Compact
  <1>8. S \in Rasters /\ \A q \in S : Loaded(q) /\ w.owner[q] = 0 /\ w.mat[q] \in Bonded
    BY <1>4, IslandFacts
  <1>9. Cardinality(S) <= MaxIsland
    <2>1. IsFiniteSet(T) /\ Cardinality(T) \in Nat /\ MaxIsland \in Nat
      BY <1>2, CellsAreFinite, FS_CardinalityType, SizeAssumption
    <2>2. Cardinality(S) <= Cardinality(T) /\ Cardinality(S) \in Nat
      BY <1>7, <2>1, FS_Subset, FS_CardinalityType
    <2>. QED
      BY <1>1, <2>1, <2>2
  <1>10. Component(S, D, t) /\ Joined(S)
    BY <1>4, <1>9, IslandIsComponent
  <1> HIDE DEF S
  <1>11. \A q \in S : Beside(q) \subseteq Cells /\ w.owner[q] = 0 /\ w.mat[q] = m
    BY <1>1, <1>7, <1>8
  <1>12. ASSUME NEW q \in Near(S) \ S PROVE Slack(w, m, q)
    <2>1. PICK x \in S : q \in Beside(x)
      BY <1>12 DEF Near
    <2>2. q \in Near(T) /\ q \in Cells
      BY <1>2, <1>7, <2>1
    <2>3. CASE q \in T /\ w.owner[q] = 0
      <3>1. q \in D /\ x \in D /\ w.mat[q] = w.mat[x]
        BY <1>1, <1>3, <1>7, <1>11, <2>1, <2>3, GroundFacts
      <3>2. q \in t[x]
        BY <2>1, <3>1, GroundFacts
      <3>. QED
        BY <1>10, <1>12, <2>1, <3>2 DEF Component, Shut
    <2>4. CASE q \in T /\ w.owner[q] # 0
      BY <1>1, <2>4 DEF Slack
    <2>5. CASE q \notin T
      BY <1>1, <2>2, <2>5
    <2>. QED
      BY <2>3, <2>4, <2>5
  <1>13. Adrift(w, m, S)
    BY <1>1, <1>7, <1>8, <1>9, <1>10, <1>11, <1>12 DEF Adrift
  <1>. QED
    BY <1>7, <1>8, <1>13

Stands(w, id) ==
  \E p \in Raster(w.bodies[id]) : \E q \in Beside(p) : w.owner[q] = 0 /\ w.mat[q] # "air"

\* What hangs with a body that settled on terrain hung before, with less.
LEMMA StandingKeepsWatch ==
  ASSUME NEW w, Sound(w), Shapely(w), Bruised(w), NEW ids \in SUBSET DOMAIN w.bodies,
         \A id \in ids : Stands(w, id), Watched(w, loaded, simulated)
  PROVE  LET v == Settle(w, ids)
         IN  Watched(v, loaded, simulated) /\ Shapely(v)
  <1> DEFINE v == Settle(w, ids)
  <1>1. /\ v.mat = w.mat /\ v.seeds = w.seeds /\ v.parked = w.parked
        /\ \A p \in Cells : v.owner[p] = IF w.owner[p] \in ids THEN 0 ELSE w.owner[p]
        /\ \A k, p : p \in Cells /\ Slack(v, k, p) =>
             Slack(w, k, p) /\ (w.mat[p] = "air" \/ w.owner[p] \notin ids)
    BY SettleFields
  <1>2. w \in Worlds /\ \A p \in Cells : w.owner[p] = 0 => v.owner[p] = 0
    BY <1>1 DEF Sound
  <1>3. ASSUME NEW m, NEW T, Adrift(v, m, T), Within(T, loaded)
        PROVE  Heeded(v, T, loaded, simulated)
    <2>1. /\ T \in Rasters /\ m \in Bonded
          /\ \A q \in T : Beside(q) \subseteq Cells /\ v.mat[q] = m
          /\ \A q \in Near(T) \ T : Slack(v, m, q)
      BY <1>3 DEF Adrift
    <2>2. T \subseteq Cells /\ Near(T) \subseteq Cells /\ \A q \in T : Beside(q) \subseteq Near(T)
      BY <2>1, NearFacts DEF Rasters
    <2>3. CASE \A p \in T : w.owner[p] \notin ids
      <3>1. Adrift(w, m, T)
        BY <1>3, <2>3, SettledIsElsewhere
      <3>2. Heeded(w, T, loaded, simulated)
        BY <1>3, <2>1, <3>1 DEF Watched
      <3> HIDE DEF v
      <3>. QED
        BY <1>1, <3>2 DEF Heeded, Seeded, Awaited
    <2>4. CASE \E p \in T : w.owner[p] \in ids
      <3>1. PICK p \in T : w.owner[p] \in ids
        BY <2>4
      <3>2. PICK id \in ids : w.owner[p] = id
        BY <3>1
      <3>3. Seeded(w, T) \/ Raster(w.bodies[id]) \subseteq T
        BY <1>3, <3>2, SettledIsHeld
      <3>4. CASE Raster(w.bodies[id]) \subseteq T
        <4>1. PICK x \in Raster(w.bodies[id]) : \E q \in Beside(x) : w.owner[q] = 0 /\ w.mat[q] # "air"
          BY DEF Stands
        <4>2. PICK q \in Beside(x) : w.owner[q] = 0 /\ w.mat[q] # "air"
          BY <4>1
        <4> HIDE DEF v
        <4>3. q \in Near(T) /\ q \in Cells
          BY <2>2, <3>4
        <4>4. q \in T
          <5>1. SUFFICES ASSUME q \notin T PROVE FALSE
            OBVIOUS
          <5>2. Slack(v, m, q) /\ v.owner[q] = 0 /\ v.mat[q] # "air"
            BY <1>1, <1>2, <2>1, <4>2, <4>3, <5>1
          <5>. QED
            BY <5>2 DEF Slack
        <4>5. \E S : S \subseteq T /\ S \in Rasters /\ Adrift(w, m, S)
          BY <1>1, <1>2, <1>3, <4>2, <4>4, GroundIsAdrift
        <4>6. PICK S : S \subseteq T /\ S \in Rasters /\ Adrift(w, m, S)
          BY <4>5
        <4>7. Within(S, loaded)
          BY <1>3, <4>6 DEF Within
        <4>8. Heeded(w, S, loaded, simulated)
          BY <2>1, <4>6, <4>7 DEF Watched
        <4>9. Near(S) \subseteq Near(T)
          BY <4>6 DEF Near
        <4>10. Around(S) \subseteq Around(T)
          BY <2>1, <4>6, AroundGrows
        <4>. QED
          BY <1>1, <4>8, <4>9, <4>10 DEF Heeded, Seeded, Awaited
      <3> HIDE DEF v
      <3>. QED
        BY <1>1, <3>3, <3>4 DEF Heeded, Seeded
    <2>. QED
      BY <2>3, <2>4
  <1>4. Shapely(v)
    <2>1. \A j \in DOMAIN v.bodies : j \in DOMAIN w.bodies /\ v.bodies[j] = w.bodies[j]
      <3>1. /\ Sound(v)
            /\ v.next = w.next /\ v.broken = w.broken
            /\ DOMAIN v.bodies = DOMAIN w.bodies \ ids
            /\ \A id \in DOMAIN v.bodies :
                 v.bodies[id] = w.bodies[id] /\ (Whole(w, id) => Whole(v, id))
        BY SettleKeeps
      <3>. QED
        BY <3>1
    <2>. QED
      BY <2>1 DEF Shapely
  <1>5. Watched(v, loaded, simulated)
    BY <1>3 DEF Watched
  <1>. QED
    BY <1>4, <1>5 DEF v
-----------------------------------------------------------------------------
(* Regions that come in hold the terrain that is not on the list yet.      *)

\* Every chunk around what has cells on all sides has cells.
LEMMA AroundIsMet ==
  ASSUME NEW T \in Rasters, \A p \in T : Beside(p) \subseteq Cells, NEW c \in Around(T)
  PROVE  \E q \in Cells : ChunkOf(q) = c
  <1> DEFINE lo == Shift(MinCorner(T), <<-1, -1>>)  hi == Shift(MaxCorner(T), <<1, 1>>)
             a == MinCorner(T)  z == MaxCorner(T)
  <1>1. T \subseteq Cells /\ T \subseteq Plane /\ T # {} /\ ChunkSize \in Positive
        /\ <<-1, -1>> \in Plane /\ <<1, 1>> \in Plane
    BY CellsInPlane, SizeAssumption DEF Rasters, Positive, Plane
  <1>2. /\ a \in Plane /\ z \in Plane
        /\ \A p \in T : a[1] <= p[1] /\ a[2] <= p[2] /\ p[1] <= z[1] /\ p[2] <= z[2]
        /\ (\E p \in T : a[1] = p[1]) /\ (\E p \in T : a[2] = p[2])
        /\ (\E p \in T : z[1] = p[1]) /\ (\E p \in T : z[2] = p[2])
    BY CornersInPlane
  <1>3. /\ lo[1] = a[1] - 1 /\ lo[2] = a[2] - 1 /\ hi[1] = z[1] + 1 /\ hi[2] = z[2] + 1
    <2>1. a[1] \in Int /\ a[2] \in Int /\ z[1] \in Int /\ z[2] \in Int
      BY <1>2, PointsArePairs
    <2>. QED
      BY <2>1 DEF Shift
  <1> HIDE DEF a, z
  <1>4. ASSUME NEW p \in T
        PROVE  /\ p[1] - 1 \in 0..(Width - 1) /\ p[1] + 1 \in 0..(Width - 1)
               /\ p[2] - 1 \in 0..(Height - 1) /\ p[2] + 1 \in 0..(Height - 1)
    <2>1. /\ Shift(p, <<-1, 0>>) \in Cells /\ Shift(p, <<1, 0>>) \in Cells
          /\ Shift(p, <<0, -1>>) \in Cells /\ Shift(p, <<0, 1>>) \in Cells
      BY DEF Beside, At, Cardinals
    <2>2. p[1] \in Int /\ p[2] \in Int
      BY <1>1, PointsArePairs
    <2>3. /\ Shift(p, <<-1, 0>>)[1] = p[1] - 1 /\ Shift(p, <<1, 0>>)[1] = p[1] + 1
          /\ Shift(p, <<0, -1>>)[2] = p[2] - 1 /\ Shift(p, <<0, 1>>)[2] = p[2] + 1
      BY <2>2 DEF Shift
    <2>. QED
      BY <2>1, <2>3, CellsInPlane
  <1>5. /\ lo[1] \in 0..(Width - 1) /\ hi[1] \in 0..(Width - 1)
        /\ lo[2] \in 0..(Height - 1) /\ hi[2] \in 0..(Height - 1)
    BY <1>2, <1>3, <1>4
  <1>6. Width \in Nat /\ Height \in Nat
    BY SizeAssumption
  <1>7. lo[1] <= hi[1] /\ lo[2] <= hi[2]
    <2>1. PICK p \in T : TRUE
      BY <1>1
    <2>2. p[1] \in Int /\ p[2] \in Int /\ a[1] \in Int /\ a[2] \in Int /\ z[1] \in Int /\ z[2] \in Int
      BY <1>1, <1>2, PointsArePairs
    <2>. QED
      BY <1>2, <1>3, <2>2
  <1>8. c \in (ChunkOf(lo)[1]..ChunkOf(hi)[1]) \X (ChunkOf(lo)[2]..ChunkOf(hi)[2])
    BY DEF Around
  <1> HIDE DEF lo, hi
  <1>9. /\ c[1] \in (lo[1] \div ChunkSize)..(hi[1] \div ChunkSize)
        /\ c[2] \in (lo[2] \div ChunkSize)..(hi[2] \div ChunkSize)
        /\ c = <<c[1], c[2]>>
    BY <1>8 DEF ChunkOf
  <1>10. lo[1] \in Int /\ hi[1] \in Int /\ lo[2] \in Int /\ hi[2] \in Int
    BY <1>5, <1>6
  <1>11. PICK x \in lo[1]..hi[1] : x \div ChunkSize = c[1]
    BY <1>1, <1>7, <1>9, <1>10, QuotientIsMet
  <1>12. PICK y \in lo[2]..hi[2] : y \div ChunkSize = c[2]
    BY <1>1, <1>7, <1>9, <1>10, QuotientIsMet
  <1>13. x \in 0..(Width - 1) /\ y \in 0..(Height - 1)
    BY <1>5, <1>6
  <1>14. <<x, y>> \in Cells /\ ChunkOf(<<x, y>>) = c
    BY <1>9, <1>11, <1>12, <1>13 DEF Cells, ChunkOf
  <1>. QED
    BY <1>14

\* The cells of a region, along a side.
LEMMA SpanOfRegion ==
  ASSUME NEW x \in Int, NEW r \in Int
  PROVE  LET side == ChunkSize * RegionSize
         IN  /\ side \in Positive /\ side * r \in Int
             /\ (x \div ChunkSize) \div RegionSize = r <=> x \in (side * r)..(side * r + side - 1)
  <1> DEFINE side == ChunkSize * RegionSize  y == x \div ChunkSize
  <1>1. ChunkSize \in Positive /\ RegionSize \in Positive /\ ChunkSize \in Nat /\ RegionSize \in Nat
        /\ ChunkSize >= 1 /\ RegionSize >= 1
    BY SizeAssumption DEF Positive
  <1>2. PICK C \in Nat, R \in Nat : C = ChunkSize /\ R = RegionSize
    BY <1>1
  <1>3. PICK s \in Int : s = C * R
    BY <1>1
  <1>4. s >= 1
    <2>1. C >= 1 /\ R >= 1
      BY <1>1, <1>2
    <2>2. C * 1 <= C * R
      BY <2>1, ProductsAscend
    <2>. QED
      BY <1>3, <2>1, <2>2
  <1>5. PICK k \in Int : k = R * r
    OBVIOUS
  <1>6. C * k \in Int /\ s * r = C * k /\ C * (k + R) = C * k + s
    <2>1. C * (R * r) = (C * R) * r /\ C * (k + R) = C * k + C * R
      OBVIOUS
    <2>2. C * k \in Int
      OBVIOUS
    <2>. QED
      BY <1>3, <1>5, <2>1, <2>2
  <1>7. y \in Int
    BY <1>1, Division
  <1>8. y \div RegionSize = r <=> k <= y /\ y < k + R
    <2>1. RegionSize * r = k
      BY <1>2, <1>5
    <2> HIDE DEF y
    <2>. QED
      BY <1>1, <1>2, <1>7, <2>1, QuotientIs
  <1>9. \A n \in Int : n <= y <=> C * n <= x
    <2>1. TAKE n \in Int
    <2>2. C * n <= x => n <= y
      BY <1>1, <1>2, Quotients
    <2>3. C * y <= x
      BY <1>1, <1>2, <1>7, QuotientIs
    <2>4. n <= y => C * n <= C * y
      BY <1>7, ProductsAscend
    <2>5. C * n \in Int /\ C * y \in Int
      BY <1>7
    <2> HIDE DEF y
    <2>. QED
      BY <2>2, <2>3, <2>4, <2>5
  <1>10. k <= y <=> C * k <= x
    BY <1>9
  <1>11. k + R <= y <=> C * (k + R) <= x
    BY <1>9
  <1>12. y \div RegionSize = r <=> C * k <= x /\ x < C * k + s
    <2>1. PICK u \in Int, v \in Int : u = C * k /\ v = C * (k + R)
      BY <1>6
    <2> HIDE DEF y
    <2>2. y < k + R <=> x < v
      BY <1>7, <1>11, <2>1
    <2>. QED
      BY <1>6, <1>8, <1>10, <2>1, <2>2
  <1>13. side = s /\ s \in Positive
    BY <1>2, <1>3, <1>4 DEF Positive
  <1> HIDE DEF side, y
  <1>14. x \in (side * r)..(side * r + side - 1) <=> C * k <= x /\ x < C * k + s
    BY <1>6, <1>13
  <1>15. side * r \in Int
    BY <1>6, <1>13
  <1>16. side \in Positive
    BY <1>13
  <1>. QED
    BY <1>12, <1>14, <1>15, <1>16 DEF side, y

\* What fills the region of one of its cells is larger than what moves.
LEMMA RegionIsLarge ==
  ASSUME NEW T \in SUBSET Plane, IsFiniteSet(T), NEW t \in T,
         \A p \in T : Home(p) = Home(t) =>
           \A q \in Beside(p) : Home(q) = Home(t) => q \in T
  PROVE  ~(Cardinality(T) <= MaxIsland)
  <1> DEFINE side == ChunkSize * RegionSize  r == Home(t)
             a == side * r[1]  b == side * r[2]
             z == a + side - 1  y == b + side - 1
  <1>1. t[1] \in Int /\ t[2] \in Int /\ t = <<t[1], t[2]>>
    BY PointsArePairs
  <1>2. /\ r[1] \in Int /\ r[2] \in Int
        /\ \A p \in Plane : Home(p) = r <=> /\ (p[1] \div ChunkSize) \div RegionSize = r[1]
                                            /\ (p[2] \div ChunkSize) \div RegionSize = r[2]
    <2>1. ChunkSize \in Positive /\ RegionSize \in Positive
      BY SizeAssumption DEF Positive
    <2>2. \A p : Home(p) = <<(p[1] \div ChunkSize) \div RegionSize, (p[2] \div ChunkSize) \div RegionSize>>
      BY DEF Home, RegionOf, ChunkOf
    <2>3. t[1] \div ChunkSize \in Int /\ t[2] \div ChunkSize \in Int
      BY <1>1, <2>1, Division
    <2>4. (t[1] \div ChunkSize) \div RegionSize \in Int /\ (t[2] \div ChunkSize) \div RegionSize \in Int
      BY <2>1, <2>3, Division
    <2>. QED
      BY <2>2, <2>4
  <1>3. /\ side \in Positive /\ a \in Int /\ b \in Int
        /\ \A p \in Plane : Home(p) = r <=> p[1] \in a..z /\ p[2] \in b..y
    <2> HIDE DEF r
    <2>1. side \in Positive /\ a \in Int /\ b \in Int
      BY <1>1, <1>2, SpanOfRegion
    <2>2. \A x \in Int : /\ (x \div ChunkSize) \div RegionSize = r[1] <=> x \in a..z
                         /\ (x \div ChunkSize) \div RegionSize = r[2] <=> x \in b..y
      BY <1>2, SpanOfRegion
    <2> HIDE DEF a, b, z, y, side
    <2>3. \A p \in Plane : p[1] \in Int /\ p[2] \in Int
      BY PointsArePairs
    <2>. QED
      BY <1>2, <2>1, <2>2, <2>3
  <1>4. side \in Nat /\ side >= 1
    BY <1>3 DEF Positive
  <1>5. Home(t) = r
    OBVIOUS
  <1>6. MaxIsland < side * side /\ MaxIsland \in Nat
    BY ShapeAssumption, SizeAssumption
  <1>7. \A p \in T : Home(p) = r => \A q \in Beside(p) : Home(q) = r => q \in T
    BY <1>5
  <1> HIDE DEF side, r, a, b
  <1>8. z \in Int /\ y \in Int /\ t[1] \in a..z /\ t[2] \in b..y
    BY <1>3, <1>4, <1>5
  <1>9. \A p \in Int \X Int : p[1] \in a..z /\ p[2] \in b..y => Home(p) = r
    BY <1>3 DEF Plane
  <1>10. Cardinality(a..z) = side /\ Cardinality(b..y) = side
         /\ IsFiniteSet(a..z) /\ IsFiniteSet(b..y)
    <2>1. z - a + 1 = side /\ y - b + 1 = side /\ ~(a > z) /\ ~(b > y)
      BY <1>3, <1>4
    <2> HIDE DEF z, y
    <2>. QED
      BY <1>3, <1>8, <2>1, FS_Interval
  <1> HIDE DEF z, y
  <1>11. ASSUME NEW m \in Int, NEW n \in Int, m \in a..z, n \in b..y, <<m, n>> \in T
         PROVE  /\ (m < z => <<m + 1, n>> \in T) /\ (a < m => <<m - 1, n>> \in T)
                /\ (n < y => <<m, n + 1>> \in T) /\ (b < n => <<m, n - 1>> \in T)
    <2>1. Home(<<m, n>>) = r
      BY <1>9, <1>11
    <2>2. /\ <<m + 1, n>> \in Beside(<<m, n>>) /\ <<m - 1, n>> \in Beside(<<m, n>>)
          /\ <<m, n + 1>> \in Beside(<<m, n>>) /\ <<m, n - 1>> \in Beside(<<m, n>>)
      <3>1. /\ Shift(<<m, n>>, <<1, 0>>) = <<m + 1, n>> /\ Shift(<<m, n>>, <<-1, 0>>) = <<m - 1, n>>
            /\ Shift(<<m, n>>, <<0, 1>>) = <<m, n + 1>> /\ Shift(<<m, n>>, <<0, -1>>) = <<m, n - 1>>
        BY DEF Shift
      <3>. QED
        BY <3>1 DEF Beside, At, Cardinals
    <2>3. /\ m < z => Home(<<m + 1, n>>) = r
          /\ a < m => Home(<<m - 1, n>>) = r
          /\ n < y => Home(<<m, n + 1>>) = r
          /\ b < n => Home(<<m, n - 1>>) = r
      BY <1>3, <1>8, <1>9, <1>11
    <2>. QED
      BY <1>7, <1>11, <2>1, <2>2, <2>3
  <1>12. \A m \in a..z : <<m, t[2]>> \in T
    <2> DEFINE S == {m \in Int : <<m, t[2]>> \in T}
    <2>1. t[1] \in S
      BY <1>1
    <2>2. \A n \in a..z : n \in S => (n < z => n + 1 \in S) /\ (a < n => n - 1 \in S)
      <3>1. ASSUME NEW n \in a..z, n \in S
            PROVE  (n < z => n + 1 \in S) /\ (a < n => n - 1 \in S)
        <4>1. n \in Int /\ n + 1 \in Int /\ n - 1 \in Int /\ <<n, t[2]>> \in T
          BY <3>1
        <4>2. (n < z => <<n + 1, t[2]>> \in T) /\ (a < n => <<n - 1, t[2]>> \in T)
          BY <1>1, <1>8, <1>11, <4>1
        <4>. QED
          BY <4>1, <4>2
      <3>. QED
        BY <3>1
    <2> HIDE DEF S
    <2>3. a..z \subseteq S
      BY <1>3, <1>8, <2>1, <2>2, WalkFills
    <2>. QED
      BY <2>3 DEF S
  <1>13. ASSUME NEW m \in a..z PROVE \A n \in b..y : <<m, n>> \in T
    <2> DEFINE S == {n \in Int : <<m, n>> \in T}
    <2>1. t[2] \in S /\ m \in Int
      BY <1>1, <1>3, <1>8, <1>12
    <2>2. \A n \in b..y : n \in S => (n < y => n + 1 \in S) /\ (b < n => n - 1 \in S)
      <3>1. ASSUME NEW n \in b..y, n \in S
            PROVE  (n < y => n + 1 \in S) /\ (b < n => n - 1 \in S)
        <4>1. n \in Int /\ n + 1 \in Int /\ n - 1 \in Int /\ <<m, n>> \in T
          BY <3>1
        <4>2. (n < y => <<m, n + 1>> \in T) /\ (b < n => <<m, n - 1>> \in T)
          BY <1>11, <2>1, <4>1
        <4>. QED
          BY <4>1, <4>2
      <3>. QED
        BY <3>1
    <2> HIDE DEF S
    <2>3. b..y \subseteq S
      <3>1. PICK x \in b..y : x \in S
        BY <1>8, <2>1
      <3>. QED
        BY <1>3, <1>8, <2>2, <3>1, WalkFills
    <2>. QED
      BY <2>3 DEF S
  <1>14. (a..z) \X (b..y) \subseteq T
    BY <1>13
  <1>15. Cardinality((a..z) \X (b..y)) = side * side
    <2>1. PICK A : A = a..z
      OBVIOUS
    <2>2. PICK B : B = b..y
      OBVIOUS
    <2>3. /\ IsFiniteSet(A) /\ IsFiniteSet(B)
          /\ Cardinality(A) = side /\ Cardinality(B) = side
      BY <1>10, <2>1, <2>2
    <2>4. Cardinality(A \X B) = Cardinality(A) * Cardinality(B)
      BY <2>3, FS_Product
    <2>. QED
      BY <2>1, <2>2, <2>3, <2>4
  <1>16. Cardinality((a..z) \X (b..y)) <= Cardinality(T) /\ Cardinality(T) \in Nat
    BY <1>14, FS_Subset, FS_CardinalityType
  <1>17. PICK k \in Int : k = side * side
    BY <1>4
  <1>. QED
    BY <1>6, <1>15, <1>16, <1>17

\* A seed that waited for one of the chunks is a seed again.
LEMMA WakeFields ==
  ASSUME NEW w \in Worlds, NEW chunks
  PROVE  LET v == Wake(w, chunks)
         IN  /\ v.mat = w.mat /\ v.owner = w.owner /\ v.bodies = w.bodies
             /\ w.seeds \subseteq v.seeds
             /\ \A e \in w.parked : IF e[1] \in chunks THEN e[2] \in v.seeds ELSE e \in v.parked
  <1> DEFINE v == Wake(w, chunks)
             woken == {e \in w.parked : e[1] \in chunks}
             P == w.parked \ woken
             T == w.seeds \cup {e[2] : e \in woken}
  <1>1. v = [w EXCEPT !.parked = P, !.seeds = T]
    BY DEF Wake
  <1>2. w = [mat |-> w.mat, owner |-> w.owner, bodies |-> w.bodies, next |-> w.next,
             seeds |-> w.seeds, parked |-> w.parked, broken |-> w.broken]
    BY WorldFacts
  <1>3. w.seeds \subseteq T
        /\ \A e \in w.parked : IF e[1] \in chunks THEN e[2] \in T ELSE e \in P
    OBVIOUS
  <1> HIDE DEF v, P, T
  <1>4. /\ v.mat = w.mat /\ v.owner = w.owner /\ v.bodies = w.bodies
        /\ v.seeds = T /\ v.parked = P
    BY <1>1, <1>2
  <1>. QED
    BY <1>3, <1>4 DEF v

\* The watch passes to the chunks that are simulated next.
LEMMA WakeKeepsWatch ==
  ASSUME NEW w \in Worlds, NEW L, NEW C, NEW D, Watched(w, L, C)
  PROVE  Watched(Wake(w, D \ C), L, D)
  <1> DEFINE v == Wake(w, D \ C)
  <1>1. /\ v.mat = w.mat /\ v.owner = w.owner /\ v.bodies = w.bodies
        /\ w.seeds \subseteq v.seeds
        /\ \A e \in w.parked : IF e[1] \in D \ C THEN e[2] \in v.seeds ELSE e \in v.parked
    BY WakeFields
  <1> HIDE DEF v
  <1>2. SUFFICES ASSUME NEW m \in Bonded, NEW T \in Rasters, Adrift(v, m, T), Within(T, L)
                 PROVE  Heeded(v, T, L, D)
    BY DEF Watched, v
  <1>3. Adrift(w, m, T)
    BY <1>1, <1>2 DEF Adrift, Slack
  <1>4. Seeded(w, T) \/ Awaited(w, T, L, C)
    BY <1>2, <1>3 DEF Watched, Heeded
  <1>5. CASE Seeded(w, T)
    BY <1>1, <1>5 DEF Heeded, Seeded
  <1>6. CASE Awaited(w, T, L, C)
    <2>1. PICK e \in w.parked : /\ e[2] \in Near(T) /\ e[1] \in Around(T)
                                /\ RegionOf(e[1]) \notin L \/ e[1] \notin C
      BY <1>6 DEF Awaited
    <2>2. CASE e[1] \in D \ C
      BY <1>1, <2>1, <2>2 DEF Heeded, Seeded
    <2>3. CASE e[1] \notin D \ C
      <3>1. e \in v.parked /\ (RegionOf(e[1]) \notin L \/ e[1] \notin D)
        BY <1>1, <2>1, <2>3
      <3>. QED
        BY <2>1, <3>1 DEF Heeded, Awaited
    <2>. QED
      BY <2>2, <2>3
  <1>. QED
    BY <1>4, <1>5, <1>6

\* What comes in and hangs touches a gap, since it is no whole region.
LEMMA ArrivedIsExposed ==
  ASSUME NEW w, Sound(w), NEW arrived, arrived \cap loaded = {},
         NEW m, NEW T, Adrift(w, m, T), NEW t \in T, Home(t) \in arrived
  PROVE  T \cap Exposed(w, arrived) # {}
  <1>1. /\ T \in Rasters /\ m \in Bonded /\ Cardinality(T) <= MaxIsland
        /\ \A p \in T : Beside(p) \subseteq Cells /\ w.mat[p] = m
        /\ \A q \in Near(T) \ T : Slack(w, m, q)
    BY DEF Adrift
  <1>2. T \subseteq Cells /\ T \in SUBSET Plane /\ IsFiniteSet(T)
        /\ \A p \in T : Beside(p) \subseteq Near(T)
    BY <1>1, NearFacts, CellsInPlane, CellsAreFinite DEF Rasters
  <1>3. SUFFICES ASSUME \A p \in T : p \notin Exposed(w, arrived) PROVE FALSE
    OBVIOUS
  <1>4. ASSUME NEW p \in T, Home(p) = Home(t), NEW q \in Beside(p), Home(q) = Home(t), q \notin T
        PROVE  FALSE
    <2>1. p \in Cells /\ Home(p) \in arrived /\ Bondable(w.mat[p])
      BY <1>1, <1>2, <1>4 DEF Bonded
    <2>2. q \in Cells /\ w.mat[q] # "air"
      BY <1>3, <1>4, <2>1 DEF Exposed, Obstructs
    <2>3. Slack(w, m, q)
      BY <1>1, <1>2, <1>4
    <2>4. w.owner[q] # 0
      BY <2>2, <2>3 DEF Slack
    <2>5. Loaded(q)
      BY <2>2, <2>4 DEF Sound, Claimed, Resident
    <2>. QED
      BY <1>4, <2>5 DEF Loaded
  <1>5. \A p \in T : Home(p) = Home(t) => \A q \in Beside(p) : Home(q) = Home(t) => q \in T
    BY <1>4
  <1>6. ~(Cardinality(T) <= MaxIsland)
    BY <1>2, <1>5, RegionIsLarge
  <1>. QED
    BY <1>1, <1>6

\* So a region that comes in is looked at.
LEMMA LoadKeepsWatch ==
  ASSUME NEW w, Sound(w), NEW arrived, arrived \cap loaded = {}, NEW C,
         Watched(w, loaded, C)
  PROVE  LET v == Load(w, arrived)
         IN  /\ Watched(v, loaded \cup arrived, C)
             /\ v.mat = w.mat /\ v.owner = w.owner /\ w.seeds \subseteq v.seeds
  <1> DEFINE v == Load(w, arrived)  u == Wake(w, ChunksOf(arrived))
             T1 == u.seeds \cup Exposed(w, arrived)
  <1>1. w \in Worlds
    BY DEF Sound
  <1>2. /\ u.mat = w.mat /\ u.owner = w.owner /\ u.bodies = w.bodies
        /\ w.seeds \subseteq u.seeds
        /\ \A e \in w.parked :
             IF e[1] \in ChunksOf(arrived) THEN e[2] \in u.seeds ELSE e \in u.parked
    BY <1>1, WakeFields
  <1>3. v = [u EXCEPT !.seeds = T1]
    BY DEF Load
  <1>4. u \in Worlds
    BY WakeKeeps DEF Sound
  <1>5. u = [mat |-> u.mat, owner |-> u.owner, bodies |-> u.bodies, next |-> u.next,
             seeds |-> u.seeds, parked |-> u.parked, broken |-> u.broken]
    BY <1>4, WorldFacts
  <1>6. u.seeds \subseteq T1 /\ Exposed(w, arrived) \subseteq T1
    OBVIOUS
  <1> HIDE DEF u, v, T1
  <1>7. v.mat = u.mat /\ v.owner = u.owner /\ v.bodies = u.bodies /\ v.seeds = T1
        /\ v.parked = u.parked
    BY <1>3, <1>5
  <1>8. ASSUME NEW m \in Bonded, NEW T \in Rasters, Adrift(v, m, T), Within(T, loaded \cup arrived)
        PROVE  Heeded(v, T, loaded \cup arrived, C)
    <2>1. Adrift(w, m, T)
      BY <1>2, <1>7, <1>8 DEF Adrift, Slack
    <2>2. CASE \E t \in T : Home(t) \in arrived
      <3>1. PICK t \in T : Home(t) \in arrived
        BY <2>2
      <3>2. T \cap Exposed(w, arrived) # {}
        BY <2>1, <3>1, ArrivedIsExposed
      <3>. QED
        BY <1>6, <1>7, <3>2 DEF Heeded, Seeded, Near
    <2>3. CASE \A t \in T : Home(t) \notin arrived
      <3>1. Within(T, loaded)
        BY <1>8, <2>3 DEF Within
      <3>2. Seeded(w, T) \/ Awaited(w, T, loaded, C)
        BY <2>1, <3>1 DEF Watched, Heeded
      <3>3. CASE Seeded(w, T)
        BY <1>2, <1>6, <1>7, <3>3 DEF Heeded, Seeded
      <3>4. CASE Awaited(w, T, loaded, C)
        <4>1. PICK e \in w.parked : /\ e[2] \in Near(T) /\ e[1] \in Around(T)
                                    /\ RegionOf(e[1]) \notin loaded \/ e[1] \notin C
          BY <3>4 DEF Awaited
        <4>2. CASE e[1] \in ChunksOf(arrived)
          BY <1>2, <1>6, <1>7, <4>1, <4>2 DEF Heeded, Seeded
        <4>3. CASE e[1] \notin ChunksOf(arrived)
          <5>1. RegionOf(e[1]) \notin arrived
            <6>1. PICK q \in Cells : ChunkOf(q) = e[1]
              BY <2>1, <4>1, AroundIsMet DEF Adrift
            <6>. QED
              BY <4>3, <6>1 DEF ChunksOf, Home
          <5>2. e \in v.parked /\ (RegionOf(e[1]) \notin loaded \cup arrived \/ e[1] \notin C)
            BY <1>2, <1>7, <4>1, <4>3, <5>1
          <5>. QED
            BY <4>1, <5>2 DEF Heeded, Awaited
        <4>. QED
          BY <4>2, <4>3
      <3>. QED
        BY <3>2, <3>3, <3>4
    <2>. QED
      BY <2>2, <2>3
  <1>9. Watched(v, loaded \cup arrived, C)
    BY <1>8 DEF Watched
  <1>10. w.seeds \subseteq v.seeds
    BY <1>2, <1>6, <1>7
  <1>. QED
    BY <1>2, <1>7, <1>9, <1>10 DEF v
-----------------------------------------------------------------------------
(* The invariant that loses nothing that hangs.  Until physics has been    *)
(* over them, bodies may lack cells, and all that they lack is stirred;    *)
(* bodies are in one piece and of one kind; and minds have bodies that     *)
(* never settle, whole or in parts.                                        *)

Tame ==
  /\ \A id \in mobs \cap DOMAIN bodies : bodies[id].policy # "DEBRIS"
  /\ \A f \in fractures : f.source \in Minded =>
       \A j \in f.parts \cap DOMAIN bodies : bodies[j].policy # "DEBRIS"

Hung ==
  /\ Shapely(World) /\ (pc = "input" => Bruised(World))
  /\ Watched(World, loaded, simulated)

HangInv == BodiesInv /\ Tame /\ Hung

\* What a step has to show of the world it makes.
LEMMA HungNext ==
  ASSUME NEW v, Become(v), Shapely(v), pc' = "input" => Bruised(v),
         Watched(v, loaded', simulated')
  PROVE  Hung'
  <1>1. /\ World'.mat = v.mat /\ World'.owner = v.owner /\ World'.bodies = v.bodies
        /\ World'.seeds = v.seeds /\ World'.parked = v.parked
    BY DEF World, Become
  <1>2. Shapely(World)'
    BY <1>1 DEF Shapely
  <1>3. pc' = "input" => Bruised(World)'
    BY <1>1 DEF Bruised
  <1>4. Watched(World, loaded, simulated)'
    BY <1>1 DEF Watched, Adrift, Within, Heeded, Seeded, Awaited, Slack
  <1>. QED
    BY <1>2, <1>3, <1>4 DEF Hung

\* Minds that stay, or go, stay tame.
LEMMA TameNext ==
  ASSUME Tame, fractures' = {}, mobs' \subseteq mobs,
         \A id \in mobs' \cap DOMAIN bodies' :
           id \in DOMAIN bodies /\ (bodies'[id].policy = "DEBRIS" => bodies[id].policy = "DEBRIS")
  PROVE  Tame'
  BY DEF Tame

\* Bodies that keep their cells keep their shapes.
LEMMA ShapelyNext ==
  ASSUME NEW w, Shapely(w), NEW v,
         \A j \in DOMAIN v.bodies : \/ Solid(v.bodies[j])
                                    \/ j \in DOMAIN w.bodies /\ v.bodies[j].slots = w.bodies[j].slots
  PROVE  Shapely(v)
  BY DEF Shapely, Solid, Raster

\* A whole body is stirred nowhere, and the others where they lose a cell.
LEMMA BruisedNext ==
  ASSUME NEW w, Sound(w), Bruised(w), NEW v, w.seeds \subseteq v.seeds,
         \A j \in DOMAIN v.bodies : \/ Whole(v, j)
                                    \/ j \in DOMAIN w.bodies /\ v.bodies[j] = w.bodies[j],
         \A p \in Cells : \/ v.mat[p] = w.mat[p] /\ v.owner[p] = w.owner[p]
                          \/ p \in v.seeds \/ w.mat[p] = "air"
                          \/ w.owner[p] \notin DOMAIN v.bodies
  PROVE  Bruised(v)
  <1>1. SUFFICES ASSUME NEW j \in DOMAIN v.bodies, NEW p \in Raster(v.bodies[j]), ~Whole(v, j)
                 PROVE  (v.owner[p] = j /\ v.mat[p] = v.bodies[j].slots[p]) \/ p \in v.seeds
    BY DEF Bruised, Whole
  <1>2. j \in DOMAIN w.bodies /\ v.bodies[j] = w.bodies[j]
    BY <1>1
  <1>3. PICK b \in BodyTypes : b = w.bodies[j]
    BY <1>2, RastersInWorld DEF Sound
  <1>4. p \in Cells /\ b.slots[p] # "air"
    BY <1>1, <1>2, <1>3, BodyFacts DEF Bonded, Bondable
  <1>5. (w.owner[p] = j /\ w.mat[p] = b.slots[p]) \/ p \in w.seeds
    BY <1>1, <1>2, <1>3 DEF Bruised
  <1>. QED
    BY <1>1, <1>2, <1>3, <1>4, <1>5

\* A figure is in one piece wherever it is put.
LEMMA JoinedAnywhere ==
  ASSUME NEW d \in Plane, NEW R \in SUBSET Plane, Joined(R)
  PROVE  Joined(At(d, R))
  <1>1. SUFFICES ASSUME NEW X \in SUBSET At(d, R), X # {}, X # At(d, R)
                 PROVE  \E x \in X, y \in At(d, R) \ X : y \in Beside(x)
    BY DEF Joined
  <1> DEFINE Y == {o \in R : Shift(d, o) \in X}
  <1>2. Y \in SUBSET R /\ Y # {} /\ Y # R
    BY <1>1 DEF At
  <1>3. PICK o \in Y, q \in R \ Y : q \in Beside(o)
    BY <1>2 DEF Joined
  <1>4. Shift(d, o) \in X /\ Shift(d, q) \in At(d, R) \ X
    BY <1>3 DEF At
  <1>5. PICK c \in Cardinals : q = Shift(o, c)
    BY <1>3 DEF Beside, At
  <1>6. c \in Plane /\ o \in Plane
    BY <1>3, CardinalsInPlane
  <1>7. Shift(d, q) = Shift(Shift(d, o), c)
    <2>1. /\ d[1] \in Int /\ d[2] \in Int /\ o[1] \in Int /\ o[2] \in Int
          /\ c[1] \in Int /\ c[2] \in Int
      BY <1>6, PointsArePairs
    <2>. QED
      BY <1>5, <2>1 DEF Shift
  <1>. QED
    BY <1>4, <1>7 DEF Beside, At

\* What the invariant says of the world.
LEMMA HungFacts ==
  ASSUME HangInv
  PROVE  /\ BodiesInv /\ Tame /\ Sound(World) /\ World \in Worlds /\ Shapely(World)
         /\ Watched(World, loaded, simulated) /\ (pc # "simulate" => Bruised(World))
         /\ pc \notin {"input", "simulate"} => \A id \in DOMAIN bodies : Whole(World, id)
  <1>1. pc \notin {"input", "simulate"} => \A id \in DOMAIN bodies : Whole(World, id)
    BY DEF HangInv, BodiesInv, Reconciled
  <1>2. pc \notin {"input", "simulate"} => Bruised(World)
    BY <1>1, WorldIs DEF Whole, Bruised
  <1>. QED
    BY <1>1, <1>2 DEF HangInv, Hung, BodiesInv, Sound

\* Nothing changes but players, ids or the phase.
LEMMA StillWatch ==
  ASSUME HangInv, UNCHANGED <<terrainVars, bodies, seeds, parkedSeeds, loaded, simulated>>,
         pc' = "input" => pc # "simulate"
  PROVE  Hung'
  <1> DEFINE v == World'
  <1>1. /\ v.mat = World.mat /\ v.owner = World.owner /\ v.bodies = World.bodies
        /\ v.seeds = World.seeds /\ v.parked = World.parked
    BY DEF World, terrainVars
  <1>2. Become(v)
    BY DEF Become, World
  <1> HIDE DEF v
  <1>3. Shapely(v) /\ (pc' = "input" => Bruised(v))
    BY <1>1, HungFacts DEF Shapely, Bruised
  <1>4. Watched(v, loaded', simulated')
    BY <1>1, HungFacts DEF Watched, Adrift, Within, Heeded, Seeded, Awaited, Slack
  <1>. QED
    BY <1>2, <1>3, <1>4, HungNext

\* Hands, fire and decay change a cell: what they take leaves a seed.
LEMMA CellWatch ==
  ASSUME HangInv, NEW p \in Cells, NEW m \in Materials, NEW id \in Nat,
         \/ mat[p] # "air" /\ m = "air"
         \/ mat[p] = "air" /\ owner[p] = 0
         \/ mat[p] # m /\ Bondable(mat[p]),
         pc \in {"input", "simulate"}, pc' = pc, UNCHANGED <<loaded, simulated, mobs, players>>,
         Become(Put(Disturb(World, {p}, m), p, m, id))
  PROVE  Tame' /\ Hung'
  <1>1. PICK o : o = World
    OBVIOUS
  <1>2. /\ o \in Worlds /\ Sound(o) /\ o.mat = mat /\ o.owner = owner /\ o.bodies = bodies
        /\ Shapely(o) /\ Watched(o, loaded, simulated) /\ (pc # "simulate" => Bruised(o))
    BY <1>1, HungFacts, WorldIs
  <1> DEFINE v == Put(Disturb(o, {p}, m), p, m, id)
  <1>3. /\ Stirs(o, v) /\ v.bodies = o.bodies
        /\ o.seeds \subseteq v.seeds
        /\ o.mat[p] # "air" => p \in v.seeds
        /\ \A q \in Cells : q # p => v.mat[q] = o.mat[q] /\ v.owner[q] = o.owner[q]
    <2>1. \/ o.mat[p] # "air" /\ m = "air"
          \/ o.mat[p] = "air" /\ o.owner[p] = 0
          \/ o.mat[p] # m /\ Bondable(o.mat[p])
      BY <1>2
    <2>2. o \in Worlds
      BY <1>2
    <2>. QED
      BY <2>1, <2>2, CellStirs
  <1>4. Become(v)
    BY <1>1
  <1> HIDE DEF v
  <1>5. Shapely(v) /\ Watched(v, loaded', simulated')
    BY <1>2, <1>3, ShapelyNext, StirsKeepsWatch
  <1>6. pc' = "input" => Bruised(v)
    <2>1. ASSUME pc' = "input" PROVE Bruised(v)
      <3>1. Bruised(o)
        BY <1>2, <2>1
      <3>. QED
        BY <1>2, <1>3, <3>1, BruisedNext
    <2>. QED
      BY <2>1
  <1>7. Hung'
    BY <1>4, <1>5, <1>6, HungNext
  <1>8. Tame'
    <2>1. fractures = {} /\ Tame
      BY HungFacts, AvatarFacts
    <2>2. fractures' = fractures /\ bodies' = bodies
      BY <1>1, <1>2, <1>3, <1>4, WorldIs DEF Become, v, Put, PutAll, Write, Disturb, World
    <2>. QED
      BY <2>1, <2>2, TameNext
  <1>. QED
    BY <1>7, <1>8

\* A body that comes to be is in one piece, and of one kind.
LEMMA SpawnWatch ==
  ASSUME HangInv, NEW S \in Rasters, Joined(S), Fits(World, S), pc \in {"input", "hazards"}, pc' = pc,
         NEW m \in Bonded, NEW policy \in Policies,
         Become([Spawn(World, next, S, m, policy) EXCEPT !.next = @ + 1]),
         UNCHANGED <<loaded, simulated>>,
         mobs' \subseteq mobs \cup {i \in {next} : policy # "DEBRIS"}
  PROVE  Tame' /\ Hung'
  <1>1. PICK o : o = World
    OBVIOUS
  <1>2. /\ o \in Worlds /\ Sound(o) /\ o.mat = mat /\ o.owner = owner /\ o.bodies = bodies
        /\ o.next = next /\ o.broken = fractures /\ Fits(o, S) /\ fractures = {} /\ Tame
        /\ Shapely(o) /\ Watched(o, loaded, simulated) /\ Bruised(o)
    BY <1>1, HungFacts, WorldIs, AvatarFacts
  <1> DEFINE v == [Spawn(o, o.next, S, m, policy) EXCEPT !.next = @ + 1]
  <1>3. Become(v)
    BY <1>1, <1>2
  <1>4. /\ Stirs(o, v) /\ o.seeds \subseteq v.seeds
        /\ \A p \in S : v.mat[p] = m
        /\ \A p \in Cells \ S : v.mat[p] = o.mat[p] /\ v.owner[p] = o.owner[p]
    BY <1>2, SpawnStirs
  <1>5. /\ Sound(v) /\ Whole(v, o.next)
        /\ v.next = o.next + 1 /\ v.broken = o.broken
        /\ DOMAIN v.bodies = DOMAIN o.bodies \cup {o.next} /\ o.next \notin DOMAIN o.bodies
        /\ v.bodies[o.next].policy = policy /\ Raster(v.bodies[o.next]) = S
        /\ \A j \in DOMAIN o.bodies :
             v.bodies[j] = o.bodies[j] /\ (Whole(o, j) => Whole(v, j))
    BY <1>2, SpawnKeeps
  <1> HIDE DEF v
  <1>6. Solid(v.bodies[o.next])
    BY <1>4, <1>5 DEF Solid, Whole
  <1>7. Shapely(v) /\ Watched(v, loaded', simulated')
    BY <1>2, <1>4, <1>5, <1>6, ShapelyNext, StirsKeepsWatch
  <1>8. Bruised(v)
    <2>1. \A p \in S : o.mat[p] = "air"
      BY <1>2 DEF Fits, Free
    <2>2. \A j \in DOMAIN v.bodies : \/ Whole(v, j)
                                     \/ j \in DOMAIN o.bodies /\ v.bodies[j] = o.bodies[j]
      BY <1>5
    <2>. QED
      BY <1>2, <1>4, <2>1, <2>2, BruisedNext
  <1>9. Hung'
    BY <1>3, <1>7, <1>8, HungNext
  <1>10. Tame'
    <2>1. bodies' = v.bodies /\ fractures' = {}
      BY <1>2, <1>3, <1>5 DEF Become
    <2>2. \A id \in mobs' : id \in mobs \/ (id = next /\ policy # "DEBRIS")
      OBVIOUS
    <2>3. \A id \in mobs \cap DOMAIN o.bodies : o.bodies[id].policy # "DEBRIS"
      BY <1>2 DEF Tame
    <2>4. o.next = next /\ next \notin mobs
      <3>1. \A id \in mobs : id \in Nat /\ id < next
        BY HungFacts DEF BodiesInv, Seated, MindsOwn, Minded, Positive
      <3>. QED
        BY <1>2, <3>1, WorldIs, WorldFacts
    <2>5. ASSUME NEW id \in mobs' \cap DOMAIN v.bodies PROVE v.bodies[id].policy # "DEBRIS"
      BY <1>5, <2>2, <2>3, <2>4
    <2>. QED
      BY <2>1, <2>5 DEF Tame
  <1>. QED
    BY <1>9, <1>10

\* What is over a figure is in one piece.
LEMMA FiguresAreJoined ==
  ASSUME NEW pose \in Figures, NEW x \in Plane
  PROVE  Joined(At(x, pose)) /\ At(x, pose) # {}
  <1>1. pose \in SUBSET Plane /\ pose # {}
    BY FigureAssumption, SpeciesAssumption DEF Figures, Plane
  <1>2. Joined(pose)
    BY ShapeAssumption
  <1>. QED
    BY <1>1, <1>2, JoinedAnywhere DEF At

\* An id that is spent.
LEMMA SpentWatch ==
  ASSUME HangInv, Become([World EXCEPT !.next = @ + 1]), pc \in {"input", "hazards"}, pc' = pc,
         UNCHANGED <<loaded, simulated, mobs>>
  PROVE  Tame' /\ Hung'
  <1>1. UNCHANGED <<terrainVars, bodies, seeds, parkedSeeds, fractures>>
    BY DEF Become, World, terrainVars
  <1>2. Tame /\ fractures = {}
    BY HungFacts, AvatarFacts
  <1>. QED
    BY <1>1, <1>2, StillWatch, TameNext

\* What is summoned.
LEMMA SummonWatch ==
  ASSUME HangInv, NEW p \in Players, NEW species \in Species, Summon(p, species)
  PROVE  Tame' /\ Hung'
  <1> DEFINE S == At(Shift(ViewAnchor(p), Throw), species.frame)
  <1>1. /\ pc = "input" /\ pc' = pc /\ Is(p, "alive") /\ UNCHANGED <<loaded, simulated>>
        /\ IF Fits(World, S)
             THEN /\ Become([Spawn(World, next, S, species.of, species.policy) EXCEPT !.next = @ + 1])
                  /\ mobs' = mobs \cup {i \in {next} : species.lives}
             ELSE Become([World EXCEPT !.next = @ + 1]) /\ UNCHANGED mobs
    BY DEF Summon
  <1>2. Joined(S) /\ S # {}
    <2>1. players[p] # Nil
      BY <1>1 DEF Is
    <2>2. ViewAnchor(p) \in Plane /\ Throw \in Plane
      BY <1>1, <2>1, HungFacts, ViewAnchorType, CellsInPlane, FigureAssumption DEF Plane
    <2>3. Shift(ViewAnchor(p), Throw) \in Plane
      BY <2>2, ShiftBack
    <2>. QED
      BY <2>3, FiguresAreJoined DEF Figures
  <1>3. PICK m, policy : m = species.of /\ policy = species.policy
    OBVIOUS
  <1>4. m \in Bonded /\ policy \in Policies /\ (species.lives => policy # "DEBRIS")
    BY <1>3, SpeciesAssumption DEF Bonded
  <1> HIDE DEF S
  <1>5. CASE Fits(World, S)
    <2>1. S \in Rasters
      BY <1>2, <1>5 DEF Fits, Free, Loaded, Rasters
    <2>. QED
      BY <1>1, <1>2, <1>3, <1>4, <1>5, <2>1, SpawnWatch
  <1>6. CASE ~Fits(World, S)
    BY <1>1, <1>6, SpentWatch
  <1>. QED
    BY <1>5, <1>6

\* A player who enters, or finds no room.
LEMMA MaterializeWatch ==
  ASSUME HangInv, NEW p \in Players, NEW at \in Spawns, Materialize(p, at)
  PROVE  Tame' /\ Hung'
  <1> DEFINE poses == <<At(at, Stand), At(at, Duck)>>
             room == {i \in DOMAIN poses : Fits(World, poses[i])}
  <1>1. pc = "hazards" /\ pc' = pc /\ UNCHANGED <<loaded, simulated, mobs>>
    BY DEF Materialize
  <1>2. IF room # {}
          THEN Become([Spawn(World, next, poses[Min(room)], "flesh", "PLAYER") EXCEPT !.next = @ + 1])
          ELSE Become([World EXCEPT !.next = @ + 1])
    BY DEF Materialize
  <1>3. CASE room # {}
    <2>1. room \subseteq {1, 2} /\ \A i \in room : Fits(World, poses[i])
      OBVIOUS
    <2>2. at \in Plane
      BY InitialAssumption, CellsInPlane
    <2>3. \A i \in {1, 2} : Joined(poses[i]) /\ poses[i] # {}
      BY <2>2, FiguresAreJoined DEF Figures
    <2> HIDE DEF poses, room
    <2>4. Min(room) \in room
      BY <1>3, <2>1, MinIsLeast
    <2>5. PICK S : S = poses[Min(room)]
      OBVIOUS
    <2>6. Joined(S) /\ S # {} /\ Fits(World, S)
      BY <2>1, <2>3, <2>4, <2>5
    <2>7. S \in Rasters /\ "flesh" \in Bonded /\ "PLAYER" \in Policies
      BY <2>6, PolicyFacts DEF Fits, Free, Loaded, Rasters, Bonded, Bondable, Materials
    <2>. QED
      BY <1>1, <1>2, <1>3, <2>5, <2>6, <2>7, SpawnWatch
  <1>4. CASE room = {}
    BY <1>1, <1>2, <1>4, SpentWatch
  <1>. QED
    BY <1>3, <1>4

\* A player who leaves takes the avatar along.
LEMMA LeaveWatch ==
  ASSUME HangInv, NEW p \in Players, Leave(p)
  PROVE  Tame' /\ Hung'
  <1>1. /\ pc = "input" /\ pc' = pc /\ UNCHANGED <<loaded, simulated, mobs>>
        /\ fractures = {} /\ Tame /\ Avatars \subseteq DOMAIN bodies
    BY HungFacts, AvatarFacts DEF Leave
  <1>2. CASE ~Is(p, "alive")
    <2>1. UNCHANGED <<terrainVars, bodies, seeds, parkedSeeds, fractures>>
      BY <1>2 DEF Leave, Become, World, terrainVars
    <2>. QED
      BY <1>1, <2>1, StillWatch, TameNext
  <1>3. CASE Is(p, "alive")
    <2>1. PICK o : o = World
      OBVIOUS
    <2>2. PICK ids : ids = {players[p].body}
      OBVIOUS
    <2>3. PICK v : v = Despawn(o, ids)
      OBVIOUS
    <2>4. /\ Sound(o) /\ o.bodies = bodies /\ o.broken = fractures
          /\ Shapely(o) /\ Watched(o, loaded, simulated) /\ Bruised(o)
      BY <1>1, <2>1, HungFacts, WorldIs
    <2>5. ids \in SUBSET DOMAIN o.bodies
      BY <1>1, <1>3, <2>2, <2>4, HungFacts, OthersAvatars
    <2>6. /\ Sound(v)
          /\ v.next = o.next /\ v.broken = o.broken
          /\ DOMAIN v.bodies = DOMAIN o.bodies \ ids
          /\ \A id \in DOMAIN v.bodies :
               v.bodies[id] = o.bodies[id] /\ (Whole(o, id) => Whole(v, id))
      BY <2>3, <2>4, <2>5, DespawnKeeps
    <2>7. /\ Stirs(o, v) /\ o.seeds \subseteq v.seeds
          /\ \A q \in Cells : o.owner[q] \notin ids =>
               v.mat[q] = o.mat[q] /\ v.owner[q] = o.owner[q]
      BY <2>3, <2>4, <2>5, DespawnStirs
    <2>8. Become(v)
      BY <1>3, <2>1, <2>2, <2>3 DEF Leave
    <2>9. Shapely(v) /\ Watched(v, loaded', simulated')
      BY <1>1, <2>4, <2>6, <2>7, ShapelyNext, StirsKeepsWatch
    <2>10. Bruised(v)
      <3>1. \A j \in DOMAIN v.bodies : j \in DOMAIN o.bodies /\ v.bodies[j] = o.bodies[j]
        BY <2>6
      <3>2. \A q \in Cells : \/ v.mat[q] = o.mat[q] /\ v.owner[q] = o.owner[q]
                             \/ o.owner[q] \notin DOMAIN v.bodies
        BY <2>6, <2>7
      <3>. QED
        BY <2>4, <2>7, <3>1, <3>2, BruisedNext
    <2>11. bodies' = v.bodies /\ fractures' = {}
      BY <1>1, <2>4, <2>6, <2>8 DEF Become
    <2>12. Tame'
      BY <1>1, <2>4, <2>6, <2>11, TameNext
    <2>. QED
      BY <2>8, <2>9, <2>10, <2>12, HungNext
  <1>. QED
    BY <1>2, <1>3

\* What dies had not settled, and is a corpse to its last cell.
LEMMA DeathsWatch ==
  ASSUME HangInv, pc \notin {"input", "simulate"}, pc' # "input",
         NEW ids, \A id \in ids \cap DOMAIN bodies : bodies[id].policy # "DEBRIS",
         NEW o, o = World, NEW v, Become(v),
         v.mat = Die(o, ids).mat, v.owner = Die(o, ids).owner, v.bodies = Die(o, ids).bodies,
         v.seeds = Die(o, ids).seeds, v.parked = Die(o, ids).parked, v.broken = {},
         UNCHANGED <<loaded, simulated>>, mobs' \subseteq mobs, mobs' \cap ids = {}
  PROVE  Tame' /\ Hung'
  <1>1. PICK u : u = Die(o, ids)
    OBVIOUS
  <1>2. /\ Sound(o) /\ o.bodies = bodies /\ Shapely(o) /\ Watched(o, loaded, simulated) /\ Tame
        /\ \A j \in DOMAIN o.bodies : Whole(o, j)
    BY HungFacts, WorldIs
  <1>3. /\ Sound(u)
        /\ u.next = o.next /\ u.broken = o.broken
        /\ u.owner = o.owner
        /\ DOMAIN u.bodies = DOMAIN o.bodies
        /\ \A id \in DOMAIN u.bodies :
             /\ Raster(u.bodies[id]) = Raster(o.bodies[id])
             /\ id \in ids => u.bodies[id].policy = "DEBRIS"
             /\ id \notin ids => u.bodies[id] = o.bodies[id]
             /\ Whole(o, id) => Whole(u, id)
    BY <1>1, <1>2, DieKeeps
  <1>4. Stirs(o, u)
    BY <1>1, <1>2, DieStirs
  <1>5. Watched(u, loaded, simulated)
    BY <1>2, <1>4, StirsKeepsWatch
  <1>6. Watched(v, loaded', simulated')
    BY <1>1, <1>5 DEF Watched, Adrift, Within, Heeded, Seeded, Awaited, Slack
  <1>7. ASSUME NEW j \in DOMAIN u.bodies, j \in ids PROVE Solid(u.bodies[j])
    <2>1. u.bodies[j] = Corpse(o, j)
      <3> DEFINE dying == ids \cap DOMAIN o.bodies  S == Borne(o, dying)
                 m == [p \in Cells |-> IF p \in S THEN "corpse" ELSE o.mat[p]]
                 f == [i \in DOMAIN o.bodies |-> IF i \in dying THEN Corpse(o, i) ELSE o.bodies[i]]
      <3>1. u = [o EXCEPT !.mat = m, !.bodies = f]
        BY <1>1, Zenon DEF Die
      <3>2. o = [mat |-> o.mat, owner |-> o.owner, bodies |-> o.bodies, next |-> o.next,
                 seeds |-> o.seeds, parked |-> o.parked, broken |-> o.broken]
        BY <1>2, WorldFacts DEF Sound
      <3>3. f[j] = Corpse(o, j)
        BY <1>3, <1>7
      <3> HIDE DEF f, m
      <3>4. u.bodies = f
        BY <3>1, <3>2
      <3>. QED
        BY <3>3, <3>4
    <2>2. \A p \in Raster(o.bodies[j]) :
            Corpse(o, j).slots[p] = IF o.owner[p] = j THEN "corpse" ELSE o.bodies[j].slots[p]
      BY <1>2, <1>3, CorpseFacts
    <2>3. \A p \in Raster(o.bodies[j]) : u.bodies[j].slots[p] = "corpse"
      BY <1>2, <1>3, <2>1, <2>2 DEF Whole
    <2>. QED
      BY <1>2, <1>3, <2>3 DEF Solid, Shapely
  <1>8. Shapely(v)
    BY <1>1, <1>2, <1>3, <1>7, ShapelyNext
  <1>9. Hung'
    BY <1>6, <1>8, HungNext
  <1>10. Tame'
    <2>1. bodies' = u.bodies /\ fractures' = {}
      BY <1>1 DEF Become
    <2>. QED
      BY <1>2, <1>3, <2>1, TameNext
  <1>. QED
    BY <1>9, <1>10

\* A mob that is killed.
LEMMA KillMobWatch ==
  ASSUME HangInv, NEW id \in mobs, KillMob(id)
  PROVE  Tame' /\ Hung'
  <1>1. PICK ids : ids = {id}
    OBVIOUS
  <1>2. PICK o : o = World
    OBVIOUS
  <1>3. PICK v : v = Die(o, ids)
    OBVIOUS
  <1>4. /\ pc = "hazards" /\ pc' = pc /\ UNCHANGED <<loaded, simulated>>
        /\ Become(v) /\ mobs' = mobs \ {id}
    BY <1>1, <1>2, <1>3 DEF KillMob
  <1>5. v.broken = {}
    BY <1>2, <1>3, <1>4, HungFacts, AvatarFacts, WorldIs, DieKeeps
  <1>6. \A j \in ids \cap DOMAIN bodies : bodies[j].policy # "DEBRIS"
    BY <1>1, HungFacts DEF Tame
  <1>. QED
    BY <1>1, <1>2, <1>3, <1>4, <1>5, <1>6, DeathsWatch

\* A player that is killed.
LEMMA KillPlayerWatch ==
  ASSUME HangInv, NEW p \in Players, KillPlayer(p)
  PROVE  Tame' /\ Hung'
  <1>1. PICK ids : ids = {players[p].body}
    OBVIOUS
  <1>2. PICK o : o = World
    OBVIOUS
  <1>3. PICK v : v = Die(o, ids)
    OBVIOUS
  <1>4. /\ pc = "hazards" /\ pc' = pc /\ UNCHANGED <<loaded, simulated>>
        /\ Become(v) /\ mobs' = mobs /\ Is(p, "alive")
    BY <1>1, <1>2, <1>3 DEF KillPlayer
  <1>5. v.broken = {}
    BY <1>2, <1>3, <1>4, HungFacts, AvatarFacts, WorldIs, DieKeeps
  <1>6. players[p].body \in Avatars /\ players[p].body \notin mobs
    BY <1>4, HungFacts, OthersAvatars
  <1>7. \A j \in ids \cap DOMAIN bodies : bodies[j].policy # "DEBRIS"
    BY <1>1, <1>6, HungFacts, PolicyFacts DEF BodiesInv, MindsOwn
  <1>. QED
    BY <1>1, <1>2, <1>3, <1>4, <1>5, <1>6, <1>7, DeathsWatch

\* What is left of broken minds.
LEMMA ResolveWatch ==
  ASSUME HangInv, Resolve
  PROVE  Tame' /\ Hung'
  <1>1. PICK ids : ids = UNION {f.parts : f \in {g \in fractures : g.source \in Minded}}
    OBVIOUS
  <1>2. PICK o : o = World
    OBVIOUS
  <1>3. PICK u : u = Die(o, ids)
    OBVIOUS
  <1>4. PICK v : v = [u EXCEPT !.broken = {}]
    OBVIOUS
  <1>5. /\ pc = "resolve" /\ pc' = "drive" /\ UNCHANGED <<loaded, simulated>>
        /\ Become(v) /\ mobs' = mobs \ Sources
    BY <1>1, <1>2, <1>3, <1>4 DEF Resolve, Buried, Sources
  <1>6. /\ v.mat = u.mat /\ v.owner = u.owner /\ v.bodies = u.bodies /\ v.seeds = u.seeds
        /\ v.parked = u.parked /\ v.broken = {}
    <2>1. u \in Worlds
      BY <1>2, <1>3, HungFacts, DieKeeps DEF Sound
    <2>. QED
      BY <1>4, <2>1, WorldFacts
  <1>7. \A j \in ids : \E f \in fractures : f.source \in Minded /\ j \in f.parts
    BY <1>1
  <1>8. \A j \in ids \cap DOMAIN bodies : bodies[j].policy # "DEBRIS"
    BY <1>7, HungFacts DEF Tame
  <1>9. mobs' \cap ids = {}
    <2>1. \A f \in fractures : \A j \in f.parts : j = f.source \/ j \notin Minded
      BY HungFacts DEF BodiesInv, Broken
    <2>. QED
      BY <1>5, <1>7, <2>1 DEF Sources, Minded
  <1>. QED
    BY <1>2, <1>3, <1>5, <1>6, <1>8, <1>9, DeathsWatch

\* A body's step leaves minds as they are.
LEMMA ChangeWatch ==
  ASSUME HangInv, pc \in {"drive", "advance"}, pc' \in {"drive", "advance", "hazards"},
         UNCHANGED <<loaded, simulated, mobs>>,
         NEW v, Become(v), v.broken = fractures, Shapely(v), Watched(v, loaded, simulated),
         \A j \in DOMAIN v.bodies : j \in DOMAIN bodies /\ v.bodies[j].policy = bodies[j].policy
  PROVE  Tame' /\ Hung'
  <1>1. fractures = {} /\ Tame
    BY HungFacts, AvatarFacts
  <1>2. bodies' = v.bodies /\ fractures' = {}
    BY <1>1 DEF Become
  <1>. QED
    BY <1>1, <1>2, TameNext, HungNext

\* An avatar that stands or ducks.
LEMMA ReshapeWatch ==
  ASSUME HangInv, NEW p \in Players, NEW S, Reshape(p, S)
  PROVE  Tame' /\ Hung'
  <1> DEFINE id == players[p].body  held == Raster(bodies[id])
             w == PutAll(PutAll(World, held \ S, "air", 0), S, "flesh", 0)
             v == [w EXCEPT !.owner = Stamp(w, S, id).owner,
                            !.bodies = With(@, id, [bodies[id] EXCEPT !.slots = Restrict(w.mat, S)])]
  <1>1. /\ pc = "drive" /\ pc' = pc /\ UNCHANGED <<loaded, simulated, mobs>>
        /\ id \in DOMAIN bodies /\ Fits(World, S \ held) /\ Become(v) /\ Is(p, "alive")
        /\ S \in {At(MinCorner(held), Stand), At(MinCorner(held), Duck)}
    BY DEF Reshape
  <1>2. PICK o : o = World
    OBVIOUS
  <1>3. /\ Sound(o) /\ id \in DOMAIN o.bodies /\ o.bodies = bodies
        /\ o.broken = fractures /\ \A j \in DOMAIN bodies : Whole(o, j)
        /\ Shapely(o) /\ Watched(o, loaded, simulated)
    BY <1>1, <1>2, HungFacts, WorldIs
  <1>4. Joined(S) /\ S # {}
    <2>1. held \in Rasters
      BY <1>1, HungFacts, StateFacts
    <2>2. MinCorner(held) \in Plane
      BY <2>1, CornersInPlane
    <2>. QED
      BY <1>1, <2>2, FiguresAreJoined DEF Figures
  <1>5. o.bodies[id].policy # "DEBRIS"
    <2>1. id \in Avatars
      BY <1>1, AvatarsAre
    <2>. QED
      BY <1>1, <1>3, <2>1, HungFacts, PolicyFacts DEF BodiesInv, MindsOwn
  <1> DEFINE x == Recast(o, id, S)
  <1>6. x = v
    BY <1>2, <1>3 DEF Recast
  <1>7. Fits(o, S \ Raster(o.bodies[id])) /\ Whole(o, id)
    BY <1>1, <1>2, <1>3
  <1> HIDE DEF v, w, id, held
  <1>8. /\ Sound(x) /\ Whole(x, id) /\ x.next = o.next /\ x.broken = o.broken
        /\ DOMAIN x.bodies = DOMAIN o.bodies
        /\ x.bodies[id].policy = o.bodies[id].policy
        /\ Raster(x.bodies[id]) = S
        /\ \A j \in DOMAIN o.bodies : j # id =>
             x.bodies[j] = o.bodies[j] /\ (Whole(o, j) => Whole(x, j))
    BY <1>3, <1>4, <1>7, RecastKeeps
  <1>9. Stirs(o, x) /\ o.seeds \subseteq x.seeds /\ \A q \in S : x.mat[q] = "flesh"
    BY <1>3, <1>4, <1>5, <1>7, RecastStirs
  <1> HIDE DEF x
  <1>10. Solid(x.bodies[id])
    BY <1>4, <1>8, <1>9 DEF Solid, Whole
  <1>11. Shapely(x)
    BY <1>3, <1>8, <1>10, ShapelyNext
  <1>12. Watched(x, loaded, simulated)
    BY <1>3, <1>9, StirsKeepsWatch
  <1>. QED
    BY <1>1, <1>3, <1>6, <1>8, <1>11, <1>12, ChangeWatch

\* A body that moves or parks.
LEMMA SlideWatch ==
  ASSUME HangInv, NEW id \in DOMAIN bodies, NEW d \in Cardinals, Slide(id, d)
  PROVE  Tame' /\ Hung'
  <1> DEFINE b == bodies[id]
             S == At(d, Raster(b))
             from(p) == Shift(p, <<-d[1], -d[2]>>)
             moved == Write(PutAll(World, Raster(b) \ S, "air", 0), [p \in S |-> mat[from(p)]], id)
             there == [b EXCEPT !.slots = [p \in S |-> b.slots[from(p)]]]
             v == [moved EXCEPT !.bodies = With(@, id, there)]
             k == [World EXCEPT !.bodies = With(@, id, [b EXCEPT !.parked = TRUE])]
  <1>1. /\ pc = "advance" /\ pc' = pc /\ UNCHANGED <<loaded, simulated, mobs>>
        /\ Become(k) \/ (Fits(World, S \ Raster(b)) /\ Become(v))
    BY DEF Slide
  <1>2. PICK o : o = World
    OBVIOUS
  <1>3. /\ Sound(o) /\ id \in DOMAIN o.bodies /\ o.bodies = bodies /\ o.mat = mat
        /\ o.broken = fractures /\ \A j \in DOMAIN bodies : Whole(o, j)
        /\ Shapely(o) /\ Watched(o, loaded, simulated)
    BY <1>1, <1>2, HungFacts, WorldIs
  <1>4. CASE Become(k)
    <2> DEFINE x == [o EXCEPT !.bodies = With(@, id, [o.bodies[id] EXCEPT !.parked = TRUE])]
    <2>1. /\ Sound(x) /\ x.next = o.next /\ x.broken = o.broken
          /\ x.mat = o.mat /\ x.owner = o.owner /\ x.seeds = o.seeds /\ x.parked = o.parked
          /\ DOMAIN x.bodies = DOMAIN o.bodies
          /\ \A j \in DOMAIN o.bodies :
               /\ x.bodies[j].slots = o.bodies[j].slots
               /\ x.bodies[j].policy = o.bodies[j].policy
               /\ Whole(x, j) <=> Whole(o, j)
      BY <1>3, ParkKeeps
    <2>2. x = k
      BY <1>2, <1>3
    <2> HIDE DEF x, k
    <2>3. Stirs(o, x)
      <3>1. \A p \in Cells : o.owner[p] # 0 => o.owner[p] \in DOMAIN o.bodies
        BY <1>3 DEF Sound, Claimed
      <3>. QED
        BY <2>1, <3>1, StillStirs
    <2>4. Shapely(x)
      BY <1>3, <2>1, ShapelyNext
    <2>5. Watched(x, loaded, simulated)
      BY <1>3, <2>3, StirsKeepsWatch
    <2>. QED
      BY <1>1, <1>3, <1>4, <2>1, <2>2, <2>4, <2>5, ChangeWatch
  <1>5. CASE Fits(World, S \ Raster(b)) /\ Become(v)
    <2>1. d \in Plane
      BY CardinalsInPlane
    <2> DEFINE x == Moved(o, id, d)
    <2>2. /\ Fits(o, At(d, Raster(o.bodies[id])) \ Raster(o.bodies[id])) /\ Whole(o, id)
          /\ Solid(o.bodies[id])
      BY <1>2, <1>3, <1>5 DEF Shapely
    <2>3. /\ Sound(x) /\ Whole(x, id) /\ x.next = o.next /\ x.broken = o.broken
          /\ DOMAIN x.bodies = DOMAIN o.bodies
          /\ x.bodies[id].policy = o.bodies[id].policy
          /\ Raster(x.bodies[id]) = At(d, Raster(o.bodies[id]))
          /\ \A j \in DOMAIN o.bodies : j # id =>
               x.bodies[j] = o.bodies[j] /\ (Whole(o, j) => Whole(x, j))
      BY <1>3, <2>1, <2>2, MoveKeeps
    <2>4. /\ Stirs(o, x) /\ o.seeds \subseteq x.seeds
          /\ \A p \in Raster(x.bodies[id]) : \E q \in Raster(o.bodies[id]) :
               x.mat[p] = o.bodies[id].slots[q]
      BY <1>3, <2>1, <2>2, MoveStirs
    <2>5. x = v
      BY <1>2, <1>3 DEF Moved
    <2> HIDE DEF x, v, S
    <2>6. Solid(x.bodies[id])
      <3>1. Raster(o.bodies[id]) \in SUBSET Plane
        BY <1>3, HungFacts, StateFacts, CellsInPlane
      <3>2. Joined(Raster(x.bodies[id]))
        BY <2>1, <2>2, <2>3, <3>1, JoinedAnywhere DEF Solid
      <3>3. \A p \in Raster(x.bodies[id]) : x.bodies[id].slots[p] = x.mat[p]
        BY <2>3 DEF Whole
      <3>4. \A p, q \in Raster(o.bodies[id]) : o.bodies[id].slots[p] = o.bodies[id].slots[q]
        BY <2>2 DEF Solid
      <3>. QED
        BY <2>4, <3>2, <3>3, <3>4 DEF Solid
    <2>7. Shapely(x)
      BY <1>3, <2>3, <2>6, ShapelyNext
    <2>8. Watched(x, loaded, simulated)
      BY <1>3, <2>4, StirsKeepsWatch
    <2>. QED
      BY <1>1, <1>3, <1>5, <2>3, <2>5, <2>7, <2>8, ChangeWatch
  <1>. QED
    BY <1>1, <1>4, <1>5

\* Bodies that settle stand on terrain.
LEMMA SettleWatch ==
  ASSUME HangInv, NEW S \in SUBSET DOMAIN bodies, SettleBodies(S)
  PROVE  Tame' /\ Hung'
  <1>1. /\ pc = "advance" /\ pc' = "hazards" /\ UNCHANGED <<loaded, simulated, mobs>>
        /\ \A id \in S : Braced(id)
    BY DEF SettleBodies
  <1>2. PICK o : o = World
    OBVIOUS
  <1>3. PICK v : v = Settle(o, S)
    OBVIOUS
  <1>4. /\ Sound(o) /\ o.bodies = bodies /\ o.mat = mat /\ o.owner = owner
        /\ o.broken = fractures /\ Shapely(o) /\ Bruised(o) /\ Watched(o, loaded, simulated)
    BY <1>1, <1>2, HungFacts, WorldIs
  <1>5. ASSUME NEW id \in S PROVE Stands(o, id)
    <2>1. PICK q : /\ q \in {Shift(p, <<0, -1>>) : p \in Raster(bodies[id])}
                   /\ owner[q] = 0 /\ Obstructs(mat[q])
      BY <1>1, <1>5 DEF Braced
    <2>2. PICK p \in Raster(bodies[id]) : q = Shift(p, <<0, -1>>)
      BY <2>1
    <2>3. q \in Beside(p)
      BY <2>2 DEF Beside, At, Cardinals
    <2>. QED
      BY <1>4, <2>1, <2>3 DEF Stands, Obstructs
  <1>6. /\ Sound(v)
        /\ v.next = o.next /\ v.broken = o.broken
        /\ DOMAIN v.bodies = DOMAIN o.bodies \ S
        /\ \A id \in DOMAIN v.bodies :
             v.bodies[id] = o.bodies[id] /\ (Whole(o, id) => Whole(v, id))
    BY <1>3, <1>4, SettleKeeps
  <1>7. Watched(v, loaded, simulated) /\ Shapely(v)
    BY <1>3, <1>4, <1>5, StandingKeepsWatch
  <1>8. Become(v)
    BY <1>2, <1>3 DEF SettleBodies
  <1>. QED
    BY <1>1, <1>4, <1>6, <1>7, <1>8, ChangeWatch

\* Physics loses nothing, and what it breaks is as tame as it was.
LEMMA IntegrateWatch ==
  ASSUME HangInv, Integrate
  PROVE  Tame' /\ Hung'
  <1>1. PICK o : o = World
    OBVIOUS
  <1>2. PICK u : u = Unparked(o)
    OBVIOUS
  <1>3. PICK r : r = ReconcileAll(u)
    OBVIOUS
  <1>4. PICK v : v = Detach(r)
    OBVIOUS
  <1>5. /\ pc = "simulate" /\ pc' = "resolve" /\ UNCHANGED <<loaded, simulated, mobs, players>>
        /\ Become(v)
    BY <1>1, <1>2, <1>3, <1>4 DEF Integrate
  <1>6. /\ Sound(o) /\ o.bodies = bodies /\ o.next = next /\ o.broken = {} /\ Tame
        /\ Shapely(o) /\ Watched(o, loaded, simulated) /\ Avatars \subseteq DOMAIN bodies
    BY <1>1, <1>5, HungFacts, AvatarFacts, WorldIs
  <1>7. /\ Sound(u) /\ u.next = o.next /\ u.broken = {} /\ DOMAIN u.bodies = DOMAIN o.bodies
        /\ \A j \in DOMAIN o.bodies :
             /\ u.bodies[j].slots = o.bodies[j].slots
             /\ u.bodies[j].policy = o.bodies[j].policy
    BY <1>2, <1>6, UnparkedKeeps
  <1>8. Stirs(o, u) /\ Shapely(u)
    BY <1>2, <1>6, UnparkedStirs
  <1>9. Sound(r) /\ \A j \in DOMAIN r.bodies : Whole(r, j)
    BY <1>3, <1>7, ReconcileAllKeeps
  <1>10. Stirs(u, r) /\ Shapely(r)
    BY <1>3, <1>7, <1>8, ReconcileAllStirs
  <1>11. Watched(r, loaded, simulated)
    BY <1>6, <1>8, <1>10, StirsKeepsWatch
  <1>12. Watched(v, loaded, simulated) /\ Shapely(v)
    BY <1>4, <1>9, <1>10, <1>11, DetachKeepsWatch
  <1>13. Hung'
    BY <1>5, <1>12, HungNext
  <1>14. Integrated(o, v)
    BY <1>2, <1>3, <1>4, <1>6, BodiesIntegrate
  <1>15. /\ \A j \in DOMAIN v.bodies : j \in DOMAIN o.bodies \/ o.next <= j
         /\ \A f \in v.broken : f.source \in DOMAIN o.bodies
         /\ \A f \in v.broken : \A j \in f.parts \cap DOMAIN v.bodies :
              v.bodies[j].policy = o.bodies[f.source].policy
         /\ \A j \in DOMAIN o.bodies \cap DOMAIN v.bodies :
              v.bodies[j].policy = o.bodies[j].policy
    BY <1>14 DEF Integrated
  <1>16. bodies' = v.bodies /\ fractures' = v.broken /\ Minded' = Minded /\ mobs' = mobs
    BY <1>5 DEF Become, Minded, Avatars, Is
  <1>17. \A id \in Minded \cap DOMAIN bodies : bodies[id].policy # "DEBRIS"
    BY <1>6, HungFacts, PolicyFacts DEF Tame, Minded, BodiesInv, MindsOwn
  <1>18. \A id \in mobs : id \in Nat /\ id < next
    BY HungFacts DEF BodiesInv, Seated, Positive, MindsOwn, Minded
  <1>19. next \in Nat
    BY HungFacts, StateFacts
  <1>20. \A id \in mobs \cap DOMAIN bodies' : bodies'[id].policy # "DEBRIS"
    BY <1>6, <1>15, <1>16, <1>17, <1>18, <1>19 DEF Minded
  <1>21. \A f \in fractures' : f.source \in Minded =>
           \A j \in f.parts \cap DOMAIN bodies' : bodies'[j].policy # "DEBRIS"
    BY <1>6, <1>15, <1>16, <1>17
  <1>. QED
    BY <1>13, <1>16, <1>20, <1>21 DEF Tame

\* Regions that come and go lose nothing: what comes in exposed is stirred,
\* what settles at a border is larger than an island or reaches out of what is
\* loaded, and what waited for a chunk is woken with it.
LEMMA ManageRegionsWatch ==
  ASSUME HangInv, ManageRegions
  PROVE  Tame' /\ Hung'
  <1> DEFINE wanted == {RegionOf(c) : c \in Tickets}
  <1>1. PICK arrived \in {{}} \cup {{r} : r \in (wanted \cap Regions) \ loaded},
             expired \in SUBSET (loaded \ wanted) :
          /\ loaded' = (loaded \cup arrived) \ expired
          /\ LET w1 == Load(World, arrived)
                 doomed == Doomed(w1, expired)
                 w2 == Despawn(w1, doomed)
             IN  /\ Become(Wake(Settle(w2, Crossing(w2, expired)), Tickets \ simulated))
                 /\ mobs' = mobs \ doomed
    BY DEF ManageRegions
  <1>2. pc = "input" /\ pc' = "simulate" /\ simulated' = Tickets
    BY DEF ManageRegions
  <1>3. arrived \cap loaded = {} /\ arrived \subseteq Regions
    BY <1>1
  <1> HIDE DEF wanted
  <1>4. PICK o : o = World
    OBVIOUS
  <1>5. /\ Sound(o) /\ o.bodies = bodies /\ o.broken = fractures /\ fractures = {} /\ Tame
        /\ Shapely(o) /\ Bruised(o) /\ Watched(o, loaded, simulated)
    BY <1>2, <1>4, HungFacts, AvatarFacts, WorldIs
  <1>6. PICK w1 : w1 = Load(o, arrived)
    OBVIOUS
  <1>7. Sound(w1) /\ w1.bodies = o.bodies /\ w1.next = o.next /\ w1.broken = o.broken
    BY <1>5, <1>6, LoadKeeps
  <1>8. /\ Watched(w1, loaded \cup arrived, simulated)
        /\ w1.mat = o.mat /\ w1.owner = o.owner /\ o.seeds \subseteq w1.seeds
    BY <1>3, <1>5, <1>6, LoadKeepsWatch
  <1>9. Shapely(w1) /\ Bruised(w1)
    BY <1>5, <1>7, <1>8 DEF Shapely, Bruised
  <1>10. PICK doomed : doomed = Doomed(w1, expired)
    OBVIOUS
  <1>11. doomed \in SUBSET DOMAIN w1.bodies
    BY <1>10 DEF Doomed
  <1>12. PICK w2 : w2 = Despawn(w1, doomed)
    OBVIOUS
  <1>13. /\ Sound(w2)
         /\ w2.next = w1.next /\ w2.broken = w1.broken
         /\ DOMAIN w2.bodies = DOMAIN w1.bodies \ doomed
         /\ \A id \in DOMAIN w2.bodies :
              w2.bodies[id] = w1.bodies[id] /\ (Whole(w1, id) => Whole(w2, id))
    BY <1>7, <1>11, <1>12, DespawnKeeps
  <1>14. /\ Stirs(w1, w2) /\ w1.seeds \subseteq w2.seeds
         /\ \A p \in Cells : w1.owner[p] \notin doomed =>
              w2.mat[p] = w1.mat[p] /\ w2.owner[p] = w1.owner[p]
    BY <1>7, <1>11, <1>12, DespawnStirs
  <1>15. Shapely(w2) /\ Watched(w2, loaded \cup arrived, simulated)
    BY <1>8, <1>9, <1>13, <1>14, ShapelyNext, StirsKeepsWatch
  <1>16. Bruised(w2)
    <2>1. \A j \in DOMAIN w2.bodies : j \in DOMAIN w1.bodies /\ w2.bodies[j] = w1.bodies[j]
      BY <1>13
    <2>2. \A p \in Cells : \/ w2.mat[p] = w1.mat[p] /\ w2.owner[p] = w1.owner[p]
                           \/ w1.owner[p] \notin DOMAIN w2.bodies
      BY <1>13, <1>14
    <2>. QED
      BY <1>7, <1>9, <1>14, <2>1, <2>2, BruisedNext
  <1>17. PICK gone : gone = Crossing(w2, expired)
    OBVIOUS
  <1>18. PICK w3 : w3 = Settle(w2, gone)
    OBVIOUS
  <1>19. gone \in SUBSET DOMAIN w2.bodies
    BY <1>17 DEF Crossing
  <1>20. /\ Sound(w3)
         /\ w3.next = w2.next /\ w3.broken = w2.broken
         /\ DOMAIN w3.bodies = DOMAIN w2.bodies \ gone
         /\ \A id \in DOMAIN w3.bodies :
              w3.bodies[id] = w2.bodies[id] /\ (Whole(w2, id) => Whole(w3, id))
    BY <1>13, <1>18, <1>19, SettleKeeps
  <1>21. Watched(w3, (loaded \cup arrived) \ expired, simulated) /\ Shapely(w3)
    BY <1>13, <1>15, <1>16, <1>17, <1>18, CrossingKeepsWatch
  <1>22. PICK v : v = Wake(w3, Tickets \ simulated)
    OBVIOUS
  <1>23. Sound(v) /\ v.bodies = w3.bodies /\ v.next = w3.next /\ v.broken = w3.broken
    BY <1>20, <1>22, WakeKeeps
  <1>24. Watched(v, (loaded \cup arrived) \ expired, Tickets)
    BY <1>20, <1>21, <1>22, WakeKeepsWatch DEF Sound
  <1>25. Shapely(v)
    BY <1>21, <1>23 DEF Shapely
  <1>26. Become(v) /\ mobs' = mobs \ doomed
    BY <1>1, <1>4, <1>6, <1>10, <1>12, <1>17, <1>18, <1>22
  <1>27. Hung'
    BY <1>1, <1>2, <1>24, <1>25, <1>26, HungNext
  <1>28. Tame'
    <2>1. fractures' = {} /\ bodies' = v.bodies
      BY <1>5, <1>7, <1>13, <1>20, <1>23, <1>26 DEF Become
    <2>2. \A j \in DOMAIN v.bodies : j \in DOMAIN bodies /\ v.bodies[j] = bodies[j]
      BY <1>5, <1>7, <1>13, <1>20, <1>23
    <2>. QED
      BY <1>5, <1>26, <2>1, <2>2, TameNext
  <1>. QED
    BY <1>27, <1>28

\* What enters or revives, a phase that ends: nothing hangs that did not.
LEMMA StillStep ==
  ASSUME HangInv, pc \notin {"simulate", "resolve"},
         UNCHANGED <<terrainVars, bodies, seeds, parkedSeeds, fractures, loaded, simulated>>,
         mobs' \subseteq mobs
  PROVE  Tame' /\ Hung'
  <1>1. Tame /\ fractures = {}
    BY HungFacts, AvatarFacts
  <1>. QED
    BY <1>1, StillWatch, TameNext

\* Nothing happens.
LEMMA StutterWatch ==
  ASSUME HangInv, UNCHANGED vars
  PROVE  Tame' /\ Hung'
  <1>1. /\ UNCHANGED <<pc, loaded, simulated, mat, owner, bodies, mobs, players, next, seeds,
                       parkedSeeds, fractures, acts>>
    BY DEF vars, terrainVars
  <1>2. World' = World
    BY <1>1 DEF World
  <1>3. Hung'
    BY <1>1, <1>2 DEF HangInv, Hung, Shapely, Bruised, Watched, Adrift, Within, Heeded, Seeded,
                      Awaited, Slack
  <1>4. Minded' = Minded
    BY <1>1 DEF Minded, Avatars, Is
  <1>5. Tame'
    BY <1>1, <1>4 DEF HangInv, Tame
  <1>. QED
    BY <1>3, <1>5

\* A cell that hands take leaves a seed.
LEMMA DigWatch ==
  ASSUME HangInv, NEW p, Dig(p)
  PROVE  Tame' /\ Hung'
  <1>1. p \in Cells /\ "air" \in Materials /\ 0 \in Nat
    BY DEF Dig, Loaded, Materials
  <1>. QED
    BY <1>1, CellWatch DEF Dig

\* A cell that hands fill was free.
LEMMA PlaceWatch ==
  ASSUME HangInv, NEW p, NEW m \in Blocks, Place(p, m)
  PROVE  Tame' /\ Hung'
  <1>1. p \in Cells /\ m \in Materials /\ 0 \in Nat /\ mat[p] = "air" /\ owner[p] = 0
    BY InitialAssumption DEF Place, Free, Loaded, World
  <1>. QED
    BY <1>1, CellWatch DEF Place

\* A cell that burns or melts was one that bonds.
LEMMA TransformWatch ==
  ASSUME HangInv, NEW p, NEW m, Transform(p, m)
  PROVE  Tame' /\ Hung'
  <1>1. p \in Cells /\ owner[p] \in Nat
    BY HungFacts, StateFacts DEF Transform, Loaded
  <1>2. m \in Materials /\ mat[p] # m /\ Bondable(mat[p])
    <2>1. m \in Becomes(mat[p])
      BY DEF Transform
    <2>. QED
      BY <2>1 DEF Becomes, Materials, Bondable
  <1>. QED
    BY <1>1, <1>2, CellWatch DEF Transform

\* There is nothing in a world that nobody loaded.
LEMMA HangInit ==
  ASSUME Init
  PROVE  HangInv
  <1>1. BodiesInv
    BY InitHolds
  <1>2. loaded = {} /\ mobs = {} /\ fractures = {} /\ DOMAIN bodies = {}
    BY DEF Init
  <1>3. DOMAIN World.bodies = {}
    BY <1>2, WorldIs
  <1>4. Watched(World, loaded, simulated)
    <2>1. \A T \in Rasters : ~Within(T, loaded)
      BY <1>2 DEF Within, Rasters
    <2>. QED
      BY <2>1 DEF Watched
  <1>5. Hung
    BY <1>3, <1>4 DEF Hung, Shapely, Bruised
  <1>6. Tame
    BY <1>2 DEF Tame
  <1>. QED
    BY <1>1, <1>5, <1>6 DEF HangInv

\* Every step keeps what hangs in mind.
LEMMA WatchNext ==
  ASSUME HangInv, [Next]_vars
  PROVE  Tame' /\ Hung'
  <1>1. CASE \E p \in Players, at \in Spawns : Join(p, at) \/ Revive(p, at)
    <2>1. /\ pc = "input" /\ mobs' = mobs
          /\ UNCHANGED <<terrainVars, bodies, seeds, parkedSeeds, fractures, loaded, simulated>>
      BY <1>1 DEF Join, Revive
    <2>. QED
      BY <2>1, StillStep
  <1>2. CASE \E p \in Players, at \in Spawns : Materialize(p, at)
    BY <1>2, MaterializeWatch
  <1>3. CASE \E p \in Players : Leave(p)
    BY <1>3, LeaveWatch
  <1>4. CASE \E p \in Players : KillPlayer(p)
    BY <1>4, KillPlayerWatch
  <1>5. CASE \E p \in Players, species \in Species : Summon(p, species)
    BY <1>5, SummonWatch
  <1>6. CASE \E p \in Hands : Dig(p)
    BY <1>6, DigWatch
  <1>7. CASE \E p \in Hands, m \in Blocks : Place(p, m)
    BY <1>7, PlaceWatch
  <1>8. CASE ManageRegions
    BY <1>8, ManageRegionsWatch
  <1>9. CASE \E p \in Hands : \E m \in Becomes(mat[p]) : Transform(p, m)
    BY <1>9, TransformWatch
  <1>10. CASE Integrate
    BY <1>10, IntegrateWatch
  <1>11. CASE Resolve
    BY <1>11, ResolveWatch
  <1>12. CASE \E p \in Players : \E S : Reshape(p, S)
    BY <1>12, ReshapeWatch
  <1>13. CASE Drive \/ EndTick
    <2>1. /\ pc \in {"drive", "hazards"} /\ mobs' \subseteq mobs
          /\ UNCHANGED <<terrainVars, bodies, seeds, parkedSeeds, fractures, loaded, simulated>>
      BY <1>13 DEF Drive, EndTick
    <2>. QED
      BY <2>1, StillStep
  <1>14. CASE \E id \in DOMAIN bodies, d \in Cardinals : Slide(id, d)
    BY <1>14, SlideWatch
  <1>15. CASE \E S \in SUBSET DOMAIN bodies : SettleBodies(S)
    BY <1>15, SettleWatch
  <1>16. CASE \E id \in mobs : KillMob(id)
    BY <1>16, KillMobWatch
  <1>17. CASE UNCHANGED vars
    BY <1>17, StutterWatch
  <1>18. (\E p \in Players : Is(p, "alive")
            /\ \E pose \in {Stand, Duck} :
                 Reshape(p, At(MinCorner(Raster(bodies[players[p].body])), pose)))
         => \E p \in Players : \E S : Reshape(p, S)
    OBVIOUS
  <1>. QED
    BY <1>1, <1>2, <1>3, <1>4, <1>5, <1>6, <1>7, <1>8, <1>9, <1>10, <1>11, <1>12, <1>13, <1>14,
       <1>15, <1>16, <1>17, <1>18 DEF Next

\* So the invariant is kept.
LEMMA HangNext ==
  ASSUME HangInv, [Next]_vars
  PROVE  HangInv'
  <1>1. BodiesInv'
    BY NextHolds DEF HangInv
  <1>2. Tame' /\ Hung'
    BY WatchNext
  <1>. QED
    BY <1>1, <1>2 DEF HangInv

\* Where nothing keeps an island from moving, no seed waits for it elsewhere.
LEMMA HangSays ==
  ASSUME HangInv
  PROVE  NothingHangsForgotten
  <1>1. SUFFICES ASSUME NEW p \in Cells, Rigid(World, p), Floating(Island(World, p))
                 PROVE  Near(Island(World, p)) \cap seeds # {}
    BY DEF NothingHangsForgotten, Near
  <1> DEFINE S == Island(World, p)  m == World.mat[p]
  <1>2. World \in Worlds /\ Watched(World, loaded, simulated)
    BY HungFacts
  <1>3. /\ Blockers(S) = {} /\ Cardinality(S) <= MaxIsland /\ Compact(S)
        /\ \A q \in (UNION {Beside(x) : x \in S}) \ S : Free(World, q)
    BY <1>1 DEF Floating
  <1>4. \A q \in Near(S) \ S : Free(World, q)
    BY <1>3 DEF Near
  <1>5. m \in Bonded /\ S \in Rasters /\ Adrift(World, m, S) /\ Within(S, loaded)
    BY <1>1, <1>2, <1>3, <1>4, FloatingIsAdrift
  <1> HIDE DEF S, m
  <1>6. Heeded(World, S, loaded, simulated)
    BY <1>2, <1>5 DEF Watched
  <1>7. ~Awaited(World, S, loaded, simulated)
    BY <1>3 DEF Awaited, Blockers
  <1>8. Near(S) \cap seeds # {}
    BY <1>6, <1>7, WorldIs DEF Heeded, Seeded
  <1>. QED
    BY <1>8 DEF S

\* Terrain small enough to move that hangs in the air where bodies can is on
\* the list of what the next integration looks at, whatever took its support: hands, fire, a
\* body that died, moved, left or settled, a region that came in or expired,
\* a chunk that is simulated again (Bodies::unseat, detach, wake_chunks,
\* unseat_exposed, settle_regions).
THEOREM NothingIsForgotten == Spec => []NothingHangsForgotten
  <1>1. Init => HangInv
    BY HangInit
  <1>2. HangInv /\ [Next]_vars => HangInv'
    BY HangNext
  <1>3. HangInv => NothingHangsForgotten
    BY HangSays
  <1>. QED
    BY <1>1, <1>2, <1>3, PTL DEF Spec
=============================================================================
