---------------------------- MODULE MiningProofs -----------------------------
(***************************************************************************)
(* For any number of players, any row, any inventory and any bounds of     *)
(* Mining: what survival players do neither makes nor voids matter, and    *)
(* they dig out only what they worked on for as long as it takes.          *)
(***************************************************************************)
EXTENDS Mining, Recursion

-----------------------------------------------------------------------------
(* Totals.                                                                 *)

Sums(f, n, s) ==
  s \in [0..n -> Int] /\ s[0] = 0 /\ \A k \in 1..n : s[k] = s[k - 1] + f[k]

\* A total is the last of the running sums.
LEMMA TotalIsSum ==
  ASSUME NEW n \in Nat, NEW f \in [1..n -> Int]
  PROVE  \E s : Sums(f, n, s) /\ Total(f, n) = s[n]
  <1> DEFINE Adds(g) == g = [k \in 0..n |-> IF k = 0 THEN 0 ELSE g[k - 1] + f[k]]
             step == [k \in 1..n |-> [x \in Int |-> x + f[k]]]
             sum == CHOOSE g : Adds(g)
  <1>1. step \in [1..n -> [Int -> Int]]
    OBVIOUS
  <1>2. PICK s \in [0..n -> Int] : Runs(s, n, 0, step)
    <2>1. 0 \in Int
      OBVIOUS
    <2> HIDE DEF step
    <2>. QED
      BY <1>1, <2>1, BoundedFunctionExists
  <1>3. Adds(s)
    <2>1. ASSUME NEW k \in 0..n PROVE s[k] = IF k = 0 THEN 0 ELSE s[k - 1] + f[k]
      <3>1. CASE k = 0
        BY <1>2, <3>1 DEF Runs
      <3>2. CASE k # 0
        <4>1. k \in 1..n /\ k - 1 \in 0..n
          BY <3>2
        <4>2. s[k] = step[k][s[k - 1]] /\ s[k - 1] \in Int
          BY <1>2, <4>1 DEF Runs
        <4>. QED
          BY <3>2, <4>1, <4>2
      <3>. QED
        BY <3>1, <3>2
    <2>. QED
      BY <2>1
  <1>4. Adds(sum)
    BY <1>3
  <1>5. Total(f, n) = sum[n]
    BY DEF Total
  <1> HIDE DEF sum, step
  <1>11. sum[0] = 0
    BY <1>4
  <1>10. ASSUME NEW k \in 1..n PROVE sum[k] = sum[k - 1] + f[k]
    <2>1. k \in 0..n /\ k # 0
      OBVIOUS
    <2>. QED
      BY <1>4, <2>1
  <1> DEFINE T == {k \in 0..n : sum[k] \in Int}
  <1>6. 0 \in T
    BY <1>11
  <1>7. ASSUME NEW k \in 0..(n - 1), k \in T PROVE k + 1 \in T
    <2>1. k + 1 \in 1..n /\ (k + 1) - 1 = k
      OBVIOUS
    <2>2. sum[k + 1] = sum[k] + f[k + 1]
      BY <1>10, <2>1
    <2>. QED
      BY <1>7, <2>1, <2>2
  <1>8. 0..n \subseteq T
    <2> HIDE DEF T
    <2>. QED
      BY <1>6, <1>7, BoundedInduction
  <1>9. sum \in [0..n -> Int]
    <2>1. sum = [k \in 0..n |-> sum[k]]
      BY <1>4
    <2>. QED
      BY <1>8, <2>1
  <1>12. Sums(f, n, sum)
    BY <1>9, <1>10, <1>11 DEF Sums
  <1>. QED
    BY <1>5, <1>12

\* Totals of integers are integers, and of natural numbers natural numbers.
LEMMA TotalType ==
  ASSUME NEW n \in Nat, NEW f \in [1..n -> Int]
  PROVE  /\ Total(f, n) \in Int
         /\ (\A k \in 1..n : f[k] >= 0) => Total(f, n) >= 0
  <1>1. PICK s : Sums(f, n, s) /\ Total(f, n) = s[n]
    BY TotalIsSum
  <1>2. Total(f, n) \in Int
    BY <1>1 DEF Sums
  <1>3. ASSUME \A k \in 1..n : f[k] >= 0 PROVE Total(f, n) >= 0
    <2> DEFINE T == {k \in 0..n : s[k] >= 0}
    <2>1. 0 \in T
      BY <1>1 DEF Sums
    <2>2. ASSUME NEW k \in 0..(n - 1), k \in T PROVE k + 1 \in T
      <3>1. s[k + 1] = s[k] + f[k + 1] /\ s[k] \in Int /\ f[k + 1] \in Int /\ f[k + 1] >= 0
        BY <1>1, <1>3 DEF Sums
      <3>. QED
        BY <2>2, <3>1
    <2>3. 0..n \subseteq T
      <3> HIDE DEF T
      <3>. QED
        BY <2>1, <2>2, BoundedInduction
    <2>. QED
      BY <1>1, <2>3
  <1>. QED
    BY <1>2, <1>3

\* Totals of what differs in one place differ by as much.
LEMMA TotalChange ==
  ASSUME NEW n \in Nat, NEW f \in [1..n -> Int], NEW g \in [1..n -> Int], NEW i \in 1..n,
         \A k \in 1..n : k # i => g[k] = f[k]
  PROVE  Total(g, n) = Total(f, n) + (g[i] - f[i])
  <1>1. PICK s : Sums(f, n, s) /\ Total(f, n) = s[n]
    BY TotalIsSum
  <1>2. PICK t : Sums(g, n, t) /\ Total(g, n) = t[n]
    BY TotalIsSum
  <1> DEFINE d == g[i] - f[i]
             T == {k \in 0..n : t[k] = s[k] + (IF k < i THEN 0 ELSE d)}
  <1>d. d \in Int
    OBVIOUS
  <1>n. i \in Nat /\ n \in 0..n /\ i <= n
    OBVIOUS
  <1>s. /\ s \in [0..n -> Int] /\ s[0] = 0 /\ \A k \in 1..n : s[k] = s[k - 1] + f[k]
        /\ t \in [0..n -> Int] /\ t[0] = 0 /\ \A k \in 1..n : t[k] = t[k - 1] + g[k]
    BY <1>1, <1>2 DEF Sums
  <1>3. 0 \in T
    BY <1>n, <1>s
  <1>4. ASSUME NEW k \in 0..(n - 1), k \in T PROVE k + 1 \in T
    <2>1. k + 1 \in 1..n /\ (k + 1) - 1 = k /\ k \in 0..n
      OBVIOUS
    <2>2. s[k + 1] = s[k] + f[k + 1] /\ t[k + 1] = t[k] + g[k + 1]
      <3>. HIDE DEF T, d
      <3>1. s[k + 1] = s[(k + 1) - 1] + f[k + 1] /\ t[k + 1] = t[(k + 1) - 1] + g[k + 1]
        BY <1>s, <2>1
      <3>. QED
        BY <2>1, <3>1
    <2>3. k \in 0..n /\ s[k] \in Int /\ t[k] \in Int
      BY <1>s, <2>1
    <2>6. f[k + 1] \in Int /\ g[k + 1] \in Int
      BY <2>1
    <2>7. t[k] = s[k] + (IF k < i THEN 0 ELSE d)
      BY <1>4
    <2>4. CASE k + 1 = i
      <3>1. k < i /\ ~(k + 1 < i)
        BY <1>n, <2>4
      <3>2. g[k + 1] = f[k + 1] + d
        <4>1. d = g[k + 1] - f[k + 1]
          BY <2>4
        <4>. HIDE DEF d
        <4>. QED
          BY <2>6, <4>1
      <3>3. t[k] = s[k]
        BY <2>3, <2>7, <3>1
      <3> HIDE DEF d
      <3>4. t[k + 1] = s[k + 1] + d
        BY <1>d, <2>2, <2>3, <2>6, <3>2, <3>3
      <3>. QED
        BY <2>1, <3>1, <3>4
    <2>5. CASE k + 1 # i
      <3>1. g[k + 1] = f[k + 1]
        BY <2>1, <2>5
      <3>2. (k < i) <=> (k + 1 < i)
        BY <1>n, <2>5
      <3> HIDE DEF d
      <3>3. t[k + 1] = s[k + 1] + (IF k < i THEN 0 ELSE d)
        BY <1>d, <2>2, <2>3, <2>6, <2>7, <3>1
      <3>. QED
        BY <2>1, <3>2, <3>3
    <2>. QED
      BY <2>4, <2>5
  <1>5. 0..n \subseteq T
    <2> HIDE DEF T
    <2>. QED
      BY <1>3, <1>4, BoundedInduction
  <1>. QED
    BY <1>1, <1>2, <1>5
-----------------------------------------------------------------------------
(* What things are worth.                                                  *)

LEMMA Bounds ==
  /\ Players \in Nat /\ Players > 0 /\ Width \in Nat /\ Width > 0
  /\ CreativeRate \in Nat /\ CreativeRate > 0 /\ Reach \in Nat
  /\ HandTicks \in Nat /\ HandTicks > 0 /\ ToolTicks \in Nat /\ ToolTicks > 0
  /\ HotbarSlots \in Nat /\ HotbarSlots > 0
  /\ PlayerSlots \in Nat /\ HotbarSlots <= PlayerSlots
  /\ StackMax \in Nat /\ StackMax > 0 /\ MaxActs \in Nat
  /\ Creative \subseteq People
  BY MiningAssumption DEF People

\* The worth of so many of an item.
Amount(item, n) == n * Price[item]

\* How much stone a count of an item is worth, and that worths add.
LEMMA Amounts ==
  /\ \A item \in Items, n \in Int : Amount(item, n) \in Int
  /\ \A item \in Items : Amount(item, 0) = 0
  /\ \A item \in Items, n \in Int, m \in Int :
       /\ Amount(item, n + m) = Amount(item, n) + Amount(item, m)
       /\ Amount(item, n - m) = Amount(item, n) - Amount(item, m)
  /\ Amount("stone", 1) = 1 /\ Amount("stone", 2) = 2 /\ Amount("brick", 1) = 2
  <1>1. Price["stone"] = 1 /\ Price["brick"] = 2 /\ Price["pick"] = 0
    BY DEF Price
  <1>2. ASSUME NEW n \in Int
        PROVE  Amount("stone", n) = n /\ Amount("brick", n) = 2 * n /\ Amount("pick", n) = 0
    BY <1>1 DEF Amount
  <1>3. \A item \in Items : item = "stone" \/ item = "brick" \/ item = "pick"
    BY DEF Items
  <1>. QED
    BY <1>2, <1>3

\* What a stack is, and how high it goes.
LEMMA StackIs ==
  /\ \A item \in Items : StackLimit(item) \in Nat /\ StackLimit(item) >= 1 /\ StackLimit(item) <= StackMax
  /\ \A s \in Stacks : /\ s.item \in Items /\ s.count \in Nat /\ s.count >= 1
                       /\ s.count <= StackLimit(s.item) /\ s = Stack(s.item, s.count)
  /\ \A item \in Items, n \in Int :
       n >= 1 /\ n <= StackLimit(item) => Stack(item, n) \in Stacks
  /\ \A item, n : Stack(item, n).item = item /\ Stack(item, n).count = n
  BY Bounds DEF StackLimit, Stacks, Stack, Items

\* What is left of so many of an item is worth as much.
LEMMA ValueIs ==
  /\ \A s \in Slots : Value(s) \in Int /\ Value(s) >= 0
  /\ Value(Nil) = 0
  /\ \A s \in Stacks : s # Nil /\ Value(s) = Amount(s.item, s.count)
  /\ \A item \in Items, n \in Nat :
       n <= StackLimit(item) => Rest(item, n) \in Slots /\ Value(Rest(item, n)) = Amount(item, n)
  <1>1. Value(Nil) = 0
    BY DEF Value
  <1>2. \A s \in Stacks : s # Nil /\ Value(s) = Amount(s.item, s.count)
    BY NilIsNothing DEF Value, Amount
  <1>3. ASSUME NEW s \in Slots PROVE Value(s) \in Int /\ Value(s) >= 0
    <2>1. CASE s = Nil
      BY <1>1, <2>1
    <2>2. CASE s # Nil
      <3>1. s \in Stacks /\ s.item \in Items /\ s.count \in Nat
        BY <2>2, StackIs DEF Slots
      <3>2. Price[s.item] \in {0, 1, 2}
        BY <3>1 DEF Price, Items
      <3>3. Value(s) = s.count * Price[s.item]
        BY <2>2 DEF Value
      <3>. QED
        BY <3>1, <3>2, <3>3
    <2>. QED
      BY <2>1, <2>2
  <1>4. ASSUME NEW item \in Items, NEW n \in Nat, n <= StackLimit(item)
        PROVE  Rest(item, n) \in Slots /\ Value(Rest(item, n)) = Amount(item, n)
    <2>1. CASE n = 0
      BY <1>1, <2>1, Amounts DEF Rest, Slots
    <2>2. CASE n # 0
      <3>1. Stack(item, n) \in Stacks /\ Rest(item, n) = Stack(item, n)
        BY <1>4, <2>2, StackIs DEF Rest
      <3>. QED
        BY <1>2, <3>1, StackIs DEF Slots
    <2>. QED
      BY <2>1, <2>2
  <1>. QED
    BY <1>1, <1>2, <1>3, <1>4

Inventories == [1..PlayerSlots -> Slots]

\* A slot that changes changes the worth of the contents by as much.
LEMMA ContentsType == ASSUME NEW inv \in Inventories PROVE Contents(inv) \in Int
  <1>1. [i \in 1..PlayerSlots |-> Value(inv[i])] \in [1..PlayerSlots -> Int]
    BY ValueIs DEF Inventories
  <1>. QED
    BY <1>1, Bounds, TotalType DEF Contents

\* An inventory is worth what it was, but for the one slot that changed.
LEMMA ContentsChange ==
  ASSUME NEW inv \in Inventories, NEW i \in 1..PlayerSlots, NEW s \in Slots
  PROVE  /\ [inv EXCEPT ![i] = s] \in Inventories
         /\ Contents([inv EXCEPT ![i] = s]) = Contents(inv) + (Value(s) - Value(inv[i]))
  <1> DEFINE new == [inv EXCEPT ![i] = s]
             f == [k \in 1..PlayerSlots |-> Value(inv[k])]
             g == [k \in 1..PlayerSlots |-> Value(new[k])]
  <1>1. new \in Inventories
    BY DEF Inventories
  <1>2. f \in [1..PlayerSlots -> Int] /\ g \in [1..PlayerSlots -> Int]
    <2> HIDE DEF new
    <2>. QED
      BY <1>1, ValueIs DEF Inventories
  <1>3. \A k \in 1..PlayerSlots : k # i => g[k] = f[k]
    BY DEF Inventories
  <1>4. g[i] = Value(s) /\ f[i] = Value(inv[i])
    BY DEF Inventories
  <1>5. Total(g, PlayerSlots) = Total(f, PlayerSlots) + (g[i] - f[i])
    <2>1. PlayerSlots \in Nat
      BY Bounds
    <2> HIDE DEF f, g, new
    <2>. QED
      BY <1>2, <1>3, <2>1, TotalChange, Zenon
  <1>. QED
    BY <1>1, <1>4, <1>5 DEF Contents
-----------------------------------------------------------------------------
(* Pouring.  What leaves the hand is in the slots from a to b, and no other *)
(* slot changes.                                                            *)

Pours == [slots : Inventories, left : [item : Items, count : Nat]]

Poured(s, t, a, b) ==
  /\ t \in Pours
  /\ t.left.item = s.left.item
  /\ t.left.count <= s.left.count
  /\ Contents(t.slots) + Amount(t.left.item, t.left.count) =
       Contents(s.slots) + Amount(s.left.item, s.left.count)
  /\ \A k \in 1..PlayerSlots : k \notin a..b => t.slots[k] = s.slots[k]

\* Pouring nothing keeps what there is.
LEMMA PouredRefl == ASSUME NEW s \in Pours, NEW a, NEW b PROVE Poured(s, s, a, b)
  <1>1. s.left.count \in Nat
    BY DEF Pours
  <1>. QED
    BY <1>1 DEF Poured

\* What two pours keep, one after the other, both keep.
LEMMA PouredTrans ==
  ASSUME NEW s \in Pours, NEW t, NEW u, NEW a, NEW b, Poured(s, t, a, b), Poured(t, u, a, b)
  PROVE  Poured(s, u, a, b)
  <1>1. s.left.count \in Nat /\ t.left.count \in Nat /\ u.left.count \in Nat
    BY DEF Poured, Pours
  <1>. QED
    BY <1>1 DEF Poured

\* What one slot takes.
Had(held) == IF held = Nil THEN 0 ELSE held.count

Moves(s, i, onto, n) ==
  /\ Fits(s.slots[i], s.left.item, onto)
  /\ Had(s.slots[i]) + n <= StackLimit(s.left.item)
  /\ Pour(s, i, onto) =
       [slots |-> [s.slots EXCEPT ![i] = Stack(s.left.item, Had(s.slots[i]) + n)],
        left  |-> Stack(s.left.item, s.left.count - n)]

\* A slot takes as much of a stack as fits it, or nothing.
LEMMA PourTakes ==
  ASSUME NEW s \in Pours, NEW i \in 1..PlayerSlots, NEW onto \in BOOLEAN
  PROVE  /\ Had(s.slots[i]) \in Nat
         /\ Fits(s.slots[i], s.left.item, onto) =>
              /\ Had(s.slots[i]) <= StackLimit(s.left.item)
              /\ Value(s.slots[i]) = Amount(s.left.item, Had(s.slots[i]))
         /\ \/ /\ Pour(s, i, onto) = s
               /\ \/ s.left.count = 0
                  \/ ~Fits(s.slots[i], s.left.item, onto)
                  \/ Had(s.slots[i]) >= StackLimit(s.left.item)
            \/ \E n \in 1..s.left.count : Moves(s, i, onto, n)
  <1> DEFINE have == Had(s.slots[i])
             item == s.left.item
             limit == StackLimit(item)
             moved == Min({limit - have, s.left.count})
  <1>1. item \in Items /\ s.left.count \in Nat /\ s.slots[i] \in Slots
    BY DEF Pours, Inventories
  <1>2. limit \in Nat
    BY <1>1, StackIs
  <1>3. have \in Nat
    BY <1>1, StackIs DEF Slots, Had
  <1>4. ASSUME Fits(s.slots[i], item, onto)
        PROVE  have <= limit /\ Value(s.slots[i]) = Amount(item, have)
    <2>1. CASE s.slots[i] = Nil
      <3>1. have = 0 /\ 0 <= limit
        BY <1>2, <2>1 DEF Had
      <3>2. Value(s.slots[i]) = 0 /\ Amount(item, 0) = 0
        BY <1>1, <2>1, ValueIs, Amounts
      <3>. QED
        BY <3>1, <3>2
    <2>2. CASE s.slots[i] # Nil
      <3>1. s.slots[i] \in Stacks /\ s.slots[i].item = item /\ have = s.slots[i].count
        BY <1>1, <1>4, <2>2 DEF Fits, Slots, Had
      <3>. QED
        BY <3>1, StackIs, ValueIs
    <2>. QED
      BY <2>1, <2>2
  <1>5. moved = IF limit - have <= s.left.count THEN limit - have ELSE s.left.count
    <2>1. limit - have \in Int /\ s.left.count \in Int
      BY <1>1, <1>2, <1>3
    <2>. QED
      BY <2>1, LeastOfTwo
  <1>6. Pour(s, i, onto) =
          IF s.left.count = 0 \/ ~Fits(s.slots[i], item, onto) \/ moved <= 0 THEN s
          ELSE [slots |-> [s.slots EXCEPT ![i] = Stack(item, have + moved)],
                left  |-> Stack(item, s.left.count - moved)]
    BY DEF Pour, Had
  <1> HIDE DEF moved, limit
  <1>7. CASE s.left.count = 0 \/ ~Fits(s.slots[i], item, onto) \/ moved <= 0
    <2>1. Pour(s, i, onto) = s
      BY <1>6, <1>7
    <2>2. s.left.count = 0 \/ ~Fits(s.slots[i], item, onto) \/ have >= limit
      BY <1>1, <1>2, <1>3, <1>5, <1>7
    <2>. QED
      BY <1>3, <1>4, <2>1, <2>2 DEF limit
  <1>8. CASE ~(s.left.count = 0 \/ ~Fits(s.slots[i], item, onto) \/ moved <= 0)
    <2>1. moved \in 1..s.left.count /\ have + moved <= limit
      BY <1>1, <1>2, <1>3, <1>5, <1>8
    <2>2. Pour(s, i, onto) =
            [slots |-> [s.slots EXCEPT ![i] = Stack(item, have + moved)],
             left  |-> Stack(item, s.left.count - moved)]
      BY <1>6, <1>8
    <2>3. Fits(s.slots[i], item, onto)
      BY <1>8
    <2>4. Moves(s, i, onto, moved)
      BY <2>1, <2>2, <2>3 DEF Moves, limit
    <2>. QED
      BY <1>3, <1>4, <2>1, <2>4 DEF limit
  <1>. QED
    BY <1>7, <1>8

\* A pour into one slot voids and makes nothing.
LEMMA PourKeeps ==
  ASSUME NEW s \in Pours, NEW a \in Nat, NEW b \in Nat, NEW i \in a..b, i \in 1..PlayerSlots,
         NEW onto \in BOOLEAN
  PROVE  Poured(s, Pour(s, i, onto), a, b)
  <1> DEFINE have == Had(s.slots[i])
             item == s.left.item
  <1>1. CASE Pour(s, i, onto) = s
    BY <1>1, PouredRefl
  <1>2. CASE Pour(s, i, onto) # s
    <2>1. have \in Nat
      BY PourTakes
    <2>15. PICK n \in 1..s.left.count : Moves(s, i, onto, n)
      BY <1>2, PourTakes
    <2>2. /\ Fits(s.slots[i], item, onto)
          /\ have + n <= StackLimit(item)
          /\ Pour(s, i, onto) =
               [slots |-> [s.slots EXCEPT ![i] = Stack(item, have + n)],
                left  |-> Stack(item, s.left.count - n)]
      BY <2>15 DEF Moves
    <2>3. Value(s.slots[i]) = Amount(item, have)
      BY <2>2, PourTakes
    <2> HIDE DEF have
    <2>4. item \in Items /\ s.left.count \in Nat /\ s.slots \in Inventories /\ n \in Nat /\ n >= 1
      BY <2>2 DEF Pours
    <2>5. Stack(item, have + n) \in Stacks /\ Value(Stack(item, have + n)) = Amount(item, have + n)
      <3>1. have + n \in Int /\ have + n >= 1
        BY <2>1, <2>4
      <3>2. Stack(item, have + n) \in Stacks
        BY <2>2, <2>4, <3>1, StackIs
      <3>. QED
        BY <3>2, StackIs, ValueIs
    <2> DEFINE new == [s.slots EXCEPT ![i] = Stack(item, have + n)]
               left == Stack(item, s.left.count - n)
    <2>6. new \in Inventories /\ Contents(new) =
            Contents(s.slots) + (Amount(item, have + n) - Amount(item, have))
      <3>1. Stack(item, have + n) \in Slots
        BY <2>5 DEF Slots
      <3>. QED
        BY <2>3, <2>4, <2>5, <3>1, ContentsChange
    <2>7. \A k \in 1..PlayerSlots : k \notin a..b => new[k] = s.slots[k]
      BY <2>4 DEF Inventories
    <2>8. left \in [item : Items, count : Nat] /\ left.item = item /\ left.count = s.left.count - n
      <3>1. s.left.count - n \in Nat
        BY <2>2, <2>4
      <3>. QED
        BY <2>4, <3>1 DEF Stack
    <2>9. /\ Amount(item, have + n) = Amount(item, have) + Amount(item, n)
          /\ Amount(item, s.left.count - n) = Amount(item, s.left.count) - Amount(item, n)
          /\ Amount(item, have) \in Int /\ Amount(item, n) \in Int
          /\ Amount(item, s.left.count) \in Int /\ Contents(s.slots) \in Int
      <3>1. have \in Int /\ n \in Int /\ s.left.count \in Int
        BY <2>1, <2>4
      <3>2. Contents(s.slots) \in Int
        BY <2>4, ContentsType
      <3>. QED
        BY <2>4, <3>1, <3>2, Amounts
    <2>10. Pour(s, i, onto) = [slots |-> new, left |-> left]
      BY <2>2
    <2> HIDE DEF new, left
    <2>11. Pour(s, i, onto) \in Pours
      BY <2>6, <2>8, <2>10 DEF Pours
    <2>12. /\ Pour(s, i, onto).left.item = item
           /\ Pour(s, i, onto).left.count = s.left.count - n
           /\ Pour(s, i, onto).slots = new
      BY <2>8, <2>10
    <2>13. s.left.count - n <= s.left.count
      BY <2>4
    <2>14. Contents(new) + Amount(item, s.left.count - n) =
             Contents(s.slots) + Amount(item, s.left.count)
      BY <2>6, <2>9
    <2>. QED
      BY <2>7, <2>11, <2>12, <2>13, <2>14 DEF Poured
  <1>. QED
    BY <1>1, <1>2

\* Pouring over a span is pouring into its slots in order.
PoursUp(f, s, a, n, onto) ==
  /\ f \in [0..n -> Pours]
  /\ f[0] = s
  /\ \A k \in 1..n : f[k] = Pour(f[k - 1], a + k - 1, onto)

Span(a, b) == a \in Nat /\ b \in Nat /\ 1 <= a /\ a <= b + 1 /\ b <= PlayerSlots

\* A pour over a span of slots is one pour after another.
LEMMA PourOverIs ==
  ASSUME NEW s \in Pours, NEW a, NEW b, Span(a, b), NEW onto \in BOOLEAN
  PROVE  \E f : PoursUp(f, s, a, b - a + 1, onto) /\ PourOver(s, a, b, onto) = f[b - a + 1]
  <1> DEFINE N == b - a + 1
             Fills(g) == g = [k \in 0..N |-> IF k = 0 THEN s ELSE Pour(g[k - 1], a + k - 1, onto)]
             step == [k \in 1..N |-> [t \in Pours |-> Pour(t, a + k - 1, onto)]]
             poured == CHOOSE g : Fills(g)
  <1>1. N \in Nat /\ a \in Nat /\ b \in Nat
    BY DEF Span
  <1>2. \A k \in 1..N : a + k - 1 \in a..b /\ a + k - 1 \in 1..PlayerSlots
    BY Bounds DEF Span
  <1> HIDE DEF N
  <1>3. ASSUME NEW k \in 1..N, NEW t \in Pours PROVE Pour(t, a + k - 1, onto) \in Pours
    BY <1>1, <1>2, PourKeeps DEF Poured
  <1>4. step \in [1..N -> [Pours -> Pours]]
    BY <1>3
  <1>5. PICK f \in [0..N -> Pours] : Runs(f, N, s, step)
    <2> HIDE DEF step
    <2>. QED
      BY <1>1, <1>4, BoundedFunctionExists
  <1>6. ASSUME NEW k \in 1..N PROVE f[k] = Pour(f[k - 1], a + k - 1, onto)
    <2>1. f[k] = step[k][f[k - 1]] /\ k - 1 \in 0..N
      BY <1>1, <1>5 DEF Runs
    <2>. QED
      BY <2>1
  <1>7. f[0] = s
    BY <1>5 DEF Runs
  <1>8. Fills(f)
    <2>1. ASSUME NEW k \in 0..N
          PROVE  f[k] = IF k = 0 THEN s ELSE Pour(f[k - 1], a + k - 1, onto)
      <3>1. CASE k = 0
        BY <1>7, <3>1
      <3>2. CASE k # 0
        <4>1. k \in 1..N
          BY <1>1, <3>2
        <4>. QED
          BY <1>6, <3>2, <4>1
      <3>. QED
        BY <3>1, <3>2
    <2>. QED
      BY <2>1
  <1>9. Fills(poured)
    BY <1>8
  <1>10. PourOver(s, a, b, onto) = poured[N]
    BY DEF PourOver, N
  <1> HIDE DEF step, poured
  <1> DEFINE T == {k \in 0..N : poured[k] = f[k]}
  <1>11. 0 \in T
    BY <1>1, <1>7, <1>9
  <1>12. ASSUME NEW k \in 0..(N - 1), k \in T PROVE k + 1 \in T
    <2>1. k + 1 \in 1..N /\ k + 1 \in 0..N /\ (k + 1) - 1 = k /\ k + 1 # 0
      BY <1>1
    <2>2. poured[k + 1] = Pour(poured[k], a + (k + 1) - 1, onto)
      BY <1>9, <2>1
    <2>3. f[k + 1] = Pour(f[k], a + (k + 1) - 1, onto)
      BY <1>6, <2>1
    <2>. QED
      BY <1>12, <2>1, <2>2, <2>3
  <1>13. 0..N \subseteq T
    <2> HIDE DEF T, Fills
    <2>. QED
      BY <1>1, <1>11, <1>12, BoundedInduction
  <1>14. N \in T
    BY <1>1, <1>13
  <1>15. PourOver(s, a, b, onto) = f[N]
    BY <1>10, <1>14
  <1>16. PoursUp(f, s, a, N, onto)
    BY <1>6, <1>7 DEF PoursUp
  <1>. QED
    BY <1>15, <1>16 DEF N

\* A pour over a span voids and makes nothing.
LEMMA PourOverKeeps ==
  ASSUME NEW s \in Pours, NEW a, NEW b, Span(a, b), NEW onto \in BOOLEAN
  PROVE  Poured(s, PourOver(s, a, b, onto), a, b)
  <1> DEFINE N == b - a + 1
  <1>1. PICK f : PoursUp(f, s, a, N, onto) /\ PourOver(s, a, b, onto) = f[N]
    BY PourOverIs
  <1>2. N \in Nat /\ a \in Nat /\ b \in Nat
    BY DEF Span
  <1>3. \A k \in 1..N : a + k - 1 \in a..b /\ a + k - 1 \in 1..PlayerSlots
    BY Bounds DEF Span
  <1> HIDE DEF N
  <1> DEFINE T == {k \in 0..N : Poured(s, f[k], a, b)}
  <1>4. 0 \in T
    BY <1>1, <1>2, PouredRefl DEF PoursUp
  <1>5. ASSUME NEW k \in 0..(N - 1), k \in T PROVE k + 1 \in T
    <2>1. k + 1 \in 1..N /\ k + 1 \in 0..N /\ (k + 1) - 1 = k /\ k \in 0..N
      BY <1>2
    <2>2. f[k] \in Pours /\ f[k + 1] = Pour(f[k], a + (k + 1) - 1, onto)
      BY <1>1, <2>1 DEF PoursUp
    <2>3. Poured(f[k], f[k + 1], a, b)
      BY <1>2, <1>3, <2>1, <2>2, PourKeeps
    <2>. QED
      BY <1>5, <2>1, <2>3, PouredTrans
  <1>6. 0..N \subseteq T
    <2> HIDE DEF T
    <2>. QED
      BY <1>2, <1>4, <1>5, BoundedInduction
  <1>. QED
    BY <1>1, <1>2, <1>6

\* An insertion, first onto stacks and then into empty slots, voids and makes
\* nothing.
LEMMA InsertKeeps ==
  ASSUME NEW inv \in Inventories, NEW stack \in [item : Items, count : Nat],
         NEW a, NEW b, Span(a, b)
  PROVE  Poured([slots |-> inv, left |-> stack], InsertIntoSpan(inv, stack, a, b), a, b)
  <1> DEFINE s == [slots |-> inv, left |-> stack]
             t == PourOver(s, a, b, TRUE)
  <1>1. s \in Pours
    BY DEF Pours
  <1> HIDE DEF s
  <1>2. Poured(s, t, a, b)
    BY <1>1, PourOverKeeps
  <1>3. t \in Pours
    BY <1>2 DEF Poured
  <1> HIDE DEF t
  <1>4. Poured(t, PourOver(t, a, b, FALSE), a, b)
    BY <1>3, PourOverKeeps
  <1>5. InsertIntoSpan(inv, stack, a, b) = PourOver(t, a, b, FALSE)
    BY DEF InsertIntoSpan, s, t
  <1>. QED
    BY <1>1, <1>2, <1>4, <1>5, PouredTrans DEF s

\* A single item goes into the first slot that has room for it.
Roomy(held, item, onto) == Fits(held, item, onto) /\ Had(held) < StackLimit(item)

\* A single item goes into a slot with room for it, or leaves it alone.
LEMMA OneGoesIn ==
  ASSUME NEW s \in Pours, s.left.count \in {0, 1}, NEW i \in 1..PlayerSlots, NEW onto \in BOOLEAN
  PROVE  /\ Pour(s, i, onto) = s \/ Pour(s, i, onto).left.count = 0
         /\ s.left.count = 0 => Pour(s, i, onto) = s
         /\ Roomy(s.slots[i], s.left.item, onto) => Pour(s, i, onto).left.count = 0
  <1> DEFINE item == s.left.item
  <1>1. Had(s.slots[i]) \in Nat /\ StackLimit(item) \in Nat
    <2>1. item \in Items
      BY DEF Pours
    <2>. QED
      BY <2>1, PourTakes, StackIs
  <1>2. CASE \E n \in 1..s.left.count : Moves(s, i, onto, n)
    <2>1. PICK n \in 1..s.left.count : Moves(s, i, onto, n)
      BY <1>2
    <2>2. n = 1 /\ s.left.count = 1
      OBVIOUS
    <2>3. Pour(s, i, onto).left = Stack(item, s.left.count - n)
      BY <2>1 DEF Moves
    <2>4. Pour(s, i, onto).left.count = 0
      BY <2>2, <2>3, StackIs
    <2>. QED
      BY <2>2, <2>4
  <1>3. CASE /\ Pour(s, i, onto) = s
             /\ \/ s.left.count = 0
                \/ ~Fits(s.slots[i], item, onto)
                \/ Had(s.slots[i]) >= StackLimit(item)
    BY <1>1, <1>3 DEF Roomy
  <1>. QED
    BY <1>2, <1>3, PourTakes

\* A single item goes into the first slot of a span with room for it.
LEMMA OneIsPoured ==
  ASSUME NEW s \in Pours, s.left.count = 1, NEW a, NEW b, Span(a, b), NEW onto \in BOOLEAN
  PROVE  /\ PourOver(s, a, b, onto) = s \/ PourOver(s, a, b, onto).left.count = 0
         /\ \A i \in a..b :
              Roomy(s.slots[i], s.left.item, onto) => PourOver(s, a, b, onto).left.count = 0
  <1> DEFINE N == b - a + 1
  <1>1. PICK f : PoursUp(f, s, a, N, onto) /\ PourOver(s, a, b, onto) = f[N]
    BY PourOverIs
  <1>2. N \in Nat /\ a \in Nat /\ b \in Nat /\ b - a + 1 = N
    BY DEF Span
  <1>3. \A k \in 1..N : a + k - 1 \in a..b /\ a + k - 1 \in 1..PlayerSlots
    BY Bounds DEF Span
  <1> HIDE DEF N
  <1> DEFINE T == {k \in 0..N :
                     \/ f[k].left.count = 0
                     \/ /\ f[k] = s
                        /\ \A j \in 1..k : ~Roomy(s.slots[a + j - 1], s.left.item, onto)}
  <1>4. 0 \in T
    BY <1>1, <1>2 DEF PoursUp
  <1>5. ASSUME NEW k \in 0..(N - 1), k \in T PROVE k + 1 \in T
    <2> DEFINE i == a + (k + 1) - 1
    <2>1. k + 1 \in 1..N /\ k + 1 \in 0..N /\ (k + 1) - 1 = k /\ k \in 0..N
      BY <1>2
    <2>2. f[k] \in Pours /\ f[k + 1] = Pour(f[k], i, onto) /\ i \in 1..PlayerSlots
      BY <1>1, <1>3, <2>1 DEF PoursUp
    <2> HIDE DEF i
    <2>3. CASE f[k].left.count = 0
      <3>1. f[k + 1] = f[k]
        BY <2>2, <2>3, OneGoesIn
      <3>. QED
        BY <2>1, <2>3, <3>1
    <2>4. CASE f[k] = s /\ \A j \in 1..k : ~Roomy(s.slots[a + j - 1], s.left.item, onto)
      <3>1. /\ f[k + 1] = s \/ f[k + 1].left.count = 0
            /\ Roomy(s.slots[i], s.left.item, onto) => f[k + 1].left.count = 0
        BY <2>2, <2>4, OneGoesIn
      <3>2. CASE Roomy(s.slots[i], s.left.item, onto)
        BY <2>1, <3>1, <3>2
      <3>3. CASE ~Roomy(s.slots[i], s.left.item, onto)
        <4>1. \A j \in 1..(k + 1) : j \in 1..k \/ j = k + 1
          BY <2>1
        <4>2. \A j \in 1..(k + 1) : ~Roomy(s.slots[a + j - 1], s.left.item, onto)
          BY <2>4, <3>3, <4>1 DEF i
        <4>. QED
          BY <2>1, <3>1, <4>2
      <3>. QED
        BY <3>2, <3>3
    <2>. QED
      BY <1>5, <2>3, <2>4
  <1>6. 0..N \subseteq T
    <2> HIDE DEF T
    <2>. QED
      BY <1>2, <1>4, <1>5, BoundedInduction
  <1>7. N \in T
    <2> HIDE DEF T
    <2>. QED
      BY <1>2, <1>6
  <1>8. ASSUME NEW i \in a..b, Roomy(s.slots[i], s.left.item, onto) PROVE f[N].left.count = 0
    <2>1. i - a + 1 \in 1..N /\ a + (i - a + 1) - 1 = i
      BY <1>2
    <2>. QED
      BY <1>7, <1>8, <2>1
  <1>. QED
    BY <1>1, <1>7, <1>8

\* What can be inserted is inserted.
LEMMA WhatFitsGoesIn ==
  ASSUME NEW inv \in Inventories, CanInsert(inv, "stone")
  PROVE  InsertFirstFit(inv, Stack("stone", 1)).left.count = 0
  <1> DEFINE s == [slots |-> inv, left |-> Stack("stone", 1)]
             t == PourOver(s, 1, PlayerSlots, TRUE)
             u == PourOver(t, 1, PlayerSlots, FALSE)
  <1>1. s \in Pours /\ s.left.count = 1 /\ s.left.item = "stone" /\ s.slots = inv
    BY DEF Pours, Stack, Items
  <1>2. Span(1, PlayerSlots)
    BY Bounds DEF Span
  <1>3. InsertFirstFit(inv, Stack("stone", 1)) = u
    BY DEF InsertFirstFit, InsertIntoSpan
  <1> HIDE DEF s
  <1>4. Poured(s, t, 1, PlayerSlots)
    BY <1>1, <1>2, PourOverKeeps
  <1>5. t \in Pours
    BY <1>4 DEF Poured
  <1>6. PICK i \in 1..PlayerSlots :
          inv[i] = Nil \/ (inv[i].item = "stone" /\ inv[i].count < StackLimit("stone"))
    BY DEF CanInsert
  <1>7. t = s \/ t.left.count = 0
    BY <1>1, <1>2, OneIsPoured
  <1>8. CASE t.left.count = 0
    <2> HIDE DEF t
    <2>1. Poured(t, u, 1, PlayerSlots)
      BY <1>2, <1>5, PourOverKeeps
    <2> HIDE DEF u
    <2>2. u.left.count \in Nat /\ u.left.count <= t.left.count
      BY <2>1 DEF Poured, Pours
    <2>. QED
      BY <1>3, <1>8, <2>2
  <1>9. CASE t = s /\ inv[i] = Nil
    <2>1. Roomy(s.slots[i], s.left.item, FALSE)
      <3>1. "stone" \in Items
        BY DEF Items
      <3>2. StackLimit("stone") \in Nat /\ StackLimit("stone") >= 1
        BY <3>1, StackIs
      <3>. QED
        BY <1>1, <1>9, <3>2 DEF Roomy, Fits, Had
    <2>2. PourOver(s, 1, PlayerSlots, FALSE).left.count = 0
      <3> HIDE DEF t, u
      <3>. QED
        BY <1>1, <1>2, <2>1, OneIsPoured
    <2>3. u = PourOver(s, 1, PlayerSlots, FALSE)
      BY <1>9
    <2>. QED
      BY <1>3, <2>2, <2>3
  <1>10. CASE inv[i] # Nil
    <2>1. Roomy(s.slots[i], s.left.item, TRUE)
      BY <1>1, <1>6, <1>10 DEF Roomy, Fits, Had
    <2>2. t.left.count = 0
      BY <1>1, <1>2, <2>1, OneIsPoured
    <2>. QED
      BY <1>8, <2>2
  <1> HIDE DEF t, u
  <1>. QED
    BY <1>7, <1>8, <1>9, <1>10
-----------------------------------------------------------------------------
(* Taking out.                                                             *)

Takes == [slots : Inventories, due : Nat]

\* How many of an item a slot holds.
LEMMA CountInIs ==
  ASSUME NEW held \in Slots, NEW item \in Items
  PROVE  /\ CountIn(held, item) \in Nat
         /\ CountIn(held, item) > 0 =>
              held \in Stacks /\ held.item = item /\ held.count = CountIn(held, item)
  <1>1. CASE held # Nil /\ held.item = item
    BY <1>1, StackIs DEF CountIn, Slots
  <1>2. CASE ~(held # Nil /\ held.item = item)
    BY <1>2 DEF CountIn
  <1>. QED
    BY <1>1, <1>2

\* What is taken from a slot is what is still due, or all there is.
LEMMA TakeKeeps ==
  ASSUME NEW s \in Takes, NEW i \in 1..PlayerSlots, NEW item \in Items
  PROVE  LET t == Take(s, i, item)
             n == CountIn(s.slots[i], item)
         IN  /\ t \in Takes
             /\ Contents(t.slots) - Amount(item, t.due) = Contents(s.slots) - Amount(item, s.due)
             /\ \A k \in 1..PlayerSlots : k # i => t.slots[k] = s.slots[k]
             /\ t.due = IF n <= s.due THEN s.due - n ELSE 0
  <1> DEFINE n == CountIn(s.slots[i], item)
             taken == Min({n, s.due})
             t == Take(s, i, item)
  <1>1. s.slots \in Inventories /\ s.due \in Nat /\ s.slots[i] \in Slots
    BY DEF Takes, Inventories
  <1>2. n \in Nat
    BY <1>1, CountInIs
  <1>3. taken = IF n <= s.due THEN n ELSE s.due
    <2>1. n \in Int /\ s.due \in Int
      BY <1>1, <1>2
    <2> HIDE DEF n
    <2>. QED
      BY <2>1, LeastOfTwo
  <1>4. t = IF taken = 0 THEN s
            ELSE [slots |-> [s.slots EXCEPT ![i] = Rest(item, @.count - taken)],
                  due |-> s.due - taken]
    BY DEF Take
  <1>5. CASE taken = 0
    <2>1. t = s
      BY <1>4, <1>5
    <2>2. s.due = IF n <= s.due THEN s.due - n ELSE 0
      <3> HIDE DEF n, taken
      <3>. QED
        BY <1>1, <1>2, <1>3, <1>5
    <2> HIDE DEF t, n
    <2>. QED
      BY <2>1, <2>2 DEF t, n
  <1>6. CASE taken # 0
    <2> DEFINE held == s.slots[i]
               rest == Rest(item, n - taken)
               new == [s.slots EXCEPT ![i] = rest]
    <2>0. taken \in Nat /\ taken >= 1 /\ n - taken \in Nat /\ s.due - taken \in Nat /\ n > 0
      <3> HIDE DEF n, taken
      <3>. QED
        BY <1>1, <1>2, <1>3, <1>6
    <2>1. held \in Stacks /\ held.item = item /\ held.count = n
      <3>1. n > 0
        BY <2>0
      <3>. QED
        BY <1>1, <3>1, CountInIs
    <2>2. t = [slots |-> new, due |-> s.due - taken]
      <3>1. [s.slots EXCEPT ![i] = Rest(item, @.count - taken)] = new
        BY <1>1, <2>1 DEF Inventories
      <3>. QED
        BY <1>4, <1>6, <3>1
    <2>3. rest \in Slots /\ Value(rest) = Amount(item, n - taken)
      <3>1. n - taken <= StackLimit(item)
        <4>1. StackLimit(item) \in Nat /\ n <= StackLimit(item)
          BY <2>1, StackIs
        <4> HIDE DEF n, taken
        <4>. QED
          BY <1>2, <2>0, <4>1
      <3>2. n - taken \in Nat
        BY <2>0
      <3> HIDE DEF n, taken
      <3>. QED
        BY <3>1, <3>2, ValueIs
    <2>4. Value(held) = Amount(item, n)
      BY <2>1, ValueIs
    <2>5. new \in Inventories /\ Contents(new) = Contents(s.slots) + (Value(rest) - Value(held))
      <3> HIDE DEF rest
      <3>. QED
        BY <1>1, <2>3, ContentsChange
    <2>6. /\ Amount(item, n - taken) = Amount(item, n) - Amount(item, taken)
          /\ Amount(item, s.due - taken) = Amount(item, s.due) - Amount(item, taken)
          /\ Amount(item, n) \in Int /\ Amount(item, taken) \in Int
          /\ Amount(item, s.due) \in Int /\ Contents(s.slots) \in Int
      <3>1. n \in Int /\ taken \in Int /\ s.due \in Int
        <4> HIDE DEF n, taken
        <4>. QED
          BY <1>1, <1>2, <2>0
      <3> HIDE DEF n, taken
      <3>2. Contents(s.slots) \in Int
        BY <1>1, ContentsType
      <3>. QED
        BY <1>1, <3>1, <3>2, Amounts
    <2>7. \A k \in 1..PlayerSlots : k # i => new[k] = s.slots[k]
      BY <1>1 DEF Inventories
    <2>8. s.due - taken = IF n <= s.due THEN s.due - n ELSE 0
      <3> HIDE DEF n, taken
      <3>. QED
        BY <1>1, <1>2, <1>3
    <2> HIDE DEF new, rest, held, n, taken, t
    <2>9. t.slots = new /\ t.due = s.due - taken
      BY <2>2
    <2>10. t \in Takes
      BY <2>0, <2>2, <2>5 DEF Takes
    <2>11. Contents(new) - Amount(item, s.due - taken) = Contents(s.slots) - Amount(item, s.due)
      BY <2>3, <2>4, <2>5, <2>6
    <2>. QED
      BY <2>7, <2>8, <2>9, <2>10, <2>11 DEF t, n
  <1>. QED
    BY <1>5, <1>6

TakesUp(f, inv, item, count) ==
  /\ f \in [0..PlayerSlots -> Takes]
  /\ f[0] = [slots |-> inv, due |-> count]
  /\ \A k \in 1..PlayerSlots : f[k] = Take(f[k - 1], k, item)

\* A removal takes from one slot after another.
LEMMA RemoveItemIs ==
  ASSUME NEW inv \in Inventories, NEW item \in Items, NEW count \in Nat
  PROVE  \E f : TakesUp(f, inv, item, count) /\ RemoveItem(inv, item, count) = f[PlayerSlots].slots
  <1> DEFINE N == PlayerSlots
             s == [slots |-> inv, due |-> count]
             Empties(g) == g = [k \in 0..N |-> IF k = 0 THEN s ELSE Take(g[k - 1], k, item)]
             step == [k \in 1..N |-> [t \in Takes |-> Take(t, k, item)]]
             taken == CHOOSE g : Empties(g)
  <1>1. N \in Nat /\ s \in Takes
    BY Bounds DEF Takes
  <1>2. ASSUME NEW k \in 1..N, NEW t \in Takes PROVE Take(t, k, item) \in Takes
    BY TakeKeeps
  <1>3. step \in [1..N -> [Takes -> Takes]]
    BY <1>2
  <1>4. PICK f \in [0..N -> Takes] : Runs(f, N, s, step)
    <2> HIDE DEF step, s
    <2>. QED
      BY <1>1, <1>3, BoundedFunctionExists
  <1>5. ASSUME NEW k \in 1..N PROVE f[k] = Take(f[k - 1], k, item)
    <2>1. f[k] = step[k][f[k - 1]] /\ k - 1 \in 0..N
      <3> HIDE DEF step, s
      <3>. QED
        BY <1>1, <1>4 DEF Runs
    <2>. QED
      BY <2>1
  <1>6. f[0] = s
    BY <1>4 DEF Runs
  <1> HIDE DEF s
  <1>7. Empties(f)
    <2>1. ASSUME NEW k \in 0..N PROVE f[k] = IF k = 0 THEN s ELSE Take(f[k - 1], k, item)
      <3>1. CASE k = 0
        BY <1>6, <3>1
      <3>2. CASE k # 0
        <4>1. k \in 1..N
          BY <1>1, <3>2
        <4>. QED
          BY <1>5, <3>2, <4>1
      <3>. QED
        BY <3>1, <3>2
    <2>. QED
      BY <2>1
  <1>8. Empties(taken)
    BY <1>7
  <1>9. RemoveItem(inv, item, count) = taken[N].slots
    BY DEF RemoveItem, s
  <1> HIDE DEF step, taken
  <1> DEFINE T == {k \in 0..N : taken[k] = f[k]}
  <1>10. 0 \in T
    BY <1>1, <1>6, <1>8
  <1>11. ASSUME NEW k \in 0..(N - 1), k \in T PROVE k + 1 \in T
    <2>1. k + 1 \in 1..N /\ k + 1 \in 0..N /\ (k + 1) - 1 = k /\ k + 1 # 0
      BY <1>1
    <2>2. taken[k + 1] = Take(taken[k], k + 1, item)
      BY <1>8, <2>1
    <2>3. f[k + 1] = Take(f[k], k + 1, item)
      BY <1>5, <2>1
    <2>. QED
      BY <1>11, <2>1, <2>2, <2>3
  <1>12. 0..N \subseteq T
    <2> HIDE DEF T, Empties
    <2>. QED
      BY <1>1, <1>10, <1>11, BoundedInduction
  <1>13. taken[N] = f[N]
    BY <1>1, <1>12
  <1>14. TakesUp(f, inv, item, count)
    BY <1>5, <1>6 DEF TakesUp, s
  <1>. QED
    BY <1>9, <1>13, <1>14

\* What is counted can be taken out, and is worth what it counts for.
LEMMA RemoveKeeps ==
  ASSUME NEW inv \in Inventories, NEW item \in Items, NEW count \in Nat,
         CountItem(inv, item) >= count
  PROVE  /\ RemoveItem(inv, item, count) \in Inventories
         /\ Contents(RemoveItem(inv, item, count)) = Contents(inv) - Amount(item, count)
  <1> DEFINE N == PlayerSlots
             g == [i \in 1..N |-> CountIn(inv[i], item)]
  <1>1. N \in Nat
    BY Bounds
  <1>2. g \in [1..N -> Int] /\ \A k \in 1..N : g[k] \in Nat
    BY CountInIs DEF Inventories
  <1>3. PICK f : TakesUp(f, inv, item, count) /\ RemoveItem(inv, item, count) = f[N].slots
    BY RemoveItemIs
  <1>4. PICK sum : Sums(g, N, sum) /\ Total(g, N) = sum[N]
    <2> HIDE DEF g
    <2>. QED
      BY <1>1, <1>2, TotalIsSum
  <1>5. CountItem(inv, item) = sum[N]
    BY <1>4 DEF CountItem
  <1> DEFINE worth == Contents(inv) - Amount(item, count)
             OK(k) == /\ Contents(f[k].slots) - Amount(item, f[k].due) = worth
                      /\ \A j \in (k + 1)..N : f[k].slots[j] = inv[j]
                      /\ f[k].due = 0 \/ f[k].due = count - sum[k]
             T == {k \in 0..N : OK(k)}
  <1>6. 0 \in T
    <2>1. f[0] = [slots |-> inv, due |-> count] /\ sum[0] = 0
      BY <1>3, <1>4 DEF TakesUp, Sums
    <2>. QED
      BY <1>1, <2>1
  <1>7. ASSUME NEW k \in 0..(N - 1), k \in T PROVE k + 1 \in T
    <2>1. k + 1 \in 1..N /\ k + 1 \in 0..N /\ (k + 1) - 1 = k /\ k \in 0..N
      BY <1>1
    <2>2. f[k] \in Takes /\ f[k + 1] = Take(f[k], k + 1, item)
      BY <1>3, <2>1 DEF TakesUp
    <2>3. sum[k + 1] = sum[k] + g[k + 1] /\ sum[k] \in Int /\ g[k + 1] \in Nat
      BY <1>2, <1>4, <2>1 DEF Sums
    <2>4. g[k + 1] = CountIn(inv[k + 1], item) /\ f[k].slots[k + 1] = inv[k + 1]
      BY <1>7, <2>1
    <2>5. /\ Contents(f[k + 1].slots) - Amount(item, f[k + 1].due) =
               Contents(f[k].slots) - Amount(item, f[k].due)
          /\ \A j \in 1..PlayerSlots : j # k + 1 => f[k + 1].slots[j] = f[k].slots[j]
          /\ f[k + 1].due = IF g[k + 1] <= f[k].due THEN f[k].due - g[k + 1] ELSE 0
      <3> HIDE DEF g, OK, worth
      <3>. QED
        BY <2>1, <2>2, <2>4, TakeKeeps
    <2>6. f[k].due \in Nat
      BY <2>2 DEF Takes
    <2> HIDE DEF g, worth
    <2>7. f[k + 1].due = 0 \/ f[k + 1].due = count - sum[k + 1]
      <3>1. CASE f[k].due = 0
        BY <2>3, <2>5, <2>6, <3>1
      <3>2. CASE f[k].due = count - sum[k]
        BY <2>3, <2>5, <2>6, <3>2
      <3>. QED
        BY <1>7, <3>1, <3>2
    <2>8. \A j \in ((k + 1) + 1)..N : f[k + 1].slots[j] = inv[j]
      BY <1>1, <1>7, <2>1, <2>5
    <2>9. Contents(f[k + 1].slots) - Amount(item, f[k + 1].due) = worth
      BY <1>7, <2>5
    <2>. QED
      BY <2>1, <2>7, <2>8, <2>9
  <1>8. 0..N \subseteq T
    <2> HIDE DEF T
    <2>. QED
      BY <1>1, <1>6, <1>7, BoundedInduction
  <1>9. OK(N) /\ f[N] \in Takes /\ sum[N] \in Int
    BY <1>1, <1>3, <1>4, <1>8 DEF TakesUp, Sums
  <1> HIDE DEF g, worth
  <1>10. f[N].due = 0
    BY <1>5, <1>9 DEF Takes
  <1>11. f[N].slots \in Inventories /\ Contents(f[N].slots) \in Int
    BY <1>9, ContentsType DEF Takes
  <1>12. Contents(f[N].slots) = worth
    BY <1>9, <1>10, <1>11, Amounts
  <1>. QED
    BY <1>3, <1>11, <1>12 DEF worth
-----------------------------------------------------------------------------
(* Slot actions.  What a player has on hand is worth the same after each,  *)
(* unless the cursor overwrites the trash; and the cursor is not emptied   *)
(* but into a slot.                                                        *)

Bags == [slots : Inventories, cursor : Slots, trash : Slots]
Wealth(b) == Value(b.cursor) + Value(b.trash) + Contents(b.slots)

Trades(b, c) ==
  /\ c \in Bags
  /\ Wealth(c) = Wealth(b)
  /\ b.cursor # Nil /\ c.cursor = Nil => c.slots # b.slots

\* A bag is an inventory, a cursor and a trash.
LEMMA BagIs ==
  ASSUME NEW b \in Bags
  PROVE  /\ b.slots \in Inventories /\ b.cursor \in Slots /\ b.trash \in Slots
         /\ Contents(b.slots) \in Int /\ Value(b.cursor) \in Int /\ Value(b.trash) \in Int
         /\ Trades(b, b)
  <1>1. b.slots \in Inventories /\ b.cursor \in Slots /\ b.trash \in Slots
    BY DEF Bags
  <1>. QED
    BY <1>1, ContentsType, ValueIs DEF Trades

\* A slot and the cursor that exchange what they hold.
LEMMA ExchangeTrades ==
  ASSUME NEW b \in Bags, NEW i \in 1..PlayerSlots, NEW s \in Slots, NEW cur \in Slots,
         Value(s) + Value(cur) = Value(b.slots[i]) + Value(b.cursor),
         b.cursor # Nil /\ cur = Nil => s # b.slots[i]
  PROVE  Trades(b, [slots |-> [b.slots EXCEPT ![i] = s], cursor |-> cur, trash |-> b.trash])
  <1> DEFINE new == [b.slots EXCEPT ![i] = s]
             c == [slots |-> new, cursor |-> cur, trash |-> b.trash]
  <1>1. new \in Inventories /\ Contents(new) = Contents(b.slots) + (Value(s) - Value(b.slots[i]))
    BY BagIs, ContentsChange
  <1>2. new[i] = s
    BY BagIs DEF Inventories
  <1> HIDE DEF new
  <1>3. c \in Bags /\ c.slots = new /\ c.cursor = cur /\ c.trash = b.trash
    BY <1>1, BagIs DEF Bags
  <1>4. Value(s) \in Int /\ Value(cur) \in Int /\ Value(b.slots[i]) \in Int
    BY BagIs, ValueIs DEF Inventories
  <1>5. Wealth(c) = Wealth(b)
    <2> HIDE DEF c
    <2>. QED
      BY <1>1, <1>3, <1>4, BagIs DEF Wealth
  <1>. QED
    BY <1>2, <1>3, <1>5 DEF Trades, new

\* A left click trades one for one, but for the trash.
LEMMA LeftClickTrades ==
  ASSUME NEW b \in Bags, NEW i \in 1..PlayerSlots
  PROVE  Trades(b, LeftClick(b, i))
  <1> DEFINE s == b.slots[i]
             c == b.cursor
             item == c.item
             moved == Min({StackLimit(s.item) - s.count, c.count})
  <1>1. s \in Slots /\ c \in Slots /\ b.slots \in Inventories
    BY BagIs DEF Inventories
  <1>2. CASE s # Nil /\ c # Nil /\ s.item = c.item
    <2>1. /\ item \in Items /\ StackLimit(item) \in Nat
          /\ s.count \in Nat /\ s.count >= 1 /\ s.count <= StackLimit(item)
          /\ c.count \in Nat /\ c.count >= 1 /\ c.count <= StackLimit(item)
          /\ s = Stack(item, s.count) /\ c = Stack(item, c.count)
          /\ s \in Stacks /\ c \in Stacks
      BY <1>1, <1>2, StackIs DEF Slots
    <2>2. moved = IF StackLimit(item) - s.count <= c.count
                    THEN StackLimit(item) - s.count ELSE c.count
      <3>1. StackLimit(item) - s.count \in Int /\ c.count \in Int /\ s.item = item
        BY <1>2, <2>1
      <3>. QED
        BY <3>1, LeastOfTwo
    <2>3. LeftClick(b, i) =
            [slots |-> [b.slots EXCEPT ![i] = Stack(item, s.count + moved)],
             cursor |-> Rest(item, c.count - moved), trash |-> b.trash]
      <3>1. LeftClick(b, i) =
              [b EXCEPT !.slots[i].count = @ + moved, !.cursor = Rest(item, c.count - moved)]
        BY <1>2 DEF LeftClick
      <3>2. [s EXCEPT !.count = @ + moved] = Stack(item, s.count + moved)
        <4> HIDE DEF moved, item, s
        <4>. QED
          BY <2>1 DEF Stack
      <3>3. [b.slots EXCEPT ![i] = [s EXCEPT !.count = @ + moved]] =
              [b.slots EXCEPT ![i].count = @ + moved]
        BY <1>1 DEF Inventories
      <3> HIDE DEF moved
      <3>. QED
        BY <3>1, <3>2, <3>3 DEF Bags
    <2> HIDE DEF moved
    <2>4. moved \in Nat /\ s.count + moved <= StackLimit(item) /\ s.count + moved >= 1
            /\ c.count - moved \in Nat /\ c.count - moved <= StackLimit(item)
      <3> HIDE DEF s, c, item
      <3>. QED
        BY <2>1, <2>2
    <2> DEFINE t == Stack(item, s.count + moved)
               r == Rest(item, c.count - moved)
    <2>5. t \in Slots /\ Value(t) = Amount(item, s.count + moved)
      <3>1. s.count + moved \in Int
        BY <2>1, <2>4
      <3>2. t \in Stacks
        BY <2>1, <2>4, <3>1, StackIs
      <3>. QED
        BY <3>2, StackIs, ValueIs DEF Slots
    <2>6. r \in Slots /\ Value(r) = Amount(item, c.count - moved)
      BY <2>1, <2>4, ValueIs
    <2>7. Value(s) = Amount(item, s.count) /\ Value(c) = Amount(item, c.count)
      BY <1>2, <2>1, ValueIs
    <2>8. /\ Amount(item, s.count + moved) = Amount(item, s.count) + Amount(item, moved)
          /\ Amount(item, c.count - moved) = Amount(item, c.count) - Amount(item, moved)
          /\ Amount(item, s.count) \in Int /\ Amount(item, c.count) \in Int
          /\ Amount(item, moved) \in Int
      <3>1. s.count \in Int /\ c.count \in Int /\ moved \in Int
        BY <2>1, <2>4
      <3>. QED
        BY <2>1, <3>1, Amounts
    <2>9. Value(t) + Value(r) = Value(s) + Value(c)
      <3> HIDE DEF t, r, s, c, item
      <3>. QED
        BY <2>5, <2>6, <2>7, <2>8
    <2>10. r = Nil => t # s
      <3>1. ASSUME r = Nil PROVE c.count - moved = 0
        <4>1. CASE c.count - moved > 0
          <5>1. r = Stack(item, c.count - moved) /\ r \in Stacks
            BY <2>1, <2>4, <4>1, StackIs DEF Rest
          <5>. QED
            BY <3>1, <5>1, NilIsNothing
        <4>. QED
          BY <2>4, <4>1
      <3>2. t.count = s.count + moved
        BY StackIs
      <3> HIDE DEF t, r, s, c, item
      <3>. QED
        BY <2>1, <2>4, <3>1, <3>2
    <2>. QED
      <3> HIDE DEF t, r
      <3>1. Trades(b, [slots |-> [b.slots EXCEPT ![i] = t], cursor |-> r, trash |-> b.trash])
        BY <2>5, <2>6, <2>9, <2>10, ExchangeTrades
      <3>. QED
        BY <2>3, <3>1 DEF t, r
  <1>3. CASE ~(s # Nil /\ c # Nil /\ s.item = c.item)
    <2>1. LeftClick(b, i) =
            [slots |-> [b.slots EXCEPT ![i] = c], cursor |-> s, trash |-> b.trash]
      <3>1. LeftClick(b, i) = [b EXCEPT !.slots[i] = c, !.cursor = s]
        BY <1>3 DEF LeftClick
      <3>. QED
        BY <3>1 DEF Bags
    <2>2. Value(c) + Value(s) = Value(s) + Value(c)
      BY <1>1, ValueIs
    <2>. QED
      BY <1>1, <2>1, <2>2, ExchangeTrades
  <1>. QED
    BY <1>2, <1>3

\* So many of an item, and so many more or fewer.
LEMMA StackOf ==
  ASSUME NEW item \in Items, NEW n \in Nat, n >= 1, n <= StackLimit(item)
  PROVE  /\ Stack(item, n) \in Slots /\ Stack(item, n) # Nil
         /\ Value(Stack(item, n)) = Amount(item, n)
  <1>1. n \in Int /\ Stack(item, n) \in Stacks
    BY StackIs
  <1>. QED
    BY <1>1, StackIs, ValueIs DEF Slots

\* So does a right click.
LEMMA RightClickTrades ==
  ASSUME NEW b \in Bags, NEW i \in 1..PlayerSlots
  PROVE  Trades(b, RightClick(b, i))
  <1> DEFINE s == b.slots[i]
             c == b.cursor
             half == (s.count + 1) \div 2
  <1>1. s \in Slots /\ c \in Slots /\ b.slots \in Inventories
    BY BagIs DEF Inventories
  <1>2. s # Nil => /\ s \in Stacks /\ s.item \in Items /\ s.count \in Nat /\ s.count >= 1
                   /\ StackLimit(s.item) \in Nat /\ s.count <= StackLimit(s.item)
                   /\ s = Stack(s.item, s.count) /\ Value(s) = Amount(s.item, s.count)
    BY <1>1, StackIs, ValueIs DEF Slots
  <1>3. c # Nil => /\ c \in Stacks /\ c.item \in Items /\ c.count \in Nat /\ c.count >= 1
                   /\ StackLimit(c.item) \in Nat /\ c.count <= StackLimit(c.item)
                   /\ StackLimit(c.item) >= 1
                   /\ c = Stack(c.item, c.count) /\ Value(c) = Amount(c.item, c.count)
    BY <1>1, StackIs, ValueIs DEF Slots
  <1>4. CASE s # Nil /\ c = Nil
    <2>1. RightClick(b, i) = [slots |-> [b.slots EXCEPT ![i] = Rest(s.item, s.count - half)],
                              cursor |-> Stack(s.item, half), trash |-> b.trash]
      <3>1. RightClick(b, i) =
              [b EXCEPT !.slots[i] = Rest(s.item, s.count - half), !.cursor = Stack(s.item, half)]
        BY <1>4 DEF RightClick
      <3>. QED
        BY <3>1 DEF Bags
    <2>2. half \in Nat /\ half >= 1 /\ half <= s.count
      <3>1. s.count \in Nat /\ s.count >= 1
        BY <1>2, <1>4
      <3> HIDE DEF s
      <3>. QED
        BY <3>1
    <2> HIDE DEF half
    <2>3. half <= StackLimit(s.item) /\ s.count - half \in Nat /\ s.count - half <= StackLimit(s.item)
      <3> HIDE DEF s, c
      <3>. QED
        BY <1>2, <1>4, <2>2
    <2>4. /\ Rest(s.item, s.count - half) \in Slots
          /\ Value(Rest(s.item, s.count - half)) = Amount(s.item, s.count - half)
      BY <1>2, <1>4, <2>3, ValueIs
    <2>5. Stack(s.item, half) \in Slots /\ Value(Stack(s.item, half)) = Amount(s.item, half)
      BY <1>2, <1>4, <2>2, <2>3, StackOf
    <2>6. /\ Amount(s.item, s.count - half) = Amount(s.item, s.count) - Amount(s.item, half)
          /\ Amount(s.item, s.count) \in Int /\ Amount(s.item, half) \in Int
      <3>1. s.count \in Int /\ half \in Int /\ s.item \in Items
        BY <1>2, <1>4, <2>2
      <3>. QED
        BY <3>1, Amounts
    <2>7. Value(Rest(s.item, s.count - half)) + Value(Stack(s.item, half)) = Value(s) + Value(c)
      <3>1. Value(c) = 0 /\ Value(s) = Amount(s.item, s.count)
        BY <1>2, <1>4, ValueIs
      <3> HIDE DEF s, c
      <3>. QED
        BY <2>4, <2>5, <2>6, <3>1
    <2> DEFINE t == Rest(s.item, s.count - half)
               u == Stack(s.item, half)
    <2> HIDE DEF t, u
    <2>8. Trades(b, [slots |-> [b.slots EXCEPT ![i] = t], cursor |-> u, trash |-> b.trash])
      BY <1>4, <2>4, <2>5, <2>7, ExchangeTrades DEF t, u
    <2>. QED
      BY <2>1, <2>8 DEF t, u
  <1>5. CASE s = Nil /\ c # Nil
    <2> DEFINE t == Stack(c.item, 1)
               u == Rest(c.item, c.count - 1)
    <2>1. RightClick(b, i) =
            [slots |-> [b.slots EXCEPT ![i] = t], cursor |-> u, trash |-> b.trash]
      <3>1. RightClick(b, i) = [b EXCEPT !.slots[i] = t, !.cursor = u]
        BY <1>5 DEF RightClick
      <3>. QED
        BY <3>1 DEF Bags
    <2>2. c.count - 1 \in Nat /\ c.count - 1 <= StackLimit(c.item) /\ c.item \in Items
            /\ 1 \in Nat /\ 1 <= StackLimit(c.item) /\ 1 >= 1
      BY <1>3, <1>5
    <2>3. u \in Slots /\ Value(u) = Amount(c.item, c.count - 1)
      BY <2>2, ValueIs
    <2>4. t \in Slots /\ t # Nil /\ Value(t) = Amount(c.item, 1)
      BY <2>2, StackOf
    <2>5. /\ Amount(c.item, c.count - 1) = Amount(c.item, c.count) - Amount(c.item, 1)
          /\ Amount(c.item, c.count) \in Int /\ Amount(c.item, 1) \in Int
      <3>1. c.count \in Int /\ 1 \in Int /\ c.item \in Items
        BY <1>3, <1>5
      <3>. QED
        BY <3>1, Amounts
    <2>6. Value(t) + Value(u) = Value(s) + Value(c)
      <3>1. Value(s) = 0 /\ Value(c) = Amount(c.item, c.count)
        BY <1>3, <1>5, ValueIs
      <3> HIDE DEF s, c, t, u
      <3>. QED
        BY <2>3, <2>4, <2>5, <3>1
    <2> HIDE DEF t, u
    <2>7. Trades(b, [slots |-> [b.slots EXCEPT ![i] = t], cursor |-> u, trash |-> b.trash])
      BY <1>5, <2>3, <2>4, <2>6, ExchangeTrades
    <2>. QED
      BY <2>1, <2>7
  <1>6. CASE s # Nil /\ c # Nil /\ s.item = c.item /\ s.count < StackLimit(s.item)
    <2> DEFINE t == Stack(c.item, s.count + 1)
               u == Rest(c.item, c.count - 1)
    <2>1. RightClick(b, i) =
            [slots |-> [b.slots EXCEPT ![i] = t], cursor |-> u, trash |-> b.trash]
      <3>1. RightClick(b, i) = [b EXCEPT !.slots[i].count = @ + 1, !.cursor = u]
        BY <1>6 DEF RightClick
      <3>2. [s EXCEPT !.count = @ + 1] = t
        <4>1. s = Stack(c.item, s.count) /\ s.count \in Nat
          BY <1>2, <1>6
        <4> HIDE DEF s, c
        <4>. QED
          BY <4>1 DEF Stack
      <3>3. [b.slots EXCEPT ![i] = [s EXCEPT !.count = @ + 1]] = [b.slots EXCEPT ![i].count = @ + 1]
        BY <1>1 DEF Inventories
      <3> HIDE DEF t, u
      <3>. QED
        BY <3>1, <3>2, <3>3 DEF Bags
    <2>2. c.count - 1 \in Nat /\ c.count - 1 <= StackLimit(c.item) /\ c.item \in Items
            /\ s.count + 1 \in Nat /\ s.count + 1 <= StackLimit(c.item) /\ s.count + 1 >= 1
      <3> HIDE DEF s, c
      <3>. QED
        BY <1>2, <1>3, <1>6
    <2>3. u \in Slots /\ Value(u) = Amount(c.item, c.count - 1)
      BY <2>2, ValueIs
    <2>4. t \in Slots /\ t # Nil /\ Value(t) = Amount(c.item, s.count + 1)
      BY <2>2, StackOf
    <2>5. /\ Amount(c.item, c.count - 1) = Amount(c.item, c.count) - Amount(c.item, 1)
          /\ Amount(c.item, s.count + 1) = Amount(c.item, s.count) + Amount(c.item, 1)
          /\ Amount(c.item, c.count) \in Int /\ Amount(c.item, 1) \in Int
          /\ Amount(c.item, s.count) \in Int
      <3>1. c.count \in Int /\ 1 \in Int /\ c.item \in Items /\ s.count \in Int
        BY <1>2, <1>3, <1>6
      <3>. QED
        BY <3>1, Amounts
    <2>6. Value(t) + Value(u) = Value(s) + Value(c)
      <3>1. Value(s) = Amount(c.item, s.count) /\ Value(c) = Amount(c.item, c.count)
        BY <1>2, <1>3, <1>6
      <3> HIDE DEF s, c, t, u
      <3>. QED
        BY <2>3, <2>4, <2>5, <3>1
    <2>7. t # s
      <3>1. t.count = s.count + 1 /\ s.count \in Nat
        BY <1>2, <1>6, StackIs
      <3> HIDE DEF s, c, t
      <3>. QED
        BY <3>1
    <2> HIDE DEF t, u
    <2>8. Trades(b, [slots |-> [b.slots EXCEPT ![i] = t], cursor |-> u, trash |-> b.trash])
      BY <2>3, <2>4, <2>6, <2>7, ExchangeTrades
    <2>. QED
      BY <2>1, <2>8
  <1>7. CASE /\ ~(s # Nil /\ c = Nil) /\ ~(s = Nil /\ c # Nil)
             /\ ~(s # Nil /\ c # Nil /\ s.item = c.item /\ s.count < StackLimit(s.item))
    <2>1. RightClick(b, i) = b
      BY <1>7 DEF RightClick
    <2>. QED
      BY <2>1, BagIs
  <1>. QED
    BY <1>4, <1>5, <1>6, <1>7

\* What does not fit goes back to where it was.
LEMMA QuickMoveTrades ==
  ASSUME NEW b \in Bags, NEW i \in 1..PlayerSlots
  PROVE  Trades(b, QuickMove(b, i))
  <1> DEFINE s == b.slots[i]
             without == [b.slots EXCEPT ![i] = Nil]
             lo == IF i <= HotbarSlots THEN HotbarSlots + 1 ELSE 1
             hi == IF i <= HotbarSlots THEN PlayerSlots ELSE HotbarSlots
             poured == InsertIntoSpan(without, s, lo, hi)
             back == Rest(poured.left.item, poured.left.count)
  <1>1. CASE s = Nil
    <2>1. QuickMove(b, i) = b
      BY <1>1 DEF QuickMove
    <2>. QED
      BY <2>1, BagIs
  <1>2. CASE s # Nil
    <2>1. QuickMove(b, i) = [b EXCEPT !.slots = [poured.slots EXCEPT ![i] = back]]
      BY <1>2 DEF QuickMove
    <2>2. /\ s \in Stacks /\ s \in [item : Items, count : Nat] /\ s.item \in Items
          /\ s.count <= StackLimit(s.item) /\ StackLimit(s.item) \in Nat /\ s.count \in Nat
          /\ Value(s) = Amount(s.item, s.count)
      <3>1. s \in Stacks
        BY <1>2, BagIs DEF Inventories, Slots
      <3>2. s.item \in Items /\ s.count \in Nat /\ s = Stack(s.item, s.count)
        BY <3>1, StackIs
      <3>3. Stack(s.item, s.count) \in [item : Items, count : Nat]
        BY <3>2 DEF Stack
      <3>. QED
        BY <3>1, <3>2, <3>3, StackIs, ValueIs
    <2>3. without \in Inventories /\ Contents(without) = Contents(b.slots) + (Value(Nil) - Value(s))
      <3>1. Nil \in Slots
        BY DEF Slots
      <3>. QED
        BY <3>1, BagIs, ContentsChange
    <2>4. without[i] = Nil
      BY BagIs DEF Inventories
    <2>5. Span(lo, hi) /\ i \notin lo..hi
      BY Bounds DEF Span
    <2> HIDE DEF without, s, lo, hi
    <2>6. Poured([slots |-> without, left |-> s], poured, lo, hi)
      BY <2>2, <2>3, <2>5, InsertKeeps
    <2> HIDE DEF poured
    <2>7. /\ poured.slots \in Inventories /\ poured.left.count \in Nat
          /\ poured.left.item = s.item /\ poured.left.count <= s.count
          /\ Contents(poured.slots) + Amount(s.item, poured.left.count) =
               Contents(without) + Amount(s.item, s.count)
          /\ poured.slots[i] = Nil
      BY <2>4, <2>5, <2>6 DEF Poured, Pours
    <2>8. back \in Slots /\ Value(back) = Amount(s.item, poured.left.count)
      <3>1. poured.left.count <= StackLimit(s.item)
        BY <2>2, <2>7
      <3>. QED
        BY <2>2, <2>7, <3>1, ValueIs
    <2> HIDE DEF back
    <2> DEFINE new == [poured.slots EXCEPT ![i] = back]
    <2>9. new \in Inventories /\ Contents(new) = Contents(poured.slots) + (Value(back) - Value(Nil))
      BY <2>7, <2>8, ContentsChange
    <2> HIDE DEF new
    <2>10. QuickMove(b, i) = [slots |-> new, cursor |-> b.cursor, trash |-> b.trash]
      BY <2>1 DEF Bags, new
    <2>11. Contents(new) = Contents(b.slots)
      <3>1. /\ Amount(s.item, s.count) \in Int /\ Amount(s.item, poured.left.count) \in Int
            /\ Contents(poured.slots) \in Int /\ Value(Nil) = 0
        <4>1. s.count \in Int /\ poured.left.count \in Int
          BY <2>2, <2>7
        <4>. QED
          BY <2>2, <2>7, <4>1, Amounts, ContentsType, ValueIs
      <3>. QED
        BY <2>2, <2>3, <2>7, <2>8, <2>9, <3>1, BagIs
    <2>12. QuickMove(b, i) \in Bags
      BY <2>9, <2>10, BagIs DEF Bags
    <2>13. /\ QuickMove(b, i).slots = new /\ QuickMove(b, i).cursor = b.cursor
           /\ QuickMove(b, i).trash = b.trash
      BY <2>10
    <2>. QED
      BY <2>11, <2>12, <2>13 DEF Trades, Wealth
  <1>. QED
    BY <1>1, <1>2

\* A craft trades in the slots alone.
Crafts(b, c) ==
  c \in Bags /\ Wealth(c) = Wealth(b) /\ c.cursor = b.cursor /\ c.trash = b.trash

\* One craft turns its inputs into its output, or does nothing.
LEMMA CraftOnceCrafts == ASSUME NEW b \in Bags PROVE Crafts(b, CraftOnce(b))
  <1> DEFINE removed == RemoveItem(b.slots, Inputs.item, Inputs.count)
             trial == InsertFirstFit(removed, Output)
  <1>1. CASE CountItem(b.slots, Inputs.item) >= Inputs.count /\ trial.left.count = 0
    <2>1. CraftOnce(b) = [b EXCEPT !.slots = trial.slots]
      BY <1>1 DEF CraftOnce
    <2>2. Inputs.item = "stone" /\ Inputs.count = 2 /\ "stone" \in Items /\ "brick" \in Items
      BY DEF Inputs, Items
    <2>3. /\ removed \in Inventories
          /\ Contents(removed) = Contents(b.slots) - Amount("stone", 2)
      <3>1. CountItem(b.slots, "stone") >= 2 /\ 2 \in Nat
        BY <1>1, <2>2
      <3>. QED
        BY <2>2, <3>1, BagIs, RemoveKeeps
    <2> HIDE DEF removed
    <2>4. Output \in [item : Items, count : Nat] /\ Output.item = "brick" /\ Output.count = 1
      BY <2>2 DEF Output
    <2>5. Span(1, PlayerSlots)
      BY Bounds DEF Span
    <2>6. Poured([slots |-> removed, left |-> Output], trial, 1, PlayerSlots)
      BY <2>3, <2>4, <2>5, InsertKeeps DEF InsertFirstFit
    <2> HIDE DEF trial
    <2>7. /\ trial.slots \in Inventories /\ trial.left.item = "brick"
          /\ Contents(trial.slots) + Amount("brick", trial.left.count) =
               Contents(removed) + Amount("brick", 1)
      BY <2>4, <2>6 DEF Poured, Pours
    <2>8. Contents(trial.slots) = Contents(b.slots)
      <3>1. Contents(trial.slots) \in Int /\ Contents(b.slots) \in Int
        BY <2>7, ContentsType, BagIs
      <3>2. Amount("brick", trial.left.count) = 0
        BY <1>1, <2>2, Amounts
      <3>. QED
        BY <2>3, <2>7, <3>1, <3>2, Amounts
    <2>9. CraftOnce(b) = [slots |-> trial.slots, cursor |-> b.cursor, trash |-> b.trash]
      BY <2>1 DEF Bags
    <2>10. CraftOnce(b) \in Bags
      BY <2>7, <2>9, BagIs DEF Bags
    <2>11. /\ CraftOnce(b).slots = trial.slots /\ CraftOnce(b).cursor = b.cursor
           /\ CraftOnce(b).trash = b.trash
      BY <2>9
    <2>. QED
      BY <2>8, <2>10, <2>11 DEF Crafts, Wealth
  <1>2. CASE ~(CountItem(b.slots, Inputs.item) >= Inputs.count /\ trial.left.count = 0)
    <2>1. CraftOnce(b) = b
      BY <1>2 DEF CraftOnce
    <2>. QED
      BY <2>1 DEF Crafts
  <1>. QED
    BY <1>1, <1>2

\* How many of an item an inventory holds is a number.
LEMMA CountItemType ==
  ASSUME NEW inv \in Inventories, NEW item \in Items PROVE CountItem(inv, item) \in Nat
  <1> DEFINE g == [i \in 1..PlayerSlots |-> CountIn(inv[i], item)]
  <1>1. g \in [1..PlayerSlots -> Int] /\ \A k \in 1..PlayerSlots : g[k] >= 0
    BY CountInIs DEF Inventories
  <1>2. Total(g, PlayerSlots) \in Int /\ Total(g, PlayerSlots) >= 0
    <2> HIDE DEF g
    <2>. QED
      BY <1>1, Bounds, TotalType
  <1>. QED
    BY <1>2 DEF CountItem

\* So does a craft, once or as often as it goes.
LEMMA CraftCrafts == ASSUME NEW b \in Bags, NEW all \in BOOLEAN PROVE Crafts(b, Craft(b, all))
  <1> DEFINE N == IF all THEN CountItem(b.slots, Inputs.item) \div Inputs.count ELSE 1
             Rounds(g) == g = [k \in 0..N |-> IF k = 0 THEN b ELSE CraftOnce(g[k - 1])]
             step == [k \in 1..N |-> [c \in Bags |-> CraftOnce(c)]]
             crafted == CHOOSE g : Rounds(g)
  <1>1. N \in Nat
    <2>1. CountItem(b.slots, Inputs.item) \in Nat /\ Inputs.count = 2
      BY BagIs, CountItemType DEF Inputs, Items
    <2>2. CountItem(b.slots, Inputs.item) \div 2 \in Nat
      BY <2>1
    <2>. QED
      BY <2>1, <2>2
  <1>2. Craft(b, all) = crafted[N]
    BY DEF Craft
  <1> HIDE DEF N
  <1>3. step \in [1..N -> [Bags -> Bags]]
    BY CraftOnceCrafts DEF Crafts
  <1>4. PICK f \in [0..N -> Bags] : Runs(f, N, b, step)
    <2> HIDE DEF step
    <2>. QED
      BY <1>1, <1>3, BoundedFunctionExists
  <1>5. Rounds(f)
    <2>1. ASSUME NEW k \in 0..N PROVE f[k] = IF k = 0 THEN b ELSE CraftOnce(f[k - 1])
      <3>1. CASE k = 0
        BY <1>4, <3>1 DEF Runs
      <3>2. CASE k # 0
        <4>1. k \in 1..N /\ k - 1 \in 0..N
          BY <1>1, <3>2
        <4>2. f[k] = step[k][f[k - 1]] /\ f[k - 1] \in Bags
          <5> HIDE DEF step
          <5>. QED
            BY <1>4, <4>1 DEF Runs
        <4>. QED
          BY <3>2, <4>1, <4>2
      <3>. QED
        BY <3>1, <3>2
    <2>. QED
      BY <2>1
  <1>6. Rounds(crafted)
    BY <1>5
  <1> HIDE DEF crafted, step
  <1> DEFINE T == {k \in 0..N : Crafts(b, crafted[k])}
  <1>7. 0 \in T
    <2>1. crafted[0] = b
      BY <1>1, <1>6
    <2>. QED
      BY <1>1, <2>1 DEF Crafts
  <1>8. ASSUME NEW k \in 0..(N - 1), k \in T PROVE k + 1 \in T
    <2>1. k + 1 \in 0..N /\ (k + 1) - 1 = k /\ k + 1 # 0
      BY <1>1
    <2>2. crafted[k + 1] = CraftOnce(crafted[k])
      BY <1>6, <2>1
    <2>3. Crafts(crafted[k], crafted[k + 1])
      BY <1>8, <2>2, CraftOnceCrafts DEF Crafts
    <2>. QED
      BY <1>8, <2>1, <2>3 DEF Crafts
  <1>9. 0..N \subseteq T
    <2> HIDE DEF T, Rounds
    <2>. QED
      BY <1>1, <1>7, <1>8, BoundedInduction
  <1>. QED
    BY <1>1, <1>2, <1>9

\* A craft is worth what went into it.
LEMMA CraftTrades == ASSUME NEW b \in Bags, NEW all \in BOOLEAN PROVE Trades(b, Craft(b, all))
  BY CraftCrafts DEF Crafts, Trades

\* The trash loses what the cursor overwrites.
LEMMA TrashLoses ==
  ASSUME NEW b \in Bags
  PROVE  /\ Trash(b) \in Bags
         /\ Trash(b).slots = b.slots
         /\ b.cursor # Nil => Trash(b).cursor = Nil /\ Wealth(Trash(b)) = Wealth(b) - Value(b.trash)
         /\ b.cursor = Nil => Wealth(Trash(b)) = Wealth(b)
  <1>1. CASE b.cursor # Nil
    <2>1. Trash(b) = [slots |-> b.slots, cursor |-> Nil, trash |-> b.cursor]
      BY <1>1 DEF Trash, Bags
    <2>2. Trash(b) \in Bags
      BY <2>1, BagIs DEF Bags, Slots
    <2>3. Trash(b).slots = b.slots /\ Trash(b).cursor = Nil /\ Trash(b).trash = b.cursor
      BY <2>1
    <2>4. Wealth(Trash(b)) = Wealth(b) - Value(b.trash)
      BY <2>3, BagIs, ValueIs DEF Wealth
    <2>. QED
      BY <1>1, <2>2, <2>3, <2>4
  <1>2. CASE b.cursor = Nil
    <2>1. Trash(b) = [slots |-> b.slots, cursor |-> b.trash, trash |-> Nil]
      BY <1>2 DEF Trash, Bags
    <2>2. Trash(b) \in Bags
      BY <2>1, BagIs DEF Bags, Slots
    <2>3. Trash(b).slots = b.slots /\ Trash(b).cursor = b.trash /\ Trash(b).trash = Nil
      BY <2>1
    <2>4. Wealth(Trash(b)) = Wealth(b)
      BY <1>2, <2>3, BagIs, ValueIs DEF Wealth
    <2>. QED
      BY <1>2, <2>2, <2>3, <2>4
  <1>. QED
    BY <1>1, <1>2

\* A creative grab leaves a bag.
LEMMA GrabType ==
  ASSUME NEW b \in Bags, NEW p, NEW item \in Items
  PROVE  CreativeGrab(p, b, item) \in Bags
  <1>1. Stack(item, StackLimit(item)) \in Slots
    <2>1. StackLimit(item) \in Nat /\ StackLimit(item) >= 1 /\ StackLimit(item) <= StackLimit(item)
      BY StackIs
    <2>. QED
      BY <2>1, StackOf
  <1>2. [slots |-> b.slots, cursor |-> Stack(item, StackLimit(item)), trash |-> b.trash] \in Bags
    BY <1>1, BagIs DEF Bags
  <1>3. CASE p \in Creative
    <2>1. CreativeGrab(p, b, item) =
            [slots |-> b.slots, cursor |-> Stack(item, StackLimit(item)), trash |-> b.trash]
      BY <1>3 DEF CreativeGrab, Bags
    <2>. QED
      BY <1>2, <2>1
  <1>4. CASE p \notin Creative
    BY <1>4 DEF CreativeGrab
  <1>. QED
    BY <1>3, <1>4
-----------------------------------------------------------------------------
(* Worlds.                                                                 *)

Worlds == [Cells -> Materials]
Stone(m) == IF m = "stone" THEN 1 ELSE 0

\* The world holds as many stones as it did, but for the one cell that changed.
LEMMA StonesChange ==
  ASSUME NEW w \in Worlds, NEW c \in Cells, NEW m \in Materials
  PROVE  /\ [w EXCEPT ![c] = m] \in Worlds
         /\ Stones(w) \in Int
         /\ Stones([w EXCEPT ![c] = m]) = Stones(w) + (Stone(m) - Stone(w[c]))
  <1> DEFINE new == [w EXCEPT ![c] = m]
             f == [k \in 1..Width |-> IF w[k] = "stone" THEN 1 ELSE 0]
             g == [k \in 1..Width |-> IF new[k] = "stone" THEN 1 ELSE 0]
  <1>1. new \in Worlds /\ c \in 1..Width
    BY DEF Worlds, Cells
  <1>2. f \in [1..Width -> Int] /\ g \in [1..Width -> Int]
    OBVIOUS
  <1>3. \A k \in 1..Width : k # c => g[k] = f[k]
    BY DEF Worlds, Cells
  <1>4. g[c] = Stone(m) /\ f[c] = Stone(w[c])
    BY <1>1 DEF Worlds, Cells, Stone
  <1>5. /\ Total(g, Width) = Total(f, Width) + (g[c] - f[c])
        /\ Total(f, Width) \in Int
    <2> HIDE DEF f, g
    <2>. QED
      BY <1>1, <1>2, <1>3, Bounds, TotalChange, TotalType
  <1>6. Stones(w) = Total(f, Width) /\ Stones(new) = Total(g, Width)
    BY DEF Stones, Cells
  <1>. QED
    BY <1>1, <1>4, <1>5, <1>6

\* What is dug at can be dug, and what is placed into is air.
LEMMA DigTargets ==
  ASSUME NEW p \in People, NEW aim \in Cells, NEW smart \in BOOLEAN, NEW w,
         SelectDig(p, aim, smart, w) # Nil
  PROVE  /\ SelectDig(p, aim, smart, w) \in Cells
         /\ Destructible(p, w[SelectDig(p, aim, smart, w)])
  <1> DEFINE ds == {d \in 1..(Reach + 1) : Diggable(p, Ahead(p, aim, d), w)}
  <1>1. CASE ~smart
    BY <1>1 DEF SelectDig, Diggable
  <1>2. CASE smart
    <2>1. ds # {} /\ SelectDig(p, aim, smart, w) = Ahead(p, aim, Min(ds))
      BY <1>2 DEF SelectDig
    <2>2. ds \in SUBSET Nat
      BY Bounds
    <2>3. Min(ds) \in ds
      <3> HIDE DEF ds
      <3>. QED
        BY <2>1, <2>2, MinIsLeast
    <2>4. Diggable(p, Ahead(p, aim, Min(ds)), w)
      BY <2>3
    <2>. QED
      BY <2>1, <2>4 DEF Diggable
  <1>. QED
    BY <1>1, <1>2

\* A placement goes into a cell of the row that is free.
LEMMA PlaceTargets ==
  ASSUME NEW p \in People, NEW aim \in Cells, NEW smart \in BOOLEAN, body[p] \in Cells,
         SelectPlace(p, aim, smart) # Nil
  PROVE  /\ SelectPlace(p, aim, smart) \in Cells
         /\ world[SelectPlace(p, aim, smart)] = "air"
  <1> DEFINE near == Min({body[p] + Reach, aim})
             far == Max({body[p] - Reach, near})
             sign == IF far >= body[p] THEN 1 ELSE -1
             clear(n) == \A k \in 0..n : body[p] + sign * k \in Cells
                           /\ world[body[p] + sign * k] \in {"air", "flesh"}
             M == sign * (far - body[p])
             ns == {n \in 1..M : clear(n) /\ world[body[p] + sign * n] = "air"}
  <1>1. body[p] \in Int /\ aim \in Int /\ Reach \in Nat
    BY Bounds DEF Cells
  <1>2. CASE ~smart
    BY <1>2 DEF SelectPlace
  <1>3. CASE smart
    <2>1. ns # {} /\ SelectPlace(p, aim, smart) = body[p] + sign * Max(ns)
      BY <1>3 DEF SelectPlace
    <2>2. near \in Int
      <3>1. body[p] + Reach \in Int
        BY <1>1
      <3>2. near = IF body[p] + Reach <= aim THEN body[p] + Reach ELSE aim
        BY <1>1, <3>1, LeastOfTwo
      <3>. QED
        BY <1>1, <3>1, <3>2
    <2> HIDE DEF near
    <2>3. far \in Int
      <3>1. body[p] - Reach \in Int
        BY <1>1
      <3>2. far = IF body[p] - Reach <= near THEN near ELSE body[p] - Reach
        BY <2>2, <3>1, GreatestOfTwo
      <3>. QED
        BY <2>2, <3>1, <3>2
    <2> HIDE DEF far
    <2>4. M \in Nat /\ sign \in {1, -1}
      BY <1>1, <2>3
    <2> HIDE DEF M, sign
    <2>5. ns \in SUBSET (0..M)
      BY <2>4
    <2>6. Max(ns) \in ns
      <3> HIDE DEF ns
      <3>. QED
        BY <2>1, <2>4, <2>5, MaxIsGreatest
    <2>7. Max(ns) \in 1..M /\ clear(Max(ns)) /\ world[body[p] + sign * Max(ns)] = "air"
      BY <2>6
    <2> HIDE DEF ns
    <2>8. Max(ns) \in 0..Max(ns)
      BY <2>4, <2>7
    <2>9. body[p] + sign * Max(ns) \in Cells
      BY <2>7, <2>8
    <2>. QED
      BY <2>1, <2>7, <2>9
  <1>. QED
    BY <1>2, <1>3

\* What a creative player clears leaves a world, and leaves the avatars.
Leaves(w, v) == v \in Worlds /\ \A c \in Cells : w[c] = "flesh" => v[c] = "flesh"

\* A creative dig of one cell adds no stone to the world.
LEMMA ClearOneLeaves ==
  ASSUME NEW p \in People, NEW aim \in Cells, NEW smart \in BOOLEAN, NEW w \in Worlds
  PROVE  Leaves(w, ClearOne(p, aim, smart, w))
  <1> DEFINE t == SelectDig(p, aim, smart, w)
  <1>1. CASE t = Nil
    BY <1>1 DEF ClearOne, Leaves
  <1>2. CASE t # Nil
    <2>1. ClearOne(p, aim, smart, w) = [w EXCEPT ![t] = "air"]
      BY <1>2 DEF ClearOne
    <2>2. t \in Cells /\ w[t] # "flesh"
      BY <1>2, DigTargets DEF Destructible
    <2> HIDE DEF t
    <2>. QED
      BY <2>1, <2>2 DEF Leaves, Worlds, Materials
  <1>. QED
    BY <1>1, <1>2

\* Nor does one that repeats within a tick.
LEMMA ClearedLeaves ==
  ASSUME NEW p \in People, NEW aim \in Cells, NEW smart \in BOOLEAN, world \in Worlds
  PROVE  Leaves(world, Cleared(p, aim, smart))
  <1> DEFINE N == CreativeRate
             Clears(g) == g = [k \in 0..N |-> IF k = 0 THEN world ELSE ClearOne(p, aim, smart, g[k - 1])]
             step == [k \in 1..N |-> [w \in Worlds |-> ClearOne(p, aim, smart, w)]]
             cleared == CHOOSE g : Clears(g)
  <1>1. N \in Nat
    BY Bounds
  <1>2. Cleared(p, aim, smart) = cleared[N]
    BY DEF Cleared
  <1>3. step \in [1..N -> [Worlds -> Worlds]]
    BY ClearOneLeaves DEF Leaves
  <1>4. PICK f \in [0..N -> Worlds] : Runs(f, N, world, step)
    <2> HIDE DEF step
    <2>. QED
      BY <1>1, <1>3, BoundedFunctionExists
  <1>5. Clears(f)
    <2>1. ASSUME NEW k \in 0..N
          PROVE  f[k] = IF k = 0 THEN world ELSE ClearOne(p, aim, smart, f[k - 1])
      <3>1. CASE k = 0
        BY <1>4, <3>1 DEF Runs
      <3>2. CASE k # 0
        <4>1. k \in 1..N /\ k - 1 \in 0..N
          BY <1>1, <3>2
        <4>2. f[k] = step[k][f[k - 1]] /\ f[k - 1] \in Worlds
          <5> HIDE DEF step
          <5>. QED
            BY <1>4, <4>1 DEF Runs
        <4>. QED
          BY <3>2, <4>1, <4>2
      <3>. QED
        BY <3>1, <3>2
    <2>. QED
      BY <2>1
  <1>6. Clears(cleared)
    BY <1>5
  <1> HIDE DEF cleared, step
  <1> DEFINE T == {k \in 0..N : Leaves(world, cleared[k])}
  <1>7. 0 \in T
    <2>1. cleared[0] = world
      BY <1>1, <1>6
    <2>. QED
      BY <1>1, <2>1 DEF Leaves
  <1>8. ASSUME NEW k \in 0..(N - 1), k \in T PROVE k + 1 \in T
    <2>1. k + 1 \in 0..N /\ (k + 1) - 1 = k /\ k + 1 # 0
      BY <1>1
    <2>2. cleared[k + 1] = ClearOne(p, aim, smart, cleared[k])
      BY <1>6, <2>1
    <2>3. Leaves(cleared[k], cleared[k + 1])
      BY <1>8, <2>2, ClearOneLeaves DEF Leaves
    <2>. QED
      BY <1>8, <2>1, <2>3 DEF Leaves
  <1>9. 0..N \subseteq T
    <2> HIDE DEF T, Clears
    <2>. QED
      BY <1>1, <1>7, <1>8, BoundedInduction
  <1>. QED
    BY <1>1, <1>2, <1>9
-----------------------------------------------------------------------------
(* The invariant.  The work on a cell that is kept from tick to tick is    *)
(* work of ticks on end at that cell, with what was and is in it, by the    *)
(* same means.                                                              *)

Digs == Cells \X Materials \X Methods

WorkInv ==
  /\ progress \in [People -> Works \cup {Nil}]
  /\ trace \in [People -> [what : Digs \cup {Nil}, ticks : Nat]]
  /\ \A p \in People :
       progress[p] # Nil =>
         /\ progress[p].elapsed \in 1..(Needed(progress[p].method) - 1)
         /\ trace[p].what = <<progress[p].target, progress[p].material, progress[p].method>>
         /\ trace[p].ticks >= progress[p].elapsed

MiningInv == TypeOK /\ WorkInv

Longest == IF HandTicks <= ToolTicks THEN ToolTicks ELSE HandTicks

\* How many ticks a dig takes.
LEMMA NeededIs ==
  /\ Longest \in Nat /\ Longest >= 1
  /\ \A m \in Methods : Needed(m) \in Nat /\ Needed(m) >= 1 /\ Needed(m) <= Longest
  BY Bounds DEF Longest, Needed

\* The history counts the ticks on end of one piece of work.
LEMMA NoteIs ==
  ASSUME trace \in [People -> [what : Digs \cup {Nil}, ticks : Nat]],
         NEW p \in People, NEW what \in Digs \cup {Nil}, Note(p, what)
  PROVE  /\ trace' \in [People -> [what : Digs \cup {Nil}, ticks : Nat]]
         /\ \A q \in People : q # p => trace'[q] = trace[q]
         /\ trace'[p].what = what
         /\ what # Nil => trace'[p].ticks >= 1
         /\ what # Nil /\ trace[p].what = what =>
              \/ trace'[p].ticks = trace[p].ticks + 1
              \/ trace'[p].ticks = Longest
  <1> DEFINE old == trace[p].ticks
             most == Max({HandTicks, ToolTicks})
             ticks == IF what = Nil THEN 0
                      ELSE IF trace[p].what = what THEN Min({old + 1, most}) ELSE 1
  <1>1. trace' = [trace EXCEPT ![p] = [what |-> what, ticks |-> ticks]]
    BY DEF Note
  <1>2. most = Longest
    BY Bounds, GreatestOfTwo DEF Longest
  <1> HIDE DEF most
  <1>3. old \in Nat
    OBVIOUS
  <1>4. Min({old + 1, most}) = IF old + 1 <= Longest THEN old + 1 ELSE Longest
    <2> HIDE DEF old
    <2>1. old + 1 \in Int /\ most \in Int
      BY <1>2, <1>3, NeededIs
    <2>2. ASSUME NEW m \in Int PROVE Min({m, most}) = IF m <= most THEN m ELSE most
      BY <2>1, LeastOfTwo
    <2>. QED
      BY <1>2, <2>1, <2>2
  <1>5. /\ ticks \in Nat
        /\ what # Nil => ticks >= 1
        /\ what # Nil /\ trace[p].what = what => ticks = old + 1 \/ ticks = Longest
    <2> HIDE DEF old
    <2>. QED
      BY <1>3, <1>4, NeededIs
  <1> HIDE DEF ticks
  <1>6. trace'[p].what = what /\ trace'[p].ticks = ticks
    BY <1>1
  <1>7. trace' \in [People -> [what : Digs \cup {Nil}, ticks : Nat]]
    BY <1>1, <1>5
  <1>8. \A q \in People : q # p => trace'[q] = trace[q]
    BY <1>1
  <1>. QED
    BY <1>5, <1>6, <1>7, <1>8

\* Work that is given up.
LEMMA IdleWorks ==
  ASSUME WorkInv, NEW p \in People, NEW what \in Digs \cup {Nil},
         progress' = [progress EXCEPT ![p] = Nil],
         trace' = trace \/ Note(p, what)
  PROVE  WorkInv'
  <1>1. /\ trace' \in [People -> [what : Digs \cup {Nil}, ticks : Nat]]
        /\ \A q \in People : q # p => trace'[q] = trace[q]
    <2>1. CASE trace' = trace
      BY <2>1 DEF WorkInv
    <2>2. CASE Note(p, what)
      BY <2>2, NoteIs DEF WorkInv
    <2>. QED
      BY <2>1, <2>2
  <1>2. progress' \in [People -> Works \cup {Nil}]
    BY DEF WorkInv
  <1>3. ASSUME NEW q \in People, progress'[q] # Nil
        PROVE  /\ progress'[q].elapsed \in 1..(Needed(progress'[q].method) - 1)
               /\ trace'[q].what = <<progress'[q].target, progress'[q].material, progress'[q].method>>
               /\ trace'[q].ticks >= progress'[q].elapsed
    <2>1. q # p /\ progress'[q] = progress[q] /\ trace'[q] = trace[q]
      BY <1>1, <1>3 DEF WorkInv
    <2>. QED
      BY <1>3, <2>1 DEF WorkInv
  <1>. QED
    BY <1>1, <1>2, <1>3 DEF WorkInv

\* Work that goes on, and work that is finished, was work for as many ticks.
LEMMA WorkIsTraced ==
  ASSUME WorkInv, NEW p \in People, NEW target \in Cells, NEW material \in Materials,
         NEW method \in Methods, Note(p, <<target, material, method>>),
         NEW done,
         done = 1 + IF Matches(progress[p], target, material, method)
                      THEN progress[p].elapsed ELSE 0
  PROVE  /\ done \in Nat /\ done >= 1 /\ done <= Needed(method)
         /\ trace'[p].ticks >= done
         /\ done < Needed(method) /\
            progress' = [progress EXCEPT ![p] =
              [target |-> target, material |-> material, method |-> method, elapsed |-> done]]
            => WorkInv'
  <1> DEFINE what == <<target, material, method>>
             q0 == progress[p]
  <1>1. what \in Digs /\ what # Nil
    BY NilIsNothing DEF Digs
  <1> HIDE DEF what
  <1>2. /\ trace' \in [People -> [what : Digs \cup {Nil}, ticks : Nat]]
        /\ \A q \in People : q # p => trace'[q] = trace[q]
        /\ trace'[p].what = what
        /\ trace'[p].ticks >= 1
        /\ trace[p].what = what =>
             \/ trace'[p].ticks = trace[p].ticks + 1
             \/ trace'[p].ticks = Longest
    BY <1>1, NoteIs DEF WorkInv, what
  <1>3. Needed(method) \in Nat /\ Needed(method) >= 1 /\ Needed(method) <= Longest /\ Longest \in Nat
    BY NeededIs
  <1>4. /\ done \in Nat /\ done >= 1 /\ done <= Needed(method)
        /\ trace'[p].ticks >= done
    <2>1. CASE Matches(q0, target, material, method)
      <3>1. /\ q0 # Nil /\ q0.target = target /\ q0.material = material /\ q0.method = method
            /\ done = 1 + q0.elapsed
        BY <2>1 DEF Matches
      <3>2. /\ q0.elapsed \in 1..(Needed(method) - 1)
            /\ trace[p].what = what /\ trace[p].ticks >= q0.elapsed
        BY <3>1 DEF WorkInv, what
      <3>3. trace[p].ticks \in Nat
        BY DEF WorkInv
      <3> HIDE DEF q0
      <3>. QED
        BY <1>2, <1>3, <3>1, <3>2, <3>3
    <2>2. CASE ~Matches(q0, target, material, method)
      BY <1>2, <1>3, <2>2
    <2>. QED
      BY <2>1, <2>2
  <1>5. ASSUME done < Needed(method),
               progress' = [progress EXCEPT ![p] =
                 [target |-> target, material |-> material, method |-> method, elapsed |-> done]]
        PROVE  WorkInv'
    <2> DEFINE work == [target |-> target, material |-> material, method |-> method, elapsed |-> done]
    <2>1. work \in Works
      BY <1>4 DEF Works
    <2>2. progress' \in [People -> Works \cup {Nil}] /\ progress'[p] = work
      BY <1>5, <2>1 DEF WorkInv
    <2>3. ASSUME NEW q \in People, progress'[q] # Nil
          PROVE  /\ progress'[q].elapsed \in 1..(Needed(progress'[q].method) - 1)
                 /\ trace'[q].what = <<progress'[q].target, progress'[q].material, progress'[q].method>>
                 /\ trace'[q].ticks >= progress'[q].elapsed
      <3>1. CASE q = p
        <4>1. done \in 1..(Needed(method) - 1)
          BY <1>3, <1>4, <1>5
        <4>2. /\ work.elapsed = done /\ work.method = method
              /\ what = <<work.target, work.material, work.method>>
          BY DEF what
        <4> HIDE DEF work
        <4>. QED
          BY <1>2, <1>4, <2>2, <3>1, <4>1, <4>2
      <3>2. CASE q # p
        <4>1. progress'[q] = progress[q] /\ trace'[q] = trace[q]
          BY <1>2, <1>5, <3>2 DEF WorkInv
        <4>. QED
          BY <2>3, <4>1 DEF WorkInv
      <3>. QED
        BY <3>1, <3>2
    <2>. QED
      BY <1>2, <2>2, <2>3 DEF WorkInv
  <1>. QED
    BY <1>4, <1>5
-----------------------------------------------------------------------------
(* What the players have.                                                  *)

Riches(inv, cur, bin) ==
  Total([p \in People |-> Value(cur[p]) + Value(bin[p]) + Contents(inv[p])], Players)

\* All there is, the world and every bag.
LEMMA WorthIs == Worth = Stones(world) + Riches(slots, cursor, trash)
  BY DEF Worth, Riches

\* All there is after a step.
LEMMA WorthIsNext == Worth' = Stones(world') + Riches(slots', cursor', trash')
  BY DEF Worth, Riches, Stones, Contents

BagOf(inv, cur, bin, p) == [slots |-> inv[p], cursor |-> cur[p], trash |-> bin[p]]

\* What one player gains, all gain.
OneChanges(inv, cur, bin, inv2, cur2, bin2, p) ==
  /\ \A q \in People : BagOf(inv, cur, bin, q) \in Bags /\ BagOf(inv2, cur2, bin2, q) \in Bags
  /\ \A q \in People : q # p => BagOf(inv2, cur2, bin2, q) = BagOf(inv, cur, bin, q)

\* When one bag changes, all bags together change as much.
LEMMA RichesChange ==
  ASSUME NEW inv, NEW cur, NEW bin, NEW inv2, NEW cur2, NEW bin2, NEW p \in People,
         OneChanges(inv, cur, bin, inv2, cur2, bin2, p)
  PROVE  /\ Riches(inv, cur, bin) \in Int
         /\ Riches(inv2, cur2, bin2) = Riches(inv, cur, bin)
              + (Wealth(BagOf(inv2, cur2, bin2, p)) - Wealth(BagOf(inv, cur, bin, p)))
  <1> DEFINE f == [q \in People |-> Value(cur[q]) + Value(bin[q]) + Contents(inv[q])]
             g == [q \in People |-> Value(cur2[q]) + Value(bin2[q]) + Contents(inv2[q])]
  <1>1. ASSUME NEW q \in People
        PROVE  /\ f[q] = Wealth(BagOf(inv, cur, bin, q)) /\ f[q] \in Int
               /\ g[q] = Wealth(BagOf(inv2, cur2, bin2, q)) /\ g[q] \in Int
    <2>1. f[q] = Wealth(BagOf(inv, cur, bin, q)) /\ g[q] = Wealth(BagOf(inv2, cur2, bin2, q))
      BY DEF BagOf, Wealth
    <2>2. ASSUME NEW b \in Bags PROVE Wealth(b) \in Int
      BY BagIs DEF Wealth
    <2>. QED
      BY <2>1, <2>2 DEF OneChanges
  <1>2. People = 1..Players /\ Players \in Nat
    BY Bounds DEF People
  <1>3. f \in [1..Players -> Int] /\ g \in [1..Players -> Int]
    <2>1. f \in [People -> Int] /\ g \in [People -> Int]
      BY <1>1
    <2> HIDE DEF f, g
    <2>. QED
      BY <1>2, <2>1
  <1>4. \A q \in 1..Players : q # p => g[q] = f[q]
    BY <1>1, <1>2 DEF OneChanges
  <1> HIDE DEF f, g
  <1>5. Total(g, Players) = Total(f, Players) + (g[p] - f[p]) /\ Total(f, Players) \in Int
    BY <1>2, <1>3, <1>4, TotalChange, TotalType
  <1>. QED
    BY <1>1, <1>5 DEF Riches, f, g

\* The bags of players are bags.
LEMMA BagsAre ==
  ASSUME TypeOK
  PROVE  /\ \A p \in People : Bag(p) \in Bags /\ Bag(p) = BagOf(slots, cursor, trash, p)
         /\ slots \in [People -> Inventories] /\ cursor \in [People -> Slots]
         /\ trash \in [People -> Slots]
         /\ world \in Worlds
         /\ Stones(world) \in Int /\ Riches(slots, cursor, trash) \in Int
  <1>1. /\ slots \in [People -> Inventories] /\ cursor \in [People -> Slots]
        /\ trash \in [People -> Slots] /\ world \in Worlds
    BY DEF TypeOK, Inventories, Worlds
  <1>2. \A p \in People : Bag(p) \in Bags /\ Bag(p) = BagOf(slots, cursor, trash, p)
    BY <1>1 DEF Bag, BagOf, Bags
  <1>3. Stones(world) \in Int
    <2>1. 1 \in Cells /\ "air" \in Materials
      BY Bounds DEF Cells, Materials
    <2>. QED
      BY <1>1, <2>1, StonesChange
  <1>4. 1 \in People
    BY Bounds DEF People
  <1>5. OneChanges(slots, cursor, trash, slots, cursor, trash, 1)
    BY <1>2 DEF OneChanges
  <1>. QED
    BY <1>1, <1>2, <1>3, <1>4, <1>5, RichesChange

\* One player's slots change.
LEMMA SlotsChange ==
  ASSUME TypeOK, NEW p \in People, NEW inv \in Inventories,
         NEW new, new = [slots EXCEPT ![p] = inv]
  PROVE  /\ new \in [People -> Inventories]
         /\ Riches(new, cursor, trash) =
              Riches(slots, cursor, trash) + (Contents(inv) - Contents(slots[p]))
  <1>1. /\ slots \in [People -> Inventories] /\ cursor \in [People -> Slots]
        /\ trash \in [People -> Slots]
    BY BagsAre
  <1>2. new \in [People -> Inventories] /\ new[p] = inv
    BY <1>1
  <1>3. \A q \in People : q # p => new[q] = slots[q]
    BY <1>1
  <1>4. \A q \in People : /\ BagOf(slots, cursor, trash, q) \in Bags
                          /\ BagOf(new, cursor, trash, q) \in Bags
    BY <1>1, <1>2 DEF BagOf, Bags
  <1>5. \A q \in People : q # p => BagOf(new, cursor, trash, q) = BagOf(slots, cursor, trash, q)
    BY <1>3 DEF BagOf
  <1>6. Riches(new, cursor, trash) = Riches(slots, cursor, trash)
          + (Wealth(BagOf(new, cursor, trash, p)) - Wealth(BagOf(slots, cursor, trash, p)))
    <2>1. OneChanges(slots, cursor, trash, new, cursor, trash, p)
      BY <1>4, <1>5 DEF OneChanges
    <2>. QED
      BY <2>1, RichesChange
  <1>7. /\ Wealth(BagOf(new, cursor, trash, p)) = Value(cursor[p]) + Value(trash[p]) + Contents(inv)
        /\ Wealth(BagOf(slots, cursor, trash, p)) =
             Value(cursor[p]) + Value(trash[p]) + Contents(slots[p])
    BY <1>2 DEF Wealth, BagOf
  <1>8. /\ Value(cursor[p]) \in Int /\ Value(trash[p]) \in Int
        /\ Contents(inv) \in Int /\ Contents(slots[p]) \in Int
    BY <1>1, ValueIs, ContentsType
  <1>. QED
    BY <1>2, <1>6, <1>7, <1>8
-----------------------------------------------------------------------------
(* Uses.  Each leaves a world with the avatars where they were, keeps the  *)
(* matter of a survival player, and digs what was worked on long enough.   *)

Keeps(p) ==
  /\ Leaves(world, world')
  /\ slots' \in [People -> Inventories]
  /\ WorkInv'
  /\ Survival(p) =>
       Stones(world') + Riches(slots', cursor, trash) = Stones(world) + Riches(slots, cursor, trash)

Earned(p) ==
  Survival(p) => \/ \A c \in Cells : world[c] = "stone" => world'[c] = "stone"
                 \/ trace'[p].ticks >= Needed(Method(p))

\* A world that stays gains no stone.
LEMMA WorldStays == ASSUME TypeOK PROVE Leaves(world, world)
  BY BagsAre DEF Leaves

\* A dig is with bare hands or with a pick.
LEMMA MethodIs == \A p : Method(p) \in Methods
  BY DEF Method, Methods

\* A tick of digging makes nothing and voids nothing, and what it digs out is
\* earned.
LEMMA DigOnKeeps ==
  ASSUME MiningInv, NEW p \in People, Survival(p), NEW target \in Cells, world[target] = "stone",
         Note(p, Digging(p, target)), DigOn(p, target)
  PROVE  Keeps(p) /\ Earned(p)
  <1> DEFINE old == progress[p]
             done == 1 + IF Matches(old, target, world[target], Method(p)) THEN old.elapsed ELSE 0
  <1>1. target # Nil /\ world[target] \in Materials /\ Method(p) \in Methods
    BY NilIsNothing, MethodIs DEF Materials
  <1>2. Digging(p, target) = <<target, world[target], Method(p)>> /\ Digging(p, target) \in Digs
    BY <1>1 DEF Digging, Digs
  <1>3. TypeOK /\ WorkInv /\ slots[p] \in Inventories
    BY BagsAre DEF MiningInv
  <1>4. /\ done \in Nat /\ done >= 1 /\ done <= Needed(Method(p))
        /\ trace'[p].ticks >= done
        /\ done < Needed(Method(p)) /\
           progress' = [progress EXCEPT ![p] =
             [target |-> target, material |-> world[target], method |-> Method(p), elapsed |-> done]]
           => WorkInv'
    BY <1>1, <1>2, <1>3, WorkIsTraced
  <1>5. ASSUME UNCHANGED <<world, slots>>, WorkInv' PROVE Keeps(p) /\ Earned(p)
    BY <1>3, <1>5, WorldStays, BagsAre DEF Keeps, Earned
  <1>6. CASE ~CanInsert(slots[p], "stone")
    <2>1. progress' = [progress EXCEPT ![p] = Nil] /\ UNCHANGED <<world, slots>>
      BY <1>6 DEF DigOn
    <2>. QED
      BY <1>2, <1>3, <1>5, <2>1, IdleWorks
  <1>7. CASE CanInsert(slots[p], "stone") /\ done < Needed(Method(p))
    <2>1. /\ progress' = [progress EXCEPT ![p] =
               [target |-> target, material |-> world[target], method |-> Method(p),
                elapsed |-> done]]
          /\ UNCHANGED <<world, slots>>
      BY <1>7 DEF DigOn
    <2>. QED
      BY <1>4, <1>5, <1>7, <2>1
  <1>8. CASE CanInsert(slots[p], "stone") /\ ~(done < Needed(Method(p)))
    <2> DEFINE inv == InsertFirstFit(slots[p], Stack("stone", 1)).slots
    <2>1. /\ slots' = [slots EXCEPT ![p] = inv]
          /\ world' = [world EXCEPT ![target] = "air"]
          /\ progress' = [progress EXCEPT ![p] = Nil]
      BY <1>3, <1>8 DEF DigOn
    <2>2. WorkInv'
      BY <1>2, <1>3, <2>1, IdleWorks
    <2>3. inv \in Inventories /\ Contents(inv) = Contents(slots[p]) + 1
      <3> DEFINE one == Stack("stone", 1)
                 poured == InsertFirstFit(slots[p], one)
      <3>1. one \in [item : Items, count : Nat] /\ one.item = "stone" /\ one.count = 1
        BY DEF Stack, Items
      <3>2. Span(1, PlayerSlots)
        BY Bounds DEF Span
      <3>3. poured.left.count = 0
        BY <1>3, <1>8, WhatFitsGoesIn
      <3> HIDE DEF one
      <3>4. Poured([slots |-> slots[p], left |-> one], poured, 1, PlayerSlots)
        BY <1>3, <3>1, <3>2, InsertKeeps DEF InsertFirstFit
      <3> HIDE DEF poured
      <3>5. /\ poured.slots \in Inventories
            /\ Contents(poured.slots) + Amount("stone", 0) = Contents(slots[p]) + Amount("stone", 1)
        BY <3>1, <3>3, <3>4 DEF Poured, Pours
      <3>6. Amount("stone", 0) = 0 /\ Amount("stone", 1) = 1
        BY Amounts DEF Items
      <3>7. Contents(poured.slots) = Contents(slots[p]) + 1
        BY <1>3, <3>5, <3>6, ContentsType
      <3>. QED
        BY <3>5, <3>7 DEF poured, one
    <2> HIDE DEF inv
    <2>4. /\ slots' \in [People -> Inventories]
          /\ Riches(slots', cursor, trash) =
               Riches(slots, cursor, trash) + (Contents(inv) - Contents(slots[p]))
      BY <1>3, <2>1, <2>3, SlotsChange
    <2>5. world' \in Worlds /\ Stones(world') = Stones(world) + (0 - 1)
      <3>1. "air" \in Materials /\ Stone("air") = 0 /\ Stone(world[target]) = 1
        BY DEF Materials, Stone
      <3>2. world \in Worlds
        BY <1>3, BagsAre
      <3>. QED
        BY <2>1, <3>1, <3>2, StonesChange
    <2>6. Leaves(world, world')
      BY <1>3, <2>1, <2>5, BagsAre DEF Leaves, Worlds
    <2>7. Stones(world') + Riches(slots', cursor, trash) =
            Stones(world) + Riches(slots, cursor, trash)
      BY <1>3, <2>3, <2>4, <2>5, BagsAre, ContentsType
    <2>8. trace'[p].ticks >= Needed(Method(p))
      <3>1. done = Needed(Method(p))
        <4>1. Needed(Method(p)) \in Nat
          BY <1>1, NeededIs
        <4> HIDE DEF done
        <4>. QED
          BY <1>4, <1>8, <4>1
      <3> HIDE DEF done
      <3>. QED
        BY <1>4, <3>1
    <2>. QED
      BY <2>2, <2>4, <2>6, <2>7, <2>8 DEF Keeps, Earned
  <1>. QED
    BY <1>6, <1>7, <1>8

\* So it is whatever the held button is aimed at.
LEMMA ActiveDigKeeps ==
  ASSUME MiningInv, NEW p \in People, NEW aim \in Cells, NEW smart \in BOOLEAN,
         ActiveDig(p, aim, smart)
  PROVE  Keeps(p) /\ Earned(p)
  <1>1. TypeOK /\ WorkInv /\ world \in Worlds /\ slots \in [People -> Inventories]
    BY BagsAre DEF MiningInv
  <1>2. CASE p \in Creative
    <2>1. /\ world' = Cleared(p, aim, smart)
          /\ progress' = [progress EXCEPT ![p] = Nil]
          /\ slots' = slots
          /\ Note(p, Nil)
      BY <1>2 DEF ActiveDig
    <2>2. Leaves(world, world')
      BY <1>1, <2>1, ClearedLeaves
    <2>3. WorkInv'
      <3>1. Nil \in Digs \cup {Nil}
        OBVIOUS
      <3>. QED
        BY <1>1, <2>1, <3>1, IdleWorks
    <2>4. ~Survival(p)
      BY <1>2 DEF Survival
    <2>. QED
      BY <1>1, <2>1, <2>2, <2>3, <2>4 DEF Keeps, Earned
  <1>3. CASE p \notin Creative
    <2> DEFINE target == SelectDig(p, aim, smart, world)
    <2>1. /\ Note(p, Digging(p, target))
          /\ target = Nil => progress' = [progress EXCEPT ![p] = Nil] /\ UNCHANGED <<world, slots>>
          /\ target # Nil => DigOn(p, target)
      BY <1>3 DEF ActiveDig
    <2>2. Survival(p)
      BY <1>3 DEF Survival
    <2>3. CASE target = Nil
      <3>1. Digging(p, target) = Nil
        BY <2>3 DEF Digging
      <3>2. WorkInv'
        BY <1>1, <2>1, <2>3, <3>1, IdleWorks
      <3>. QED
        BY <1>1, <2>1, <2>3, <3>2, WorldStays DEF Keeps, Earned
    <2>4. CASE target # Nil
      <3>1. target \in Cells /\ world[target] = "stone"
        BY <1>3, <2>4, DigTargets DEF Destructible
      <3> HIDE DEF target
      <3>. QED
        BY <2>1, <2>2, <2>4, <3>1, DigOnKeeps
    <2>. QED
      BY <2>3, <2>4
  <1>. QED
    BY <1>2, <1>3

\* A placement makes nothing and voids nothing.
LEMMA ActivePlaceKeeps ==
  ASSUME MiningInv, NEW p \in People, NEW aim \in Cells, NEW smart \in BOOLEAN,
         ActivePlace(p, aim, smart), trace' = trace
  PROVE  Keeps(p) /\ Earned(p)
  <1> DEFINE target == SelectPlace(p, aim, smart)
             places == Placeable(Held(p)) /\ target # Nil
             held == slots[p][selected[p]]
             rest == Rest(held.item, held.count - 1)
             inv == [slots[p] EXCEPT ![selected[p]] = rest]
  <1>1. TypeOK /\ WorkInv /\ world \in Worlds /\ slots \in [People -> Inventories]
    BY BagsAre DEF MiningInv
  <1>2. /\ progress' = [progress EXCEPT ![p] = Nil]
        /\ world' = IF places THEN [world EXCEPT ![target] = "stone"] ELSE world
        /\ slots' = IF places /\ Survival(p)
                      THEN [slots EXCEPT ![p][selected[p]] = Rest(@.item, @.count - 1)] ELSE slots
    BY DEF ActivePlace
  <1>3. WorkInv'
    <2>1. Nil \in Digs \cup {Nil}
      OBVIOUS
    <2>. QED
      BY <1>1, <1>2, <2>1, IdleWorks
  <1>4. CASE ~places
    <2>1. world' = world /\ slots' = slots
      BY <1>2, <1>4
    <2>. QED
      BY <1>1, <1>3, <2>1, WorldStays DEF Keeps, Earned
  <1>5. CASE places
    <2>1. selected[p] \in 1..PlayerSlots /\ slots[p] \in Inventories /\ body[p] \in Cells
      <3>1. selected[p] \in 1..HotbarSlots /\ body[p] \in Cells
        BY <1>1 DEF TypeOK
      <3>. QED
        BY <1>1, <3>1, Bounds
    <2>2. target \in Cells /\ world[target] = "air" /\ target # Nil
      BY <1>5, <2>1, PlaceTargets
    <2>3. held \in Stacks /\ held.item = "stone"
      BY <1>5, <2>1 DEF Placeable, Held, Inventories, Slots
    <2> HIDE DEF target
    <2>4. world' = [world EXCEPT ![target] = "stone"]
      BY <1>2, <1>5
    <2>5. /\ world' \in Worlds /\ Stones(world') = Stones(world) + 1
      <3>1. "stone" \in Materials /\ Stone("stone") = 1 /\ Stone("air") = 0
        BY DEF Materials, Stone
      <3>2. /\ world' \in Worlds /\ Stones(world) \in Int
            /\ Stones(world') = Stones(world) + (Stone("stone") - Stone(world[target]))
        BY <1>1, <2>2, <2>4, <3>1, StonesChange
      <3>. QED
        BY <2>2, <3>1, <3>2
    <2>6. Leaves(world, world') /\ \A c \in Cells : world[c] = "stone" => world'[c] = "stone"
      BY <1>1, <2>2, <2>4, <2>5 DEF Leaves, Worlds
    <2>7. CASE ~Survival(p)
      <3>1. slots' = slots
        BY <1>2, <2>7
      <3>. QED
        BY <1>1, <1>3, <2>6, <2>7, <3>1 DEF Keeps, Earned
    <2>8. CASE Survival(p)
      <3>1. slots' = [slots EXCEPT ![p] = inv]
        <4>1. slots' = [slots EXCEPT ![p][selected[p]] = Rest(@.item, @.count - 1)]
          BY <1>2, <1>5, <2>8
        <4>. QED
          BY <1>1, <2>1, <4>1 DEF Inventories
      <3>2. rest \in Slots /\ Value(rest) = Value(held) - 1
        <4>1. /\ held.count \in Nat /\ held.count >= 1 /\ held.count <= StackLimit("stone")
              /\ StackLimit("stone") \in Nat /\ Value(held) = Amount("stone", held.count)
              /\ "stone" \in Items
          BY <2>3, StackIs, ValueIs
        <4> DEFINE n == held.count
        <4> HIDE DEF held
        <4>2. n - 1 \in Nat /\ n - 1 <= StackLimit("stone") /\ n \in Int /\ 1 \in Int
          BY <4>1
        <4>3. rest = Rest("stone", n - 1)
          BY <2>3
        <4> HIDE DEF n
        <4>4. rest \in Slots /\ Value(rest) = Amount("stone", n - 1)
          BY <4>1, <4>2, <4>3, ValueIs
        <4>5. Amount("stone", n - 1) = Amount("stone", n) - 1
          BY <4>1, <4>2, Amounts
        <4>. QED
          BY <4>1, <4>4, <4>5 DEF n
      <3> HIDE DEF rest
      <3>3. inv \in Inventories /\ Contents(inv) = Contents(slots[p]) + (Value(rest) - Value(held))
        BY <2>1, <3>2, ContentsChange
      <3> HIDE DEF inv
      <3>4. /\ slots' \in [People -> Inventories]
            /\ Riches(slots', cursor, trash) =
                 Riches(slots, cursor, trash) + (Contents(inv) - Contents(slots[p]))
        BY <1>1, <3>1, <3>3, SlotsChange
      <3>5. Stones(world') + Riches(slots', cursor, trash) =
              Stones(world) + Riches(slots, cursor, trash)
        <4>1. /\ Contents(slots[p]) \in Int /\ Value(held) \in Int /\ Stones(world) \in Int
              /\ Riches(slots, cursor, trash) \in Int
          BY <1>1, <2>1, <2>3, ContentsType, ValueIs, BagsAre DEF Slots
        <4>. QED
          BY <2>5, <3>2, <3>3, <3>4, <4>1
      <3>. QED
        BY <1>3, <2>6, <3>4, <3>5 DEF Keeps, Earned
    <2>. QED
      BY <2>7, <2>8
  <1>. QED
    BY <1>4, <1>5
-----------------------------------------------------------------------------
(* The actions.                                                            *)

\* What each of them leaves alone or keeps.
LEMMA KeepsInv ==
  ASSUME MiningInv, NEW p \in People, Keeps(p), UNCHANGED <<body, cursor, trash, selected>>,
         pc' \in {"uses", "slots", "world"}, at' \in People, tapped' \in Cells \cup {Nil},
         acts' \in 0..MaxActs
  PROVE  MiningInv'
  <1>1. TypeOK /\ WorkInv' /\ Leaves(world, world') /\ slots' \in [People -> Inventories]
    BY DEF MiningInv, Keeps
  <1>2. world' \in [Cells -> Materials] /\ slots' \in [People -> [1..PlayerSlots -> Slots]]
    BY <1>1 DEF Leaves, Worlds, Inventories
  <1>3. \A q \in People : world'[body'[q]] = "flesh"
    BY <1>1 DEF TypeOK, Leaves
  <1>4. /\ progress' \in [People -> Works \cup {Nil}]
        /\ \A q \in People :
             progress'[q] # Nil => progress'[q].elapsed \in 1..(Needed(progress'[q].method) - 1)
    BY <1>1 DEF WorkInv
  <1>5. /\ body' \in [People -> Cells] /\ cursor' \in [People -> Slots]
        /\ trash' \in [People -> Slots] /\ selected' \in [People -> 1..HotbarSlots]
    BY <1>1 DEF TypeOK
  <1>6. TypeOK'
    BY <1>2, <1>3, <1>4, <1>5 DEF TypeOK, Needed
  <1>. QED
    BY <1>1, <1>6 DEF MiningInv

\* Whose turn is next, and in which stage.
LEMMA TurnIs ==
  ASSUME TypeOK, NEW stage \in {"uses", "slots", "world"}, NEW next \in {"uses", "slots", "world"},
         Turn(stage, next)
  PROVE  pc' \in {"uses", "slots", "world"} /\ at' \in People
  <1>1. at \in 1..Players /\ Players \in Nat /\ Players > 0
    BY Bounds DEF TypeOK, People
  <1>2. CASE at < Players
    BY <1>1, <1>2 DEF Turn, People
  <1>3. CASE ~(at < Players)
    BY <1>1, <1>3 DEF Turn, People
  <1>. QED
    BY <1>2, <1>3

\* Held buttons keep the invariant.
LEMMA HeldButtonKeeps ==
  ASSUME MiningInv, NEW p \in People, NEW primary \in BOOLEAN, NEW aim \in Cells,
         NEW smart \in BOOLEAN, HeldButton(p, primary, aim, smart)
  PROVE  Keeps(p) /\ Earned(p) /\ MiningInv'
  <1>1. TypeOK /\ WorkInv /\ slots \in [People -> Inventories] /\ tapped \in Cells \cup {Nil}
    BY BagsAre DEF MiningInv, TypeOK
  <1>2. ASSUME primary PROVE Keeps(p) /\ Earned(p)
    BY <1>2, ActiveDigKeeps DEF HeldButton
  <1>3. ASSUME ~primary, tapped # Nil PROVE Keeps(p) /\ Earned(p)
    <2>1. ActiveDig(p, tapped, smart) /\ tapped \in Cells
      BY <1>1, <1>3 DEF HeldButton
    <2>. QED
      BY <2>1, ActiveDigKeeps
  <1>4. ASSUME ~primary, tapped = Nil PROVE Keeps(p) /\ Earned(p)
    <2>1. /\ progress' = [progress EXCEPT ![p] = Nil] /\ Note(p, Nil)
          /\ UNCHANGED <<world, slots>>
      BY <1>4 DEF HeldButton, Idle
    <2>2. WorkInv'
      <3>1. Nil \in Digs \cup {Nil}
        OBVIOUS
      <3>. QED
        BY <1>1, <2>1, <3>1, IdleWorks
    <2>. QED
      BY <1>1, <2>1, <2>2, WorldStays DEF Keeps, Earned
  <1>5. Keeps(p) /\ Earned(p)
    BY <1>2, <1>3, <1>4
  <1>6. pc' \in {"uses", "slots", "world"} /\ at' \in People
    <2>1. Turn("uses", "slots")
      BY DEF HeldButton
    <2>. QED
      BY <1>1, <2>1, TurnIs
  <1>7. tapped' \in Cells \cup {Nil} /\ acts' \in 0..MaxActs
          /\ UNCHANGED <<body, cursor, trash, selected>>
    BY <1>1 DEF HeldButton, TypeOK
  <1>. QED
    BY <1>5, <1>6, <1>7, KeepsInv

\* So does a secondary use.
LEMMA UseSecondaryKeeps ==
  ASSUME MiningInv, NEW p \in People, NEW c \in Cells, NEW smart \in BOOLEAN,
         UseSecondary(p, c, smart)
  PROVE  Keeps(p) /\ Earned(p) /\ MiningInv'
  <1>1. Keeps(p) /\ Earned(p)
    BY ActivePlaceKeeps DEF UseSecondary
  <1>2. /\ UNCHANGED <<body, cursor, trash, selected, pc, at, tapped>>
        /\ acts' \in 0..MaxActs
        /\ pc' \in {"uses", "slots", "world"} /\ at' \in People /\ tapped' \in Cells \cup {Nil}
    BY Bounds DEF UseSecondary, Act, MiningInv, TypeOK
  <1>. QED
    BY <1>1, <1>2, KeepsInv

\* Where nothing moves, matter is kept and nothing is dug.
LEMMA StillKeeps ==
  ASSUME MiningInv, UNCHANGED <<world, slots, progress, trace>>, NEW p \in People
  PROVE  Keeps(p) /\ Earned(p)
  <1>1. TypeOK /\ WorkInv /\ slots \in [People -> Inventories]
    BY BagsAre DEF MiningInv
  <1>2. WorkInv'
    BY <1>1 DEF WorkInv, Needed
  <1>. QED
    BY <1>1, <1>2, WorldStays DEF Keeps, Earned

\* A slot action leaves one player another bag.
LEMMA SlotActionGives ==
  ASSUME MiningInv, NEW p \in People, NEW c \in Bags, SlotAction(p, c)
  PROVE  /\ MiningInv'
         /\ Riches(slots', cursor', trash') =
              Riches(slots, cursor, trash) + (Wealth(c) - Wealth(Bag(p)))
         /\ slots'[p] = c.slots /\ cursor'[p] = c.cursor /\ at = p
         /\ UNCHANGED <<world, pc>>
         /\ c.slots = slots[p] => slots' = slots
  <1>1. TypeOK /\ WorkInv
    BY DEF MiningInv
  <1>2. /\ slots \in [People -> Inventories] /\ cursor \in [People -> Slots]
        /\ trash \in [People -> Slots]
    BY <1>1, BagsAre
  <1>3. c.slots \in Inventories /\ c.cursor \in Slots /\ c.trash \in Slots
    BY BagIs
  <1>4. /\ slots' = [slots EXCEPT ![p] = c.slots]
        /\ cursor' = [cursor EXCEPT ![p] = c.cursor]
        /\ trash' = [trash EXCEPT ![p] = c.trash]
        /\ UNCHANGED <<pc, at, world, body, selected, progress, tapped, trace>>
        /\ at = p /\ acts < MaxActs /\ acts' = acts + 1
    BY DEF SlotAction, Act
  <1>5. /\ slots' \in [People -> Inventories] /\ cursor' \in [People -> Slots]
        /\ trash' \in [People -> Slots]
        /\ slots'[p] = c.slots /\ cursor'[p] = c.cursor /\ trash'[p] = c.trash
        /\ \A q \in People : q # p =>
             slots'[q] = slots[q] /\ cursor'[q] = cursor[q] /\ trash'[q] = trash[q]
    BY <1>2, <1>3, <1>4
  <1>6. MiningInv'
    <2>1. WorkInv'
      BY <1>1, <1>4 DEF WorkInv, Needed
    <2>2. slots' \in [People -> [1..PlayerSlots -> Slots]]
      BY <1>5 DEF Inventories
    <2>3. acts' \in 0..MaxActs
      BY <1>1, <1>4, Bounds DEF TypeOK
    <2>4. TypeOK'
      BY <1>1, <1>4, <1>5, <2>2, <2>3 DEF TypeOK, Needed
    <2>. QED
      BY <2>1, <2>4 DEF MiningInv
  <1>7. Riches(slots', cursor', trash') =
          Riches(slots, cursor, trash) + (Wealth(c) - Wealth(Bag(p)))
    <2>1. BagOf(slots', cursor', trash', p) = c
      BY <1>5 DEF BagOf, Bags
    <2>2. \A q \in People : BagOf(slots', cursor', trash', q) \in Bags
      BY <1>5 DEF BagOf, Bags
    <2>3. \A q \in People : BagOf(slots, cursor, trash, q) \in Bags
      BY <1>2 DEF BagOf, Bags
    <2>4. \A q \in People : q # p => BagOf(slots', cursor', trash', q) = BagOf(slots, cursor, trash, q)
      BY <1>5 DEF BagOf
    <2>5. OneChanges(slots, cursor, trash, slots', cursor', trash', p)
      BY <2>2, <2>3, <2>4 DEF OneChanges
    <2>6. BagOf(slots, cursor, trash, p) = Bag(p)
      BY DEF BagOf, Bag
    <2>. QED
      BY <2>1, <2>5, <2>6, RichesChange
  <1>8. c.slots = slots[p] => slots' = slots
    BY <1>2, <1>4
  <1>. QED
    BY <1>4, <1>5, <1>6, <1>7, <1>8

\* A slot action leaves a bag, and in survival it trades or empties the trash.
LEMMA SlotActionsAre ==
  ASSUME MiningInv, NEW p \in People, SlotActions(p)
  PROVE  \E c \in Bags :
           /\ SlotAction(p, c)
           /\ Survival(p) => Trades(Bag(p), c) \/ c = Trash(Bag(p))
  <1> DEFINE b == Bag(p)
  <1>1. b \in Bags
    BY BagsAre DEF MiningInv
  <1> HIDE DEF b
  <1>2. ASSUME NEW c, SlotAction(p, c), Trades(b, c)
        PROVE  \E d \in Bags : SlotAction(p, d) /\ (Survival(p) => Trades(b, d) \/ d = Trash(b))
    BY <1>2 DEF Trades
  <1>3. ASSUME NEW i \in 1..PlayerSlots,
               \/ SlotAction(p, LeftClick(b, i)) \/ SlotAction(p, RightClick(b, i))
               \/ SlotAction(p, QuickMove(b, i))
        PROVE  \E d \in Bags : SlotAction(p, d) /\ (Survival(p) => Trades(b, d) \/ d = Trash(b))
    BY <1>1, <1>2, <1>3, LeftClickTrades, RightClickTrades, QuickMoveTrades
  <1>4. ASSUME SlotAction(p, Trash(b))
        PROVE  \E d \in Bags : SlotAction(p, d) /\ (Survival(p) => Trades(b, d) \/ d = Trash(b))
    BY <1>1, <1>4, TrashLoses
  <1>5. ASSUME NEW all \in BOOLEAN, SlotAction(p, Craft(b, all))
        PROVE  \E d \in Bags : SlotAction(p, d) /\ (Survival(p) => Trades(b, d) \/ d = Trash(b))
    BY <1>1, <1>2, <1>5, CraftTrades
  <1>6. ASSUME NEW item \in Items, SlotAction(p, CreativeGrab(p, b, item))
        PROVE  \E d \in Bags : SlotAction(p, d) /\ (Survival(p) => Trades(b, d) \/ d = Trash(b))
    <2>1. CreativeGrab(p, b, item) \in Bags
      BY <1>1, GrabType
    <2>2. Survival(p) => CreativeGrab(p, b, item) = b
      BY DEF CreativeGrab, Survival
    <2>3. Trades(b, b)
      BY <1>1, BagIs
    <2>. QED
      BY <1>6, <2>1, <2>2, <2>3
  <1>. QED
    BY <1>3, <1>4, <1>5, <1>6 DEF SlotActions, b

\* So does all that the world does by itself.
LEMMA WorldMovesKeeps ==
  ASSUME MiningInv, NEW c \in 0..Width, WorldMoves(c) PROVE MiningInv'
  <1> DEFINE swapped(k) == IF k = c THEN c + 1 ELSE IF k = c + 1 THEN c ELSE k
  <1>1. TypeOK /\ WorkInv
    BY DEF MiningInv
  <1>2. /\ UNCHANGED <<at, slots, cursor, trash, selected, progress, tapped, trace, acts>>
        /\ pc' = "uses"
    BY DEF WorldMoves, things
  <1>3. WorkInv'
    BY <1>1, <1>2 DEF WorkInv, Needed
  <1>4. /\ world' \in [Cells -> Materials] /\ body' \in [People -> Cells]
        /\ \A p \in People : world'[body'[p]] = "flesh"
    <2>1. CASE c \in Cells /\ c + 1 \in Cells
      <3>1. /\ world' = [k \in Cells |-> world[swapped(k)]]
            /\ body' = [p \in People |-> swapped(body[p])]
        BY <2>1 DEF WorldMoves
      <3>2. \A k \in Cells : swapped(k) \in Cells /\ swapped(swapped(k)) = k
        BY <2>1 DEF Cells
      <3> HIDE DEF swapped
      <3>3. world \in [Cells -> Materials] /\ body \in [People -> Cells]
              /\ \A p \in People : world[body[p]] = "flesh"
        BY <1>1 DEF TypeOK
      <3>4. \A p \in People : body'[p] \in Cells /\ world'[body'[p]] = world[body[p]]
        BY <3>1, <3>2, <3>3
      <3>. QED
        BY <3>1, <3>2, <3>3, <3>4
    <2>2. CASE ~(c \in Cells /\ c + 1 \in Cells)
      <3>1. UNCHANGED <<world, body>>
        BY <2>2 DEF WorldMoves
      <3>. QED
        BY <1>1, <3>1 DEF TypeOK
    <2>. QED
      BY <2>1, <2>2
  <1>5. TypeOK'
    BY <1>1, <1>2, <1>4 DEF TypeOK, Needed
  <1>. QED
    BY <1>3, <1>5 DEF MiningInv
-----------------------------------------------------------------------------
(* The theorems.                                                           *)

LEMMA MiningInvStarts == ASSUME Init PROVE MiningInv
  <1>1. /\ body \in [People -> Cells] /\ world \in [Cells -> Materials]
        /\ \A p \in People : world[body[p]] = "flesh"
    BY DEF Init
  <1>2. 1 \in People /\ 1 \in 1..HotbarSlots /\ 0 \in 0..MaxActs
    BY Bounds DEF People
  <1>3. /\ Stack("pick", 1) \in Slots /\ Stack("stone", 1) \in Slots /\ Stack("brick", 1) \in Slots
        /\ Nil \in Slots
    <2>1. ASSUME NEW item \in Items PROVE Stack(item, 1) \in Slots
      <3>1. 1 \in Nat /\ 1 >= 1 /\ 1 <= StackLimit(item)
        BY StackIs
      <3>. QED
        BY <3>1, StackOf
    <2>. QED
      BY <2>1 DEF Items, Slots
  <1>4. slots \in [People -> [1..PlayerSlots -> Slots]]
    <2>1. slots = [p \in People |-> [i \in 1..PlayerSlots |->
                     CASE i = 1 -> Stack("pick", 1) [] i = 2 -> Stack("stone", 1)
                       [] i = 3 -> Stack("brick", 1) [] OTHER -> Nil]]
      BY DEF Init
    <2>2. \A i \in 1..PlayerSlots :
            (CASE i = 1 -> Stack("pick", 1) [] i = 2 -> Stack("stone", 1)
               [] i = 3 -> Stack("brick", 1) [] OTHER -> Nil) \in Slots
      BY <1>3
    <2>. QED
      BY <2>1, <2>2
  <1>5. cursor \in [People -> Slots] /\ trash \in [People -> Slots]
    BY <1>3 DEF Init
  <1>6. progress = [p \in People |-> Nil] /\ trace = [p \in People |-> [what |-> Nil, ticks |-> 0]]
    BY DEF Init
  <1>7. WorkInv
    BY <1>6 DEF WorkInv
  <1>8. TypeOK
    BY <1>1, <1>2, <1>4, <1>5, <1>6 DEF Init, TypeOK
  <1>. QED
    BY <1>7, <1>8 DEF MiningInv

\* What a step of the row is.
LEMMA Steps ==
  ASSUME Next
  PROVE  \/ \E p \in People, c \in Cells : UsePrimary(p, c)
         \/ \E p \in People, c \in Cells, smart \in BOOLEAN : UseSecondary(p, c, smart)
         \/ \E p \in People, c \in Cells, smart \in BOOLEAN, primary \in BOOLEAN :
              HeldButton(p, primary, c, smart)
         \/ \E p \in People : SlotActions(p)
         \/ \E p \in People, s \in 1..HotbarSlots : SelectSlot(p, s)
         \/ EndSlots
         \/ \E c \in 0..Width : WorldMoves(c)
  BY DEF Next, Uses

\* Every step keeps the invariant.
LEMMA MiningInvKept == ASSUME MiningInv, [Next]_vars PROVE MiningInv'
  <1>1. TypeOK /\ WorkInv
    BY DEF MiningInv
  <1>2. ASSUME UNCHANGED <<world, body, slots, cursor, trash, progress, trace>>,
               pc' \in {"uses", "slots", "world"}, at' \in People, tapped' \in Cells \cup {Nil},
               selected' \in [People -> 1..HotbarSlots], acts' \in 0..MaxActs
        PROVE  MiningInv'
    <2>1. WorkInv'
      BY <1>1, <1>2 DEF WorkInv, Needed
    <2>2. TypeOK'
      BY <1>1, <1>2 DEF TypeOK, Needed
    <2>. QED
      BY <2>1, <2>2 DEF MiningInv
  <1>3. CASE UNCHANGED vars
    BY <1>1, <1>2, <1>3 DEF vars, things, TypeOK
  <1>4. CASE \E p \in People, c \in Cells : UsePrimary(p, c)
    BY <1>1, <1>2, <1>4, Bounds DEF UsePrimary, Act, things, TypeOK
  <1>5. CASE \E p \in People, c \in Cells, smart \in BOOLEAN : UseSecondary(p, c, smart)
    BY <1>5, UseSecondaryKeeps
  <1>6. CASE \E p \in People, c \in Cells, smart \in BOOLEAN, primary \in BOOLEAN :
               HeldButton(p, primary, c, smart)
    BY <1>6, HeldButtonKeeps
  <1>7. CASE \E p \in People : SlotActions(p)
    BY <1>7, SlotActionsAre, SlotActionGives
  <1>8. CASE \E p \in People, s \in 1..HotbarSlots : SelectSlot(p, s)
    BY <1>1, <1>2, <1>8, Bounds DEF SelectSlot, Act, things, TypeOK
  <1>9. CASE EndSlots
    <2>1. pc' \in {"uses", "slots", "world"} /\ at' \in People
      BY <1>1, <1>9, TurnIs DEF EndSlots
    <2>. QED
      BY <1>1, <1>2, <1>9, <2>1 DEF EndSlots, things, TypeOK
  <1>10. CASE \E c \in 0..Width : WorldMoves(c)
    BY <1>10, WorldMovesKeeps
  <1>. QED
    BY <1>3, <1>4, <1>5, <1>6, <1>7, <1>8, <1>9, <1>10, Steps

\* The invariant holds in every state.
LEMMA MiningInvHolds == Spec => []MiningInv
  BY MiningInvStarts, MiningInvKept, PTL DEF Spec

(***************************************************************************)
(* The row, what the players hold and the work they have done on a cell    *)
(* are always what the types of dig.rs and item.rs allow: no stack is      *)
(* empty or over its limit, and no work is kept that was already enough.   *)
(***************************************************************************)
THEOREM TypesHold == Spec => []TypeOK
  BY MiningInvHolds, PTL DEF MiningInv

(***************************************************************************)
(* No use and no slot action of a survival player makes or voids matter,   *)
(* for any stack limit, any inventory and any number of players.           *)
(***************************************************************************)
THEOREM NothingIsMadeOrVoided == Spec => MatterIsKept
  <1>1. ASSUME MiningInv, Next, pc # "world", Survival(at)
        PROVE  Worth' = Worth - Overwritten(at)
    <2>1. TypeOK /\ Worth \in Int
      BY <1>1, BagsAre, WorthIs DEF MiningInv
    <2>2. ASSUME NEW p \in People, at = p, Keeps(p), UNCHANGED <<cursor, trash>>
          PROVE  Worth' = Worth - Overwritten(at)
      <3>1. Overwritten(at) = 0
        BY <2>2 DEF Overwritten
      <3>2. Worth' = Stones(world') + Riches(slots', cursor, trash)
        BY <2>2, WorthIsNext
      <3>3. Worth' = Worth
        BY <1>1, <2>2, <3>2, WorthIs DEF Keeps
      <3>. QED
        BY <2>1, <3>1, <3>3
    <2>3. CASE \E p \in People, c \in Cells : UsePrimary(p, c)
      BY <1>1, <2>2, <2>3, StillKeeps DEF UsePrimary, things
    <2>4. CASE \E p \in People, c \in Cells, smart \in BOOLEAN : UseSecondary(p, c, smart)
      BY <1>1, <2>2, <2>4, UseSecondaryKeeps DEF UseSecondary
    <2>5. CASE \E p \in People, c \in Cells, smart \in BOOLEAN, primary \in BOOLEAN :
                 HeldButton(p, primary, c, smart)
      BY <1>1, <2>2, <2>5, HeldButtonKeeps DEF HeldButton
    <2>6. CASE \E p \in People : SlotActions(p)
      <3>1. PICK p \in People : SlotActions(p)
        BY <2>6
      <3> DEFINE b == Bag(p)
      <3>2. PICK c \in Bags :
              /\ SlotAction(p, c)
              /\ Survival(p) => Trades(b, c) \/ c = Trash(b)
        BY <1>1, <3>1, SlotActionsAre
      <3>3. /\ Riches(slots', cursor', trash') =
                 Riches(slots, cursor, trash) + (Wealth(c) - Wealth(b))
            /\ slots'[p] = c.slots /\ cursor'[p] = c.cursor /\ at = p
            /\ world' = world
            /\ c.slots = slots[p] => slots' = slots
        BY <1>1, <3>2, SlotActionGives
      <3>4. b \in Bags /\ b.slots = slots[p] /\ b.cursor = cursor[p] /\ b.trash = trash[p]
        BY <2>1, BagsAre DEF Bag
      <3> HIDE DEF b
      <3>5. Worth' = Worth + (Wealth(c) - Wealth(b))
        <4>1. Worth' = Stones(world) + Riches(slots', cursor', trash')
          BY <3>3, WorthIsNext
        <4>2. /\ Worth = Stones(world) + Riches(slots, cursor, trash)
              /\ Stones(world) \in Int /\ Riches(slots, cursor, trash) \in Int
          BY <2>1, BagsAre, WorthIs
        <4>3. Wealth(b) \in Int /\ Wealth(c) \in Int
          BY <3>4, BagIs DEF Wealth
        <4>. QED
          BY <3>3, <4>1, <4>2, <4>3
      <3>6. Wealth(b) \in Int /\ Value(b.trash) \in Int
        BY <3>4, BagIs DEF Wealth
      <3>7. Overwritten(at) =
              IF b.cursor # Nil /\ c.cursor = Nil /\ slots' = slots THEN Value(b.trash) ELSE 0
        BY <3>3, <3>4 DEF Overwritten
      <3>8. CASE Trades(b, c)
        <4>1. Wealth(c) = Wealth(b) /\ (b.cursor # Nil /\ c.cursor = Nil => c.slots # b.slots)
          BY <3>8 DEF Trades
        <4>2. slots' = slots => c.slots = b.slots
          BY <3>3, <3>4
        <4>. QED
          BY <2>1, <3>5, <3>6, <3>7, <4>1, <4>2
      <3>9. CASE c = Trash(b)
        <4>1. /\ c.slots = b.slots
              /\ b.cursor # Nil => c.cursor = Nil /\ Wealth(c) = Wealth(b) - Value(b.trash)
              /\ b.cursor = Nil => Wealth(c) = Wealth(b)
          BY <3>4, <3>9, TrashLoses
        <4>2. slots' = slots
          BY <3>3, <3>4, <4>1
        <4>. QED
          BY <2>1, <3>5, <3>6, <3>7, <4>1, <4>2
      <3>. QED
        BY <1>1, <3>2, <3>3, <3>8, <3>9
    <2>7. CASE \E p \in People, s \in 1..HotbarSlots : SelectSlot(p, s)
      BY <1>1, <2>2, <2>7, StillKeeps DEF SelectSlot, things
    <2>8. CASE EndSlots
      <3>1. at \in People /\ UNCHANGED <<world, slots, cursor, trash, progress, trace>>
        BY <2>1, <2>8 DEF EndSlots, things, TypeOK
      <3>. QED
        BY <1>1, <2>2, <3>1, StillKeeps
    <2>9. ~ \E c \in 0..Width : WorldMoves(c)
      BY <1>1 DEF WorldMoves
    <2>. QED
      BY <1>1, <2>3, <2>4, <2>5, <2>6, <2>7, <2>8, <2>9, Steps
  <1>2. MiningInv /\ [Next]_vars =>
          [pc # "world" /\ Survival(at) => Worth' = Worth - Overwritten(at)]_vars
    BY <1>1
  <1>. QED
    BY <1>2, MiningInvHolds, PTL DEF Spec, MatterIsKept

(***************************************************************************)
(* A survival player digs out a cell only after working on that cell, with *)
(* that material in it and that tool, for the ticks that its hardness      *)
(* takes, whatever the world does in between.                              *)
(***************************************************************************)
THEOREM NothingIsDugUnearned == Spec => DigIsEarned
  <1>1. ASSUME MiningInv, Next, NEW p \in People \ Creative, DugOut(p)
        PROVE  trace'[p].ticks >= Needed(Method(p))
    <2>1. pc = "uses" /\ at = p /\ Survival(p)
      BY <1>1 DEF DugOut, Survival
    <2>2. PICK c \in Cells : world[c] = "stone" /\ world'[c] = "air"
      BY <1>1 DEF DugOut
    <2>3. SUFFICES Earned(p)
      BY <2>1, <2>2 DEF Earned
    <2>4. world' # world
      BY <2>2
    <2>. QED
      BY <1>1, <2>1, <2>4, Steps, UseSecondaryKeeps, HeldButtonKeeps
      DEF UsePrimary, UseSecondary, HeldButton, SlotActions, SlotAction, SelectSlot, EndSlots, WorldMoves
  <1>2. MiningInv /\ [Next]_vars =>
          [\A p \in People \ Creative : DugOut(p) => trace'[p].ticks >= Needed(Method(p))]_vars
    BY <1>1
  <1>. QED
    BY <1>2, MiningInvHolds, PTL DEF Spec, DigIsEarned
=============================================================================
