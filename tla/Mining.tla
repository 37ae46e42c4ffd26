------------------------------- MODULE Mining --------------------------------
(***************************************************************************)
(* Digging, placing and inventories (fallingsand_server dig.rs and         *)
(* inventory.rs, fallingsand_core item.rs, CellWorld::set_material).       *)
(*                                                                         *)
(* The world is one row of cells that several living players share; an     *)
(* avatar is one cell of flesh in it.  A tick takes each player's uses and *)
(* held buttons, player after player, then each player's slot actions, and *)
(* then the world moves.  An action of the model is one use, the held      *)
(* buttons of one player, or one slot action.                              *)
(***************************************************************************)
EXTENDS Integers, Sequences, FiniteSetsExt

CONSTANTS
  Players,      \* how many players there are
  Creative,     \* those in creative mode
  Width,        \* cells of the row
  Reach,        \* SURVIVAL_REACH and CREATIVE_REACH
  CreativeRate, \* CREATIVE_RATE
  HandTicks,    \* ticks to dig a cell of stone with bare hands
  ToolTicks,    \* and with a pick
  HotbarSlots, PlayerSlots,
  StackMax,     \* of every item but a pick, whose stacks are single
  MaxActs,      \* bound on uses and slot actions
  Nil

ASSUME MiningAssumption ==
  /\ {Players, Width, CreativeRate, HandTicks, ToolTicks, HotbarSlots, StackMax}
       \subseteq Nat \ {0}
  /\ Creative \subseteq 1..Players
  /\ {Reach, PlayerSlots, MaxActs} \subseteq Nat
  /\ HotbarSlots <= PlayerSlots

People == 1..Players
Cells == 1..Width
Materials == {"air", "stone", "water", "flesh"}
Items == {"stone", "brick", "pick"}
Methods == {"hands", "pick"}

StackLimit(item) == IF item = "pick" THEN 1 ELSE StackMax
Stacks == {s \in [item : Items, count : 1..StackMax] : s.count <= StackLimit(s.item)}
Slots == Stacks \cup {Nil}
Works == [target : Cells, material : Materials, method : Methods, elapsed : Nat]

ASSUME NilIsNothing ==
  /\ Nil \notin Cells /\ Nil \notin Stacks /\ Nil \notin Works
  /\ Nil \notin Cells \X Materials \X Methods

VARIABLES
  pc,       \* "uses", "held" or "slots", of player at, or "world"
  at,
  world,    \* cell -> its material
  body,     \* where each player's avatar is
  slots, cursor, trash, selected, \* of each player
  progress, \* DigState.progress of each player, or Nil
  tapped,   \* the last primary use of the player whose turn it is, or Nil
  trace,    \* history: what each player digs at, and for how many ticks on end
  acts

things == <<slots, cursor, trash>>
vars == <<pc, at, world, body, things, selected, progress, tapped, trace, acts>>

\* The only recipe: two stones make a brick.
Inputs == [item |-> "stone", count |-> 2]
Output == [item |-> "brick", count |-> 1]

Stack(item, count) == [item |-> item, count |-> count]
Survival(p) == p \notin Creative
InReach(p, c) == c - body[p] \in (-Reach)..Reach
-----------------------------------------------------------------------------
(* item.rs                                                                 *)

\* The sum of the first n values of f.
Total(f, n) ==
  LET sum[k \in 0..n] == IF k = 0 THEN 0 ELSE sum[k - 1] + f[k]
  IN  sum[n]

\* One slot takes what it can of what is left, onto a stack of the item or
\* into a free slot.
Fits(held, item, onto) == IF onto THEN held # Nil /\ held.item = item ELSE held = Nil

Pour(state, i, onto) ==
  LET held == state.slots[i]
      have == IF held = Nil THEN 0 ELSE held.count
      moved == Min({StackLimit(state.left.item) - have, state.left.count})
  IN  IF state.left.count = 0 \/ ~Fits(held, state.left.item, onto) \/ moved <= 0 THEN state
        ELSE [slots |-> [state.slots EXCEPT ![i] = Stack(state.left.item, have + moved)],
              left  |-> Stack(state.left.item, state.left.count - moved)]

PourOver(state, a, b, onto) ==
  LET poured[k \in 0..(b - a + 1)] ==
        IF k = 0 THEN state ELSE Pour(poured[k - 1], a + k - 1, onto)
  IN  poured[b - a + 1]

\* Into the slots from a to b: stacks of the item are filled first, then free
\* slots.
InsertIntoSpan(inv, stack, a, b) ==
  PourOver(PourOver([slots |-> inv, left |-> stack], a, b, TRUE), a, b, FALSE)

InsertFirstFit(inv, stack) == InsertIntoSpan(inv, stack, 1, PlayerSlots)

CanInsert(inv, item) ==
  \E i \in 1..PlayerSlots :
    inv[i] = Nil \/ (inv[i].item = item /\ inv[i].count < StackLimit(item))

CountIn(held, item) == IF held # Nil /\ held.item = item THEN held.count ELSE 0
CountItem(inv, item) == Total([i \in 1..PlayerSlots |-> CountIn(inv[i], item)], PlayerSlots)

\* Mutation: a stack of no count stays.
RestKept(item, count) == Stack(item, count)

\* ItemStacks of no count become no stack.
Rest(item, count) == IF count > 0 THEN Stack(item, count) ELSE Nil

Take(s, i, item) ==
  LET taken == Min({CountIn(s.slots[i], item), s.due})
  IN  IF taken = 0 THEN s
        ELSE [slots |-> [s.slots EXCEPT ![i] = Rest(item, @.count - taken)],
              due |-> s.due - taken]

RemoveItem(inv, item, count) ==
  LET taken[k \in 0..PlayerSlots] ==
        IF k = 0 THEN [slots |-> inv, due |-> count] ELSE Take(taken[k - 1], k, item)
  IN  taken[PlayerSlots].slots
-----------------------------------------------------------------------------
(* Slot actions.  Each returns the slots, the cursor and the trash.        *)

Bag(p) == [slots |-> slots[p], cursor |-> cursor[p], trash |-> trash[p]]

\* Onto stacks of its item the cursor pours; else the two are swapped.
LeftClick(b, i) ==
  LET s == b.slots[i]
      c == b.cursor
      moved == Min({StackLimit(s.item) - s.count, c.count})
  IN  IF s # Nil /\ c # Nil /\ s.item = c.item
        THEN [b EXCEPT !.slots[i].count = @ + moved, !.cursor = Rest(c.item, c.count - moved)]
        ELSE [b EXCEPT !.slots[i] = c, !.cursor = s]

\* Without a cursor the larger half is taken; with one a single item is put.
RightClick(b, i) ==
  LET s == b.slots[i]
      c == b.cursor
      half == (s.count + 1) \div 2
  IN  CASE s # Nil /\ c = Nil ->
             [b EXCEPT !.slots[i] = Rest(s.item, s.count - half), !.cursor = Stack(s.item, half)]
        [] s = Nil /\ c # Nil ->
             [b EXCEPT !.slots[i] = Stack(c.item, 1), !.cursor = Rest(c.item, c.count - 1)]
        [] s # Nil /\ c # Nil /\ s.item = c.item /\ s.count < StackLimit(s.item) ->
             [b EXCEPT !.slots[i].count = @ + 1, !.cursor = Rest(c.item, c.count - 1)]
        [] OTHER -> b

\* To the other part of the inventory, as much as fits; the rest goes back.
QuickMove(b, i) ==
  LET without == [b.slots EXCEPT ![i] = Nil]
      poured == IF i <= HotbarSlots
                  THEN InsertIntoSpan(without, b.slots[i], HotbarSlots + 1, PlayerSlots)
                  ELSE InsertIntoSpan(without, b.slots[i], 1, HotbarSlots)
  IN  IF b.slots[i] = Nil THEN b
        ELSE [b EXCEPT !.slots = [poured.slots EXCEPT ![i] = Rest(poured.left.item,
                                                                 poured.left.count)]]

\* The cursor replaces what is in the trash; an empty one takes it out.
Trash(b) ==
  IF b.cursor # Nil THEN [b EXCEPT !.trash = b.cursor, !.cursor = Nil]
                    ELSE [b EXCEPT !.cursor = b.trash, !.trash = Nil]

\* A craft works on a trial copy and is refused if its output does not fit.
CraftOnce(b) ==
  LET trial == InsertFirstFit(RemoveItem(b.slots, Inputs.item, Inputs.count), Output)
  IN  IF CountItem(b.slots, Inputs.item) >= Inputs.count /\ trial.left.count = 0
        THEN [b EXCEPT !.slots = trial.slots] ELSE b

\* Each craft of a loop needs its inputs, so the number of rounds is bounded.
Craft(b, all) ==
  LET rounds == IF all THEN CountItem(b.slots, Inputs.item) \div Inputs.count ELSE 1
      crafted[k \in 0..rounds] == IF k = 0 THEN b ELSE CraftOnce(crafted[k - 1])
  IN  crafted[rounds]

CreativeGrab(p, b, item) ==
  IF p \in Creative THEN [b EXCEPT !.cursor = Stack(item, StackLimit(item))] ELSE b

Act == acts < MaxActs /\ acts' = acts + 1

\* apply_action, for one of a player's pending actions.
SlotAction(p, b) ==
  /\ pc = "slots" /\ at = p /\ Act
  /\ slots' = [slots EXCEPT ![p] = b.slots]
  /\ cursor' = [cursor EXCEPT ![p] = b.cursor]
  /\ trash' = [trash EXCEPT ![p] = b.trash]
  /\ UNCHANGED <<pc, at, world, body, selected, progress, tapped, trace>>

SlotActions(p) ==
  \/ \E i \in 1..PlayerSlots :
       SlotAction(p, LeftClick(Bag(p), i)) \/ SlotAction(p, RightClick(Bag(p), i))
       \/ SlotAction(p, QuickMove(Bag(p), i))
  \/ SlotAction(p, Trash(Bag(p)))
  \/ \E all \in BOOLEAN : SlotAction(p, Craft(Bag(p), all))
  \/ \E item \in Items : SlotAction(p, CreativeGrab(p, Bag(p), item))

\* SelectSlot, which the network applies as it comes.
SelectSlot(p, slot) ==
  /\ pc = "uses" /\ at = p /\ Act
  /\ selected' = [selected EXCEPT ![p] = slot]
  /\ UNCHANGED <<pc, at, world, body, things, progress, tapped, trace>>
-----------------------------------------------------------------------------
(* dig.rs                                                                  *)

Destructible(p, v) == v = "stone" \/ (v = "water" /\ p \in Creative)
Diggable(p, c, w) == c \in Cells /\ Destructible(p, w[c]) /\ InReach(p, c)

\* smart_dig_target: the nearest on the side of the aim.
Ahead(p, aim, d) == IF aim >= body[p] THEN body[p] + d ELSE body[p] - d

SelectDig(p, aim, smart, w) ==
  IF ~smart THEN IF Diggable(p, aim, w) THEN aim ELSE Nil
  ELSE LET ds == {d \in 1..(Reach + 1) : Diggable(p, Ahead(p, aim, d), w)}
       IN  IF ds = {} THEN Nil ELSE Ahead(p, aim, Min(ds))

\* last_air_before_obstruction, as far as reach: flesh does not obstruct.
SelectPlace(p, aim, smart) ==
  IF ~smart THEN IF aim \in Cells /\ world[aim] = "air" /\ InReach(p, aim) THEN aim ELSE Nil
  ELSE LET far == Max({body[p] - Reach, Min({body[p] + Reach, aim})})
           sign == IF far >= body[p] THEN 1 ELSE -1
           clear(n) == \A k \in 0..n : body[p] + sign * k \in Cells
                         /\ world[body[p] + sign * k] \in {"air", "flesh"}
           ns == {n \in 1..(sign * (far - body[p])) :
                    clear(n) /\ world[body[p] + sign * n] = "air"}
       IN  IF ns = {} THEN Nil ELSE body[p] + sign * Max(ns)

Held(p) == slots[p][selected[p]]
Method(p) == IF Held(p) # Nil /\ Held(p).item = "pick" THEN "pick" ELSE "hands"
Needed(method) == IF method = "pick" THEN ToolTicks ELSE HandTicks
Placeable(stack) == stack # Nil /\ stack.item = "stone"

\* Mutation: progress is bound to its cell alone.
MatchesCell(q, target, material, method) == q # Nil /\ q.target = target

Matches(q, target, material, method) ==
  q # Nil /\ q.target = target /\ q.material = material /\ q.method = method

\* What is dug at, for the record: the cell, what is in it, and with what.
Digging(p, target) ==
  IF target = Nil THEN Nil ELSE <<target, world[target], Method(p)>>

Note(p, what) ==
  trace' = [trace EXCEPT ![p] =
              [what |-> what,
               ticks |-> IF what = Nil THEN 0
                         ELSE IF @.what = what THEN Min({@.ticks + 1, Max({HandTicks, ToolTicks})})
                         ELSE 1]]

\* Mutation: whether the item fits is not asked.
DigLate(p, target) ==
  LET old == progress[p]
      done == 1 + IF Matches(old, target, world[target], Method(p)) THEN old.elapsed ELSE 0
  IN  IF done < Needed(Method(p))
        THEN /\ progress' = [progress EXCEPT ![p] =
                  [target |-> target, material |-> world[target], method |-> Method(p),
                   elapsed |-> done]]
             /\ UNCHANGED <<world, slots>>
      ELSE /\ slots' = [slots EXCEPT ![p] = InsertFirstFit(@, Stack("stone", 1)).slots]
           /\ world' = [world EXCEPT ![target] = "air"]
           /\ progress' = [progress EXCEPT ![p] = Nil]

\* Work on a cell, in survival: the last tick of it moves the cell's item
\* into the inventory, if there is room.
DigOn(p, target) ==
  LET old == progress[p]
      done == 1 + IF Matches(old, target, world[target], Method(p)) THEN old.elapsed ELSE 0
  IN  IF ~CanInsert(slots[p], "stone")
        THEN progress' = [progress EXCEPT ![p] = Nil] /\ UNCHANGED <<world, slots>>
      ELSE IF done < Needed(Method(p))
        THEN /\ progress' = [progress EXCEPT ![p] =
                  [target |-> target, material |-> world[target], method |-> Method(p),
                   elapsed |-> done]]
             /\ UNCHANGED <<world, slots>>
      ELSE /\ slots' = [slots EXCEPT ![p] = InsertFirstFit(@, Stack("stone", 1)).slots]
           /\ world' = [world EXCEPT ![target] = "air"]
           /\ progress' = [progress EXCEPT ![p] = Nil]

\* In creative, as many cells as the rate allows are gone at once.
ClearOne(p, aim, smart, w) ==
  LET target == SelectDig(p, aim, smart, w)
  IN  IF target = Nil THEN w ELSE [w EXCEPT ![target] = "air"]

Cleared(p, aim, smart) ==
  LET cleared[k \in 0..CreativeRate] ==
        IF k = 0 THEN world ELSE ClearOne(p, aim, smart, cleared[k - 1])
  IN  cleared[CreativeRate]

ActiveDig(p, aim, smart) ==
  IF p \in Creative
    THEN /\ world' = Cleared(p, aim, smart)
         /\ progress' = [progress EXCEPT ![p] = Nil]
         /\ UNCHANGED slots
         /\ Note(p, Nil)
    ELSE LET target == SelectDig(p, aim, smart, world)
         IN  /\ Note(p, Digging(p, target))
             /\ IF target = Nil
                  THEN progress' = [progress EXCEPT ![p] = Nil] /\ UNCHANGED <<world, slots>>
                  ELSE DigOn(p, target)

\* active_place
ActivePlace(p, aim, smart) ==
  LET target == SelectPlace(p, aim, smart)
      places == Placeable(Held(p)) /\ target # Nil
  IN  /\ progress' = [progress EXCEPT ![p] = Nil]
      /\ world' = IF places THEN [world EXCEPT ![target] = "stone"] ELSE world
      /\ slots' = IF places /\ Survival(p)
                    THEN [slots EXCEPT ![p][selected[p]] = Rest(@.item, @.count - 1)]
                    ELSE slots

\* apply_player_inputs: the uses in order, then the held button, or else the
\* last primary use, or nothing.
UsePrimary(p, c) ==
  /\ pc = "uses" /\ at = p /\ Act
  /\ tapped' = c
  /\ UNCHANGED <<pc, at, world, body, things, selected, progress, trace>>

UseSecondary(p, c, smart) ==
  /\ pc = "uses" /\ at = p /\ Act
  /\ ActivePlace(p, c, smart)
  /\ UNCHANGED <<pc, at, body, cursor, trash, selected, tapped, trace>>

Idle(p) == progress' = [progress EXCEPT ![p] = Nil]

\* After each player comes the next, and after the last the next stage.
Turn(stage, next) ==
  IF at < Players THEN pc' = stage /\ at' = at + 1 ELSE pc' = next /\ at' = 1

HeldButton(p, primary, aim, smart) ==
  /\ pc = "uses" /\ at = p
  /\ tapped' = Nil
  /\ Turn("uses", "slots")
  /\ IF primary THEN ActiveDig(p, aim, smart)
     ELSE IF tapped # Nil THEN ActiveDig(p, tapped, smart)
     ELSE Idle(p) /\ Note(p, Nil) /\ UNCHANGED <<world, slots>>
  /\ UNCHANGED <<body, cursor, trash, selected, acts>>

EndSlots ==
  /\ pc = "slots"
  /\ Turn("slots", "world")
  /\ UNCHANGED <<world, body, things, selected, progress, tapped, trace, acts>>

\* Kernel and bodies: neighbours change places.
WorldMoves(c) ==
  /\ pc = "world" /\ pc' = "uses"
  /\ IF c \in Cells /\ c + 1 \in Cells
       THEN LET swapped(k) == IF k = c THEN c + 1 ELSE IF k = c + 1 THEN c ELSE k
            IN  /\ world' = [k \in Cells |-> world[swapped(k)]]
                /\ body' = [p \in People |-> swapped(body[p])]
       ELSE UNCHANGED <<world, body>>
  /\ UNCHANGED <<at, things, selected, progress, tapped, trace, acts>>
-----------------------------------------------------------------------------
Init ==
  /\ pc = "uses" /\ at = 1
  /\ body \in {b \in [People -> Cells] : \A p, q \in People : p < q => b[p] < b[q]}
  /\ world \in {w \in [Cells -> Materials] :
                  /\ \A c \in Cells : w[c] = "flesh" <=> \E p \in People : body[p] = c
                  /\ Cardinality({c \in Cells : w[c] = "water"}) <= 1}
  /\ slots = [p \in People |-> [i \in 1..PlayerSlots |->
                CASE i = 1 -> Stack("pick", 1) [] i = 2 -> Stack("stone", 1)
                  [] i = 3 -> Stack("brick", 1) [] OTHER -> Nil]]
  /\ cursor = [p \in People |-> Nil] /\ trash = [p \in People |-> IF Survival(p) THEN Stack("brick", 1) ELSE Nil]
  /\ selected = [p \in People |-> 1]
  /\ progress = [p \in People |-> Nil]
  /\ tapped = Nil
  /\ trace = [p \in People |-> [what |-> Nil, ticks |-> 0]]
  /\ acts = 0

Uses(p) ==
  \E c \in Cells :
    \/ UsePrimary(p, c)
    \/ \E smart \in BOOLEAN :
         UseSecondary(p, c, smart) \/ \E primary \in BOOLEAN : HeldButton(p, primary, c, smart)

Next ==
  \/ \E p \in People : Uses(p) \/ SlotActions(p) \/ \E s \in 1..HotbarSlots : SelectSlot(p, s)
  \/ EndSlots
  \/ \E c \in 0..Width : WorldMoves(c)

Spec == Init /\ [][Next]_vars
-----------------------------------------------------------------------------
TypeOK ==
  /\ pc \in {"uses", "slots", "world"} /\ at \in People
  /\ world \in [Cells -> Materials]
  /\ body \in [People -> Cells] /\ \A p \in People : world[body[p]] = "flesh"
  /\ slots \in [People -> [1..PlayerSlots -> Slots]]
  /\ cursor \in [People -> Slots] /\ trash \in [People -> Slots]
  /\ selected \in [People -> 1..HotbarSlots]
  /\ progress \in [People -> Works \cup {Nil}]
  /\ \A p \in People :
       progress[p] # Nil => progress[p].elapsed \in 1..(Needed(progress[p].method) - 1)
  /\ tapped \in Cells \cup {Nil}
  /\ acts \in 0..MaxActs

(***************************************************************************)
(* No act of a survival player makes matter or silently voids it: what     *)
(* leaves the world is in the inventory, what leaves the inventory is in   *)
(* the world, crafts trade at the recipe's price, and only the trash       *)
(* destroys, when it is overwritten (docs/Inventory.md:7).                 *)
(***************************************************************************)
Price == [stone |-> 1, brick |-> 2, pick |-> 0]
Value(s) == IF s = Nil THEN 0 ELSE s.count * Price[s.item]

Stones(w) == Total([c \in Cells |-> IF w[c] = "stone" THEN 1 ELSE 0], Width)
Contents(inv) == Total([i \in 1..PlayerSlots |-> Value(inv[i])], PlayerSlots)

Worth ==
  Stones(world)
  + Total([p \in People |-> Value(cursor[p]) + Value(trash[p]) + Contents(slots[p])], Players)

Overwritten(p) ==
  IF cursor[p] # Nil /\ cursor'[p] = Nil /\ slots' = slots THEN Value(trash[p]) ELSE 0

MatterIsKept ==
  [][pc # "world" /\ Survival(at) => Worth' = Worth - Overwritten(at)]_vars

(***************************************************************************)
(* A cell that a survival player digs out was that player's target, with   *)
(* the same material and the same tool, in as many ticks on end as its     *)
(* hardness takes (docs/Inventory.md:19; active_dig).                      *)
(***************************************************************************)
DugOut(p) == pc = "uses" /\ at = p /\ {c \in Cells : world[c] = "stone" /\ world'[c] = "air"} # {}

DigIsEarned ==
  [][\A p \in People \ Creative :
       DugOut(p) => trace'[p].ticks >= Needed(Method(p))]_vars
=============================================================================
