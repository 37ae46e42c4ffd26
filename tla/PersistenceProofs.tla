--------------------------- MODULE PersistenceProofs ---------------------------
(***************************************************************************)
(* Theorems about Persistence, for every number of regions, players and    *)
(* items and every value of the limits.                                    *)
(***************************************************************************)
EXTENDS Persistence, TLAPS, SequenceTheorems, FiniteSetTheorems

\* What is preferred of two entries of a batch is an entry.
LEMMA PreferSlots ==
  ASSUME NEW a \in Slots, NEW b \in Slots
  PROVE  Prefer(a, b) \in Slots
BY DEF Prefer

\* The batch with nothing in it is a batch.
LEMMA EmptyBatch == Empty \in Batches
BY DEF Empty, Batches, Slots

\* One batch over another is a batch.
LEMMA OverBatches ==
  ASSUME NEW a \in Batches, NEW b \in Batches
  PROVE  Over(a, b) \in Batches
BY DEF Over, Batches, Prefer

\* What the database holds of a region, a player and the calendar.
LEMMA ReadTypes ==
  ASSUME NEW s \in Batches
  PROVE  /\ \A r \in Regions : ReadRegion(s, r) \in SUBSET Items
         /\ \A u \in Players : ReadPlayer(s, u) \in SUBSET Items
         /\ ReadAge(s) \in Ages
<1>1. \A r \in Regions : ReadRegion(s, r) \in SUBSET Items
  <2> TAKE r \in Regions
  <2>1. s.regions[r] \in Slots
    BY DEF Batches
  <2>2. Generate(r) \in SUBSET Items
    BY DEF Generate
  <2>. QED
    BY <2>1, <2>2 DEF ReadRegion, Prefer, Slots
<1>2. \A u \in Players : ReadPlayer(s, u) \in SUBSET Items
  <2> TAKE u \in Players
  <2>1. s.players[u] \in Slots
    BY DEF Batches
  <2>. QED
    BY <2>1 DEF ReadPlayer, Prefer, Slots
<1>3. ReadAge(s) \in Ages
  <2>1. s.meta \in {Nil} \cup Ages
    BY DEF Batches
  <2>2. 0 \in Ages
    BY ConstantsOK DEF Ages
  <2>. QED
    BY <2>1, <2>2 DEF ReadAge, Prefer
<1>. QED
  BY <1>1, <1>2, <1>3

\* What is pending over what is in flight is a batch.
LEMMA RetainedBatch == TypeOK => Retained \in Batches
BY OverBatches, EmptyBatch DEF TypeOK, Retained, Flying

\* A photograph of the world in memory is a batch.
LEMMA SnapshotBatch == TypeOK => WorldSnapshot \in Batches
BY DEF TypeOK, WorldSnapshot, Batches

\* What is pending when a process starts is a batch.
LEMMA FirstBatch == FirstPending \in Batches
<1> DEFINE m == IF store.meta = Nil THEN 0 ELSE Nil
<1>1. m \in {Nil} \cup Ages
  <2>1. 0 \in Ages
    BY ConstantsOK DEF Ages
  <2>. QED
    BY <2>1
<1>2. FirstPending = [Empty EXCEPT !.meta = m]
  BY DEF FirstPending
<1>. HIDE DEF m
<1>. QED
  BY <1>1, <1>2, EmptyBatch DEF Batches

\* A process that starts on an empty database has its types.
LEMMA InitTypeOK == Init => TypeOK
<1> SUFFICES ASSUME Init PROVE TypeOK
  OBVIOUS
<1>1. store \in Batches
  BY EmptyBatch DEF Init
<1>2. age \in Ages
  BY <1>1, ReadTypes DEF Init
<1>3. pending \in Batches
  BY FirstBatch DEF Init
<1>. QED
  BY <1>1, <1>2, <1>3, ConstantsOK DEF Init, TypeOK, Slots, RequestIds, NoRequest

\* A process that dies leaves a state of the right types.
LEMMA DieTypeOK == TypeOK /\ Die => TypeOK'
<1> SUFFICES ASSUME TypeOK, Die PROVE TypeOK'
  OBVIOUS
<1>1. store' \in Batches
  BY DEF TypeOK, Die
<1>2. age' \in Ages
  BY <1>1, ReadTypes DEF TypeOK, Die
<1>3. pending' \in Batches
  BY FirstBatch DEF Die
<1>. QED
  BY <1>1, <1>2, <1>3, ConstantsOK DEF Die, TypeOK, Slots, RequestIds, NoRequest

\* Starting a save of a batch keeps the channel and the batches typed.
LEMMA StartSaveTypes ==
  ASSUME TypeOK, NEW p \in Batches, StartSave(p)
  PROVE  /\ pending' \in Batches
         /\ inFlight' \in {Nil} \cup Batches
         /\ commands' \in Seq(LoadCommands \cup SaveCommands)
<1>1. [kind |-> "save", batch |-> p] \in LoadCommands \cup SaveCommands
  BY DEF SaveCommands
<1>2. Append(commands, [kind |-> "save", batch |-> p]) \in Seq(LoadCommands \cup SaveCommands)
  BY <1>1, AppendProperties DEF TypeOK
<1>. QED
  BY <1>2, EmptyBatch DEF StartSave, TypeOK

\* Settling a save keeps the batches typed.
LEMMA SettleSaveTypes ==
  ASSUME TypeOK, inFlight # Nil, NEW message, SettleSave(message)
  PROVE  pending' \in Batches /\ inFlight' \in {Nil} \cup Batches
<1>1. inFlight \in Batches /\ pending \in Batches
  BY DEF TypeOK
<1>2. Over(pending, inFlight) \in Batches
  BY <1>1, OverBatches
<1>. QED
  BY <1>1, <1>2 DEF SettleSave
-----------------------------------------------------------------------------
(* Channels: what receiving and sending do to a queue.                     *)

LEMMA Received ==
  ASSUME NEW S, NEW q \in Seq(S), q # <<>>
  PROVE  /\ 1 \in DOMAIN q
         /\ Head(q) = q[1]
         /\ Head(q) \in S
         /\ Tail(q) \in Seq(S)
         /\ \A k \in DOMAIN Tail(q) :
              k \in Nat /\ k + 1 \in DOMAIN q /\ k + 1 # 1 /\ Tail(q)[k] = q[k + 1]
         /\ \A k \in DOMAIN q : k # 1 => k - 1 \in DOMAIN Tail(q) /\ Tail(q)[k - 1] = q[k]
<1>1. Len(q) \in Nat \ {0} /\ DOMAIN q = 1..Len(q)
  BY EmptySeq, LenProperties
<1>2. /\ Head(q) = q[1] /\ Head(q) \in S
      /\ Tail(q) \in Seq(S)
      /\ Len(Tail(q)) = Len(q) - 1
      /\ \A k \in 1..Len(Tail(q)) : Tail(q)[k] = q[k + 1]
  BY HeadTailProperties, <1>1, ElementOfSeq
<1>3. DOMAIN Tail(q) = 1..Len(Tail(q))
  BY <1>2, LenProperties
<1>. QED
  BY <1>1, <1>2, <1>3

\* What is sent comes last in its channel, and nothing before it moves.
LEMMA Sent ==
  ASSUME NEW S, NEW q \in Seq(S), NEW e \in S
  PROVE  /\ Append(q, e) \in Seq(S)
         /\ Len(q) + 1 \in DOMAIN Append(q, e)
         /\ Append(q, e)[Len(q) + 1] = e
         /\ Len(q) + 1 \notin DOMAIN q
         /\ \A k \in DOMAIN q : k \in DOMAIN Append(q, e) /\ Append(q, e)[k] = q[k]
         /\ \A k \in DOMAIN Append(q, e) : k \in DOMAIN q \/ k = Len(q) + 1
<1>1. Len(q) \in Nat /\ DOMAIN q = 1..Len(q)
  BY LenProperties
<1>2. /\ Append(q, e) \in Seq(S)
      /\ Len(Append(q, e)) = Len(q) + 1
      /\ \A k \in 1..Len(q) : Append(q, e)[k] = q[k]
      /\ Append(q, e)[Len(q) + 1] = e
  BY AppendProperties
<1>3. DOMAIN Append(q, e) = 1..Len(Append(q, e))
  BY <1>2, LenProperties
<1>. QED
  BY <1>1, <1>2, <1>3
-----------------------------------------------------------------------------
(* Types.  A completion of a save is only settled when a batch is in       *)
(* flight, so types and the one save in flight are one induction.          *)

Commands == LoadCommands \cup SaveCommands
Completions == ReadyCompletions \cup SaveCompletions

SaveInv == TypeOK /\ OneSaveInFlight

\* At the start no batch is in flight and none is asked for.
LEMMA SaveInvInit == Init => SaveInv
<1> SUFFICES ASSUME Init PROVE OneSaveInFlight
  BY InitTypeOK DEF SaveInv
<1>1. DOMAIN commands = {} /\ DOMAIN completions = {}
  BY DEF Init
<1>. QED
  BY <1>1 DEF Init, OneSaveInFlight, SavesQueued, SavesAnswered

\* With the process its channels and its batch in flight are gone.
LEMMA SaveInvDie == SaveInv /\ Die => SaveInv'
<1> SUFFICES ASSUME SaveInv, Die PROVE OneSaveInFlight'
  BY DieTypeOK DEF SaveInv
<1>1. DOMAIN commands' = {} /\ DOMAIN completions' = {}
  BY DEF Die
<1>. QED
  BY <1>1 DEF Die, OneSaveInFlight, SavesQueued, SavesAnswered

\* The answer at the head of the channel tells whether a batch is in flight.
LEMMA HeadOfCompletions ==
  ASSUME SaveInv, completions # <<>>
  PROVE  /\ Head(completions) \in Completions
         /\ Tail(completions) \in Seq(Completions)
         /\ Head(completions).kind = "ready"
              => Head(completions).ready \in Loads
         /\ Head(completions).kind # "ready"
              => 1 \in SavesAnswered /\ inFlight # Nil
<1>1. completions \in Seq(Completions)
  BY DEF SaveInv, TypeOK, Completions
<1>2. /\ 1 \in DOMAIN completions /\ Head(completions) = completions[1]
      /\ Head(completions) \in Completions /\ Tail(completions) \in Seq(Completions)
  BY <1>1, Received
<1>3. Head(completions).kind = "ready" => Head(completions).ready \in Loads
  BY <1>2 DEF Completions, ReadyCompletions, SaveCompletions
<1>4. Head(completions).kind # "ready" => 1 \in SavesAnswered /\ inFlight # Nil
  BY <1>2 DEF SaveInv, OneSaveInFlight, SavesAnswered
<1>. QED
  BY <1>2, <1>3, <1>4

\* What the storage thread answers to the load at the head of its channel.
Answer(ok) ==
  [kind |-> "ready",
   ready |-> [request |-> Head(commands).request, pos |-> Head(commands).pos,
              load |-> IF ok THEN ReadRegion(store, Head(commands).pos) ELSE Nil]]

\* A load takes one command from its channel and puts one answer into the
\* other.
LEMMA LoadAnswered ==
  ASSUME TypeOK, NEW ok \in BOOLEAN, WorkerLoad(ok)
  PROVE  /\ commands \in Seq(Commands) /\ commands # <<>> /\ commands' = Tail(commands)
         /\ completions \in Seq(Completions)
         /\ Head(commands) \in LoadCommands
         /\ Answer(ok) \in ReadyCompletions
         /\ completions' = Append(completions, Answer(ok))
<1>1. /\ commands \in Seq(Commands) /\ commands # <<>> /\ commands' = Tail(commands)
      /\ completions \in Seq(Completions)
  BY DEF WorkerLoad, TypeOK, Commands, Completions
<1>2. Head(commands) \in LoadCommands
  BY <1>1, Received DEF WorkerLoad, Commands, LoadCommands, SaveCommands
<1>3. (IF ok THEN ReadRegion(store, Head(commands).pos) ELSE Nil) \in Slots
  BY <1>2, ReadTypes DEF TypeOK, LoadCommands, Slots
<1>4. Answer(ok) \in ReadyCompletions
  BY <1>2, <1>3 DEF Answer, ReadyCompletions, Loads, LoadCommands
<1>5. completions' = Append(completions, Answer(ok))
  BY DEF WorkerLoad, Answer
<1>. QED
  BY <1>1, <1>2, <1>4, <1>5

\* Every step keeps the types.
LEMMA SaveInvTypes == SaveInv /\ Next => TypeOK'
<1> SUFFICES ASSUME SaveInv, Next PROVE TypeOK'
  OBVIOUS
<1>t. TypeOK
  BY DEF SaveInv
<1> USE DEF worldVars, loadVars, saveVars
<1>1. CASE BeginTick
  BY <1>t, <1>1 DEF BeginTick, TypeOK
<1>2. CASE ComputeTickets
  BY <1>t, <1>2 DEF ComputeTickets, TypeOK
<1>3. CASE ReceiveCompletion
  <2>1. completions' \in Seq(Completions)
    BY <1>3, HeadOfCompletions DEF ReceiveCompletion
  <2>2. CASE Head(completions).kind = "ready"
    BY <1>t, <1>3, <2>1, <2>2, HeadOfCompletions DEF ReceiveCompletion, TypeOK, Completions
  <2>3. CASE Head(completions).kind # "ready"
    <3>1. pending' \in Batches /\ inFlight' \in {Nil} \cup Batches
      BY <1>t, <1>3, <2>3, HeadOfCompletions, SettleSaveTypes DEF ReceiveCompletion
    <3>. QED
      BY <1>t, <1>3, <2>1, <2>3, <3>1 DEF ReceiveCompletion, TypeOK, Completions
  <2>. QED
    BY <2>2, <2>3
<1>4. CASE Integrate
  <2>1. \A e \in ready : e \in Loads
    BY <1>t DEF TypeOK
  <2>2. sim' \in [Regions -> Slots]
    <3> SUFFICES ASSUME NEW r \in Regions PROVE sim'[r] \in Slots
      BY <1>4 DEF Integrate
    <3>1. CASE \E e \in Integrable : e.pos = r
      <4>1. (CHOOSE e \in Integrable : e.pos = r) \in ready
        BY <3>1 DEF Integrable
      <4>. QED
        BY <1>4, <2>1, <3>1, <4>1 DEF Integrate, Loads
    <3>2. CASE ~\E e \in Integrable : e.pos = r
      BY <1>t, <1>4, <3>2 DEF Integrate, TypeOK
    <3>. QED
      BY <3>1, <3>2
  <2>3. requested' \in [Regions -> RequestIds \cup {NoRequest}]
    BY <1>t, <1>4 DEF Integrate, TypeOK
  <2>. QED
    BY <1>t, <1>4, <2>2, <2>3 DEF Integrate, TypeOK
<1>5. CASE IntegrateFails
  BY <1>t, <1>5, DieTypeOK DEF IntegrateFails
<1>6. CASE RequestRegion
  <2>1. PICK r \in Missing :
          /\ requested' = [requested EXCEPT ![r] = nextRequest]
          /\ IF Retained.regions[r] # Nil
               THEN /\ ready' = ready \cup
                         {[request |-> nextRequest, pos |-> r, load |-> Retained.regions[r]]}
                    /\ UNCHANGED commands
               ELSE /\ commands' = Append(commands,
                         [kind |-> "load", request |-> nextRequest, pos |-> r])
                    /\ UNCHANGED ready
    BY <1>6 DEF RequestRegion
  <2>2. r \in Regions /\ nextRequest \in RequestIds
    BY <1>t DEF Missing, TypeOK
  <2>3. requested' \in [Regions -> RequestIds \cup {NoRequest}]
    BY <1>t, <2>1, <2>2 DEF TypeOK
  <2>4. nextRequest' \in RequestIds
    BY <1>6, <2>2, ConstantsOK DEF RequestRegion, NextId, RequestIds
  <2>5. ready' \subseteq Loads
    <3>1. Retained.regions[r] \in Slots
      BY <1>t, <2>2, RetainedBatch DEF Batches
    <3>. QED
      BY <1>t, <2>1, <2>2, <3>1 DEF TypeOK, Loads
  <2>6. commands' \in Seq(LoadCommands \cup SaveCommands)
    <3>1. [kind |-> "load", request |-> nextRequest, pos |-> r] \in LoadCommands \cup SaveCommands
      BY <2>2 DEF LoadCommands
    <3>2. Append(commands, [kind |-> "load", request |-> nextRequest, pos |-> r])
            \in Seq(LoadCommands \cup SaveCommands)
      BY <1>t, <3>1, AppendProperties DEF TypeOK
    <3>. QED
      BY <1>t, <2>1, <3>2 DEF TypeOK
  <2>. QED
    BY <1>t, <1>6, <2>3, <2>4, <2>5, <2>6 DEF RequestRegion, TypeOK
<1>7. CASE Expire
  <2>1. idle' \in [Regions -> Nat]
    BY <1>t, <1>7 DEF Expire, IdleTicks, TypeOK
  <2>2. sim' \in [Regions -> Slots]
    BY <1>t, <1>7 DEF Expire, TypeOK, Slots
  <2>3. pending' \in Batches
    BY <1>t, <1>7 DEF Expire, TypeOK, Batches, Expired, Loaded
  <2>. QED
    BY <1>t, <1>7, <2>1, <2>2, <2>3 DEF Expire, TypeOK
<1>8. CASE AdvanceClock
  BY <1>t, <1>8, ConstantsOK DEF AdvanceClock, TypeOK, Ages
<1>9. CASE Autosave
  <2>1. Over(WorldSnapshot, pending) \in Batches
    BY <1>t, SnapshotBatch, OverBatches DEF TypeOK
  <2>2. /\ pending' \in Batches /\ inFlight' \in {Nil} \cup Batches
        /\ commands' \in Seq(LoadCommands \cup SaveCommands)
    BY <1>t, <1>9, <2>1, StartSaveTypes DEF Autosave
  <2>. QED
    BY <1>t, <1>9, <2>2 DEF Autosave, TypeOK
<1>10. CASE AwaitSave
  <2>1. completions' \in Seq(Completions)
    BY <1>10, HeadOfCompletions DEF AwaitSave
  <2>2. pending' \in Batches /\ inFlight' \in {Nil} \cup Batches
    BY <1>t, <1>10, SettleSaveTypes DEF AwaitSave, TypeOK
  <2>. QED
    BY <1>t, <1>10, <2>1, <2>2 DEF AwaitSave, TypeOK, Completions
<1>11. CASE StartFinalSave
  <2>1. /\ pending' \in Batches /\ inFlight' \in {Nil} \cup Batches
        /\ commands' \in Seq(LoadCommands \cup SaveCommands)
    BY <1>t, <1>11, StartSaveTypes DEF StartFinalSave, TypeOK
  <2>. QED
    BY <1>t, <1>11, <2>1 DEF StartFinalSave, TypeOK
<1>12. CASE Flushed
  BY <1>t, <1>12 DEF Flushed, TypeOK
<1>13. CASE JoinWorker
  BY <1>t, <1>13, DieTypeOK DEF JoinWorker
<1>14. ASSUME NEW ok \in BOOLEAN, WorkerLoad(ok) PROVE TypeOK'
  <2>0. /\ commands \in Seq(Commands) /\ commands # <<>> /\ commands' = Tail(commands)
        /\ completions \in Seq(Completions) /\ Answer(ok) \in ReadyCompletions
        /\ completions' = Append(completions, Answer(ok))
    BY <1>t, <1>14, LoadAnswered
  <2>1. commands' \in Seq(Commands)
    BY <2>0, Received
  <2>2. completions' \in Seq(Completions)
    <3>1. Answer(ok) \in Completions
      BY <2>0 DEF Completions
    <3>. QED
      BY <2>0, <3>1, AppendProperties
  <2>. QED
    BY <1>t, <1>14, <2>1, <2>2 DEF WorkerLoad, TypeOK, Commands, Completions
<1>15. ASSUME NEW ok \in BOOLEAN, WorkerSave(ok) PROVE TypeOK'
  <2>1. /\ commands \in Seq(Commands) /\ commands # <<>>
        /\ completions \in Seq(Completions)
    BY <1>t, <1>15 DEF WorkerSave, TypeOK, Commands, Completions
  <2>2. Head(commands) \in SaveCommands /\ commands' \in Seq(Commands)
    BY <1>15, <2>1, Received DEF WorkerSave, Commands, LoadCommands, SaveCommands
  <2>3. store' \in Batches
    BY <1>t, <1>15, <2>2, OverBatches DEF WorkerSave, TypeOK, SaveCommands
  <2>4. completions' \in Seq(Completions)
    <3>1. [kind |-> IF ok THEN "saved" ELSE "failed"] \in Completions
      BY DEF Completions, SaveCompletions
    <3>2. Append(completions, [kind |-> IF ok THEN "saved" ELSE "failed"]) \in Seq(Completions)
      BY <2>1, <3>1, AppendProperties
    <3>. QED
      BY <1>15, <3>2 DEF WorkerSave
  <2>. QED
    BY <1>t, <1>15, <2>2, <2>3, <2>4 DEF WorkerSave, TypeOK, Commands, Completions
<1>16. CASE Open
  BY <1>t, <1>16 DEF Open, TypeOK
<1>17. CASE Crash
  BY <1>t, <1>17, DieTypeOK DEF Crash
<1>18. CASE Stop
  <2>1. pending' \in Batches
    BY <1>t, <1>18, SnapshotBatch, OverBatches DEF Stop, TypeOK
  <2>. QED
    BY <1>t, <1>18, <2>1 DEF Stop, TypeOK
<1>19. ASSUME NEW u \in Players, Join(u) PROVE TypeOK'
  <2>1. Prefer(Retained.players[u], ReadPlayer(store, u)) \in Slots
    BY <1>t, RetainedBatch, ReadTypes DEF Batches, Prefer, Slots, TypeOK
  <2>. QED
    BY <1>t, <1>19, <2>1 DEF Join, TypeOK
<1>20. ASSUME NEW u \in Players, Depart(u) PROVE TypeOK'
  <2>1. pending' \in Batches
    BY <1>t, <1>20 DEF Depart, TypeOK, Batches
  <2>. QED
    BY <1>t, <1>20, <2>1 DEF Depart, TypeOK, Slots
<1>21. ASSUME NEW u \in Players, NEW r \in Regions, NEW i \in Items, Dig(u, r, i)
       PROVE  TypeOK'
  <2>1. sim[r] \in SUBSET Items /\ players[u] \in SUBSET Items
    BY <1>t, <1>21 DEF Dig, TypeOK, Slots, Loaded, Present
  <2>2. sim[r] \ {i} \in Slots /\ players[u] \cup {i} \in Slots
    BY <2>1 DEF Slots
  <2>. QED
    BY <1>t, <1>21, <2>2 DEF Dig, TypeOK
<1>22. ASSUME NEW u \in Players, NEW r \in Regions, NEW i \in Items, Place(u, r, i)
       PROVE  TypeOK'
  <2>1. sim[r] \in SUBSET Items /\ players[u] \in SUBSET Items
    BY <1>t, <1>22 DEF Place, TypeOK, Slots, Loaded, Present
  <2>2. sim[r] \cup {i} \in Slots /\ players[u] \ {i} \in Slots
    BY <2>1 DEF Slots
  <2>. QED
    BY <1>t, <1>22, <2>2 DEF Place, TypeOK
<1>23. ASSUME NEW r \in Regions, NEW q \in Regions, NEW i \in Items, Flow(r, q, i)
       PROVE  TypeOK'
  <2>1. sim[r] \in SUBSET Items /\ sim[q] \in SUBSET Items
    BY <1>t, <1>23 DEF Flow, TypeOK, Slots, Loaded
  <2>2. sim[r] \ {i} \in Slots /\ sim[q] \cup {i} \in Slots
    BY <2>1 DEF Slots
  <2>. QED
    BY <1>t, <1>23, <2>2 DEF Flow, TypeOK
<1>24. ASSUME NEW a \in Ages, SetTime(a) PROVE TypeOK'
  BY <1>t, <1>24 DEF SetTime, TypeOK
<1>. QED
  BY <1>1, <1>2, <1>3, <1>4, <1>5, <1>6, <1>7, <1>8, <1>9, <1>10, <1>11, <1>12, <1>13,
     <1>14, <1>15, <1>16, <1>17, <1>18, <1>19, <1>20, <1>21, <1>22, <1>23, <1>24
     DEF Next, Server, Worker, Environment
-----------------------------------------------------------------------------
(* One save in flight.                                                     *)

\* Starting a save, at a moment the thread is not being joined.
LEMMA StartSaveInFlight ==
  ASSUME SaveInv, NEW p \in Batches, StartSave(p), UNCHANGED completions,
         pc' \notin {"joined", "failed"}
  PROVE  OneSaveInFlight'
<1> USE DEF SaveInv
<1>1. CASE HasStore /\ inFlight = Nil /\ p # Empty
  <2> DEFINE c == [kind |-> "save", batch |-> p]
  <2>1. commands \in Seq(Commands) /\ c \in Commands
    BY DEF TypeOK, Commands, SaveCommands
  <2>2. commands' = Append(commands, c) /\ inFlight' = p
    BY <1>1 DEF StartSave
  <2>3. SavesQueued = {} /\ SavesAnswered = {}
    BY <1>1 DEF OneSaveInFlight
  <2>4. SavesQueued' = {Len(commands) + 1} /\ SavesAnswered' = {}
    BY <2>1, <2>2, <2>3, Sent DEF SavesQueued, SavesAnswered, IsSave
  <2>5. p # Nil
    BY NilIsNoBatch
  <2>. QED
    BY <2>1, <2>2, <2>4, <2>5, Sent DEF OneSaveInFlight
<1>2. CASE ~(HasStore /\ inFlight = Nil /\ p # Empty)
  BY <1>2 DEF StartSave, OneSaveInFlight, SavesQueued, SavesAnswered
<1>. QED
  BY <1>1, <1>2

\* Receiving an answer: a load leaves the save alone, anything else settles it.
LEMMA ReceiveInFlight ==
  ASSUME SaveInv, completions # <<>>, completions' = Tail(completions), UNCHANGED commands,
         IF Head(completions).kind = "ready"
           THEN UNCHANGED inFlight /\ pc' \notin {"joined", "failed"}
           ELSE inFlight' = Nil
  PROVE  OneSaveInFlight'
<1> USE DEF SaveInv
<1>1. /\ completions \in Seq(Completions)
      /\ \A k \in DOMAIN completions' :
           k + 1 \in DOMAIN completions /\ k \in Nat /\ completions'[k] = completions[k + 1]
      /\ \A k \in DOMAIN completions :
           k # 1 => k - 1 \in DOMAIN completions' /\ completions'[k - 1] = completions[k]
      /\ \A k \in DOMAIN completions : k \in Nat
  BY Received DEF TypeOK, Completions
<1>2. SavesQueued' = SavesQueued
  BY DEF SavesQueued
<1>3. CASE Head(completions).kind = "ready"
  <2>1. \A k \in DOMAIN completions : k \in SavesAnswered => k # 1
    BY <1>3, <1>1, Received DEF SavesAnswered
  <2>2. \A k : k \in SavesAnswered' <=> k \in Nat /\ k + 1 \in SavesAnswered
    BY <1>1, <2>1 DEF SavesAnswered
  <2>3. \A k \in SavesAnswered : k - 1 \in SavesAnswered'
    BY <1>1, <2>1 DEF SavesAnswered
  <2>4. SavesAnswered = {} <=> SavesAnswered' = {}
    BY <2>2, <2>3
  <2>. QED
    BY <1>2, <1>3, <2>2, <2>4 DEF OneSaveInFlight
<1>4. CASE Head(completions).kind # "ready"
  <2>1. 1 \in SavesAnswered
    BY <1>4, HeadOfCompletions
  <2>2. SavesQueued = {} /\ \A k \in SavesAnswered : k = 1
    BY <2>1 DEF OneSaveInFlight
  <2>3. SavesAnswered' = {}
    BY <1>1, <2>2 DEF SavesAnswered
  <2>. QED
    BY <1>2, <1>4, <2>2, <2>3 DEF OneSaveInFlight
<1>. QED
  BY <1>3, <1>4

\* Every step keeps the batch in flight and the channels in agreement.
LEMMA SaveInvInFlight == SaveInv /\ Next => OneSaveInFlight'
<1> SUFFICES ASSUME SaveInv, Next PROVE OneSaveInFlight'
  OBVIOUS
<1>t. TypeOK /\ OneSaveInFlight
  BY DEF SaveInv
<1>q. ASSUME UNCHANGED <<commands, completions, inFlight>>,
             pc' \in {"joined", "failed"} => inFlight = Nil
      PROVE  OneSaveInFlight'
  BY <1>t, <1>q DEF OneSaveInFlight, SavesQueued, SavesAnswered
<1> USE DEF worldVars, loadVars, saveVars
<1>1. CASE BeginTick \/ ComputeTickets \/ Integrate \/ Expire \/ AdvanceClock
           \/ Flushed \/ Open \/ Stop
  BY <1>q, <1>1 DEF BeginTick, ComputeTickets, Integrate, Expire, AdvanceClock, Flushed, Open, Stop
<1>2. CASE ReceiveCompletion
  BY <1>2, ReceiveInFlight DEF ReceiveCompletion, SettleSave
<1>3. CASE IntegrateFails \/ JoinWorker \/ Crash
  BY <1>3, SaveInvDie DEF IntegrateFails, JoinWorker, Crash, SaveInv
<1>4. CASE RequestRegion
  <2>1. pc' = "request" /\ UNCHANGED <<completions, inFlight>>
    BY <1>4 DEF RequestRegion
  <2>2. CASE UNCHANGED commands
    BY <1>q, <2>1, <2>2
  <2>3. CASE \E r \in Regions :
              commands' = Append(commands, [kind |-> "load", request |-> nextRequest, pos |-> r])
    <3>1. PICK r \in Regions :
            commands' = Append(commands, [kind |-> "load", request |-> nextRequest, pos |-> r])
      BY <2>3
    <3>2. /\ commands \in Seq(Commands)
          /\ [kind |-> "load", request |-> nextRequest, pos |-> r] \in Commands
      BY <1>t DEF TypeOK, Commands, LoadCommands
    <3>3. SavesQueued' = SavesQueued /\ \A k \in SavesQueued : commands'[k] = commands[k]
      BY <3>1, <3>2, Sent DEF SavesQueued, IsSave
    <3>4. SavesAnswered' = SavesAnswered
      BY <2>1 DEF SavesAnswered
    <3>. QED
      BY <1>t, <2>1, <3>3, <3>4 DEF OneSaveInFlight
  <2>. QED
    BY <1>t, <1>4, <2>2, <2>3 DEF RequestRegion, Missing, TypeOK
<1>5. CASE Autosave
  <2>1. Over(WorldSnapshot, pending) \in Batches
    BY <1>t, SnapshotBatch, OverBatches DEF TypeOK
  <2>. QED
    BY <1>5, <2>1, StartSaveInFlight DEF Autosave
<1>6. CASE AwaitSave
  BY <1>6, ReceiveInFlight DEF AwaitSave, SettleSave
<1>7. CASE StartFinalSave
  BY <1>t, <1>7, StartSaveInFlight DEF StartFinalSave, TypeOK
<1>8. ASSUME NEW ok \in BOOLEAN, WorkerLoad(ok) PROVE OneSaveInFlight'
  <2>1. /\ commands \in Seq(Commands) /\ commands # <<>>
        /\ completions \in Seq(Completions)
    BY <1>t, <1>8, LoadAnswered
  <2>2. Head(commands).kind = "load" /\ commands' = Tail(commands)
    BY <1>8 DEF WorkerLoad
  <2>3. PICK answer \in Completions :
          answer.kind = "ready" /\ completions' = Append(completions, answer)
    BY <1>t, <1>8, LoadAnswered DEF Completions, ReadyCompletions
  <2>4. \A k : k \in SavesQueued' <=> k \in Nat /\ k + 1 \in SavesQueued
    BY <2>1, <2>2, Received DEF SavesQueued, IsSave
  <2>5. SavesQueued = {} <=> SavesQueued' = {}
    <3>1. \A k \in SavesQueued : k \in DOMAIN commands /\ k # 1
      BY <2>1, <2>2, Received DEF SavesQueued, IsSave
    <3>2. \A k \in SavesQueued : k - 1 \in SavesQueued'
      BY <2>1, <2>2, <3>1, Received DEF SavesQueued, IsSave
    <3>. QED
      BY <2>4, <3>2
  <2>6. SavesAnswered' = SavesAnswered
    BY <2>1, <2>3, Sent DEF SavesAnswered
  <2>7. \A k \in SavesQueued' : commands'[k] = commands[k + 1]
    BY <2>1, <2>2, Received DEF SavesQueued
  <2>. QED
    <3>1. UNCHANGED <<pc, inFlight>>
      BY <1>8 DEF WorkerLoad
    <3>2. \A k, l \in SavesQueued' : k = l
      BY <1>t, <2>4 DEF OneSaveInFlight
    <3>3. \A k \in SavesQueued' : commands'[k].batch = inFlight'
      BY <1>t, <2>4, <2>7, <3>1 DEF OneSaveInFlight
    <3>. QED
      BY <1>t, <2>5, <2>6, <3>1, <3>2, <3>3 DEF OneSaveInFlight
<1>9. ASSUME NEW ok \in BOOLEAN, WorkerSave(ok) PROVE OneSaveInFlight'
  <2>1. /\ commands \in Seq(Commands) /\ commands # <<>>
        /\ completions \in Seq(Completions)
    BY <1>t, <1>9 DEF WorkerSave, TypeOK, Commands, Completions
  <2>2. 1 \in SavesQueued
    BY <1>9, <2>1, Received DEF WorkerSave, SavesQueued, IsSave
  <2>3. SavesAnswered = {} /\ inFlight # Nil /\ \A k \in SavesQueued : k = 1
    BY <1>t, <2>2 DEF OneSaveInFlight
  <2>4. SavesQueued' = {}
    BY <1>9, <2>1, <2>3, Received DEF WorkerSave, SavesQueued, IsSave
  <2>5. SavesAnswered' = {Len(completions) + 1}
    <3>1. [kind |-> IF ok THEN "saved" ELSE "failed"] \in Completions
      BY DEF Completions, SaveCompletions
    <3>. QED
      BY <1>9, <2>1, <2>3, <3>1, Sent DEF WorkerSave, SavesAnswered
  <2>. QED
    BY <1>9, <2>3, <2>4, <2>5 DEF OneSaveInFlight, WorkerSave
<1>10. ASSUME NEW u \in Players, Join(u) \/ Depart(u) PROVE OneSaveInFlight'
  BY <1>q, <1>10 DEF Join, Depart
<1>11. ASSUME NEW u \in Players, NEW r \in Regions, NEW i \in Items, Dig(u, r, i) \/ Place(u, r, i)
       PROVE  OneSaveInFlight'
  BY <1>q, <1>11 DEF Dig, Place
<1>12. ASSUME NEW r \in Regions, NEW q \in Regions, NEW i \in Items, Flow(r, q, i)
       PROVE  OneSaveInFlight'
  BY <1>q, <1>12 DEF Flow
<1>13. ASSUME NEW a \in Ages, SetTime(a) PROVE OneSaveInFlight'
  BY <1>q, <1>13 DEF SetTime
<1>. QED
  BY <1>1, <1>2, <1>3, <1>4, <1>5, <1>6, <1>7, <1>8, <1>9, <1>10, <1>11, <1>12, <1>13
     DEF Next, Server, Worker, Environment

\* A step that changes nothing keeps both.
LEMMA SaveInvStutter == SaveInv /\ UNCHANGED vars => SaveInv'
BY DEF SaveInv, TypeOK, OneSaveInFlight, SavesQueued, SavesAnswered, vars, worldVars,
       loadVars, saveVars

\* The variables have their types in every reachable state: in particular the
\* request counter never reaches 0, and what is pending, in flight and on disk
\* stays well-formed under every failure.
THEOREM TypesCorrect == Spec => []TypeOK
<1>1. SaveInv /\ [Next]_vars => SaveInv'
  BY SaveInvTypes, SaveInvInFlight, SaveInvStutter DEF SaveInv
<1>2. SaveInv => TypeOK
  BY DEF SaveInv
<1>. QED
  BY SaveInvInit, <1>1, <1>2, PTL DEF Spec

\* At most one batch is ever in flight and it is answered exactly once.
THEOREM OneSave == Spec => []OneSaveInFlight
<1>1. SaveInv /\ [Next]_vars => SaveInv'
  BY SaveInvTypes, SaveInvInFlight, SaveInvStutter DEF SaveInv
<1>2. SaveInv => OneSaveInFlight
  BY DEF SaveInv
<1>. QED
  BY SaveInvInit, <1>1, <1>2, PTL DEF Spec
-----------------------------------------------------------------------------
(* Loads: a region waits for one load, and one load of it is on its way.   *)

LoadInv ==
  /\ SaveInv
  /\ LoadsMatchRequests
  /\ pc = "down" => Outstanding = {}

\* The mark of a region nobody asked for is no number of a request.
LEMMA ZeroIsNoRequest == NoRequest \notin RequestIds
BY DEF NoRequest, RequestIds

\* Every load on its way is of a region that waits for it.
LEMMA OnItsWayIsOutstanding ==
  ASSUME TypeOK, LoadsCarryTheirRequest
  PROVE  QueuedRegions \cup AnsweredRegions \cup ReadyRegions \subseteq Outstanding
<1>1. ASSUME NEW k \in LoadsQueued PROVE commands[k].pos \in Outstanding
  <2>1. commands \in Seq(Commands)
    BY DEF TypeOK, Commands
  <2>2. commands[k] \in LoadCommands
    BY <1>1, <2>1, ElementOfSeq, LenProperties
       DEF LoadsQueued, Commands, LoadCommands, SaveCommands
  <2>. QED
    BY <2>2, ZeroIsNoRequest DEF LoadsCarryTheirRequest, Outstanding, LoadCommands
<1>2. ASSUME NEW k \in LoadsAnswered PROVE completions[k].ready.pos \in Outstanding
  <2>1. completions \in Seq(Completions)
    BY DEF TypeOK, Completions
  <2>2. completions[k] \in ReadyCompletions
    BY <1>2, <2>1, ElementOfSeq, LenProperties
       DEF LoadsAnswered, Completions, ReadyCompletions, SaveCompletions
  <2>3. completions[k].ready \in Loads
    BY <2>2 DEF ReadyCompletions
  <2>. QED
    BY <2>3, ZeroIsNoRequest DEF LoadsCarryTheirRequest, Outstanding, Loads, Expected
<1>3. ASSUME NEW e \in ready PROVE e.pos \in Outstanding
  <2>1. e \in Loads
    BY DEF TypeOK
  <2>. QED
    BY <2>1, ZeroIsNoRequest DEF LoadsCarryTheirRequest, Outstanding, Loads, Expected
<1>. QED
  BY <1>1, <1>2, <1>3 DEF QueuedRegions, AnsweredRegions, ReadyRegions

\* Commands and answers that are about loads carry what loads carry.
LEMMA LoadsAreTyped ==
  ASSUME TypeOK
  PROVE  /\ commands \in Seq(Commands) /\ completions \in Seq(Completions)
         /\ \A k \in LoadsQueued : commands[k] \in LoadCommands
         /\ \A k \in LoadsAnswered :
              completions[k] \in ReadyCompletions /\ completions[k].ready \in Loads
<1>1. commands \in Seq(Commands) /\ completions \in Seq(Completions)
  BY DEF TypeOK, Commands, Completions
<1>2. ASSUME NEW k \in LoadsQueued PROVE commands[k] \in LoadCommands
  BY <1>1, <1>2, ElementOfSeq, LenProperties DEF LoadsQueued, Commands, LoadCommands, SaveCommands
<1>3. ASSUME NEW k \in LoadsAnswered
      PROVE  completions[k] \in ReadyCompletions /\ completions[k].ready \in Loads
  BY <1>1, <1>3, ElementOfSeq, LenProperties
     DEF LoadsAnswered, Completions, ReadyCompletions, SaveCompletions
<1>. QED
  BY <1>1, <1>2, <1>3

\* A save joins the commands: the loads among them stay where they are.
LEMMA SaveJoinsCommands ==
  ASSUME TypeOK, NEW c \in SaveCommands, commands' = Append(commands, c)
  PROVE  /\ LoadsQueued' = LoadsQueued
         /\ \A k \in LoadsQueued : commands'[k] = commands[k]
<1>1. commands \in Seq(Commands) /\ c \in Commands /\ c.kind = "save"
  BY DEF TypeOK, Commands, SaveCommands
<1>. QED
  BY <1>1, Sent DEF LoadsQueued

\* A save that is asked for comes behind all the loads, and disturbs none.
LEMMA StartSaveKeepsLoads ==
  ASSUME TypeOK, NEW p \in Batches, StartSave(p)
  PROVE  /\ LoadsQueued' = LoadsQueued
         /\ \A k \in LoadsQueued : commands'[k] = commands[k]
<1>1. CASE UNCHANGED commands
  BY <1>1 DEF LoadsQueued
<1>2. CASE commands' = Append(commands, [kind |-> "save", batch |-> p])
  BY <1>2, SaveJoinsCommands DEF SaveCommands
<1>. QED
  BY <1>1, <1>2 DEF StartSave

\* The loads that are on their way are the same, and a region that waits does
\* so before and after.
LEMMA SameLoads ==
  ASSUME LoadInv,
         LoadsQueued' = LoadsQueued, \A k \in LoadsQueued : commands'[k] = commands[k],
         LoadsAnswered' = LoadsAnswered,
         \A k \in LoadsAnswered : completions'[k] = completions[k],
         UNCHANGED <<ready, requested>>,
         Ticking' => Ticking \/ pc = "down",
         pc' = "down" => pc = "down"
  PROVE  LoadsMatchRequests' /\ (pc' = "down" => Outstanding' = {})
<1>1. QueuedRegions' = QueuedRegions
  BY DEF QueuedRegions
<1>2. AnsweredRegions' = AnsweredRegions
  BY DEF AnsweredRegions
<1>3. ReadyRegions' = ReadyRegions /\ Outstanding' = Outstanding
  BY DEF ReadyRegions, Outstanding
<1>4. LoadsCarryTheirRequest'
  BY DEF LoadInv, LoadsMatchRequests, LoadsCarryTheirRequest, Expected
<1>5. NoRegionLoadsTwice'
  BY <1>1, <1>2, <1>3 DEF LoadInv, LoadsMatchRequests, NoRegionLoadsTwice
<1>6. NoRequestIsForgotten'
  BY <1>1, <1>2, <1>3 DEF LoadInv, LoadsMatchRequests, NoRequestIsForgotten
<1>. QED
  BY <1>3, <1>4, <1>5, <1>6 DEF LoadInv, LoadsMatchRequests

\* Loads stay matched in a step that touches neither channels nor requests.
LEMMA ChannelsStill ==
  ASSUME LoadInv, UNCHANGED <<commands, completions, ready, requested>>,
         Ticking' => Ticking \/ pc = "down", pc' = "down" => pc = "down"
  PROVE  LoadsMatchRequests' /\ (pc' = "down" => Outstanding' = {})
<1>1. LoadsQueued' = LoadsQueued /\ LoadsAnswered' = LoadsAnswered
  BY DEF LoadsQueued, LoadsAnswered
<1>. QED
  BY <1>1, SameLoads

\* Receiving an answer: every load behind it moves up by one.
LEMMA AnswersMoveUp ==
  ASSUME TypeOK, completions # <<>>, completions' = Tail(completions)
  PROVE  /\ \A k \in LoadsAnswered' :
              k \in Nat /\ k + 1 # 1 /\ k + 1 \in LoadsAnswered /\ completions'[k] = completions[k + 1]
         /\ \A k \in LoadsAnswered :
              k # 1 => k - 1 \in LoadsAnswered' /\ completions'[k - 1] = completions[k]
         /\ \A k \in LoadsAnswered : k \in Nat
         /\ 1 \in LoadsAnswered <=> Head(completions).kind = "ready"
         /\ Head(completions) = completions[1]
<1>1. completions \in Seq(Completions)
  BY DEF TypeOK, Completions
<1>2. DOMAIN completions \subseteq Nat
  BY <1>1, LenProperties
<1>. QED
  BY <1>1, <1>2, Received DEF LoadsAnswered

\* Taking a command: every load behind it moves up by one.
LEMMA CommandsMoveUp ==
  ASSUME TypeOK, commands # <<>>, commands' = Tail(commands)
  PROVE  /\ \A k \in LoadsQueued' :
              k \in Nat /\ k + 1 # 1 /\ k + 1 \in LoadsQueued /\ commands'[k] = commands[k + 1]
         /\ \A k \in LoadsQueued :
              k # 1 => k - 1 \in LoadsQueued' /\ commands'[k - 1] = commands[k]
         /\ \A k \in LoadsQueued : k \in Nat
         /\ 1 \in LoadsQueued <=> Head(commands).kind = "load"
         /\ Head(commands) = commands[1]
<1>1. commands \in Seq(Commands)
  BY DEF TypeOK, Commands
<1>2. DOMAIN commands \subseteq Nat
  BY <1>1, LenProperties
<1>. QED
  BY <1>1, <1>2, Received DEF LoadsQueued

\* Two loads that are queued are for two regions.
LEMMA NoLoadTwice ==
  ASSUME NoRegionLoadsTwice, NEW k \in LoadsQueued, NEW l \in LoadsQueued,
         commands[k].pos = commands[l].pos
  PROVE  k = l
BY DEF NoRegionLoadsTwice

\* Two answers are for two regions.
LEMMA NoAnswerTwice ==
  ASSUME NoRegionLoadsTwice, NEW k \in LoadsAnswered, NEW l \in LoadsAnswered,
         completions[k].ready.pos = completions[l].ready.pos
  PROVE  k = l
BY DEF NoRegionLoadsTwice

\* Behind the answer that is received nothing changes for a load.
LEMMA AnsweredLoadsMove ==
  ASSUME TypeOK, LoadsCarryTheirRequest, NoRegionLoadsTwice, UNCHANGED requested,
         completions # <<>>, completions' = Tail(completions)
  PROVE  /\ \A k \in LoadsAnswered' :
              requested'[completions'[k].ready.pos] = completions'[k].ready.request
         /\ \A k, l \in LoadsAnswered' :
              completions'[k].ready.pos = completions'[l].ready.pos => k = l
<1>1. \A k \in LoadsAnswered' :
        k \in Nat /\ k + 1 \in LoadsAnswered /\ completions'[k] = completions[k + 1]
  BY AnswersMoveUp
<1>2. ASSUME NEW k \in LoadsAnswered'
      PROVE  requested'[completions'[k].ready.pos] = completions'[k].ready.request
  <2>1. k + 1 \in LoadsAnswered /\ completions'[k] = completions[k + 1]
    BY <1>1
  <2>. QED
    BY <2>1 DEF LoadsCarryTheirRequest, Expected
<1>3. ASSUME NEW k \in LoadsAnswered', NEW l \in LoadsAnswered',
             completions'[k].ready.pos = completions'[l].ready.pos
      PROVE  k = l
  <2>1. /\ k \in Nat /\ k + 1 \in LoadsAnswered /\ completions'[k] = completions[k + 1]
        /\ l \in Nat /\ l + 1 \in LoadsAnswered /\ completions'[l] = completions[l + 1]
    BY <1>1
  <2>2. k + 1 = l + 1
    BY <1>3, <2>1, NoAnswerTwice
  <2>. QED
    BY <2>1, <2>2
<1>. QED
  BY <1>2, <1>3

\* An answer that is no load leaves the regions on their way as they are.
LEMMA SettledKeepsLoads ==
  ASSUME LoadInv, completions # <<>>, completions' = Tail(completions),
         Head(completions).kind # "ready",
         UNCHANGED <<commands, ready, requested>>,
         Ticking' => Ticking, pc' # "down"
  PROVE  LoadsMatchRequests' /\ (pc' = "down" => Outstanding' = {})
<1>t. TypeOK /\ LoadsCarryTheirRequest /\ NoRegionLoadsTwice /\ NoRequestIsForgotten
  BY DEF LoadInv, SaveInv, LoadsMatchRequests
<1>1. LoadsQueued' = LoadsQueued /\ QueuedRegions' = QueuedRegions
  BY DEF LoadsQueued, QueuedRegions
<1>2. /\ \A k \in LoadsAnswered' :
           k \in Nat /\ k + 1 \in LoadsAnswered /\ completions'[k] = completions[k + 1]
      /\ \A k \in LoadsAnswered : k - 1 \in LoadsAnswered' /\ completions'[k - 1] = completions[k]
  BY <1>t, AnswersMoveUp
<1>3. AnsweredRegions' = AnsweredRegions
  <2>1. ASSUME NEW k \in LoadsAnswered' PROVE completions'[k].ready.pos \in AnsweredRegions
    <3>1. k + 1 \in LoadsAnswered /\ completions'[k] = completions[k + 1]
      BY <1>2
    <3>. QED
      BY <3>1 DEF AnsweredRegions
  <2>2. ASSUME NEW k \in LoadsAnswered PROVE completions[k].ready.pos \in AnsweredRegions'
    <3>1. k - 1 \in LoadsAnswered' /\ completions'[k - 1] = completions[k]
      BY <1>2
    <3>. QED
      BY <3>1 DEF AnsweredRegions
  <2>. QED
    BY <2>1, <2>2 DEF AnsweredRegions
<1>4. ReadyRegions' = ReadyRegions /\ Outstanding' = Outstanding
  BY DEF ReadyRegions, Outstanding
<1>5. LoadsCarryTheirRequest'
  BY <1>t, <1>1, AnsweredLoadsMove DEF LoadsCarryTheirRequest, Expected
<1>6. \A k, l \in LoadsAnswered' :
        completions'[k].ready.pos = completions'[l].ready.pos => k = l
  BY <1>t, AnsweredLoadsMove
<1>7. NoRegionLoadsTwice'
  <2>1. QueuedRegions' = QueuedRegions /\ ready' = ready
    BY <1>1 DEF QueuedRegions, LoadsQueued
  <2>2. \A k, l \in LoadsQueued' : commands'[k].pos = commands'[l].pos => k = l
    BY <1>t, <1>1 DEF NoRegionLoadsTwice, LoadsQueued
  <2>3. \A e, f \in ready' : e.pos = f.pos => e = f
    BY <1>t, <2>1 DEF NoRegionLoadsTwice
  <2>4. /\ QueuedRegions' \cap AnsweredRegions' = {}
        /\ (QueuedRegions' \cup AnsweredRegions') \cap ReadyRegions' = {}
    BY <1>t, <1>3, <1>4, <2>1 DEF NoRegionLoadsTwice
  <2>. QED
    BY <1>6, <2>2, <2>3, <2>4 DEF NoRegionLoadsTwice
<1>8. NoRequestIsForgotten'
  BY <1>t, <1>1, <1>3, <1>4 DEF NoRequestIsForgotten
<1>. QED
  BY <1>5, <1>7, <1>8 DEF LoadsMatchRequests

\* A load that is received waits for integration instead of for its receipt;
\* while the server flushes it is dropped.
LEMMA ReceivedKeepsLoads ==
  ASSUME LoadInv, completions # <<>>, completions' = Tail(completions),
         Head(completions).kind = "ready",
         \/ ready' = ready \cup {Head(completions).ready}
         \/ ready' = ready /\ ~Ticking',
         UNCHANGED <<commands, requested>>,
         Ticking' => Ticking, pc' # "down"
  PROVE  LoadsMatchRequests' /\ (pc' = "down" => Outstanding' = {})
<1> DEFINE m == Head(completions).ready
<1>t. TypeOK /\ LoadsCarryTheirRequest /\ NoRegionLoadsTwice /\ NoRequestIsForgotten
  BY DEF LoadInv, SaveInv, LoadsMatchRequests
<1>1. LoadsQueued' = LoadsQueued /\ QueuedRegions' = QueuedRegions
  BY DEF LoadsQueued, QueuedRegions
<1>2. /\ \A k \in LoadsAnswered' :
           k \in Nat /\ k + 1 # 1 /\ k + 1 \in LoadsAnswered /\ completions'[k] = completions[k + 1]
      /\ \A k \in LoadsAnswered :
           k # 1 => k - 1 \in LoadsAnswered' /\ completions'[k - 1] = completions[k]
      /\ 1 \in LoadsAnswered /\ m = completions[1].ready
  BY <1>t, AnswersMoveUp
<1>3. m.pos \in AnsweredRegions /\ Expected(m)
  BY <1>t, <1>2 DEF AnsweredRegions, LoadsCarryTheirRequest
<1>4. AnsweredRegions' = AnsweredRegions \ {m.pos}
  <2>1. ASSUME NEW k \in LoadsAnswered'
        PROVE  completions'[k].ready.pos \in AnsweredRegions \ {m.pos}
    <3>1. /\ k + 1 # 1 /\ k + 1 \in LoadsAnswered /\ completions'[k] = completions[k + 1]
          /\ 1 \in LoadsAnswered /\ m = completions[1].ready
      BY <1>2
    <3>2. completions[k + 1].ready.pos # completions[1].ready.pos
      BY <1>t, <3>1, NoAnswerTwice
    <3>. QED
      BY <3>1, <3>2 DEF AnsweredRegions
  <2>2. ASSUME NEW k \in LoadsAnswered, completions[k].ready.pos # m.pos
        PROVE  completions[k].ready.pos \in AnsweredRegions'
    <3>1. k # 1
      BY <1>2, <2>2
    <3>2. k - 1 \in LoadsAnswered' /\ completions'[k - 1] = completions[k]
      BY <1>2, <3>1
    <3>. QED
      BY <3>2 DEF AnsweredRegions
  <2>3. AnsweredRegions' \subseteq AnsweredRegions \ {m.pos}
    BY <2>1 DEF AnsweredRegions
  <2>4. AnsweredRegions \ {m.pos} \subseteq AnsweredRegions'
    <3>. HIDE DEF m
    <3>. QED
      BY <2>2 DEF AnsweredRegions
  <2>. QED
    BY <2>3, <2>4
<1>5. ReadyRegions' \subseteq ReadyRegions \cup {m.pos} /\ Outstanding' = Outstanding
  BY DEF ReadyRegions, Outstanding
<1>6. Ticking' => ReadyRegions' = ReadyRegions \cup {m.pos}
  BY DEF ReadyRegions
<1>7. LoadsCarryTheirRequest'
  BY <1>t, <1>1, <1>3, AnsweredLoadsMove DEF LoadsCarryTheirRequest, Expected
<1>8. \A k, l \in LoadsAnswered' :
        completions'[k].ready.pos = completions'[l].ready.pos => k = l
  BY <1>t, AnsweredLoadsMove
<1>9. m.pos \notin ReadyRegions
  BY <1>t, <1>3 DEF NoRegionLoadsTwice
<1>10. \A e, f \in ready' : e.pos = f.pos => e = f
  BY <1>t, <1>9 DEF NoRegionLoadsTwice, ReadyRegions
<1>11. m.pos \notin QueuedRegions
  BY <1>t, <1>3 DEF NoRegionLoadsTwice
<1>12. NoRegionLoadsTwice'
  <2>1. \A k, l \in LoadsQueued' : commands'[k].pos = commands'[l].pos => k = l
    BY <1>t, <1>1 DEF NoRegionLoadsTwice
  <2>2. /\ QueuedRegions \cap AnsweredRegions = {}
        /\ (QueuedRegions \cup AnsweredRegions) \cap ReadyRegions = {}
    BY <1>t DEF NoRegionLoadsTwice
  <2>3. /\ QueuedRegions' \cap AnsweredRegions' = {}
        /\ (QueuedRegions' \cup AnsweredRegions') \cap ReadyRegions' = {}
    BY <2>2, <1>1, <1>4, <1>5, <1>11
  <2>. QED
    BY <1>8, <1>10, <2>1, <2>3 DEF NoRegionLoadsTwice
<1>13. NoRequestIsForgotten'
  BY <1>t, <1>1, <1>4, <1>5, <1>6 DEF NoRequestIsForgotten
<1>. QED
  BY <1>7, <1>12, <1>13 DEF LoadsMatchRequests

\* Behind the command that is taken nothing changes for a load.
LEMMA QueuedLoadsMove ==
  ASSUME TypeOK, LoadsCarryTheirRequest, NoRegionLoadsTwice, UNCHANGED requested,
         commands # <<>>, commands' = Tail(commands)
  PROVE  /\ \A k \in LoadsQueued' : requested'[commands'[k].pos] = commands'[k].request
         /\ \A k, l \in LoadsQueued' : commands'[k].pos = commands'[l].pos => k = l
         /\ Head(commands).kind # "load" => QueuedRegions' = QueuedRegions
         /\ Head(commands).kind = "load" => QueuedRegions' = QueuedRegions \ {Head(commands).pos}
<1>1. \A k \in LoadsQueued' :
        k \in Nat /\ k + 1 # 1 /\ k + 1 \in LoadsQueued /\ commands'[k] = commands[k + 1]
  BY CommandsMoveUp
<1>2. ASSUME NEW k \in LoadsQueued'
      PROVE  requested'[commands'[k].pos] = commands'[k].request
  <2>1. k + 1 \in LoadsQueued /\ commands'[k] = commands[k + 1]
    BY <1>1
  <2>. QED
    BY <2>1 DEF LoadsCarryTheirRequest
<1>3. ASSUME NEW k \in LoadsQueued', NEW l \in LoadsQueued', commands'[k].pos = commands'[l].pos
      PROVE  k = l
  <2>1. /\ k \in Nat /\ k + 1 \in LoadsQueued /\ commands'[k] = commands[k + 1]
        /\ l \in Nat /\ l + 1 \in LoadsQueued /\ commands'[l] = commands[l + 1]
    BY <1>1
  <2>2. k + 1 = l + 1
    BY <1>3, <2>1, NoLoadTwice
  <2>. QED
    BY <2>1, <2>2
<1>4. ASSUME NEW k \in LoadsQueued'
      PROVE  /\ commands'[k].pos \in QueuedRegions
             /\ Head(commands).kind = "load" => commands'[k].pos # Head(commands).pos
  <2>1. k + 1 # 1 /\ k + 1 \in LoadsQueued /\ commands'[k] = commands[k + 1]
    BY <1>1
  <2>2. Head(commands).kind = "load" => 1 \in LoadsQueued /\ Head(commands) = commands[1]
    BY CommandsMoveUp
  <2>3. Head(commands).kind = "load" => commands[k + 1].pos # commands[1].pos
    BY <2>1, <2>2 DEF NoRegionLoadsTwice
  <2>. QED
    BY <2>1, <2>2, <2>3 DEF QueuedRegions
<1>5. ASSUME NEW k \in LoadsQueued
      PROVE  \/ commands[k].pos \in QueuedRegions'
             \/ Head(commands).kind = "load" /\ commands[k].pos = Head(commands).pos
  <2>1. CASE k = 1
    BY <2>1, <1>5, CommandsMoveUp
  <2>2. CASE k # 1
    <3>1. k - 1 \in LoadsQueued' /\ commands'[k - 1] = commands[k]
      BY <2>2, CommandsMoveUp
    <3>. QED
      BY <3>1 DEF QueuedRegions
  <2>. QED
    BY <2>1, <2>2
<1>6. Head(commands).kind # "load" => QueuedRegions' = QueuedRegions
  BY <1>4, <1>5 DEF QueuedRegions
<1>7. ASSUME Head(commands).kind = "load"
      PROVE  QueuedRegions' = QueuedRegions \ {Head(commands).pos}
  <2>1. QueuedRegions' \subseteq QueuedRegions \ {Head(commands).pos}
    BY <1>4, <1>7 DEF QueuedRegions
  <2>2. QueuedRegions \ {Head(commands).pos} \subseteq QueuedRegions'
    BY <1>5 DEF QueuedRegions
  <2>. QED
    BY <2>1, <2>2
<1>. QED
  BY <1>2, <1>3, <1>6, <1>7

\* The storage thread reads a region: its load is an answer now.
LEMMA WorkerLoadKeepsLoads ==
  ASSUME LoadInv, NEW ok \in BOOLEAN, WorkerLoad(ok)
  PROVE  LoadsMatchRequests' /\ (pc' = "down" => Outstanding' = {})
<1>t. TypeOK /\ LoadsCarryTheirRequest /\ NoRegionLoadsTwice /\ NoRequestIsForgotten
  BY DEF LoadInv, SaveInv, LoadsMatchRequests
<1>u. UNCHANGED <<pc, requested, ready>> /\ pc # "down"
  BY DEF WorkerLoad, worldVars, loadVars, saveVars
<1> DEFINE m == Answer(ok)
           n == Len(completions) + 1
           r == Head(commands).pos
<1>1. /\ commands # <<>> /\ commands' = Tail(commands) /\ Head(commands).kind = "load"
      /\ completions \in Seq(Completions) /\ m \in Completions
      /\ completions' = Append(completions, m)
      /\ m.kind = "ready" /\ m.ready.pos = r /\ m.ready.request = Head(commands).request
  BY <1>t, LoadAnswered DEF Answer, Completions, LoadCommands
<1>2. /\ \A k \in LoadsQueued' : requested'[commands'[k].pos] = commands'[k].request
      /\ \A k, l \in LoadsQueued' : commands'[k].pos = commands'[l].pos => k = l
      /\ QueuedRegions' = QueuedRegions \ {r}
  BY <1>t, <1>u, <1>1, QueuedLoadsMove
<1>3. r \in QueuedRegions /\ requested[r] = Head(commands).request
  BY <1>t, <1>1, CommandsMoveUp DEF QueuedRegions, LoadsCarryTheirRequest
<1>4. /\ LoadsAnswered' = LoadsAnswered \cup {n} /\ n \notin LoadsAnswered
      /\ \A k \in LoadsAnswered : completions'[k] = completions[k]
      /\ completions'[n] = m
  BY <1>1, Sent DEF LoadsAnswered
<1>5. AnsweredRegions' = AnsweredRegions \cup {r}
  <2>1. completions'[n].ready.pos = r
    BY <1>1, <1>4
  <2>. HIDE DEF n, m, r
  <2>2. AnsweredRegions' \subseteq AnsweredRegions \cup {r}
    BY <1>4, <2>1 DEF AnsweredRegions
  <2>3. AnsweredRegions \cup {r} \subseteq AnsweredRegions'
    BY <1>4, <2>1 DEF AnsweredRegions
  <2>. QED
    BY <2>2, <2>3
<1>6. ReadyRegions' = ReadyRegions /\ Outstanding' = Outstanding
  BY <1>u DEF ReadyRegions, Outstanding
<1>7. \A k \in LoadsAnswered' :
        requested'[completions'[k].ready.pos] = completions'[k].ready.request
  <2>1. /\ completions'[n].ready.pos = r
        /\ completions'[n].ready.request = Head(commands).request
    BY <1>1, <1>4
  <2>2. ASSUME NEW k \in LoadsAnswered
        PROVE  requested[completions[k].ready.pos] = completions[k].ready.request
    BY <1>t DEF LoadsCarryTheirRequest, Expected
  <2>. HIDE DEF n, m, r
  <2>. QED
    BY <1>u, <1>3, <1>4, <2>1, <2>2
<1>8. LoadsCarryTheirRequest'
  BY <1>t, <1>u, <1>2, <1>7 DEF LoadsCarryTheirRequest, Expected
<1>9. r \notin AnsweredRegions /\ r \notin ReadyRegions
  BY <1>t, <1>3 DEF NoRegionLoadsTwice
<1>10. \A k, l \in LoadsAnswered' :
         completions'[k].ready.pos = completions'[l].ready.pos => k = l
  <2>1. \A k \in LoadsAnswered : completions[k].ready.pos # r
    BY <1>9 DEF AnsweredRegions
  <2>2. \A k \in LoadsAnswered : completions'[k].ready.pos # r
    BY <1>4, <2>1
  <2>3. completions'[n].ready.pos = r
    BY <1>1, <1>4
  <2>4. \A k, l \in LoadsAnswered :
          completions'[k].ready.pos = completions'[l].ready.pos => k = l
    BY <1>t, <1>4 DEF NoRegionLoadsTwice
  <2>. HIDE DEF n, r
  <2>. QED
    BY <1>4, <2>2, <2>3, <2>4
<1>11. NoRegionLoadsTwice'
  <2>1. /\ QueuedRegions \cap AnsweredRegions = {}
        /\ (QueuedRegions \cup AnsweredRegions) \cap ReadyRegions = {}
        /\ \A e, f \in ready' : e.pos = f.pos => e = f
    BY <1>t, <1>u DEF NoRegionLoadsTwice
  <2>2. /\ QueuedRegions' \cap AnsweredRegions' = {}
        /\ (QueuedRegions' \cup AnsweredRegions') \cap ReadyRegions' = {}
    BY <2>1, <1>2, <1>5, <1>6, <1>9
  <2>. QED
    BY <1>2, <1>10, <2>1, <2>2 DEF NoRegionLoadsTwice
<1>12. NoRequestIsForgotten'
  BY <1>t, <1>u, <1>2, <1>5, <1>6 DEF NoRequestIsForgotten, Ticking
<1>. QED
  BY <1>u, <1>8, <1>11, <1>12 DEF LoadsMatchRequests

\* It writes a batch: no load is touched.
LEMMA WorkerSaveKeepsLoads ==
  ASSUME LoadInv, NEW ok \in BOOLEAN, WorkerSave(ok)
  PROVE  LoadsMatchRequests' /\ (pc' = "down" => Outstanding' = {})
<1>t. TypeOK /\ LoadsCarryTheirRequest /\ NoRegionLoadsTwice /\ NoRequestIsForgotten
  BY DEF LoadInv, SaveInv, LoadsMatchRequests
<1>u. UNCHANGED <<pc, requested, ready>> /\ pc # "down"
  BY DEF WorkerSave, worldVars, loadVars, saveVars
<1> DEFINE m == [kind |-> IF ok THEN "saved" ELSE "failed"]
<1>1. /\ commands # <<>> /\ commands' = Tail(commands) /\ Head(commands).kind # "load"
      /\ completions \in Seq(Completions) /\ m \in Completions
      /\ completions' = Append(completions, m) /\ m.kind # "ready"
  BY <1>t DEF WorkerSave, TypeOK, Completions, SaveCompletions
<1>2. /\ \A k \in LoadsQueued' : requested'[commands'[k].pos] = commands'[k].request
      /\ \A k, l \in LoadsQueued' : commands'[k].pos = commands'[l].pos => k = l
      /\ QueuedRegions' = QueuedRegions
  BY <1>t, <1>u, <1>1, QueuedLoadsMove
<1>3. /\ LoadsAnswered' = LoadsAnswered
      /\ \A k \in LoadsAnswered : completions'[k] = completions[k]
  BY <1>1, Sent DEF LoadsAnswered
<1>4. AnsweredRegions' = AnsweredRegions /\ ReadyRegions' = ReadyRegions /\ Outstanding' = Outstanding
  BY <1>u, <1>3 DEF ReadyRegions, Outstanding, AnsweredRegions
<1>5. LoadsCarryTheirRequest'
  BY <1>t, <1>u, <1>2, <1>3 DEF LoadsCarryTheirRequest, Expected
<1>6. NoRegionLoadsTwice'
  BY <1>t, <1>u, <1>2, <1>3, <1>4 DEF NoRegionLoadsTwice
<1>7. NoRequestIsForgotten'
  BY <1>t, <1>u, <1>2, <1>4 DEF NoRequestIsForgotten, Ticking
<1>. QED
  BY <1>u, <1>5, <1>6, <1>7 DEF LoadsMatchRequests

\* The regions whose load is integrated or dropped wait no longer.
LEMMA IntegrateKeepsLoads ==
  ASSUME LoadInv, Integrate
  PROVE  LoadsMatchRequests' /\ (pc' = "down" => Outstanding' = {})
<1>t. TypeOK /\ LoadsCarryTheirRequest /\ NoRegionLoadsTwice /\ NoRequestIsForgotten
  BY DEF LoadInv, SaveInv, LoadsMatchRequests
<1> DEFINE gone == Unwanted \cup Integrable
<1>1. /\ completions = <<>> /\ UNCHANGED <<commands, completions>>
      /\ pc = "drain" /\ pc' = "request"
      /\ ready' = ready \ gone
      /\ requested' = [r \in Regions |-> IF r \in Settled THEN NoRequest ELSE requested[r]]
  BY DEF Integrate, Drained
<1>2. gone \subseteq ready /\ Settled = {e.pos : e \in gone}
  BY <1>t DEF Unwanted, Integrable, Settled, LoadsCarryTheirRequest
<1>3. LoadsAnswered = {} /\ LoadsAnswered' = {} /\ AnsweredRegions = {} /\ AnsweredRegions' = {}
  BY <1>1 DEF LoadsAnswered, AnsweredRegions
<1>4. LoadsQueued' = LoadsQueued /\ QueuedRegions' = QueuedRegions
  BY <1>1 DEF LoadsQueued, QueuedRegions
<1>5. \A k \in LoadsQueued : commands[k].pos \in Regions /\ commands[k].pos \notin Settled
  <2>1. \A k \in LoadsQueued : commands[k].pos \in Regions
    BY <1>t, LoadsAreTyped DEF LoadCommands
  <2>2. Settled \subseteq ReadyRegions
    BY <1>2 DEF ReadyRegions
  <2>. QED
    BY <1>t, <2>1, <2>2 DEF NoRegionLoadsTwice, QueuedRegions
<1>6. \A e \in ready' : e.pos \in Regions /\ e.pos \notin Settled
  BY <1>t, <1>1, <1>2 DEF NoRegionLoadsTwice, TypeOK, Loads
<1>7. LoadsCarryTheirRequest'
  BY <1>t, <1>1, <1>3, <1>4, <1>5, <1>6 DEF LoadsCarryTheirRequest, Expected
<1>8. ReadyRegions' = ReadyRegions \ Settled
  BY <1>1, <1>2, <1>6 DEF ReadyRegions
<1>9. NoRegionLoadsTwice'
  BY <1>t, <1>1, <1>3, <1>4, <1>8 DEF NoRegionLoadsTwice
<1>10. Outstanding' = Outstanding \ Settled
  BY <1>1 DEF Outstanding
<1>11. NoRequestIsForgotten'
  <2>1. Outstanding \subseteq QueuedRegions \cup ReadyRegions
    BY <1>t, <1>1, <1>3 DEF NoRequestIsForgotten, Ticking
  <2>. QED
    BY <1>4, <1>8, <1>10, <2>1 DEF NoRequestIsForgotten
<1>. QED
  BY <1>1, <1>7, <1>9, <1>11 DEF LoadsMatchRequests

\* A region that is requested had no request, so no load of it is on its way.
LEMMA RequestKeepsLoads ==
  ASSUME LoadInv, RequestRegion
  PROVE  LoadsMatchRequests' /\ (pc' = "down" => Outstanding' = {})
<1>t. TypeOK /\ LoadsCarryTheirRequest /\ NoRegionLoadsTwice /\ NoRequestIsForgotten
  BY DEF LoadInv, SaveInv, LoadsMatchRequests
<1>u. pc = "request" /\ pc' = "request" /\ UNCHANGED completions
  BY DEF RequestRegion
<1>1. PICK r \in Missing :
        /\ requested' = [requested EXCEPT ![r] = nextRequest]
        /\ IF Retained.regions[r] # Nil
             THEN /\ ready' = ready \cup
                       {[request |-> nextRequest, pos |-> r, load |-> Retained.regions[r]]}
                  /\ UNCHANGED commands
             ELSE /\ commands' = Append(commands,
                       [kind |-> "load", request |-> nextRequest, pos |-> r])
                  /\ UNCHANGED ready
  BY DEF RequestRegion
<1> DEFINE e == [request |-> nextRequest, pos |-> r, load |-> Retained.regions[r]]
           c == [kind |-> "load", request |-> nextRequest, pos |-> r]
           n == Len(commands) + 1
<1>2. r \in Regions /\ nextRequest \in RequestIds /\ r \notin Outstanding
  BY <1>t DEF Missing, TypeOK, Outstanding
<1>3. r \notin QueuedRegions /\ r \notin AnsweredRegions /\ r \notin ReadyRegions
  BY <1>t, <1>2, OnItsWayIsOutstanding
<1>4. /\ \A k \in LoadsQueued : commands[k].pos # r
      /\ \A k \in LoadsAnswered : completions[k].ready.pos # r
      /\ \A f \in ready : f.pos # r
  BY <1>3 DEF QueuedRegions, AnsweredRegions, ReadyRegions
<1>5. requested'[r] = nextRequest /\ \A q \in Regions : q # r => requested'[q] = requested[q]
  BY <1>t, <1>1, <1>2 DEF TypeOK
<1>6. Outstanding' = Outstanding \cup {r}
  BY <1>2, <1>5, ZeroIsNoRequest DEF Outstanding
<1>7. LoadsAnswered' = LoadsAnswered /\ AnsweredRegions' = AnsweredRegions
  BY <1>u DEF LoadsAnswered, AnsweredRegions
<1>8. /\ \A k \in LoadsAnswered :
           requested'[completions[k].ready.pos] = completions[k].ready.request
      /\ \A k \in LoadsQueued : requested'[commands[k].pos] = commands[k].request
      /\ \A f \in ready : requested'[f.pos] = f.request
  <2>1. /\ \A k \in LoadsAnswered : completions[k].ready.pos \in Regions
        /\ \A k \in LoadsQueued : commands[k].pos \in Regions
        /\ \A f \in ready : f.pos \in Regions
    BY <1>t, LoadsAreTyped DEF LoadCommands, Loads, TypeOK
  <2>. QED
    BY <1>t, <1>4, <1>5, <2>1 DEF LoadsCarryTheirRequest, Expected
<1>9. CASE ready' = ready \cup {e} /\ UNCHANGED commands
  <2>1. LoadsQueued' = LoadsQueued /\ QueuedRegions' = QueuedRegions
    BY <1>9 DEF LoadsQueued, QueuedRegions
  <2>2. ReadyRegions' = ReadyRegions \cup {r}
    <3>1. e.pos = r
      OBVIOUS
    <3>. HIDE DEF e
    <3>. QED
      BY <1>9, <3>1 DEF ReadyRegions
  <2>3. LoadsCarryTheirRequest'
    BY <1>u, <1>5, <1>7, <1>8, <1>9, <2>1 DEF LoadsCarryTheirRequest, Expected
  <2>4. \A f, g \in ready' : f.pos = g.pos => f = g
    BY <1>t, <1>4, <1>9 DEF NoRegionLoadsTwice
  <2>5. NoRegionLoadsTwice'
    BY <1>t, <1>u, <1>3, <1>7, <1>9, <2>1, <2>2, <2>4 DEF NoRegionLoadsTwice
  <2>6. NoRequestIsForgotten'
    BY <1>t, <1>u, <1>6, <1>7, <2>1, <2>2 DEF NoRequestIsForgotten, Ticking
  <2>. QED
    BY <1>u, <2>3, <2>5, <2>6 DEF LoadsMatchRequests
<1>10. CASE commands' = Append(commands, c) /\ UNCHANGED ready
  <2>1. commands \in Seq(Commands) /\ c \in Commands
    BY <1>t, <1>2 DEF TypeOK, Commands, LoadCommands
  <2>2. /\ LoadsQueued' = LoadsQueued \cup {n} /\ n \notin LoadsQueued
        /\ \A k \in LoadsQueued : commands'[k] = commands[k]
        /\ commands'[n] = c
    BY <1>10, <2>1, Sent DEF LoadsQueued
  <2>0. c.pos = r /\ c.request = nextRequest
    OBVIOUS
  <2>. HIDE DEF c, n
  <2>3. QueuedRegions' = QueuedRegions \cup {r} /\ ReadyRegions' = ReadyRegions
    <3>1. QueuedRegions' = {commands'[k].pos : k \in LoadsQueued \cup {n}}
      BY <2>2 DEF QueuedRegions
    <3>2. ASSUME NEW k \in LoadsQueued \cup {n}
          PROVE  commands'[k].pos \in QueuedRegions \cup {r}
      BY <2>0, <2>2, <3>2 DEF QueuedRegions
    <3>3. ASSUME NEW k \in LoadsQueued PROVE commands[k].pos \in QueuedRegions'
      BY <2>2, <3>1, <3>3
    <3>4. r \in QueuedRegions'
      BY <2>0, <2>2, <3>1
    <3>5. QueuedRegions' \subseteq QueuedRegions \cup {r}
      BY <3>1, <3>2
    <3>6. QueuedRegions \cup {r} \subseteq QueuedRegions'
      BY <3>3, <3>4 DEF QueuedRegions
    <3>7. ReadyRegions' = ReadyRegions
      BY <1>10 DEF ReadyRegions
    <3>. QED
      BY <3>5, <3>6, <3>7
  <2>4. LoadsCarryTheirRequest'
    <3>1. \A k \in LoadsQueued' : requested'[commands'[k].pos] = commands'[k].request
      BY <1>5, <1>8, <2>0, <2>2
    <3>. QED
      BY <1>u, <1>7, <1>8, <1>10, <3>1 DEF LoadsCarryTheirRequest, Expected
  <2>5. \A k, l \in LoadsQueued' : commands'[k].pos = commands'[l].pos => k = l
    <3>1. \A k, l \in LoadsQueued : commands'[k].pos = commands'[l].pos => k = l
      BY <1>t, <2>2 DEF NoRegionLoadsTwice
    <3>2. \A k \in LoadsQueued : commands'[k].pos # r
      BY <1>4, <2>2
    <3>3. commands'[n].pos = r
      BY <2>0, <2>2
    <3>. QED
      BY <2>2, <3>1, <3>2, <3>3
  <2>6. NoRegionLoadsTwice'
    <3>1. \A k, l \in LoadsAnswered' :
            completions'[k].ready.pos = completions'[l].ready.pos => k = l
      BY <1>t, <1>u, <1>7 DEF NoRegionLoadsTwice
    <3>2. \A x, y \in ready' : x.pos = y.pos => x = y
      BY <1>t, <1>10 DEF NoRegionLoadsTwice
    <3>3. /\ QueuedRegions' \cap AnsweredRegions' = {}
          /\ (QueuedRegions' \cup AnsweredRegions') \cap ReadyRegions' = {}
      BY <1>t, <1>3, <1>7, <2>3 DEF NoRegionLoadsTwice
    <3>. QED
      BY <2>5, <3>1, <3>2, <3>3 DEF NoRegionLoadsTwice
  <2>7. NoRequestIsForgotten'
    BY <1>t, <1>u, <1>6, <1>7, <2>3 DEF NoRequestIsForgotten, Ticking
  <2>. QED
    BY <1>u, <2>4, <2>6, <2>7 DEF LoadsMatchRequests
<1>. QED
  BY <1>1, <1>9, <1>10

\* Nothing is asked for and nothing is on its way when a process has died.
LEMMA DieKeepsLoads ==
  ASSUME Die
  PROVE  LoadsMatchRequests' /\ (pc' = "down" => Outstanding' = {})
<1>1. DOMAIN commands' = {} /\ DOMAIN completions' = {} /\ ready' = {} /\ pc' = "down"
  BY DEF Die
<1>2. LoadsQueued' = {} /\ LoadsAnswered' = {}
  BY <1>1 DEF LoadsQueued, LoadsAnswered
<1>3. QueuedRegions' = {} /\ AnsweredRegions' = {} /\ ReadyRegions' = {} /\ Outstanding' = {}
  BY <1>1, <1>2 DEF QueuedRegions, AnsweredRegions, ReadyRegions, Outstanding, Die
<1>. QED
  BY <1>1, <1>2, <1>3 DEF LoadsMatchRequests, LoadsCarryTheirRequest, NoRegionLoadsTwice,
                          NoRequestIsForgotten, Ticking

\* At the start nothing is asked for.
LEMMA LoadInvInit == Init => LoadInv
<1> SUFFICES ASSUME Init PROVE LoadInv
  OBVIOUS
<1>1. DOMAIN commands = {} /\ DOMAIN completions = {} /\ ready = {} /\ pc = "top"
  BY DEF Init
<1>2. LoadsQueued = {} /\ LoadsAnswered = {}
  BY <1>1 DEF LoadsQueued, LoadsAnswered
<1>3. QueuedRegions = {} /\ AnsweredRegions = {} /\ ReadyRegions = {} /\ Outstanding = {}
  BY <1>1, <1>2 DEF QueuedRegions, AnsweredRegions, ReadyRegions, Outstanding, Init
<1>. QED
  BY <1>1, <1>2, <1>3, SaveInvInit
     DEF LoadInv, LoadsMatchRequests, LoadsCarryTheirRequest, NoRegionLoadsTwice,
         NoRequestIsForgotten, Ticking

\* Every step keeps loads and requests matched.
LEMMA LoadInvStep == LoadInv /\ [Next]_vars => LoadInv'
<1> SUFFICES ASSUME LoadInv, [Next]_vars PROVE LoadInv'
  OBVIOUS
<1>t. SaveInv /\ TypeOK
  BY DEF LoadInv, SaveInv
<1>s. SaveInv'
  BY <1>t, SaveInvTypes, SaveInvInFlight, SaveInvStutter DEF SaveInv
<1> SUFFICES LoadsMatchRequests' /\ (pc' = "down" => Outstanding' = {})
  BY <1>s DEF LoadInv
<1> USE DEF worldVars, loadVars, saveVars
<1>1. CASE BeginTick \/ ComputeTickets \/ AdvanceClock \/ Expire \/ Stop \/ Flushed \/ Open
           \/ UNCHANGED vars
  BY <1>1, ChannelsStill DEF BeginTick, ComputeTickets, AdvanceClock, Expire, Stop, Flushed, Open,
     vars, Ticking
<1>2. CASE ReceiveCompletion
  <2>1. /\ completions # <<>> /\ completions' = Tail(completions)
        /\ UNCHANGED <<pc, commands, requested>> /\ pc = "drain"
    BY <1>2 DEF ReceiveCompletion
  <2>2. CASE Head(completions).kind = "ready"
    BY <1>2, <2>1, <2>2, ReceivedKeepsLoads DEF ReceiveCompletion, Ticking
  <2>3. CASE Head(completions).kind # "ready"
    BY <1>2, <2>1, <2>3, SettledKeepsLoads DEF ReceiveCompletion, Ticking
  <2>. QED
    BY <2>2, <2>3
<1>3. CASE Integrate
  BY <1>3, IntegrateKeepsLoads
<1>4. CASE IntegrateFails \/ JoinWorker \/ Crash
  BY <1>4, DieKeepsLoads DEF IntegrateFails, JoinWorker, Crash
<1>5. CASE RequestRegion
  BY <1>5, RequestKeepsLoads
<1>6. CASE Autosave
  <2>1. Over(WorldSnapshot, pending) \in Batches
    BY <1>t, SnapshotBatch, OverBatches DEF TypeOK
  <2>2. /\ UNCHANGED <<completions, ready, requested>> /\ pc = "save" /\ pc' = "top"
        /\ LoadsAnswered' = LoadsAnswered
    BY <1>6 DEF Autosave, LoadsAnswered
  <2>3. LoadsQueued' = LoadsQueued /\ \A k \in LoadsQueued : commands'[k] = commands[k]
    BY <1>t, <1>6, <2>1, StartSaveKeepsLoads DEF Autosave
  <2>. QED
    BY <2>2, <2>3, SameLoads DEF Ticking
<1>7. CASE StartFinalSave
  <2>1. /\ UNCHANGED <<completions, ready, requested>> /\ pc' = "final"
        /\ LoadsAnswered' = LoadsAnswered /\ StartSave(pending)
    BY <1>7 DEF StartFinalSave, LoadsAnswered
  <2>2. LoadsQueued' = LoadsQueued /\ \A k \in LoadsQueued : commands'[k] = commands[k]
    BY <1>t, <2>1, StartSaveKeepsLoads DEF TypeOK
  <2>. QED
    BY <2>1, <2>2, SameLoads DEF Ticking
<1>8. CASE AwaitSave
  <2>1. /\ completions # <<>> /\ completions' = Tail(completions)
        /\ UNCHANGED <<ready, commands, requested>> /\ pc' \in {"finish", "final", "failed"}
    BY <1>8 DEF AwaitSave
  <2>2. CASE Head(completions).kind = "ready"
    BY <2>1, <2>2, ReceivedKeepsLoads DEF Ticking
  <2>3. CASE Head(completions).kind # "ready"
    BY <2>1, <2>3, SettledKeepsLoads DEF Ticking
  <2>. QED
    BY <2>2, <2>3
<1>9. ASSUME NEW ok \in BOOLEAN, WorkerLoad(ok)
      PROVE  LoadsMatchRequests' /\ (pc' = "down" => Outstanding' = {})
  BY <1>9, WorkerLoadKeepsLoads
<1>10. ASSUME NEW ok \in BOOLEAN, WorkerSave(ok)
       PROVE  LoadsMatchRequests' /\ (pc' = "down" => Outstanding' = {})
  BY <1>10, WorkerSaveKeepsLoads
<1>11. ASSUME NEW u \in Players, Join(u) \/ Depart(u)
       PROVE  LoadsMatchRequests' /\ (pc' = "down" => Outstanding' = {})
  BY <1>11, ChannelsStill DEF Join, Depart, Ticking
<1>12. ASSUME NEW u \in Players, NEW r \in Regions, NEW i \in Items, Dig(u, r, i) \/ Place(u, r, i)
       PROVE  LoadsMatchRequests' /\ (pc' = "down" => Outstanding' = {})
  BY <1>12, ChannelsStill DEF Dig, Place, Ticking
<1>13. ASSUME NEW r \in Regions, NEW q \in Regions, NEW i \in Items, Flow(r, q, i)
       PROVE  LoadsMatchRequests' /\ (pc' = "down" => Outstanding' = {})
  BY <1>13, ChannelsStill DEF Flow, Ticking
<1>14. ASSUME NEW a \in Ages, SetTime(a)
       PROVE  LoadsMatchRequests' /\ (pc' = "down" => Outstanding' = {})
  BY <1>14, ChannelsStill DEF SetTime, Ticking
<1>. QED
  BY <1>1, <1>2, <1>3, <1>4, <1>5, <1>6, <1>7, <1>8, <1>9, <1>10, <1>11, <1>12, <1>13, <1>14
     DEF Next, Server, Worker, Environment

\* A ticking server waits for a region exactly while one load of it is on its
\* way, and that load carries the id it waits for, wherever the counter wraps.
THEOREM LoadsMatch == Spec => []LoadsMatchRequests
<1>1. LoadInv => LoadsMatchRequests
  BY DEF LoadInv
<1>. QED
  BY LoadInvInit, LoadInvStep, <1>1, PTL DEF Spec
-----------------------------------------------------------------------------
(* Persistence implements DurableWorld, and a stop that was flushed leaves *)
(* the world on disk, for every number of regions, players and items and   *)
(* every value of the limits.                                              *)
-----------------------------------------------------------------------------
(* Batches laid over each other.                                           *)

LEMMA OverAssociates ==
  ASSUME NEW a \in Batches, NEW b \in Batches, NEW c \in Batches
  PROVE  Over(Over(a, b), c) = Over(a, Over(b, c))
BY DEF Over, Prefer, Batches

\* A batch over itself is itself.
LEMMA OverItself ==
  ASSUME NEW a \in Batches
  PROVE  Over(a, a) = a
BY DEF Over, Prefer, Batches

\* The empty batch adds nothing, above or below.
LEMMA OverNothing ==
  ASSUME NEW a \in Batches
  PROVE  Over(a, Empty) = a /\ Over(Empty, a) = a
BY DEF Over, Prefer, Batches, Empty

\* The world as a batch over what is kept outside the simulation.
Kept == Over(Retained, store)

\* What is in flight, what is retained and what a crash would leave are
\* batches.
LEMMA FlyingBatch == TypeOK => Flying \in Batches /\ Retained \in Batches /\ Kept \in Batches
<1> SUFFICES ASSUME TypeOK PROVE Flying \in Batches /\ Retained \in Batches /\ Kept \in Batches
  OBVIOUS
<1>1. Flying \in Batches
  BY EmptyBatch DEF TypeOK, Flying
<1>2. Retained \in Batches
  BY RetainedBatch
<1>. QED
  BY <1>1, <1>2, OverBatches DEF Kept, TypeOK

\* The world is what is in memory over what is kept of the rest.
LEMMA WorldIsSnapshotOverKept == TypeOK => World = Resumed(Over(WorldSnapshot, Kept))
<1> SUFFICES ASSUME TypeOK PROVE World = Resumed(Over(WorldSnapshot, Kept))
  OBVIOUS
<1>1. age # Nil
  BY NilOK DEF TypeOK, Ages
<1>2. Over(WorldSnapshot, Kept).meta = age
  BY <1>1 DEF Over, WorldSnapshot, Prefer
<1>3. World.age = Resumed(Over(WorldSnapshot, Kept)).age
  BY <1>1, <1>2 DEF World, Resumed, ReadAge, Prefer
<1>4. ASSUME NEW x \in Regions
      PROVE  Prefer(sim[x], Known(x)) = ReadRegion(Over(WorldSnapshot, Kept), x)
  BY <1>4 DEF Known, ReadRegion, Over, Kept, WorldSnapshot, Prefer
<1>5. ASSUME NEW x \in Players
      PROVE  x \notin Regions /\ Prefer(players[x], Known(x)) = ReadPlayer(Over(WorldSnapshot, Kept), x)
  <2>1. x \notin Regions
    BY ConstantsOK
  <2>. QED
    BY <2>1 DEF Known, ReadPlayer, Over, Kept, WorldSnapshot, Prefer
<1>6. World.holds = Resumed(Over(WorldSnapshot, Kept)).holds
  BY <1>4, <1>5 DEF World, Resumed, Places
<1>. QED
  BY <1>3, <1>6 DEF World, Resumed

Worlds == [holds : [Places -> SUBSET Items], age : Ages]

\* A process that starts on a database resumes a world.
LEMMA ResumedIsWorld ==
  ASSUME NEW s \in Batches
  PROVE  Resumed(s) \in Worlds /\ Resumed(s) # Nil
<1>1. Resumed(s) \in Worlds
  BY ReadTypes DEF Resumed, Worlds, Places
<1>. QED
  BY <1>1, NilIsNoWorld DEF Worlds, Places

\* The photograph on its way is the batch in flight over the database.
LEMMA CutIsFlight ==
  SaveInv => Cut = IF SavesQueued = {} THEN Nil ELSE Resumed(Over(inFlight, store))
<1> SUFFICES ASSUME SaveInv
             PROVE  Cut = IF SavesQueued = {} THEN Nil ELSE Resumed(Over(inFlight, store))
  OBVIOUS
<1>1. SavesQueued # {} => commands[CHOOSE k \in SavesQueued : TRUE].batch = inFlight
  BY DEF SaveInv, OneSaveInFlight
<1>. QED
  BY <1>1 DEF Cut
-----------------------------------------------------------------------------
(* The invariant of the refinement.                                        *)

\* A region that is waited for is not simulated.
RequestedAreAway == \A r \in Regions : requested[r] # NoRequest => sim[r] = Nil

\* A load that was answered carries what the world holds of its region, and
\* the database is only asked for a region that nothing is retained of.
Current(e) == e.load = Nil \/ e.load = ReadRegion(Kept, e.pos)

LoadsAreCurrent ==
  /\ \A k \in LoadsQueued : Retained.regions[commands[k].pos] = Nil
  /\ \A k \in LoadsAnswered : Current(completions[k].ready)
  /\ \A e \in ready : Current(e)

\* A batch that was reported saved is in the database.
WrittenIsStored ==
  \A k \in SavesAnswered : completions[k].kind = "saved" => Over(inFlight, store) = store

\* Where the last snapshot is while the server stops.
StopIsStaged ==
  HasStore =>
    /\ pc = "finish" => Over(WorldSnapshot, pending) = pending
    /\ pc = "final" =>
         /\ pending = Empty
         /\ inFlight = Nil => Resumed(store) = World
         /\ inFlight # Nil => Over(WorldSnapshot, inFlight) = inFlight
    /\ pc = "joined" => Resumed(store) = World

DurableInv ==
  LoadInv /\ RequestedAreAway /\ LoadsAreCurrent /\ WrittenIsStored /\ StopIsStaged

\* The parts of the invariant that earlier lemmas ask for.
LEMMA InvTypes == DurableInv => TypeOK /\ SaveInv /\ LoadInv
BY DEF DurableInv, LoadInv, SaveInv

\* The invariant holds at the start.
LEMMA DurableInvInit == Init => DurableInv
<1> SUFFICES ASSUME Init PROVE DurableInv
  OBVIOUS
<1>1. DOMAIN commands = {} /\ DOMAIN completions = {} /\ ready = {} /\ pc = "top"
  BY DEF Init
<1>2. LoadsQueued = {} /\ LoadsAnswered = {} /\ SavesAnswered = {}
  BY <1>1 DEF LoadsQueued, LoadsAnswered, SavesAnswered
<1>3. RequestedAreAway
  BY DEF Init, RequestedAreAway
<1>. QED
  BY <1>1, <1>2, <1>3, LoadInvInit
     DEF DurableInv, LoadsAreCurrent, WrittenIsStored, StopIsStaged
-----------------------------------------------------------------------------
(* Settling a batch and writing it leave what is kept as it was.           *)

LEMMA SettleKeeps ==
  ASSUME DurableInv, completions # <<>>, Head(completions).kind # "ready",
         SettleSave(Head(completions)), UNCHANGED store
  PROVE  /\ Kept' = Kept
         /\ \A r \in Regions : Retained.regions[r] = Nil => Retained'.regions[r] = Nil
         /\ inFlight \in Batches
         /\ Head(completions).kind = "saved" => Over(inFlight, store) = store
<1>t. TypeOK /\ SaveInv
  BY InvTypes
<1>1. 1 \in SavesAnswered /\ inFlight # Nil /\ Head(completions) \in Completions
  BY <1>t, HeadOfCompletions
<1>2. Head(completions) = completions[1]
  BY <1>t, Received DEF TypeOK
<1>3. /\ inFlight \in Batches /\ pending \in Batches /\ store \in Batches
      /\ Flying = inFlight /\ Retained = Over(pending, inFlight)
  BY <1>t, <1>1 DEF TypeOK, Flying, Retained
<1>4. inFlight' = Nil /\ Flying' = Empty /\ Retained' = Over(pending', Empty)
  BY DEF SettleSave, Flying, Retained
<1>5. CASE Head(completions).kind = "failed"
  <2>1. pending' = Over(pending, inFlight)
    BY <1>5 DEF SettleSave
  <2>2. Retained' = Retained
    BY <1>3, <1>4, <2>1, OverBatches, OverNothing
  <2>. QED
    BY <1>3, <1>5, <2>2 DEF Kept
<1>6. CASE Head(completions).kind # "failed"
  <2>1. Head(completions).kind = "saved"
    BY <1>1, <1>6 DEF Completions, ReadyCompletions, SaveCompletions
  <2>2. Over(inFlight, store) = store
    BY <1>1, <1>2, <2>1 DEF DurableInv, WrittenIsStored
  <2>3. pending' = pending
    BY <1>6 DEF SettleSave
  <2>4. Retained' = pending
    BY <1>3, <1>4, <2>3, OverNothing
  <2>5. Kept' = Over(pending, store) /\ Kept = Over(Over(pending, inFlight), store)
    BY <1>3, <2>4 DEF Kept
  <2>6. Kept = Over(pending, Over(inFlight, store))
    BY <1>3, <2>5, OverAssociates
  <2>7. \A r \in Regions : Retained.regions[r] = Nil => pending.regions[r] = Nil
    BY <1>3 DEF Over, Prefer
  <2>. QED
    BY <1>3, <2>2, <2>4, <2>5, <2>6, <2>7
<1>. QED
  BY <1>5, <1>6

\* A write ends the save that was asked for and moves the batch in flight to
\* the database, so that what is kept does not change.
LEMMA WriteKeeps ==
  ASSUME SaveInv, NEW ok \in BOOLEAN, WorkerSave(ok)
  PROVE  /\ inFlight \in Batches /\ Flying = inFlight
         /\ store' = IF ok THEN Over(inFlight, store) ELSE store
         /\ Retained' = Retained /\ Kept' = Kept
         /\ ok => Over(inFlight, store') = store'
         /\ SavesQueued # {} /\ SavesQueued' = {} /\ SavesAnswered = {}
<1>t. TypeOK
  BY DEF SaveInv
<1>1. /\ commands \in Seq(Commands) /\ commands # <<>>
      /\ completions \in Seq(Completions)
  BY <1>t DEF WorkerSave, TypeOK, Commands, Completions
<1>2. 1 \in SavesQueued /\ Head(commands) = commands[1]
  BY <1>1, Received DEF WorkerSave, SavesQueued, IsSave
<1>3. /\ Head(commands).batch = inFlight
      /\ inFlight # Nil /\ SavesAnswered = {}
      /\ \A k \in SavesQueued : k = 1
  BY <1>2 DEF SaveInv, OneSaveInFlight
<1>4. inFlight \in Batches /\ pending \in Batches /\ store \in Batches /\ Flying = inFlight
  BY <1>t, <1>3 DEF TypeOK, Flying
<1>5. store' = IF ok THEN Over(inFlight, store) ELSE store
  BY <1>3 DEF WorkerSave
<1>6. SavesQueued' = {}
  BY <1>1, <1>3, Received DEF WorkerSave, SavesQueued, IsSave
<1>7. Retained' = Retained /\ Retained = Over(pending, inFlight)
  BY <1>4 DEF WorkerSave, saveVars, Retained, Flying
<1>8. ok => Over(inFlight, store') = store'
  <2>1. Over(inFlight, Over(inFlight, store)) = Over(Over(inFlight, inFlight), store)
    BY <1>4, OverAssociates
  <2>. QED
    BY <1>4, <1>5, <2>1, OverItself
<1>9. Kept' = Kept
  <2>1. CASE ok
    <3>1. Kept' = Over(Over(pending, inFlight), Over(inFlight, store))
      BY <1>5, <1>7, <2>1 DEF Kept
    <3>2. Over(Over(pending, inFlight), Over(inFlight, store))
            = Over(Over(Over(pending, inFlight), inFlight), store)
      BY <1>4, OverBatches, OverAssociates
    <3>3. Over(Over(pending, inFlight), inFlight) = Over(pending, inFlight)
      BY <1>4, OverAssociates, OverItself
    <3>. QED
      BY <1>7, <3>1, <3>2, <3>3 DEF Kept
  <2>2. CASE ~ok
    BY <1>5, <1>7, <2>2 DEF Kept
  <2>. QED
    BY <2>1, <2>2
<1>. QED
  BY <1>2, <1>3, <1>4, <1>5, <1>6, <1>7, <1>8, <1>9

\* A save that starts, or does not: what was to be saved is retained.
LEMMA StartKeeps ==
  ASSUME SaveInv, NEW p \in Batches, StartSave(p), UNCHANGED <<store, completions>>
  PROVE  /\ Retained' = Over(p, Flying) /\ Kept' = Over(p, Over(Flying, store))
         /\ Flying \in Batches
         /\ HasStore /\ inFlight = Nil /\ p # Empty =>
              /\ Flying = Empty /\ inFlight' = p /\ pending' = Empty
              /\ SavesQueued = {} /\ SavesQueued' # {}
              /\ SavesAnswered' = {}
         /\ ~(HasStore /\ inFlight = Nil /\ p # Empty) =>
              pending' = p /\ UNCHANGED <<inFlight, commands>>
<1>t. TypeOK
  BY DEF SaveInv
<1>1. Flying \in Batches /\ store \in Batches
  BY <1>t, FlyingBatch DEF TypeOK
<1>2. CASE HasStore /\ inFlight = Nil /\ p # Empty
  <2>1. Flying = Empty /\ inFlight' = p /\ pending' = Empty
    BY <1>2 DEF StartSave, Flying
  <2>2. p # Nil
    BY NilIsNoBatch
  <2>3. Retained' = Over(Empty, p) /\ Retained' = Over(p, Flying)
    BY <2>1, <2>2, OverNothing DEF Retained, Flying
  <2>4. SavesQueued = {} /\ SavesAnswered = {} /\ SavesAnswered' = {}
    BY <1>2 DEF SaveInv, OneSaveInFlight, SavesAnswered
  <2>5. SavesQueued' # {}
    <3>1. commands \in Seq(Commands) /\ [kind |-> "save", batch |-> p] \in Commands
      BY <1>t DEF TypeOK, Commands, SaveCommands
    <3>2. commands' = Append(commands, [kind |-> "save", batch |-> p])
      BY <1>2 DEF StartSave
    <3>3. /\ Len(commands) + 1 \in DOMAIN commands'
          /\ commands'[Len(commands) + 1] = [kind |-> "save", batch |-> p]
      BY <3>1, <3>2, Sent
    <3>4. Len(commands) + 1 \in SavesQueued'
      BY <3>3 DEF SavesQueued, IsSave
    <3>. QED
      BY <3>4
  <2>6. Kept' = Over(p, Over(Flying, store))
    BY <1>1, <2>3, OverAssociates DEF Kept
  <2>. QED
    BY <1>1, <1>2, <2>1, <2>3, <2>4, <2>5, <2>6
<1>3. CASE ~(HasStore /\ inFlight = Nil /\ p # Empty)
  <2>1. pending' = p /\ UNCHANGED <<inFlight, commands>>
    BY <1>3 DEF StartSave
  <2>2. Retained' = Over(p, Flying)
    BY <2>1 DEF Retained, Flying
  <2>3. Kept' = Over(p, Over(Flying, store))
    BY <1>1, <2>2, OverAssociates DEF Kept
  <2>. QED
    BY <1>1, <1>3, <2>1, <2>2, <2>3
<1>. QED
  BY <1>2, <1>3
-----------------------------------------------------------------------------
(* What each step does to the world that is played, the photograph that is *)
(* being written and the world on disk.                                    *)

Whole == Over(WorldSnapshot, Kept)

Stutters == UNCHANGED <<World, Cut, Resumed(store)>>

\* What is in memory over what is kept is a batch.
LEMMA WholeBatch == TypeOK => Whole \in Batches
BY SnapshotBatch, FlyingBatch, OverBatches DEF Whole

\* The world is what that batch resumes to.
LEMMA WorldIsWhole == TypeOK => World = Resumed(Whole)
BY WorldIsSnapshotOverKept DEF Whole

\* The world changes only with that batch.
LEMMA SameWorld ==
  ASSUME TypeOK, TypeOK', Whole' = Whole
  PROVE  World' = World
<1>1. World = Resumed(Whole)
  BY WorldIsWhole
<1>2. (World = Resumed(Whole))'
  BY WorldIsWhole, PTL
<1>3. Resumed(Whole)' = Resumed(Whole')
  BY DEF Resumed, ReadRegion, ReadPlayer, ReadAge, Prefer, Generate
<1>. QED
  BY <1>1, <1>2, <1>3

\* The photograph being written changes only with the commands and the
\* database.
LEMMA SameChannel ==
  ASSUME UNCHANGED <<commands, store>>
  PROVE  Cut' = Cut /\ Resumed(store)' = Resumed(store)
BY DEF Cut, SavesQueued, IsSave, Resumed, ReadRegion, ReadPlayer, ReadAge, Prefer, Generate, Over

\* A photograph of what is in memory adds nothing to the whole.
LEMMA SnapshotOverWhole ==
  ASSUME TypeOK
  PROVE  Over(WorldSnapshot, Whole) = Whole
<1>1. WorldSnapshot \in Batches /\ Kept \in Batches
  BY SnapshotBatch, FlyingBatch
<1>2. Over(WorldSnapshot, Over(WorldSnapshot, Kept)) = Over(Over(WorldSnapshot, WorldSnapshot), Kept)
  BY <1>1, OverAssociates
<1>. QED
  BY <1>1, <1>2, OverItself DEF Whole

\* Staging a snapshot changes nothing of the world: what is kept is then the
\* whole of it.
LEMMA StagedIsWhole ==
  ASSUME TypeOK
  PROVE  /\ Over(Over(WorldSnapshot, pending), Over(Flying, store)) = Whole
         /\ Over(Over(Over(WorldSnapshot, pending), Flying), store) = Whole
<1>1. /\ WorldSnapshot \in Batches /\ pending \in Batches
      /\ Flying \in Batches /\ store \in Batches
  BY SnapshotBatch, FlyingBatch DEF TypeOK
<1>2. /\ Over(WorldSnapshot, pending) \in Batches /\ Over(pending, Flying) \in Batches
      /\ Over(Flying, store) \in Batches
  BY <1>1, OverBatches
<1>3. Over(Over(WorldSnapshot, pending), Over(Flying, store))
        = Over(WorldSnapshot, Over(pending, Over(Flying, store)))
  BY <1>1, <1>2, OverAssociates
<1>4. Over(pending, Over(Flying, store)) = Over(Over(pending, Flying), store)
  BY <1>1, OverAssociates
<1>5. Over(Over(Over(WorldSnapshot, pending), Flying), store)
        = Over(Over(WorldSnapshot, pending), Over(Flying, store))
  BY <1>1, <1>2, OverAssociates
<1>. QED
  BY <1>3, <1>4, <1>5 DEF Whole, Kept, Retained

\* A step that touches neither the world nor the store is none for the durable
\* world.
LEMMA QuietStutters ==
  ASSUME UNCHANGED <<sim, players, age, pending, inFlight, commands, store>>
  PROVE  Stutters
<1>1. Cut' = Cut /\ Resumed(store)' = Resumed(store)
  BY SameChannel
<1>2. World' = World
  BY DEF World, Known, Retained, Flying, Over, Prefer, ReadRegion, ReadPlayer, Generate, Places
<1>. QED
  BY <1>1, <1>2 DEF Stutters

\* A command other than a save comes or goes.
LEMMA LoadCommandsStutter ==
  ASSUME SaveInv, SaveInv', UNCHANGED <<sim, players, age, pending, inFlight, store>>,
         SavesQueued = {} <=> SavesQueued' = {}
  PROVE  Stutters
<1>1. World' = World
  BY DEF World, Known, Retained, Flying, Over, Prefer, ReadRegion, ReadPlayer, Generate, Places
<1>2. Resumed(store)' = Resumed(store)
  BY DEF Resumed, ReadRegion, ReadPlayer, ReadAge, Prefer, Generate
<1>3. Cut = IF SavesQueued = {} THEN Nil ELSE Resumed(Over(inFlight, store))
  BY CutIsFlight
<1>4. (Cut = IF SavesQueued = {} THEN Nil ELSE Resumed(Over(inFlight, store)))'
  BY CutIsFlight, PTL
<1>5. Resumed(Over(inFlight, store))' = Resumed(Over(inFlight, store))
  BY DEF Resumed, ReadRegion, ReadPlayer, ReadAge, Prefer, Generate, Over
<1>. QED
  BY <1>1, <1>2, <1>3, <1>4, <1>5 DEF Stutters

\* So is asking for a region, from memory or from the database.
LEMMA RequestStutters ==
  ASSUME SaveInv, SaveInv', RequestRegion
  PROVE  Stutters
<1>u. UNCHANGED <<sim, players, age, pending, inFlight, store>>
  BY DEF RequestRegion, worldVars, saveVars
<1>1. CASE UNCHANGED commands
  BY <1>u, <1>1, QuietStutters
<1>2. CASE \E r \in Regions :
             commands' = Append(commands, [kind |-> "load", request |-> nextRequest, pos |-> r])
  <2>1. PICK r \in Regions :
          commands' = Append(commands, [kind |-> "load", request |-> nextRequest, pos |-> r])
    BY <1>2
  <2>2. /\ commands \in Seq(Commands)
        /\ [kind |-> "load", request |-> nextRequest, pos |-> r] \in Commands
    BY DEF SaveInv, TypeOK, Commands, LoadCommands
  <2>3. SavesQueued' = SavesQueued
    BY <2>1, <2>2, Sent DEF SavesQueued, IsSave
  <2>. QED
    BY <1>u, <2>3, LoadCommandsStutter
<1>. QED
  BY <1>1, <1>2 DEF RequestRegion, Missing, SaveInv, TypeOK

\* So is reading one.
LEMMA ReadStutters ==
  ASSUME SaveInv, SaveInv', NEW ok \in BOOLEAN, WorkerLoad(ok)
  PROVE  Stutters
<1>u. UNCHANGED <<sim, players, age, pending, inFlight, store>>
  BY DEF WorkerLoad, worldVars, saveVars
<1>1. /\ commands \in Seq(Commands) /\ commands # <<>> /\ commands' = Tail(commands)
      /\ Head(commands).kind = "load"
  BY LoadAnswered DEF SaveInv, WorkerLoad
<1>2. ASSUME NEW k \in SavesQueued PROVE SavesQueued' # {}
  <2>1. k \in DOMAIN commands /\ k # 1
    BY <1>1, Received DEF SavesQueued, IsSave
  <2>2. k - 1 \in SavesQueued'
    BY <1>1, <2>1, Received DEF SavesQueued, IsSave
  <2>. QED
    BY <2>2
<1>3. ASSUME NEW k \in SavesQueued' PROVE SavesQueued # {}
  <2>1. k + 1 \in SavesQueued
    BY <1>1, Received DEF SavesQueued, IsSave
  <2>. QED
    BY <2>1
<1>. QED
  BY <1>u, <1>2, <1>3, LoadCommandsStutter

\* A batch is settled: the world is the same whether it was written or not.
LEMMA SettleStutters ==
  ASSUME DurableInv, TypeOK', completions # <<>>, Head(completions).kind # "ready",
         SettleSave(Head(completions)), UNCHANGED <<sim, players, age, commands, store>>
  PROVE  Stutters
<1>1. Kept' = Kept
  BY SettleKeeps
<1>2. WorldSnapshot' = WorldSnapshot
  BY DEF WorldSnapshot
<1>3. Whole' = Whole
  BY <1>1, <1>2 DEF Whole, Over, Prefer
<1>. QED
  BY <1>3, InvTypes, SameWorld, SameChannel DEF Stutters

\* So is receiving an answer, a load or the end of a save.
LEMMA ReceiveStutters ==
  ASSUME DurableInv, TypeOK', ReceiveCompletion \/ AwaitSave
  PROVE  Stutters
<1>1. CASE UNCHANGED saveVars
  BY <1>1, QuietStutters DEF ReceiveCompletion, AwaitSave, worldVars, saveVars
<1>2. CASE ~UNCHANGED saveVars
  BY <1>2, SettleStutters DEF ReceiveCompletion, AwaitSave, worldVars
<1>. QED
  BY <1>1, <1>2

\* Regions leave the simulation with their contents staged.
LEMMA ExpireStutters ==
  ASSUME TypeOK, TypeOK', Expire
  PROVE  Stutters
<1>1. UNCHANGED <<players, age, inFlight, commands, store>>
  BY DEF Expire
<1>2. \A r \in Regions :
        /\ sim'[r] = IF r \in Expired THEN Nil ELSE sim[r]
        /\ pending'.regions[r] = IF r \in Expired THEN sim[r] ELSE pending.regions[r]
        /\ r \in Expired => sim[r] # Nil
  BY DEF Expire, TypeOK, Batches, Expired, Loaded
<1>3. pending'.players = pending.players /\ pending'.meta = pending.meta
  BY DEF Expire, TypeOK, Batches
<1>4. Flying' = Flying
  BY <1>1 DEF Flying
<1>v. (Whole \in Batches)'
  BY WholeBatch, PTL
<1>w. Whole \in Batches /\ Whole' \in Batches
  BY <1>v, WholeBatch
<1>5. Whole'.regions = Whole.regions
  <2>1. ASSUME NEW r \in Regions PROVE Whole'.regions[r] = Whole.regions[r]
    BY <1>1, <1>2, <1>4, <2>1 DEF Whole, Kept, Retained, Over, Prefer, WorldSnapshot
  <2>2. Whole.regions \in [Regions -> Slots] /\ Whole'.regions \in [Regions -> Slots]
    BY <1>w DEF Batches
  <2>. QED
    BY <2>1, <2>2
<1>6. Whole'.players = Whole.players /\ Whole'.meta = Whole.meta
  BY <1>1, <1>3, <1>4 DEF Whole, Kept, Retained, Over, Prefer, WorldSnapshot
<1>7. Whole' = Whole
  BY <1>w, <1>5, <1>6 DEF Batches
<1>. QED
  BY <1>1, <1>7, SameWorld, SameChannel DEF Stutters

\* The world of the mapping is a world.
LEMMA WorldTyped == TypeOK => World \in Worlds
BY WorldIsWhole, WholeBatch, ResumedIsWorld

\* What the world holds of a region or a player is what is in memory, else what
\* is known of it.
LEMMA WorldParts ==
  /\ World.age = age
  /\ \A r \in Regions : World.holds[r] = Prefer(sim[r], Known(r))
  /\ \A u \in Players : World.holds[u] = Prefer(players[u], Known(u))
<1>1. \A u \in Players : u \notin Regions
  BY ConstantsOK
<1>. QED
  BY <1>1 DEF World, Places

\* Two worlds are the same when every place holds the same.
LEMMA SameHolds ==
  ASSUME TypeOK, TypeOK', age' = age, \A x \in Places : World'.holds[x] = World.holds[x]
  PROVE  World' = World
<1>1. (World \in Worlds)'
  BY WorldTyped, PTL
<1>2. Worlds' = Worlds
  BY DEF Worlds, Places, Ages
<1>3. World \in Worlds /\ World' \in Worlds
  BY <1>1, <1>2, WorldTyped
<1>4. (World.age = age)'
  BY WorldParts, PTL
<1>5. World'.age = World.age
  BY <1>4, WorldParts
<1>6. World'.holds = World.holds
  BY <1>3 DEF Worlds
<1>. QED
  BY <1>3, <1>5, <1>6 DEF Worlds

\* A player who joins finds the record the world holds of them.
LEMMA JoinStutters ==
  ASSUME TypeOK, TypeOK', NEW u \in Players, Join(u)
  PROVE  Stutters
<1>1. UNCHANGED <<sim, age, pending, inFlight, commands, store>>
  BY DEF Join, loadVars, saveVars
<1>2. \A x : Known(x)' = Known(x)
  BY <1>1 DEF Known, Retained, Flying, Over, Prefer, ReadRegion, ReadPlayer, Generate
<1>3. Known(u) = Prefer(Retained.players[u], ReadPlayer(store, u)) /\ u \notin Regions
  BY ConstantsOK DEF Known
<1>4. players' = [players EXCEPT ![u] = Known(u)] /\ players[u] = Nil
  BY <1>3 DEF Join
<1>5. \A v \in Players : Prefer(players'[v], Known(v)) = Prefer(players[v], Known(v))
  BY <1>4 DEF Prefer, TypeOK
<1>6. ASSUME NEW x \in Places PROVE World'.holds[x] = World.holds[x]
  <2>1. World.holds[x] = Prefer(IF x \in Regions THEN sim[x] ELSE players[x], Known(x))
    BY DEF World
  <2>2. World'.holds[x] = Prefer(IF x \in Regions THEN sim'[x] ELSE players'[x], Known(x)')
    BY DEF World, Prefer, Places
  <2>3. Prefer(IF x \in Regions THEN sim'[x] ELSE players'[x], Known(x))
          = Prefer(IF x \in Regions THEN sim[x] ELSE players[x], Known(x))
    BY <1>1, <1>5 DEF Places
  <2>. QED
    BY <1>2, <2>1, <2>2, <2>3
<1>. QED
  BY <1>1, <1>6, SameHolds, SameChannel DEF Stutters

\* A player who leaves has their record staged.
LEMMA DepartStutters ==
  ASSUME TypeOK, TypeOK', NEW u \in Players, Depart(u)
  PROVE  Stutters
<1>1. /\ UNCHANGED <<sim, age, inFlight, commands, store>>
      /\ pending' = [pending EXCEPT !.players[u] = players[u]]
      /\ players' = [players EXCEPT ![u] = Nil] /\ players[u] # Nil
  BY DEF Depart
<1>2. /\ pending'.regions = pending.regions /\ pending'.meta = pending.meta
      /\ \A v \in Players : pending'.players[v] = IF v = u THEN players[u] ELSE pending.players[v]
      /\ \A v \in Players : players'[v] = IF v = u THEN Nil ELSE players[v]
  BY <1>1 DEF TypeOK, Batches
<1>3. Flying' = Flying
  BY <1>1 DEF Flying
<1>v. (Whole \in Batches)'
  BY WholeBatch, PTL
<1>w. Whole \in Batches /\ Whole' \in Batches
  BY <1>v, WholeBatch
<1>4. Whole'.players = Whole.players
  <2>1. ASSUME NEW v \in Players PROVE Whole'.players[v] = Whole.players[v]
    BY <1>1, <1>2, <1>3, <2>1 DEF Whole, Kept, Retained, Over, Prefer, WorldSnapshot
  <2>. QED
    BY <1>w, <2>1 DEF Batches
<1>5. Whole'.regions = Whole.regions /\ Whole'.meta = Whole.meta
  BY <1>1, <1>2, <1>3 DEF Whole, Kept, Retained, Over, Prefer, WorldSnapshot
<1>6. Whole' = Whole
  BY <1>w, <1>4, <1>5 DEF Batches
<1>. QED
  BY <1>1, <1>6, SameWorld, SameChannel DEF Stutters

\* An item leaves one place and joins another.
LEMMA ItemMoves ==
  ASSUME TypeOK, TypeOK', UNCHANGED <<age, pending, inFlight, commands, store>>,
         NEW p \in Places, NEW q \in Places, NEW i \in Items, p # q,
         i \in World.holds[p],
         World'.holds[p] = World.holds[p] \ {i},
         World'.holds[q] = World.holds[q] \cup {i},
         \A x \in Places \ {p, q} : World'.holds[x] = World.holds[x]
  PROVE  Durable!Move
<1>1. (World \in Worlds)'
  BY WorldTyped, PTL
<1>2. Worlds' = Worlds
  BY DEF Worlds, Places, Ages
<1>3. World \in Worlds /\ World' \in Worlds
  BY <1>1, <1>2, WorldTyped
<1>4. (World.age = age)'
  BY WorldParts, PTL
<1>5. World'.age = World.age
  BY <1>4, WorldParts
<1>6. World'.holds = [World.holds EXCEPT ![p] = @ \ {i}, ![q] = @ \cup {i}]
  <2> DEFINE h == [World.holds EXCEPT ![p] = @ \ {i}, ![q] = @ \cup {i}]
  <2>1. DOMAIN h = Places /\ DOMAIN World'.holds = Places
    BY <1>3 DEF Worlds
  <2>2. \A x \in Places : h[x] = World'.holds[x]
    BY <1>3 DEF Worlds
  <2>3. h = [x \in Places |-> h[x]] /\ World'.holds = [x \in Places |-> World'.holds[x]]
    BY <1>3 DEF Worlds
  <2>. HIDE DEF h
  <2>4. h = World'.holds
    BY <2>2, <2>3
  <2>. QED
    BY <2>4 DEF h
<1>7. World' = [World EXCEPT !.holds[p] = @ \ {i}, !.holds[q] = @ \cup {i}]
  BY <1>3, <1>5, <1>6 DEF Worlds
<1>8. Cut' = Cut /\ Resumed(store)' = Resumed(store)
  BY SameChannel
<1>. QED
  BY <1>7, <1>8 DEF Durable!Move

\* Where a place is simulated before and after a step the world holds there
\* what the simulation holds.
LEMMA SimulatedPlace ==
  ASSUME TypeOK, UNCHANGED <<pending, inFlight, store>>
  PROVE  /\ \A r \in Regions : sim[r] # Nil => World.holds[r] = sim[r]
         /\ \A r \in Regions : sim'[r] # Nil => World'.holds[r] = sim'[r]
         /\ \A u \in Players : players[u] # Nil => World.holds[u] = players[u]
         /\ \A u \in Players : players'[u] # Nil => World'.holds[u] = players'[u]
         /\ \A r \in Regions : sim'[r] = sim[r] => World'.holds[r] = World.holds[r]
         /\ \A u \in Players : players'[u] = players[u] => World'.holds[u] = World.holds[u]
<1>1. \A x : Known(x)' = Known(x)
  BY DEF Known, Retained, Flying, Over, Prefer, ReadRegion, ReadPlayer, Generate
<1>2. /\ \A r \in Regions : World.holds[r] = Prefer(sim[r], Known(r))
      /\ \A u \in Players : World.holds[u] = Prefer(players[u], Known(u))
  BY WorldParts
<1>3. \A u \in Players : u \notin Regions
  BY ConstantsOK
<1>4. /\ \A r \in Regions : World'.holds[r] = Prefer(sim'[r], Known(r)')
      /\ \A u \in Players : World'.holds[u] = Prefer(players'[u], Known(u)')
  BY <1>3 DEF World, Places, Prefer
<1>. QED
  BY <1>1, <1>2, <1>4 DEF Prefer

\* A dig moves an item from a region to a player.
LEMMA DigMoves ==
  ASSUME TypeOK, TypeOK', NEW u \in Players, NEW r \in Regions, NEW i \in Items, Dig(u, r, i)
  PROVE  Durable!Move
<1>1. /\ UNCHANGED <<age, pending, inFlight, commands, store>>
      /\ sim[r] \in SUBSET Items /\ players[u] \in SUBSET Items /\ i \in sim[r]
      /\ sim' = [sim EXCEPT ![r] = @ \ {i}] /\ players' = [players EXCEPT ![u] = @ \cup {i}]
  BY DEF Dig, loadVars, saveVars, Loaded, Present, TypeOK, Slots
<1>2. /\ sim'[r] = sim[r] \ {i} /\ sim'[r] # Nil /\ sim[r] # Nil
      /\ players'[u] = players[u] \cup {i} /\ players'[u] # Nil /\ players[u] # Nil
      /\ \A q \in Regions \ {r} : sim'[q] = sim[q]
      /\ \A v \in Players \ {u} : players'[v] = players[v]
  BY <1>1, NilOK DEF TypeOK
<1>3. r \in Places /\ u \in Places /\ r # u
  BY ConstantsOK DEF Places
<1>4. /\ World.holds[r] = sim[r] /\ World.holds[u] = players[u]
      /\ World'.holds[r] = sim'[r] /\ World'.holds[u] = players'[u]
      /\ \A x \in Places \ {r, u} : World'.holds[x] = World.holds[x]
  BY <1>1, <1>2, SimulatedPlace DEF Places
<1>5. /\ i \in World.holds[r] /\ World'.holds[r] = World.holds[r] \ {i}
      /\ World'.holds[u] = World.holds[u] \cup {i}
  BY <1>1, <1>2, <1>4
<1>. QED
  BY <1>1, <1>3, <1>4, <1>5, ItemMoves

\* A placement moves an item from a player to a region.
LEMMA PlaceMoves ==
  ASSUME TypeOK, TypeOK', NEW u \in Players, NEW r \in Regions, NEW i \in Items, Place(u, r, i)
  PROVE  Durable!Move
<1>1. /\ UNCHANGED <<age, pending, inFlight, commands, store>>
      /\ sim[r] \in SUBSET Items /\ players[u] \in SUBSET Items /\ i \in players[u]
      /\ sim' = [sim EXCEPT ![r] = @ \cup {i}] /\ players' = [players EXCEPT ![u] = @ \ {i}]
  BY DEF Place, loadVars, saveVars, Loaded, Present, TypeOK, Slots
<1>2. /\ sim'[r] = sim[r] \cup {i} /\ sim'[r] # Nil /\ sim[r] # Nil
      /\ players'[u] = players[u] \ {i} /\ players'[u] # Nil /\ players[u] # Nil
      /\ \A q \in Regions \ {r} : sim'[q] = sim[q]
      /\ \A v \in Players \ {u} : players'[v] = players[v]
  BY <1>1, NilOK DEF TypeOK
<1>3. r \in Places /\ u \in Places /\ r # u
  BY ConstantsOK DEF Places
<1>4. /\ World.holds[r] = sim[r] /\ World.holds[u] = players[u]
      /\ World'.holds[r] = sim'[r] /\ World'.holds[u] = players'[u]
      /\ \A x \in Places \ {r, u} : World'.holds[x] = World.holds[x]
  BY <1>1, <1>2, SimulatedPlace DEF Places
<1>. QED
  BY <1>1, <1>2, <1>3, <1>4, ItemMoves

\* A flow moves an item from a region to another.
LEMMA FlowMoves ==
  ASSUME TypeOK, TypeOK', NEW r \in Regions, NEW q \in Regions, NEW i \in Items, Flow(r, q, i)
  PROVE  Durable!Move
<1>1. /\ UNCHANGED <<players, age, pending, inFlight, commands, store>>
      /\ r # q /\ sim[r] \in SUBSET Items /\ sim[q] \in SUBSET Items /\ i \in sim[r]
      /\ sim' = [sim EXCEPT ![r] = @ \ {i}, ![q] = @ \cup {i}]
  BY DEF Flow, loadVars, saveVars, Loaded, TypeOK, Slots
<1>2. /\ sim'[r] = sim[r] \ {i} /\ sim'[r] # Nil /\ sim[r] # Nil
      /\ sim'[q] = sim[q] \cup {i} /\ sim'[q] # Nil /\ sim[q] # Nil
      /\ \A s \in Regions \ {r, q} : sim'[s] = sim[s]
  BY <1>1, NilOK DEF TypeOK
<1>3. r \in Places /\ q \in Places
  BY DEF Places
<1>4. /\ World.holds[r] = sim[r] /\ World.holds[q] = sim[q]
      /\ World'.holds[r] = sim'[r] /\ World'.holds[q] = sim'[q]
      /\ \A x \in Places \ {r, q} : World'.holds[x] = World.holds[x]
  BY <1>1, <1>2, SimulatedPlace DEF Places
<1>5. /\ i \in World.holds[r] /\ World'.holds[r] = World.holds[r] \ {i}
      /\ World'.holds[q] = World.holds[q] \cup {i} /\ r # q
      /\ UNCHANGED <<age, pending, inFlight, commands, store>>
  BY <1>1, <1>2, <1>4
<1>. QED
  BY <1>3, <1>4, <1>5, ItemMoves

\* The clock ages the world, and does nothing else.
LEMMA ClockAges ==
  ASSUME TypeOK, TypeOK', UNCHANGED <<sim, players, pending, inFlight, commands, store>>
  PROVE  Durable!Age
<1>1. World'.holds = World.holds
  BY DEF World, Known, Retained, Flying, Over, Prefer, ReadRegion, ReadPlayer, Generate, Places
<1>2. World'.age = age' /\ age' \in 0..(AgeMod - 1)
  BY DEF World, TypeOK, Ages
<1>3. World = [holds |-> World.holds, age |-> World.age]
  BY DEF World
<1>4. World' = [holds |-> World'.holds, age |-> World'.age]
  BY DEF World
<1>5. World' = [World EXCEPT !.age = age']
  BY <1>1, <1>2, <1>3, <1>4
<1>. QED
  BY <1>2, <1>5, SameChannel DEF Durable!Age

\* A load that is integrated brings what the world holds of its region.
LEMMA IntegrateStutters ==
  ASSUME DurableInv, TypeOK', Integrate
  PROVE  Stutters
<1>t. TypeOK
  BY InvTypes
<1>1. /\ UNCHANGED <<players, age, pending, inFlight, commands, store>>
      /\ ~FailedRead
      /\ sim' = [r \in Regions |->
                   IF \E e \in Integrable : e.pos = r
                     THEN (CHOOSE e \in Integrable : e.pos = r).load
                     ELSE sim[r]]
  BY DEF Integrate, saveVars
<1>2. \A x : Known(x)' = Known(x)
  BY <1>1 DEF Known, Retained, Flying, Over, Prefer, ReadRegion, ReadPlayer, Generate
<1>3. ASSUME NEW r \in Regions, NEW e \in Integrable, e.pos = r
      PROVE  sim[r] = Nil /\ e.load = Known(r) /\ e.load # Nil
  <2>1. e \in ready /\ e \in Loads /\ Expected(e)
    BY <1>t, <1>3 DEF Integrable, Unwanted, TypeOK
  <2>2. sim[r] = Nil
    BY <1>3, <2>1, ZeroIsNoRequest DEF DurableInv, RequestedAreAway, Expected, Loads
  <2>3. e.load # Nil
    BY <1>1, <1>3 DEF FailedRead
  <2>4. e.load = ReadRegion(Kept, r)
    BY <1>3, <2>1, <2>3 DEF DurableInv, LoadsAreCurrent, Current
  <2>5. ReadRegion(Kept, r) = Known(r)
    BY <1>3 DEF ReadRegion, Kept, Known, Over, Prefer
  <2>. QED
    BY <2>2, <2>3, <2>4, <2>5
<1>4. ASSUME NEW r \in Regions
      PROVE  Prefer(sim'[r], Known(r)) = Prefer(sim[r], Known(r))
  <2>1. CASE \E e \in Integrable : e.pos = r
    <3>1. PICK e \in Integrable : e.pos = r /\ sim'[r] = e.load
      BY <1>1, <2>1
    <3>. QED
      BY <1>3, <3>1 DEF Prefer
  <2>2. CASE ~\E e \in Integrable : e.pos = r
    BY <1>1, <2>2
  <2>. QED
    BY <2>1, <2>2
<1>5. ASSUME NEW x \in Places PROVE World'.holds[x] = World.holds[x]
  <2>1. World.holds[x] = Prefer(IF x \in Regions THEN sim[x] ELSE players[x], Known(x))
    BY DEF World
  <2>2. World'.holds[x] = Prefer(IF x \in Regions THEN sim'[x] ELSE players'[x], Known(x)')
    BY DEF World, Prefer, Places
  <2>. QED
    BY <1>1, <1>2, <1>4, <2>1, <2>2 DEF Places
<1>. QED
  BY <1>t, <1>1, <1>5, SameHolds, SameChannel DEF Stutters
-----------------------------------------------------------------------------
(* Snapshots, writes and ends.                                             *)

LEMMA StopStutters ==
  ASSUME TypeOK, TypeOK', Stop
  PROVE  Stutters
<1>1. UNCHANGED <<sim, players, age, inFlight, commands, store>>
  BY DEF Stop, worldVars
<1>2. CASE ~HasStore
  BY <1>1, <1>2, QuietStutters DEF Stop
<1>3. CASE HasStore
  <2>1. Kept' = Over(Over(Over(WorldSnapshot, pending), Flying), store)
    BY <1>1, <1>3 DEF Stop, Kept, Retained, Flying
  <2>2. Kept' = Whole /\ WorldSnapshot' = WorldSnapshot
    BY <1>1, <2>1, StagedIsWhole DEF WorldSnapshot
  <2>3. Whole' = Over(WorldSnapshot, Whole)
    BY <2>2 DEF Whole, Over, Prefer
  <2>. QED
    BY <1>1, <2>3, SnapshotOverWhole, SameWorld, SameChannel DEF Stutters
<1>. QED
  BY <1>2, <1>3

\* A save that starts with the whole world staged photographs it.
LEMMA StartSnapshots ==
  ASSUME SaveInv, SaveInv', NEW p \in Batches, StartSave(p),
         UNCHANGED <<sim, players, age, store, completions>>,
         Over(WorldSnapshot, Over(p, Over(Flying, store))) = Whole,
         HasStore => Over(p, Over(Flying, store)) = Whole
  PROVE  Stutters \/ Durable!Snapshot
<1>t. TypeOK /\ TypeOK'
  BY DEF SaveInv
<1>1. Kept' = Over(p, Over(Flying, store)) /\ WorldSnapshot' = WorldSnapshot /\ Flying \in Batches
  BY StartKeeps DEF WorldSnapshot
<1>2. Whole' = Whole
  BY <1>1 DEF Whole, Over, Prefer
<1>3. World' = World
  BY <1>t, <1>2, SameWorld
<1>4. Resumed(store)' = Resumed(store)
  BY DEF Resumed, ReadRegion, ReadPlayer, ReadAge, Prefer, Generate
<1>5. CASE HasStore /\ inFlight = Nil /\ p # Empty
  <2>1. /\ Flying = Empty /\ inFlight' = p
        /\ SavesQueued = {} /\ SavesQueued' # {}
    BY <1>5, StartKeeps
  <2>2. Cut = Nil
    BY <2>1, CutIsFlight
  <2>3. (Cut = IF SavesQueued = {} THEN Nil ELSE Resumed(Over(inFlight, store)))'
    BY CutIsFlight, PTL
  <2>4. Cut' = Resumed(Over(p, store))
    BY <2>1, <2>3 DEF Resumed, ReadRegion, ReadPlayer, ReadAge, Prefer, Generate, Over
  <2>5. Over(p, store) = Whole
    BY <1>t, <1>5, <2>1, OverNothing DEF TypeOK
  <2>6. Cut' = World
    BY <1>t, <2>4, <2>5, WorldIsWhole
  <2>. QED
    BY <1>3, <1>4, <2>2, <2>6 DEF Durable!Snapshot
<1>6. CASE ~(HasStore /\ inFlight = Nil /\ p # Empty)
  <2>1. UNCHANGED commands
    BY <1>6, StartKeeps
  <2>. QED
    BY <1>3, <2>1, SameChannel DEF Stutters
<1>. QED
  BY <1>5, <1>6

\* An autosave takes a photograph of the world or, with a save in flight, none.
LEMMA AutosaveSnapshots ==
  ASSUME SaveInv, SaveInv', Autosave
  PROVE  Stutters \/ Durable!Snapshot
<1> DEFINE p == Over(WorldSnapshot, pending)
<1>t. TypeOK
  BY DEF SaveInv
<1>1. /\ p \in Batches /\ StartSave(p)
      /\ UNCHANGED <<sim, players, age, store, completions>>
  BY <1>t, SnapshotBatch, OverBatches DEF Autosave, worldVars, TypeOK
<1>2. Over(p, Over(Flying, store)) = Whole /\ Over(WorldSnapshot, Whole) = Whole
  BY <1>t, StagedIsWhole, SnapshotOverWhole
<1>. HIDE DEF p
<1>. QED
  BY <1>1, <1>2, StartSnapshots

\* So does the final save of a stop.
LEMMA FinalSaveSnapshots ==
  ASSUME DurableInv, SaveInv, SaveInv', StartFinalSave
  PROVE  Stutters \/ Durable!Snapshot
<1>t. TypeOK
  BY InvTypes
<1>1. /\ pending \in Batches /\ StartSave(pending) /\ pc = "finish"
      /\ UNCHANGED <<sim, players, age, store, completions>>
  BY <1>t DEF StartFinalSave, worldVars, TypeOK
<1>2. /\ Flying \in Batches /\ store \in Batches /\ Over(Flying, store) \in Batches
      /\ WorldSnapshot \in Batches
  BY <1>t, FlyingBatch, OverBatches, SnapshotBatch DEF TypeOK
<1>3. Over(pending, Over(Flying, store)) = Kept
  BY <1>1, <1>2, OverAssociates DEF Kept, Retained
<1>4. ASSUME HasStore PROVE Kept = Whole
  <2>1. Over(WorldSnapshot, pending) = pending
    BY <1>1, <1>4 DEF DurableInv, StopIsStaged
  <2>2. Over(Over(WorldSnapshot, pending), Over(Flying, store)) = Whole
    BY <1>t, StagedIsWhole
  <2>. QED
    BY <1>3, <2>1, <2>2
<1>. QED
  BY <1>1, <1>3, <1>4, StartSnapshots DEF Whole

\* The batch reaches the database as a whole, or not at all.
LEMMA WriteCommits ==
  ASSUME SaveInv, SaveInv', NEW ok \in BOOLEAN, WorkerSave(ok)
  PROVE  Durable!Commit \/ Durable!Abort
<1>t. TypeOK /\ TypeOK'
  BY DEF SaveInv
<1>1. /\ inFlight \in Batches
      /\ store' = IF ok THEN Over(inFlight, store) ELSE store
      /\ Kept' = Kept
      /\ SavesQueued # {} /\ SavesQueued' = {}
  BY WriteKeeps
<1>2. UNCHANGED <<sim, players, age>> /\ WorldSnapshot' = WorldSnapshot
  BY DEF WorkerSave, worldVars, WorldSnapshot
<1>3. Whole' = Whole
  BY <1>1, <1>2 DEF Whole, Over, Prefer
<1>4. World' = World
  BY <1>t, <1>3, SameWorld
<1>5. Cut = Resumed(Over(inFlight, store)) /\ Cut # Nil
  BY <1>t, <1>1, CutIsFlight, OverBatches, ResumedIsWorld DEF TypeOK
<1>6. (Cut = IF SavesQueued = {} THEN Nil ELSE Resumed(Over(inFlight, store)))'
  BY CutIsFlight, PTL
<1>7. Cut' = Nil
  BY <1>1, <1>6
<1>8. Resumed(store)' = Resumed(store')
  BY DEF Resumed, ReadRegion, ReadPlayer, ReadAge, Prefer, Generate
<1>9. CASE ok
  BY <1>1, <1>4, <1>5, <1>7, <1>8, <1>9 DEF Durable!Commit
<1>10. CASE ~ok
  BY <1>1, <1>4, <1>5, <1>7, <1>8, <1>10 DEF Durable!Abort
<1>. QED
  BY <1>9, <1>10

\* What is resumed is what the database holds.
LEMMA DieRecovers ==
  ASSUME TypeOK, TypeOK', Die
  PROVE  Durable!Recover
<1>1. /\ store' = store /\ inFlight' = Nil /\ commands' = <<>>
      /\ sim' = [r \in Regions |-> Nil] /\ players' = [u \in Players |-> Nil]
      /\ age' = ReadAge(store) /\ pending' = FirstPending /\ store \in Batches
  BY DEF Die, TypeOK
<1>2. /\ \A r \in Regions : pending'.regions[r] = Nil
      /\ \A u \in Players : pending'.players[u] = Nil
  BY <1>1 DEF FirstPending, Empty
<1>3. Flying' = Empty
  BY <1>1 DEF Flying
<1>4. \A u \in Players : u \notin Regions
  BY ConstantsOK
<1>5. ASSUME NEW r \in Regions PROVE Known(r)' = ReadRegion(store, r)
  BY <1>1, <1>2, <1>3, <1>5 DEF Known, Retained, Over, Empty, Prefer, ReadRegion, Generate
<1>6. ASSUME NEW u \in Players PROVE Known(u)' = ReadPlayer(store, u)
  BY <1>1, <1>2, <1>3, <1>4, <1>6 DEF Known, Retained, Over, Empty, Prefer, ReadPlayer
<1>7. World'.holds = Resumed(store).holds
  <2>1. World'.holds = [x \in Places |->
                          Prefer(IF x \in Regions THEN sim'[x] ELSE players'[x], Known(x)')]
    BY DEF World, Prefer, Places
  <2>2. Resumed(store).holds = [x \in Places |->
                                  IF x \in Regions THEN ReadRegion(store, x)
                                                   ELSE ReadPlayer(store, x)]
    BY DEF Resumed
  <2>3. \A x \in Places :
          Prefer(IF x \in Regions THEN sim'[x] ELSE players'[x], Known(x)')
            = IF x \in Regions THEN ReadRegion(store, x) ELSE ReadPlayer(store, x)
    BY <1>1, <1>5, <1>6 DEF Places, Prefer
  <2>. QED
    BY <2>1, <2>2, <2>3
<1>8. World'.age = Resumed(store).age
  BY <1>1 DEF World, Resumed
<1>9. World' = Resumed(store)
  BY <1>7, <1>8 DEF World, Resumed
<1>10. Cut' = Nil
  BY <1>1 DEF Cut, SavesQueued
<1>11. Resumed(store)' = Resumed(store)
  BY <1>1 DEF Resumed, ReadRegion, ReadPlayer, ReadAge, Prefer, Generate
<1>. QED
  BY <1>9, <1>10, <1>11 DEF Durable!Recover
-----------------------------------------------------------------------------
(* The invariant is kept.                                                  *)

LEMMA AwayStep == DurableInv /\ Next => RequestedAreAway'
<1> SUFFICES ASSUME DurableInv, Next PROVE RequestedAreAway'
  OBVIOUS
<1>t. TypeOK /\ RequestedAreAway
  BY InvTypes DEF DurableInv
<1>q. ASSUME \A r \in Regions : requested'[r] # NoRequest => sim'[r] = Nil
      PROVE  RequestedAreAway'
  BY <1>q DEF RequestedAreAway
<1>u. ASSUME UNCHANGED <<sim, requested>> PROVE RequestedAreAway'
  BY <1>t, <1>u DEF RequestedAreAway
<1> USE DEF worldVars, loadVars
<1>1. CASE BeginTick \/ ComputeTickets \/ ReceiveCompletion \/ AdvanceClock \/ Autosave
           \/ AwaitSave \/ StartFinalSave \/ Flushed \/ Worker \/ Open \/ Stop
  BY <1>1, <1>u DEF BeginTick, ComputeTickets, ReceiveCompletion, AdvanceClock, Autosave,
     AwaitSave, StartFinalSave, Flushed, Worker, WorkerLoad, WorkerSave, Open, Stop
<1>2. CASE IntegrateFails \/ JoinWorker \/ Crash
  BY <1>2, <1>q DEF IntegrateFails, JoinWorker, Crash, Die
<1>3. CASE Integrate
  <2>1. ASSUME NEW r \in Regions, requested'[r] # NoRequest PROVE sim'[r] = Nil
    <3>1. r \notin Settled /\ requested[r] # NoRequest
      BY <1>3, <2>1 DEF Integrate
    <3>2. ~\E e \in Integrable : e.pos = r
      BY <3>1 DEF Settled, Integrable, Unwanted
    <3>. QED
      BY <1>t, <1>3, <3>1, <3>2 DEF Integrate, RequestedAreAway
  <2>. QED
    BY <1>q, <2>1
<1>4. CASE RequestRegion
  BY <1>t, <1>4, <1>q DEF RequestRegion, Missing, RequestedAreAway, TypeOK
<1>5. CASE Expire
  BY <1>t, <1>5, <1>q DEF Expire, RequestedAreAway
<1>6. ASSUME NEW u \in Players, Join(u) \/ Depart(u) PROVE RequestedAreAway'
  BY <1>6, <1>u DEF Join, Depart
<1>7. ASSUME NEW u \in Players, NEW r \in Regions, NEW i \in Items, Dig(u, r, i) \/ Place(u, r, i)
      PROVE  RequestedAreAway'
  BY <1>t, <1>7, <1>q DEF Dig, Place, Loaded, RequestedAreAway, TypeOK
<1>8. ASSUME NEW r \in Regions, NEW q \in Regions, NEW i \in Items, Flow(r, q, i)
      PROVE  RequestedAreAway'
  BY <1>t, <1>8, <1>q DEF Flow, Loaded, RequestedAreAway, TypeOK
<1>9. ASSUME NEW a \in Ages, SetTime(a) PROVE RequestedAreAway'
  BY <1>9, <1>u DEF SetTime
<1>. QED
  BY <1>1, <1>2, <1>3, <1>4, <1>5, <1>6, <1>7, <1>8, <1>9 DEF Next, Server, Environment

\* Of a region that is not simulated the same is kept, and nothing new retained.
AwayIsKept ==
  \A r \in Regions : sim[r] = Nil =>
    /\ Kept'.regions[r] = Kept.regions[r]
    /\ Retained.regions[r] = Nil => Retained'.regions[r] = Nil

\* A region with a load on its way is not in the simulation.
LEMMA LoadsAreAway ==
  ASSUME DurableInv
  PROVE  /\ \A k \in LoadsQueued : commands[k].pos \in Regions /\ sim[commands[k].pos] = Nil
         /\ \A k \in LoadsAnswered :
              completions[k].ready.pos \in Regions /\ sim[completions[k].ready.pos] = Nil
         /\ \A e \in ready : e.pos \in Regions /\ sim[e.pos] = Nil
<1>1. TypeOK /\ LoadsCarryTheirRequest
  BY InvTypes DEF LoadInv, LoadsMatchRequests
<1>2. \A r \in QueuedRegions \cup AnsweredRegions \cup ReadyRegions : r \in Regions /\ sim[r] = Nil
  BY <1>1, OnItsWayIsOutstanding DEF DurableInv, RequestedAreAway, Outstanding
<1>3. /\ \A k \in LoadsQueued : commands[k].pos \in QueuedRegions
      /\ \A k \in LoadsAnswered : completions[k].ready.pos \in AnsweredRegions
      /\ \A e \in ready : e.pos \in ReadyRegions
  BY DEF QueuedRegions, AnsweredRegions, ReadyRegions
<1>. QED
  BY <1>2, <1>3

\* A load that was current stays so.
LEMMA CurrentStays ==
  ASSUME AwayIsKept, NEW e, e.pos \in Regions, sim[e.pos] = Nil, Current(e)
  PROVE  e.load = Nil \/ e.load = ReadRegion(Kept', e.pos)
BY DEF AwayIsKept, Current, ReadRegion, Generate, Prefer

\* Loads stay current while they only move on.
LEMMA MovedStayCurrent ==
  ASSUME DurableInv, AwayIsKept,
         \A k \in LoadsQueued' : \E l \in LoadsQueued : commands'[k] = commands[l],
         \A k \in LoadsAnswered' : \E l \in LoadsAnswered : completions'[k] = completions[l],
         \A e \in ready' : e \in ready \/ \E l \in LoadsAnswered : e = completions[l].ready
  PROVE  LoadsAreCurrent'
<1>1. ASSUME NEW k \in LoadsQueued' PROVE Retained'.regions[commands'[k].pos] = Nil
  <2>1. PICK l \in LoadsQueued : commands'[k] = commands[l]
    OBVIOUS
  <2>2. Retained.regions[commands[l].pos] = Nil /\ commands[l].pos \in Regions
        /\ sim[commands[l].pos] = Nil
    BY LoadsAreAway DEF DurableInv, LoadsAreCurrent
  <2>. QED
    BY <2>1, <2>2 DEF AwayIsKept
<1>2. ASSUME NEW l \in LoadsAnswered
      PROVE  LET e == completions[l].ready IN e.load = Nil \/ e.load = ReadRegion(Kept', e.pos)
  BY LoadsAreAway, CurrentStays DEF DurableInv, LoadsAreCurrent
<1>3. ASSUME NEW e \in ready PROVE e.load = Nil \/ e.load = ReadRegion(Kept', e.pos)
  BY LoadsAreAway, CurrentStays DEF DurableInv, LoadsAreCurrent
<1>4. \A r : ReadRegion(Kept, r)' = ReadRegion(Kept', r)
  BY DEF ReadRegion, Generate, Prefer
<1>5. \A k \in LoadsAnswered' :
        LET e == completions'[k].ready IN e.load = Nil \/ e.load = ReadRegion(Kept', e.pos)
  BY <1>2
<1>6. \A e \in ready' : e.load = Nil \/ e.load = ReadRegion(Kept', e.pos)
  BY <1>2, <1>3
<1>. QED
  BY <1>1, <1>5, <1>6 DEF LoadsAreCurrent, Current, ReadRegion, Generate, Prefer

\* The loads that are on their way stay, the kept parts of their regions too.
LEMMA AwayStays ==
  ASSUME DurableInv, AwayIsKept,
         LoadsQueued' = LoadsQueued, \A k \in LoadsQueued : commands'[k] = commands[k],
         UNCHANGED <<completions, ready>>
  PROVE  LoadsAreCurrent'
<1>1. LoadsAnswered' = LoadsAnswered
  BY DEF LoadsAnswered
<1>. QED
  BY <1>1, MovedStayCurrent

\* What is kept changes only with the batches and the database.
LEMMA KeptStays ==
  ASSUME UNCHANGED <<pending, inFlight, store>>
  PROVE  AwayIsKept
BY DEF AwayIsKept, Kept, Retained, Flying, Over, Prefer

\* Receiving the first answer leaves the others, one place nearer.
LEMMA AnswersOnlyMove ==
  ASSUME TypeOK, completions # <<>>, completions' = Tail(completions)
  PROVE  /\ \A k \in LoadsAnswered' : \E l \in LoadsAnswered : completions'[k] = completions[l]
         /\ Head(completions).kind = "ready" =>
              \E l \in LoadsAnswered : Head(completions).ready = completions[l].ready
<1>1. ASSUME NEW k \in LoadsAnswered' PROVE \E l \in LoadsAnswered : completions'[k] = completions[l]
  <2>1. k + 1 \in LoadsAnswered /\ completions'[k] = completions[k + 1]
    BY AnswersMoveUp
  <2>. QED
    BY <2>1
<1>2. ASSUME Head(completions).kind = "ready"
      PROVE  \E l \in LoadsAnswered : Head(completions).ready = completions[l].ready
  <2>1. 1 \in LoadsAnswered /\ Head(completions) = completions[1]
    BY <1>2, AnswersMoveUp
  <2>. QED
    BY <2>1
<1>. QED
  BY <1>1, <1>2

\* Taking the first command leaves the others, one place nearer.
LEMMA CommandsOnlyMove ==
  ASSUME TypeOK, commands # <<>>, commands' = Tail(commands)
  PROVE  \A k \in LoadsQueued' : \E l \in LoadsQueued : commands'[k] = commands[l]
<1>1. ASSUME NEW k \in LoadsQueued' PROVE \E l \in LoadsQueued : commands'[k] = commands[l]
  <2>1. k + 1 \in LoadsQueued /\ commands'[k] = commands[k + 1]
    BY CommandsMoveUp
  <2>. QED
    BY <2>1
<1>. QED
  BY <1>1

\* What is received later is as current as it was on its way.
LEMMA ReceiveKeepsCurrent ==
  ASSUME DurableInv, ReceiveCompletion \/ AwaitSave
  PROVE  LoadsAreCurrent'
<1>t. TypeOK
  BY InvTypes
<1>1. /\ completions # <<>> /\ completions' = Tail(completions) /\ UNCHANGED <<commands, store>>
      /\ Head(completions).kind = "ready" => UNCHANGED saveVars
      /\ Head(completions).kind # "ready" => SettleSave(Head(completions)) /\ UNCHANGED ready
      /\ \/ UNCHANGED ready
         \/ Head(completions).kind = "ready" /\ ready' = ready \cup {Head(completions).ready}
  BY DEF ReceiveCompletion, AwaitSave, loadVars
<1>2. AwayIsKept
  <2>1. CASE Head(completions).kind = "ready"
    BY <1>1, <2>1, KeptStays DEF saveVars
  <2>2. CASE Head(completions).kind # "ready"
    BY <1>1, <2>2, SettleKeeps DEF AwayIsKept
  <2>. QED
    BY <2>1, <2>2
<1>3. \A k \in LoadsQueued' : \E l \in LoadsQueued : commands'[k] = commands[l]
  BY <1>1 DEF LoadsQueued
<1>4. /\ \A k \in LoadsAnswered' : \E l \in LoadsAnswered : completions'[k] = completions[l]
      /\ Head(completions).kind = "ready" =>
           \E l \in LoadsAnswered : Head(completions).ready = completions[l].ready
  BY <1>t, <1>1, AnswersOnlyMove
<1>5. \A e \in ready' : e \in ready \/ \E l \in LoadsAnswered : e = completions[l].ready
  BY <1>1, <1>4
<1>. QED
  BY <1>2, <1>3, <1>4, <1>5, MovedStayCurrent

\* A save of what is pending makes no load stale, for it takes nothing away
\* from what is retained of regions that are not in the simulation.
LEMMA StartKeepsAway ==
  ASSUME DurableInv, NEW p \in Batches, StartSave(p), UNCHANGED <<store, completions, ready>>,
         \A r \in Regions : sim[r] = Nil => p.regions[r] = pending.regions[r]
  PROVE  LoadsAreCurrent'
<1>t. TypeOK /\ SaveInv
  BY InvTypes
<1>1. Retained' = Over(p, Flying) /\ Kept' = Over(p, Over(Flying, store))
  BY <1>t, StartKeeps
<1>2. AwayIsKept
  BY <1>1 DEF AwayIsKept, Kept, Retained, Over, Prefer
<1>3. LoadsQueued' = LoadsQueued /\ \A k \in LoadsQueued : commands'[k] = commands[k]
  BY <1>t, StartSaveKeepsLoads
<1>. QED
  BY <1>2, <1>3, AwayStays

\* Every step keeps the loads current.
LEMMA CurrentStep == DurableInv /\ Next => LoadsAreCurrent'
<1> SUFFICES ASSUME DurableInv, Next PROVE LoadsAreCurrent'
  OBVIOUS
<1>t. TypeOK /\ SaveInv /\ LoadInv
  BY InvTypes
<1>q. ASSUME UNCHANGED <<commands, completions, ready>>, AwayIsKept PROVE LoadsAreCurrent'
  <2>1. LoadsQueued' = LoadsQueued /\ \A k \in LoadsQueued : commands'[k] = commands[k]
    BY <1>q DEF LoadsQueued
  <2>. QED
    BY <1>q, <2>1, AwayStays
<1> USE DEF worldVars, loadVars, saveVars
<1>1. CASE BeginTick \/ ComputeTickets \/ AdvanceClock \/ Flushed \/ Open
  BY <1>1, <1>q, KeptStays DEF BeginTick, ComputeTickets, AdvanceClock, Flushed, Open
<1>2. CASE ReceiveCompletion \/ AwaitSave
  BY <1>2, ReceiveKeepsCurrent
<1>3. CASE Integrate
  <2>1. UNCHANGED <<pending, inFlight, store, commands, completions>> /\ ready' \subseteq ready
    BY <1>3 DEF Integrate
  <2>2. LoadsQueued' = LoadsQueued /\ LoadsAnswered' = LoadsAnswered
    BY <2>1 DEF LoadsQueued, LoadsAnswered
  <2>. QED
    BY <2>1, <2>2, KeptStays, MovedStayCurrent
<1>4. CASE IntegrateFails \/ JoinWorker \/ Crash
  <2>1. DOMAIN commands' = {} /\ DOMAIN completions' = {} /\ ready' = {}
    BY <1>4 DEF IntegrateFails, JoinWorker, Crash, Die
  <2>. QED
    BY <2>1 DEF LoadsAreCurrent, LoadsQueued, LoadsAnswered
<1>5. CASE RequestRegion
  <2>1. PICK r \in Missing :
          IF Retained.regions[r] # Nil
            THEN /\ ready' = ready \cup
                      {[request |-> nextRequest, pos |-> r, load |-> Retained.regions[r]]}
                 /\ UNCHANGED commands
            ELSE /\ commands' = Append(commands,
                      [kind |-> "load", request |-> nextRequest, pos |-> r])
                 /\ UNCHANGED ready
    BY <1>5 DEF RequestRegion
  <2>2. UNCHANGED <<pending, inFlight, store, completions>> /\ r \in Regions
    BY <1>t, <1>5 DEF RequestRegion, Missing, TypeOK
  <2>3. LoadsAnswered' = LoadsAnswered /\ Retained' = Retained /\ Kept' = Kept
    BY <2>2 DEF LoadsAnswered, Retained, Flying, Kept, Over, Prefer
  <2>4. CASE Retained.regions[r] # Nil
    <3> DEFINE e == [request |-> nextRequest, pos |-> r, load |-> Retained.regions[r]]
    <3>1. ready' = ready \cup {e} /\ UNCHANGED commands
      BY <2>1, <2>4
    <3>2. LoadsQueued' = LoadsQueued
      BY <3>1 DEF LoadsQueued
    <3>3. e.load = ReadRegion(Kept, e.pos)
      BY <2>2, <2>4 DEF ReadRegion, Kept, Over, Prefer
    <3>4. \A x \in {e} \cup ready : Current(x)'
      <4>. HIDE DEF e
      <4>1. \A x \in {e} \cup ready : Current(x)
        BY <3>3 DEF DurableInv, LoadsAreCurrent, Current
      <4>. QED
        BY <2>2, <2>3, <4>1 DEF Current, ReadRegion, Prefer, Generate
    <3>. QED
      BY <2>2, <2>3, <3>1, <3>2, <3>4 DEF DurableInv, LoadsAreCurrent, Current
  <2>5. CASE Retained.regions[r] = Nil
    <3> DEFINE c == [kind |-> "load", request |-> nextRequest, pos |-> r]
    <3>1. commands' = Append(commands, c) /\ UNCHANGED ready
      BY <2>1, <2>5
    <3>2. commands \in Seq(Commands) /\ c \in Commands /\ c.pos = r
      BY <1>t, <2>2 DEF TypeOK, Commands, LoadCommands
    <3>. HIDE DEF c
    <3>3. \A k \in LoadsQueued' :
            (k \in LoadsQueued /\ commands'[k] = commands[k]) \/ commands'[k] = c
      BY <3>1, <3>2, Sent DEF LoadsQueued
    <3>4. ASSUME NEW k \in LoadsQueued' PROVE Retained'.regions[commands'[k].pos] = Nil
      BY <2>3, <2>5, <3>2, <3>3 DEF DurableInv, LoadsAreCurrent
    <3>. QED
      BY <2>2, <2>3, <3>1, <3>4
         DEF DurableInv, LoadsAreCurrent, Current, ReadRegion, Prefer, Generate
  <2>. QED
    BY <2>4, <2>5
<1>6. CASE Expire
  <2>1. /\ UNCHANGED <<inFlight, store, commands, completions, ready>>
        /\ \A r \in Regions : sim[r] = Nil => pending'.regions[r] = pending.regions[r]
    BY <1>t, <1>6 DEF Expire, Expired, Loaded, TypeOK, Batches
  <2>2. AwayIsKept
    BY <2>1 DEF AwayIsKept, Kept, Retained, Flying, Over, Prefer
  <2>. QED
    BY <1>q, <2>1, <2>2
<1>7. CASE Autosave
  <2>1. /\ Over(WorldSnapshot, pending) \in Batches
        /\ \A r \in Regions : sim[r] = Nil =>
             Over(WorldSnapshot, pending).regions[r] = pending.regions[r]
    BY <1>t, SnapshotBatch, OverBatches DEF TypeOK, Over, WorldSnapshot, Prefer
  <2>. QED
    BY <1>7, <2>1, StartKeepsAway DEF Autosave
<1>8. CASE StartFinalSave
  BY <1>t, <1>8, StartKeepsAway DEF StartFinalSave, TypeOK
<1>9. CASE Stop
  <2>1. \A r \in Regions : sim[r] = Nil => pending'.regions[r] = pending.regions[r]
    BY <1>9 DEF Stop, Over, WorldSnapshot, Prefer
  <2>2. UNCHANGED <<inFlight, store, commands, completions, ready>>
    BY <1>9 DEF Stop
  <2>3. AwayIsKept
    BY <2>1, <2>2 DEF AwayIsKept, Kept, Retained, Flying, Over, Prefer
  <2>. QED
    BY <1>q, <2>2, <2>3
<1>10. ASSUME NEW ok \in BOOLEAN, WorkerLoad(ok) PROVE LoadsAreCurrent'
  <2>1. /\ commands # <<>> /\ commands' = Tail(commands) /\ Head(commands).kind = "load"
        /\ completions \in Seq(Completions) /\ Answer(ok) \in Completions
        /\ completions' = Append(completions, Answer(ok))
        /\ Head(commands) \in LoadCommands
        /\ UNCHANGED <<pending, inFlight, store, ready>>
    BY <1>t, <1>10, LoadAnswered DEF WorkerLoad, Completions
  <2>2. \A k \in LoadsQueued' : \E l \in LoadsQueued : commands'[k] = commands[l]
    BY <1>t, <2>1, CommandsOnlyMove
  <2>3. /\ Retained.regions[Head(commands).pos] = Nil
        /\ Head(commands).pos \in Regions
    BY <1>t, <2>1, CommandsMoveUp DEF DurableInv, LoadsAreCurrent, LoadCommands
  <2>4. Retained' = Retained /\ Kept' = Kept
    BY <2>1 DEF Retained, Flying, Kept, Over, Prefer
  <2>5. Current(Answer(ok).ready)
    BY <2>3 DEF Current, Answer, ReadRegion, Kept, Over, Prefer
  <2>6. \A k \in LoadsAnswered' :
          (k \in LoadsAnswered /\ completions'[k] = completions[k]) \/ completions'[k] = Answer(ok)
    BY <2>1, Sent DEF LoadsAnswered
  <2>7. \A k \in LoadsAnswered' : Current(completions'[k].ready)
    BY <2>5, <2>6 DEF DurableInv, LoadsAreCurrent
  <2>8. \A k \in LoadsQueued' : Retained.regions[commands'[k].pos] = Nil
    BY <2>2 DEF DurableInv, LoadsAreCurrent
  <2>. QED
    BY <2>1, <2>4, <2>7, <2>8
       DEF DurableInv, LoadsAreCurrent, Current, ReadRegion, Prefer, Generate
<1>11. ASSUME NEW ok \in BOOLEAN, WorkerSave(ok) PROVE LoadsAreCurrent'
  <2> DEFINE m == [kind |-> IF ok THEN "saved" ELSE "failed"]
  <2>1. /\ commands # <<>> /\ commands' = Tail(commands)
        /\ completions \in Seq(Completions) /\ m \in Completions /\ m.kind # "ready"
        /\ completions' = Append(completions, m) /\ UNCHANGED ready
    BY <1>t, <1>11 DEF WorkerSave, TypeOK, Completions, SaveCompletions
  <2>2. \A k \in LoadsQueued' : \E l \in LoadsQueued : commands'[k] = commands[l]
    BY <1>t, <2>1, CommandsOnlyMove
  <2>3. LoadsAnswered' = LoadsAnswered /\ \A k \in LoadsAnswered : completions'[k] = completions[k]
    BY <2>1, Sent DEF LoadsAnswered
  <2>4. AwayIsKept
    BY <1>t, <1>11, WriteKeeps DEF AwayIsKept
  <2>. QED
    BY <2>1, <2>2, <2>3, <2>4, MovedStayCurrent
<1>12. ASSUME NEW u \in Players, Join(u) PROVE LoadsAreCurrent'
  BY <1>12, <1>q, KeptStays DEF Join
<1>13. ASSUME NEW u \in Players, Depart(u) PROVE LoadsAreCurrent'
  <2>1. pending'.regions = pending.regions
    BY <1>t, <1>13 DEF Depart, TypeOK, Batches
  <2>2. UNCHANGED <<inFlight, store, commands, completions, ready>>
    BY <1>13 DEF Depart
  <2>3. AwayIsKept
    BY <2>1, <2>2 DEF AwayIsKept, Kept, Retained, Flying, Over, Prefer
  <2>. QED
    BY <1>q, <2>2, <2>3
<1>14. ASSUME NEW u \in Players, NEW r \in Regions, NEW i \in Items, Dig(u, r, i) \/ Place(u, r, i)
       PROVE  LoadsAreCurrent'
  BY <1>14, <1>q, KeptStays DEF Dig, Place
<1>15. ASSUME NEW r \in Regions, NEW q \in Regions, NEW i \in Items, Flow(r, q, i)
       PROVE  LoadsAreCurrent'
  BY <1>15, <1>q, KeptStays DEF Flow
<1>16. ASSUME NEW a \in Ages, SetTime(a) PROVE LoadsAreCurrent'
  BY <1>16, <1>q, KeptStays DEF SetTime
<1>. QED
  BY <1>1, <1>2, <1>3, <1>4, <1>5, <1>6, <1>7, <1>8, <1>9, <1>10, <1>11, <1>12, <1>13,
     <1>14, <1>15, <1>16 DEF Next, Server, Worker, Environment

\* Every step keeps what was reported saved in the database.
LEMMA WrittenStep == DurableInv /\ SaveInv' /\ Next => WrittenIsStored'
<1> SUFFICES ASSUME DurableInv, SaveInv', Next PROVE WrittenIsStored'
  OBVIOUS
<1>t. TypeOK /\ SaveInv
  BY InvTypes
<1>q. ASSUME UNCHANGED <<completions, inFlight, store>> PROVE WrittenIsStored'
  BY <1>q DEF DurableInv, WrittenIsStored, SavesAnswered, Over, Prefer
<1>n. ASSUME inFlight' = Nil PROVE WrittenIsStored'
  BY <1>n DEF SaveInv, OneSaveInFlight, WrittenIsStored
<1> USE DEF worldVars, loadVars, saveVars
<1>1. CASE BeginTick \/ ComputeTickets \/ Integrate \/ RequestRegion \/ Expire \/ AdvanceClock
           \/ Flushed \/ Open \/ Stop
  BY <1>1, <1>q DEF BeginTick, ComputeTickets, Integrate, RequestRegion, Expire, AdvanceClock,
     Flushed, Open, Stop
<1>2. CASE ReceiveCompletion \/ AwaitSave
  <2>1. CASE Head(completions).kind = "ready"
    <3>1. /\ completions \in Seq(Completions) /\ completions # <<>>
          /\ completions' = Tail(completions) /\ UNCHANGED <<inFlight, store>>
      BY <1>t, <1>2, <2>1 DEF ReceiveCompletion, AwaitSave, TypeOK, Completions
    <3>2. ASSUME NEW k \in SavesAnswered', completions'[k].kind = "saved"
          PROVE  Over(inFlight, store) = store
      <4>1. k + 1 \in SavesAnswered /\ completions'[k] = completions[k + 1]
        BY <3>1, Received DEF SavesAnswered
      <4>. QED
        BY <3>2, <4>1 DEF DurableInv, WrittenIsStored
    <3>. QED
      BY <3>1, <3>2 DEF WrittenIsStored, Over, Prefer
  <2>2. CASE Head(completions).kind # "ready"
    BY <1>2, <2>2, <1>n DEF ReceiveCompletion, AwaitSave, SettleSave
  <2>. QED
    BY <2>1, <2>2
<1>3. CASE IntegrateFails \/ JoinWorker \/ Crash
  BY <1>3, <1>n DEF IntegrateFails, JoinWorker, Crash, Die
<1>4. ASSUME NEW p \in Batches, StartSave(p), UNCHANGED <<store, completions>>
      PROVE  WrittenIsStored'
  <2>1. CASE HasStore /\ inFlight = Nil /\ p # Empty
    BY <1>t, <1>4, <2>1, StartKeeps DEF WrittenIsStored
  <2>2. CASE ~(HasStore /\ inFlight = Nil /\ p # Empty)
    BY <1>4, <2>2, <1>q DEF StartSave
  <2>. QED
    BY <2>1, <2>2
<1>5. CASE Autosave
  <2>1. Over(WorldSnapshot, pending) \in Batches
    BY <1>t, SnapshotBatch, OverBatches DEF TypeOK
  <2>. QED
    BY <1>5, <1>4, <2>1 DEF Autosave
<1>6. CASE StartFinalSave
  BY <1>t, <1>6, <1>4 DEF StartFinalSave, TypeOK
<1>7. ASSUME NEW ok \in BOOLEAN, WorkerLoad(ok) PROVE WrittenIsStored'
  <2>1. /\ completions \in Seq(Completions) /\ Answer(ok) \in Completions
        /\ completions' = Append(completions, Answer(ok)) /\ Answer(ok).kind = "ready"
        /\ UNCHANGED <<inFlight, store>>
    BY <1>t, <1>7, LoadAnswered DEF WorkerLoad, Completions, Answer
  <2>2. SavesAnswered' = SavesAnswered /\ \A k \in SavesAnswered : completions'[k] = completions[k]
    BY <2>1, Sent DEF SavesAnswered
  <2>. QED
    BY <2>1, <2>2 DEF DurableInv, WrittenIsStored, Over, Prefer
<1>8. ASSUME NEW ok \in BOOLEAN, WorkerSave(ok) PROVE WrittenIsStored'
  <2> DEFINE m == [kind |-> IF ok THEN "saved" ELSE "failed"]
  <2>1. /\ completions \in Seq(Completions) /\ m \in Completions
        /\ completions' = Append(completions, m) /\ UNCHANGED inFlight
        /\ m.kind = "saved" => ok
    BY <1>t, <1>8 DEF WorkerSave, TypeOK, Completions, SaveCompletions
  <2>2. SavesAnswered = {} /\ (ok => Over(inFlight, store') = store')
    BY <1>t, <1>8, WriteKeeps
  <2>3. \A k \in SavesAnswered' : completions'[k] = m
    BY <2>1, <2>2, Sent DEF SavesAnswered
  <2>. QED
    BY <2>1, <2>2, <2>3 DEF WrittenIsStored, Over, Prefer
<1>9. ASSUME NEW u \in Players, Join(u) \/ Depart(u) PROVE WrittenIsStored'
  BY <1>9, <1>q DEF Join, Depart
<1>10. ASSUME NEW u \in Players, NEW r \in Regions, NEW i \in Items, Dig(u, r, i) \/ Place(u, r, i)
       PROVE  WrittenIsStored'
  BY <1>10, <1>q DEF Dig, Place
<1>11. ASSUME NEW r \in Regions, NEW q \in Regions, NEW i \in Items, Flow(r, q, i)
       PROVE  WrittenIsStored'
  BY <1>11, <1>q DEF Flow
<1>12. ASSUME NEW a \in Ages, SetTime(a) PROVE WrittenIsStored'
  BY <1>12, <1>q DEF SetTime
<1>. QED
  BY <1>1, <1>2, <1>3, <1>5, <1>6, <1>7, <1>8, <1>9, <1>10, <1>11, <1>12
     DEF Next, Server, Worker, Environment

\* The final batch is written: the database is the whole world.
LEMMA FinalWriteIsWorld ==
  ASSUME DurableInv, TypeOK', HasStore, pc = "final", AwaitSave,
         Head(completions).kind = "saved"
  PROVE  inFlight' = Nil /\ pending' = Empty /\ Resumed(store) = World
<1>t. TypeOK
  BY InvTypes
<1>1. /\ completions # <<>> /\ SettleSave(Head(completions)) /\ UNCHANGED store
      /\ UNCHANGED <<sim, players, age>> /\ inFlight # Nil
  BY DEF AwaitSave, worldVars
<1>2. pending = Empty /\ Over(WorldSnapshot, inFlight) = inFlight
  BY <1>1 DEF DurableInv, StopIsStaged
<1>3. Kept' = Kept /\ inFlight \in Batches /\ Over(inFlight, store) = store
  BY <1>1, SettleKeeps
<1>4. inFlight' = Nil /\ pending' = Empty
  BY <1>1, <1>2 DEF SettleSave
<1>5. store \in Batches /\ WorldSnapshot \in Batches
  BY <1>t, SnapshotBatch DEF TypeOK
<1>6. Kept' = Over(Over(Empty, Empty), store)
  BY <1>1, <1>4 DEF Kept, Retained, Flying
<1>7. Kept = store
  BY <1>3, <1>5, <1>6, EmptyBatch, OverNothing
<1>8. Over(WorldSnapshot, store) = Over(Over(WorldSnapshot, inFlight), store)
  BY <1>3, <1>5, OverAssociates
<1>9. Whole = store
  BY <1>2, <1>3, <1>7, <1>8 DEF Whole
<1>. QED
  BY <1>t, <1>4, <1>9, WorldIsWhole

\* Every step of a stop keeps the last snapshot where the stop looks for it.
LEMMA StagedStep == DurableInv /\ SaveInv' /\ Next => StopIsStaged'
<1> SUFFICES ASSUME DurableInv, SaveInv', Next, HasStore
             PROVE  /\ pc' = "finish" => Over(WorldSnapshot, pending)' = pending'
                    /\ pc' = "final" =>
                         /\ pending' = Empty
                         /\ inFlight' = Nil => Resumed(store)' = World'
                         /\ inFlight' # Nil => Over(WorldSnapshot, inFlight)' = inFlight'
                    /\ pc' = "joined" => Resumed(store)' = World'
  BY DEF StopIsStaged, Empty
<1>t. TypeOK /\ SaveInv /\ TypeOK'
  BY InvTypes DEF SaveInv
<1>i. /\ pc = "finish" => Over(WorldSnapshot, pending) = pending
      /\ pc = "final" =>
           /\ pending = Empty
           /\ inFlight = Nil => Resumed(store) = World
           /\ inFlight # Nil => Over(WorldSnapshot, inFlight) = inFlight
      /\ pc = "joined" => Resumed(store) = World
  BY DEF DurableInv, StopIsStaged
<1>w. ASSUME UNCHANGED <<sim, players, age>> PROVE WorldSnapshot' = WorldSnapshot
  BY <1>w DEF WorldSnapshot
<1>o. /\ Over(WorldSnapshot, pending)' = Over(WorldSnapshot', pending')
      /\ Over(WorldSnapshot, inFlight)' = Over(WorldSnapshot', inFlight')
  BY DEF Over, Prefer
<1> USE DEF worldVars, loadVars, saveVars
<1>1. CASE pc' \notin {"finish", "final", "joined"}
  BY <1>1
<1>2. CASE BeginTick \/ ComputeTickets \/ ReceiveCompletion \/ Integrate \/ IntegrateFails
           \/ RequestRegion \/ Expire \/ AdvanceClock \/ Autosave \/ JoinWorker \/ Open \/ Crash
  <2>1. pc' \notin {"finish", "final", "joined"}
    BY <1>2 DEF BeginTick, ComputeTickets, ReceiveCompletion, Integrate, IntegrateFails,
       RequestRegion, Expire, AdvanceClock, Autosave, JoinWorker, Open, Crash, Die, Drained
  <2>. QED
    BY <1>1, <2>1
<1>3. CASE Stop
  <2>1. pc' = "finish" /\ pending' = Over(WorldSnapshot, pending) /\ WorldSnapshot' = WorldSnapshot
    BY <1>3, <1>w DEF Stop
  <2>2. Over(WorldSnapshot, Over(WorldSnapshot, pending)) = Over(WorldSnapshot, pending)
    <3>1. WorldSnapshot \in Batches /\ pending \in Batches
      BY <1>t, SnapshotBatch DEF TypeOK
    <3>2. Over(WorldSnapshot, Over(WorldSnapshot, pending))
            = Over(Over(WorldSnapshot, WorldSnapshot), pending)
      BY <3>1, OverAssociates
    <3>. QED
      BY <3>1, <3>2, OverItself
  <2>. QED
    BY <1>o, <2>1, <2>2
<1>4. CASE AwaitSave
  <2>1. /\ completions # <<>> /\ pc \in {"finish", "final"} /\ inFlight # Nil
        /\ UNCHANGED <<sim, players, age, commands, store>>
        /\ WorldSnapshot' = WorldSnapshot
    BY <1>4, <1>w DEF AwaitSave
  <2>2. World' = World /\ Resumed(store)' = Resumed(store)
    BY <1>t, <1>4, ReceiveStutters DEF Stutters
  <2>3. CASE Head(completions).kind = "ready"
    <3>1. UNCHANGED <<pc, pending, inFlight>>
      BY <1>4, <2>3 DEF AwaitSave
    <3>. QED
      BY <1>i, <1>o, <2>1, <2>2, <3>1
  <2>4. CASE Head(completions).kind = "failed"
    BY <1>1, <1>4, <2>4 DEF AwaitSave
  <2>5. CASE Head(completions).kind = "saved"
    <3>1. pc' = pc /\ pending' = pending
      BY <1>4, <2>5 DEF AwaitSave, SettleSave
    <3>2. CASE pc = "finish"
      BY <1>i, <1>o, <2>1, <3>1, <3>2
    <3>3. CASE pc = "final"
      BY <1>t, <1>4, <2>2, <2>5, <3>1, <3>3, FinalWriteIsWorld
    <3>. QED
      BY <2>1, <3>2, <3>3
  <2>6. Head(completions).kind \in {"ready", "saved", "failed"}
    BY <1>t, <2>1, HeadOfCompletions DEF Completions, ReadyCompletions, SaveCompletions
  <2>. QED
    BY <2>3, <2>4, <2>5, <2>6
<1>5. CASE StartFinalSave
  <2>1. /\ pc = "finish" /\ pc' = "final" /\ inFlight = Nil /\ StartSave(pending)
        /\ WorldSnapshot' = WorldSnapshot
    BY <1>5, <1>w DEF StartFinalSave
  <2>2. pending # Empty
    <3>1. pending.meta = Prefer(age, pending.meta)
      BY <1>i, <2>1 DEF Over, WorldSnapshot
    <3>2. age # Nil
      BY <1>t, NilOK DEF TypeOK, Ages
    <3>. QED
      BY <3>1, <3>2 DEF Prefer, Empty
  <2>3. inFlight' = pending /\ pending' = Empty /\ pending # Nil
    BY <1>t, <2>1, <2>2, NilIsNoBatch DEF StartSave, TypeOK
  <2>. QED
    BY <1>i, <1>o, <2>1, <2>3
<1>6. CASE Flushed
  <2>1. /\ UNCHANGED <<sim, players, age, pending, inFlight, commands, store>>
        /\ pc = "final" /\ pc' = "joined" /\ inFlight = Nil
    BY <1>6 DEF Flushed
  <2>2. World' = World /\ Resumed(store)' = Resumed(store)
    BY <2>1, QuietStutters DEF Stutters
  <2>. QED
    BY <1>i, <2>1, <2>2
<1>7. ASSUME NEW ok \in BOOLEAN, WorkerLoad(ok) PROVE StopIsStaged'
  <2>1. UNCHANGED <<pc, sim, players, age, pending, inFlight>> /\ WorldSnapshot' = WorldSnapshot
    BY <1>7, <1>w DEF WorkerLoad
  <2>2. World' = World /\ Resumed(store)' = Resumed(store)
    BY <1>t, <1>7, ReadStutters DEF Stutters
  <2>. QED
    BY <1>i, <1>o, <2>1, <2>2 DEF StopIsStaged, Empty
<1>8. ASSUME NEW ok \in BOOLEAN, WorkerSave(ok) PROVE StopIsStaged'
  <2>1. UNCHANGED <<pc, sim, players, age, pending, inFlight>> /\ WorldSnapshot' = WorldSnapshot
    BY <1>8, <1>w DEF WorkerSave
  <2>2. SavesQueued # {}
    BY <1>t, <1>8, WriteKeeps
  <2>3. inFlight # Nil /\ pc # "joined"
    BY <1>t, <2>2 DEF SaveInv, OneSaveInFlight
  <2>. QED
    BY <1>i, <1>o, <2>1, <2>3 DEF StopIsStaged, Empty
<1>9. ASSUME NEW u \in Players, Join(u) \/ Depart(u) PROVE pc' = "play"
  BY <1>9 DEF Join, Depart
<1>10. ASSUME NEW u \in Players, NEW r \in Regions, NEW i \in Items, Dig(u, r, i) \/ Place(u, r, i)
       PROVE  pc' = "play"
  BY <1>10 DEF Dig, Place
<1>11. ASSUME NEW r \in Regions, NEW q \in Regions, NEW i \in Items, Flow(r, q, i)
       PROVE  pc' = "sim"
  BY <1>11 DEF Flow
<1>12. ASSUME NEW a \in Ages, SetTime(a) PROVE pc' = "play"
  BY <1>12 DEF SetTime
<1>13. StopIsStaged' =>
         /\ pc' = "finish" => Over(WorldSnapshot, pending)' = pending'
         /\ pc' = "final" =>
              /\ pending' = Empty
              /\ inFlight' = Nil => Resumed(store)' = World'
              /\ inFlight' # Nil => Over(WorldSnapshot, inFlight)' = inFlight'
         /\ pc' = "joined" => Resumed(store)' = World'
  BY DEF StopIsStaged, Empty
<1>. QED
  BY <1>1, <1>2, <1>3, <1>4, <1>5, <1>6, <1>7, <1>8, <1>9, <1>10, <1>11, <1>12, <1>13
     DEF Next, Server, Worker, Environment

\* Every step keeps the invariant.
LEMMA DurableInvStep == DurableInv /\ [Next]_vars => DurableInv'
<1> SUFFICES ASSUME DurableInv, [Next]_vars PROVE DurableInv'
  OBVIOUS
<1>1. LoadInv'
  BY LoadInvStep DEF DurableInv
<1>2. CASE Next
  <2>1. SaveInv'
    BY <1>1 DEF LoadInv
  <2>. QED
    BY <1>1, <1>2, <2>1, AwayStep, CurrentStep, WrittenStep, StagedStep DEF DurableInv
<1>3. CASE UNCHANGED vars
  <2>1. UNCHANGED <<pc, sim, players, age, requested, ready, pending, inFlight, commands,
                    completions, store>>
    BY <1>3 DEF vars, worldVars, loadVars, saveVars
  <2>2. RequestedAreAway' /\ WrittenIsStored'
    BY <2>1 DEF DurableInv, RequestedAreAway, WrittenIsStored, SavesAnswered, Over, Prefer
  <2>3. LoadsAreCurrent'
    <3>1. Retained' = Retained
      BY <2>1 DEF Retained, Flying, Over, Prefer
    <3>2. Kept' = Kept
      BY <2>1, <3>1 DEF Kept, Over, Prefer
    <3>3. LoadsQueued' = LoadsQueued /\ LoadsAnswered' = LoadsAnswered
      BY <2>1 DEF LoadsQueued, LoadsAnswered
    <3>4. \A x : Current(x)' <=> Current(x)
      BY <3>2 DEF Current, ReadRegion, Prefer, Generate
    <3>. QED
      BY <2>1, <3>1, <3>3, <3>4 DEF DurableInv, LoadsAreCurrent
  <2>4. World' = World /\ Resumed(store)' = Resumed(store)
    BY <2>1, QuietStutters DEF Stutters
  <2>5. Over(WorldSnapshot, pending)' = Over(WorldSnapshot, pending)
        /\ Over(WorldSnapshot, inFlight)' = Over(WorldSnapshot, inFlight)
    BY <2>1 DEF Over, Prefer, WorldSnapshot
  <2>6. StopIsStaged'
    BY <2>1, <2>4, <2>5 DEF DurableInv, StopIsStaged, Empty
  <2>. QED
    BY <1>1, <2>2, <2>3, <2>6 DEF DurableInv
<1>. QED
  BY <1>2, <1>3
-----------------------------------------------------------------------------
(* The theorems.                                                           *)

LEMMA DurableInit == Init => Durable!Init
<1> SUFFICES ASSUME Init PROVE Durable!Init
  OBVIOUS
<1>1. TypeOK
  BY InitTypeOK
<1>2. /\ store = Empty /\ inFlight = Nil /\ commands = <<>>
      /\ sim = [r \in Regions |-> Nil] /\ players = [u \in Players |-> Nil]
      /\ age = ReadAge(Empty) /\ pending = FirstPending
  BY DEF Init
<1>3. Cut = Nil
  BY <1>2 DEF Cut, SavesQueued
<1>4. /\ \A r \in Regions : pending.regions[r] = Nil
      /\ \A u \in Players : pending.players[u] = Nil
  BY <1>2 DEF FirstPending, Empty
<1>5. Flying = Empty
  BY <1>2 DEF Flying
<1>6. \A u \in Players : u \notin Regions
  BY ConstantsOK
<1>7. ASSUME NEW r \in Regions PROVE Prefer(sim[r], Known(r)) = ReadRegion(Empty, r)
  BY <1>2, <1>4, <1>5, <1>7 DEF Known, Retained, Over, Empty, Prefer, ReadRegion
<1>8. ASSUME NEW u \in Players PROVE Prefer(players[u], Known(u)) = ReadPlayer(Empty, u)
  BY <1>2, <1>4, <1>5, <1>6, <1>8 DEF Known, Retained, Over, Empty, Prefer, ReadPlayer
<1>9. World.holds = Resumed(Empty).holds
  BY <1>6, <1>7, <1>8 DEF World, Resumed, Places
<1>10. World = Resumed(Empty)
  BY <1>2, <1>9 DEF World, Resumed
<1>. QED
  BY <1>2, <1>3, <1>10 DEF Durable!Init

\* Every step of the server, the storage thread and the environment is a step
\* of the durable world, or leaves it as it is.
LEMMA DurableStep == DurableInv /\ SaveInv' /\ Next => Durable!Next \/ Stutters
<1> SUFFICES ASSUME DurableInv, SaveInv', Next PROVE Durable!Next \/ Stutters
  OBVIOUS
<1>t. TypeOK /\ SaveInv /\ TypeOK'
  BY InvTypes DEF SaveInv
<1> USE DEF worldVars, loadVars, saveVars
<1>1. CASE BeginTick \/ ComputeTickets \/ Flushed \/ Open
  BY <1>1, QuietStutters DEF BeginTick, ComputeTickets, Flushed, Open
<1>2. CASE ReceiveCompletion \/ AwaitSave
  BY <1>t, <1>2, ReceiveStutters
<1>3. CASE Integrate
  BY <1>t, <1>3, IntegrateStutters
<1>4. CASE IntegrateFails \/ JoinWorker \/ Crash
  BY <1>t, <1>4, DieRecovers DEF IntegrateFails, JoinWorker, Crash, Durable!Next
<1>5. CASE RequestRegion
  BY <1>t, <1>5, RequestStutters
<1>6. CASE Expire
  BY <1>t, <1>6, ExpireStutters
<1>7. CASE AdvanceClock
  BY <1>t, <1>7, ClockAges DEF AdvanceClock, Durable!Next
<1>8. CASE Autosave
  BY <1>t, <1>8, AutosaveSnapshots DEF Durable!Next
<1>9. CASE StartFinalSave
  BY <1>t, <1>9, FinalSaveSnapshots DEF Durable!Next
<1>10. CASE Stop
  BY <1>t, <1>10, StopStutters
<1>11. ASSUME NEW ok \in BOOLEAN, WorkerLoad(ok) PROVE Stutters
  BY <1>t, <1>11, ReadStutters
<1>12. ASSUME NEW ok \in BOOLEAN, WorkerSave(ok) PROVE Durable!Next
  BY <1>t, <1>12, WriteCommits DEF Durable!Next
<1>13. ASSUME NEW u \in Players, Join(u) PROVE Stutters
  BY <1>t, <1>13, JoinStutters
<1>14. ASSUME NEW u \in Players, Depart(u) PROVE Stutters
  BY <1>t, <1>14, DepartStutters
<1>15. ASSUME NEW u \in Players, NEW r \in Regions, NEW i \in Items, Dig(u, r, i)
       PROVE  Durable!Next
  BY <1>t, <1>15, DigMoves DEF Durable!Next
<1>16. ASSUME NEW u \in Players, NEW r \in Regions, NEW i \in Items, Place(u, r, i)
       PROVE  Durable!Next
  BY <1>t, <1>16, PlaceMoves DEF Durable!Next
<1>17. ASSUME NEW r \in Regions, NEW q \in Regions, NEW i \in Items, Flow(r, q, i)
       PROVE  Durable!Next
  BY <1>t, <1>17, FlowMoves DEF Durable!Next
<1>18. ASSUME NEW a \in Ages, SetTime(a) PROVE Durable!Next
  BY <1>t, <1>18, ClockAges DEF SetTime, Durable!Next
<1>. QED
  BY <1>1, <1>2, <1>3, <1>4, <1>5, <1>6, <1>7, <1>8, <1>9, <1>10, <1>11, <1>12, <1>13,
     <1>14, <1>15, <1>16, <1>17, <1>18 DEF Next, Server, Worker, Environment

\* Together with the storage thread the server is a world that is photographed,
\* saved and resumed as a whole, whatever unloads, reloads, departures, failed
\* writes, skipped autosaves and crashes happen.
THEOREM ServerIsDurable == Spec => Refines
<1>1. DurableInv /\ SaveInv' /\ [Next]_vars => [Durable!Next]_(Durable!vars)
  <2>1. ASSUME UNCHANGED vars PROVE Stutters
    BY <2>1, QuietStutters DEF vars, worldVars, loadVars, saveVars
  <2>2. Stutters => UNCHANGED Durable!vars
    BY DEF Stutters, Durable!vars
  <2>. QED
    BY <2>1, <2>2, DurableStep
<1>2. DurableInv => SaveInv
  BY InvTypes
<1>. QED
  BY DurableInvInit, DurableInvStep, DurableInit, <1>1, <1>2, PTL DEF Spec, Refines, Durable!Spec

\* A stop whose flush succeeded leaves the world on disk as it was played last.
THEOREM StopsAreClean == Spec => []CleanStop
<1>1. DurableInv => CleanStop
  BY DEF DurableInv, StopIsStaged, CleanStop
<1>. QED
  BY DurableInvInit, DurableInvStep, <1>1, PTL DEF Spec
=============================================================================
