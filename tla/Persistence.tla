----------------------------- MODULE Persistence -----------------------------
(***************************************************************************)
(* Regions, players and the world store of the server: the server thread   *)
(* (regions.rs, persistence.rs, the part of lib.rs that drives them), the  *)
(* storage thread (persistence/worker.rs), the two channels between them   *)
(* and the database (persistence/store.rs).                                *)
(*                                                                         *)
(* The data of a region is the set of items in it and the data of a player *)
(* the set of items carried: enough to see a snapshot that is stale, lost  *)
(* or applied twice.  A missing region, record or read is Nil.             *)
(*                                                                         *)
(* The server thread is the program counter pc.  A tick runs               *)
(*   top -> play -> drain -> request -> sim -> save                        *)
(* and a graceful stop                                                     *)
(*   top -> finish -> final -> joined / failed -> down.                    *)
(* The storage thread interleaves with every step of it.                   *)
(***************************************************************************)
EXTENDS Integers, Sequences, FiniteSets

CONSTANTS Regions,          \* positions, numbered in the order (y, x) of the scans
          Players,          \* player uuids
          Items,
          Origin,           \* the region each item is generated in
          HasStore,         \* FALSE: a world without a save path
          MaxRequest,       \* last request id before the counter wraps (2^64 - 1)
          MaxLoadsPerTick,  \* MAX_LOADS_PER_TICK
          MaxPendingLoads,  \* MAX_PENDING_REGION_LOADS
          UnloadGrace,      \* UNLOAD_GRACE_TICKS
          AgeMod,           \* the world's age is counted modulo AgeMod
          Nil

ASSUME ConstantsOK ==
  /\ Regions \subseteq Nat
  /\ IsFiniteSet(Regions)
  /\ Regions \cap Players = {}
  /\ Origin \in [Items -> Regions]
  /\ HasStore \in BOOLEAN
  /\ MaxRequest \in Nat \ {0}
  /\ MaxLoadsPerTick \in Nat \ {0}
  /\ MaxPendingLoads \in Nat \ {0}
  /\ UnloadGrace \in Nat
  /\ AgeMod \in Nat \ {0}

ASSUME NilOK ==
  /\ \A c \in SUBSET Items : c # Nil
  /\ Nil \notin Nat

Slots == {Nil} \cup SUBSET Items
Ages == 0..(AgeMod - 1)
RequestIds == 1..MaxRequest
NoRequest == 0

\* Regions, players and metadata that travel together: what is pending, a
\* batch in flight and the three tables of the database have one shape.
Batches == [regions : [Regions -> Slots],
            players : [Players -> Slots],
            meta : {Nil} \cup Ages]

Empty == [regions |-> [r \in Regions |-> Nil],
          players |-> [u \in Players |-> Nil],
          meta |-> Nil]

ASSUME NilIsNoBatch == Nil \notin Batches

\* What is held where and the calendar; no cut of DurableWorld is taken for none.
ASSUME NilIsNoWorld == Nil \notin [holds : [Regions \cup Players -> SUBSET Items], age : Ages]

Loads == [request : RequestIds, pos : Regions, load : Slots]

LoadCommands == [kind : {"load"}, request : RequestIds, pos : Regions]
SaveCommands == [kind : {"save"}, batch : Batches]
ReadyCompletions == [kind : {"ready"}, ready : Loads]
SaveCompletions == [kind : {"saved", "failed"}]

VARIABLES
  pc,           \* where the server thread is
  sim,          \* contents of the loaded regions, Nil when not loaded
  idle,         \* ticks since a loaded region was last wanted
  players,      \* inventories of the players present
  age,          \* the calendar
  wanted,       \* regions the tickets of this tick cover, while they are managed
  requested,    \* request id outstanding for a region
  ready,        \* loads received and not integrated
  nextRequest,
  pending,      \* snapshots not yet handed to the storage thread
  inFlight,     \* the batch handed to it, or Nil
  commands,     \* channel to the storage thread
  completions,  \* channel back
  store         \* the database

worldVars == <<sim, idle, players, age>>
loadVars == <<wanted, requested, ready, nextRequest>>
saveVars == <<pending, inFlight>>
vars == <<pc, worldVars, loadVars, saveVars, commands, completions, store>>

Loaded == {r \in Regions : sim[r] # Nil}
Present == {u \in Players : players[u] # Nil}
-----------------------------------------------------------------------------
(* What is known of the world outside the simulation.                      *)

Prefer(a, b) == IF a # Nil THEN a ELSE b

\* The entries of new, and those of old that new has no entry for.
Over(new, old) ==
  [regions |-> [r \in Regions |-> Prefer(new.regions[r], old.regions[r])],
   players |-> [u \in Players |-> Prefer(new.players[u], old.players[u])],
   meta |-> Prefer(new.meta, old.meta)]

Flying == IF inFlight = Nil THEN Empty ELSE inFlight

Retained == Over(pending, Flying)

Generate(r) == {i \in Items : Origin[i] = r}

ReadRegion(s, r) == Prefer(s.regions[r], Generate(r))
ReadPlayer(s, u) == Prefer(s.players[u], {})
ReadAge(s) == Prefer(s.meta, 0)

\* A batch with everything that is loaded or present.
WorldSnapshot == [regions |-> sim, players |-> players, meta |-> age]

\* Mutation: the counter wraps to 0, which stands for no request.
NextIdFromZero(n) == IF n = MaxRequest THEN 0 ELSE n + 1

NextId(n) == IF n = MaxRequest THEN 1 ELSE n + 1
-----------------------------------------------------------------------------
(* The process starts on what the database holds.                          *)

\* A world without metadata is a new one: its metadata waits to be saved.
FirstPending == [Empty EXCEPT !.meta = IF store.meta = Nil THEN 0 ELSE Nil]

Init ==
  /\ pc = "top"
  /\ store = Empty
  /\ sim = [r \in Regions |-> Nil]
  /\ idle = [r \in Regions |-> 0]
  /\ players = [u \in Players |-> Nil]
  /\ age = ReadAge(store)
  /\ wanted = {}
  /\ requested = [r \in Regions |-> NoRequest]
  /\ ready = {}
  /\ nextRequest = 1
  /\ pending = FirstPending
  /\ inFlight = Nil
  /\ commands = <<>>
  /\ completions = <<>>

\* The process is gone with everything that was not committed; the next one
\* finds the database.
Die ==
  /\ pc' = "down"
  /\ UNCHANGED store
  /\ sim' = [r \in Regions |-> Nil]
  /\ idle' = [r \in Regions |-> 0]
  /\ players' = [u \in Players |-> Nil]
  /\ age' = ReadAge(store)
  /\ wanted' = {}
  /\ requested' = [r \in Regions |-> NoRequest]
  /\ ready' = {}
  /\ nextRequest' = 1
  /\ pending' = FirstPending
  /\ inFlight' = Nil
  /\ commands' = <<>>
  /\ completions' = <<>>

Crash == pc # "down" /\ Die

Open ==
  /\ pc = "down"
  /\ pc' = "top"
  /\ UNCHANGED <<worldVars, loadVars, saveVars, commands, completions, store>>
-----------------------------------------------------------------------------
(* The tick: network and player input.                                     *)

BeginTick ==
  /\ pc = "top"
  /\ pc' = "play"
  /\ UNCHANGED <<worldVars, loadVars, saveVars, commands, completions, store>>

\* A handshake of a player who is not present: the record comes from what is
\* pending, else from the batch in flight, else straight from the database.
Join(u) ==
  /\ pc = "play"
  /\ players[u] = Nil
  /\ players' = [players EXCEPT ![u] = Prefer(Retained.players[u], ReadPlayer(store, u))]
  /\ UNCHANGED <<pc, sim, idle, age, loadVars, saveVars, commands, completions, store>>

Depart(u) ==
  /\ pc = "play"
  /\ players[u] # Nil
  /\ pending' = [pending EXCEPT !.players[u] = players[u]]
  /\ players' = [players EXCEPT ![u] = Nil]
  /\ UNCHANGED <<pc, sim, idle, age, loadVars, inFlight, commands, completions, store>>

\* A player picks an item out of a loaded region or puts one there.
Dig(u, r, i) ==
  /\ pc = "play"
  /\ u \in Present /\ r \in Loaded
  /\ i \in sim[r]
  /\ sim' = [sim EXCEPT ![r] = @ \ {i}]
  /\ players' = [players EXCEPT ![u] = @ \cup {i}]
  /\ UNCHANGED <<pc, idle, age, loadVars, saveVars, commands, completions, store>>

Place(u, r, i) ==
  /\ pc = "play"
  /\ u \in Present /\ r \in Loaded
  /\ i \in players[u]
  /\ players' = [players EXCEPT ![u] = @ \ {i}]
  /\ sim' = [sim EXCEPT ![r] = @ \cup {i}]
  /\ UNCHANGED <<pc, idle, age, loadVars, saveVars, commands, completions, store>>

\* The command that sets the calendar.
SetTime(a) ==
  /\ pc = "play"
  /\ Present # {}
  /\ age' = a
  /\ UNCHANGED <<pc, sim, idle, players, loadVars, saveVars, commands, completions, store>>

\* The regions around the players; nobody present, nothing wanted.
ComputeTickets ==
  /\ pc = "play"
  /\ \E W \in SUBSET Regions :
       /\ Present = {} => W = {}
       /\ wanted' = W
  /\ pc' = "drain"
  /\ UNCHANGED <<worldVars, requested, ready, nextRequest, saveVars, commands, completions, store>>
-----------------------------------------------------------------------------
(* The tick: managing regions.                                             *)

\* Mutation: the batch that was not written replaces what was staged since.
SettleSaveOverNewer(message) ==
  /\ inFlight' = Nil
  /\ pending' = IF message.kind = "failed" THEN Over(inFlight, pending) ELSE pending

\* The batch in flight is settled: dropped when it was written, and put back
\* under whatever was staged since when it was not.
SettleSave(message) ==
  /\ inFlight' = Nil
  /\ pending' = IF message.kind = "failed" THEN Over(pending, inFlight) ELSE pending

ReceiveCompletion ==
  /\ pc = "drain"
  /\ completions # <<>>
  /\ LET message == Head(completions) IN
       IF message.kind = "ready"
         THEN /\ ready' = ready \cup {message.ready}
              /\ UNCHANGED saveVars
         ELSE /\ SettleSave(message)
              /\ UNCHANGED ready
  /\ completions' = Tail(completions)
  /\ UNCHANGED <<pc, worldVars, wanted, requested, nextRequest, commands, store>>

Expected(e) == requested[e.pos] = e.request

\* Loads nobody waits for any more.
Unwanted == {e \in ready : ~Expected(e) \/ e.pos \notin wanted}

\* The loads of this tick: the first few of the others in scan order.
Integrable ==
  LET candidates == ready \ Unwanted IN
  {e \in candidates : Cardinality({f \in candidates : f.pos < e.pos}) < MaxLoadsPerTick}

\* Mutation: a load that nobody wants any more stays requested.
SettledWhenLoaded == {e.pos : e \in Integrable}

\* The regions whose request is over.
Settled == {e.pos : e \in {f \in Unwanted \cup Integrable : Expected(f)}}

\* A failed read ends the server when its turn comes.
FailedRead == \E e \in Unwanted \cup Integrable : e.load = Nil

Drained == pc = "drain" /\ completions = <<>>

Integrate ==
  /\ Drained
  /\ ~FailedRead
  /\ sim' = [r \in Regions |->
               IF \E e \in Integrable : e.pos = r
                 THEN (CHOOSE e \in Integrable : e.pos = r).load
                 ELSE sim[r]]
  /\ requested' = [r \in Regions |->
                     IF r \in Settled THEN NoRequest ELSE requested[r]]
  /\ ready' = ready \ (Unwanted \cup Integrable)
  /\ pc' = "request"
  /\ UNCHANGED <<idle, players, age, wanted, nextRequest, saveVars, commands, completions, store>>

IntegrateFails ==
  /\ Drained
  /\ FailedRead
  /\ Die

Outstanding == {r \in Regions : requested[r] # NoRequest}

Missing == {r \in wanted : sim[r] = Nil /\ requested[r] = NoRequest}

CanRequest == Missing # {} /\ Cardinality(Outstanding) < MaxPendingLoads

\* The first region of the scan that has to be fetched: a snapshot that has
\* not been written is the answer at once, any other region is asked for.
RequestRegion ==
  /\ pc = "request"
  /\ CanRequest
  /\ \E r \in Missing :
       /\ \A q \in Missing : r <= q
       /\ requested' = [requested EXCEPT ![r] = nextRequest]
       /\ IF Retained.regions[r] # Nil
            THEN /\ ready' = ready \cup
                      {[request |-> nextRequest, pos |-> r, load |-> Retained.regions[r]]}
                 /\ UNCHANGED commands
            ELSE /\ commands' = Append(commands,
                      [kind |-> "load", request |-> nextRequest, pos |-> r])
                 /\ UNCHANGED ready
  /\ nextRequest' = NextId(nextRequest)
  /\ UNCHANGED <<pc, worldVars, wanted, saveVars, completions, store>>

\* Mutation: being wanted does not keep a region.
IdleTicksWhenWanted(r) == IF sim[r] = Nil THEN 0 ELSE idle[r] + 1

IdleTicks(r) == IF r \in wanted \/ sim[r] = Nil THEN 0 ELSE idle[r] + 1

Expired == {r \in Loaded : IdleTicks(r) > UnloadGrace}

\* Regions unwanted for longer than the grace period leave the simulation;
\* their snapshot replaces the pending one.
Expire ==
  /\ pc = "request"
  /\ ~CanRequest
  /\ pending' = [pending EXCEPT !.regions =
                   [r \in Regions |-> IF r \in Expired THEN sim[r] ELSE @[r]]]
  /\ sim' = [r \in Regions |-> IF r \in Expired THEN Nil ELSE sim[r]]
  /\ idle' = [r \in Regions |-> IF r \in Expired THEN 0 ELSE IdleTicks(r)]
  /\ wanted' = {}
  /\ pc' = "sim"
  /\ UNCHANGED <<players, age, requested, ready, nextRequest, inFlight, commands, completions,
                 store>>
-----------------------------------------------------------------------------
(* The tick: simulation, clock and autosave.                               *)

\* Matter crosses from one loaded region to another.
Flow(r, q, i) ==
  /\ pc = "sim"
  /\ r # q /\ r \in Loaded /\ q \in Loaded
  /\ i \in sim[r]
  /\ sim' = [sim EXCEPT ![r] = @ \ {i}, ![q] = @ \cup {i}]
  /\ UNCHANGED <<pc, idle, players, age, loadVars, saveVars, commands, completions, store>>

\* The calendar advances; the ten seconds until the next autosave may be over.
AdvanceClock ==
  /\ pc = "sim"
  /\ age' = (age + 1) % AgeMod
  /\ pc' \in IF HasStore THEN {"save", "top"} ELSE {"top"}
  /\ UNCHANGED <<sim, idle, players, loadVars, saveVars, commands, completions, store>>

\* Mutation: a save starts while another is in flight.
StartSaveTwice(p) ==
  IF HasStore /\ p # Empty
    THEN /\ inFlight' = p
         /\ pending' = Empty
         /\ commands' = Append(commands, [kind |-> "save", batch |-> p])
    ELSE /\ pending' = p
         /\ UNCHANGED <<inFlight, commands>>

\* Mutation: the batch is in flight though it was never sent.
StartSaveUnsent(p) ==
  IF HasStore /\ inFlight = Nil /\ p # Empty
    THEN /\ inFlight' = p
         /\ pending' = Empty
         /\ UNCHANGED commands
    ELSE /\ pending' = p
         /\ UNCHANGED <<inFlight, commands>>

\* Hands everything pending to the storage thread, unless a batch is still
\* there, nothing is pending or there is no database.
StartSave(p) ==
  IF HasStore /\ inFlight = Nil /\ p # Empty
    THEN /\ inFlight' = p
         /\ pending' = Empty
         /\ commands' = Append(commands, [kind |-> "save", batch |-> p])
    ELSE /\ pending' = p
         /\ UNCHANGED <<inFlight, commands>>

\* The whole world is staged and a save started.
Autosave ==
  /\ pc = "save"
  /\ StartSave(Over(WorldSnapshot, pending))
  /\ pc' = "top"
  /\ UNCHANGED <<worldVars, loadVars, completions, store>>
-----------------------------------------------------------------------------
(* A graceful stop: a last snapshot, then flush, then join the thread.     *)

\* Mutation: the last snapshot leaves what is pending of a region or a player
\* as it was staged before.
StopKeepingOlder ==
  /\ pc = "top"
  /\ pending' = IF HasStore THEN Over(pending, WorldSnapshot) ELSE pending
  /\ pc' = "finish"
  /\ UNCHANGED <<worldVars, loadVars, inFlight, commands, completions, store>>

Stop ==
  /\ pc = "top"
  /\ pending' = IF HasStore THEN Over(WorldSnapshot, pending) ELSE pending
  /\ pc' = "finish"
  /\ UNCHANGED <<worldVars, loadVars, inFlight, commands, completions, store>>

\* Waits for the batch in flight: loads that arrive meanwhile are dropped,
\* and a write that failed ends the flush.
AwaitSave ==
  /\ pc \in {"finish", "final"}
  /\ inFlight # Nil
  /\ completions # <<>>
  /\ LET message == Head(completions) IN
       /\ IF message.kind = "ready" THEN UNCHANGED saveVars ELSE SettleSave(message)
       /\ pc' = IF message.kind = "failed" THEN "failed" ELSE pc
  /\ completions' = Tail(completions)
  /\ UNCHANGED <<worldVars, loadVars, commands, store>>

StartFinalSave ==
  /\ pc = "finish"
  /\ inFlight = Nil
  /\ StartSave(pending)
  /\ pc' = "final"
  /\ UNCHANGED <<worldVars, loadVars, completions, store>>

Flushed ==
  /\ pc = "final"
  /\ inFlight = Nil
  /\ pc' = "joined"
  /\ UNCHANGED <<worldVars, loadVars, saveVars, commands, completions, store>>

\* The channels are dropped and the thread joined.
JoinWorker ==
  /\ pc \in {"joined", "failed"}
  /\ Die
-----------------------------------------------------------------------------
(* The storage thread.                                                     *)

\* Reads a region; only a read that finds nothing is answered by generation.
WorkerLoad(ok) ==
  /\ pc # "down"
  /\ commands # <<>> /\ Head(commands).kind = "load"
  /\ ok \/ HasStore
  /\ LET c == Head(commands) IN
       completions' = Append(completions,
         [kind |-> "ready",
          ready |-> [request |-> c.request, pos |-> c.pos,
                     load |-> IF ok THEN ReadRegion(store, c.pos) ELSE Nil]])
  /\ commands' = Tail(commands)
  /\ UNCHANGED <<pc, worldVars, loadVars, saveVars, store>>

\* Writes a batch in one transaction, which may fail.
WorkerSave(ok) ==
  /\ pc # "down"
  /\ commands # <<>> /\ Head(commands).kind = "save"
  /\ store' = IF ok THEN Over(Head(commands).batch, store) ELSE store
  /\ completions' = Append(completions, [kind |-> IF ok THEN "saved" ELSE "failed"])
  /\ commands' = Tail(commands)
  /\ UNCHANGED <<pc, worldVars, loadVars, saveVars>>
-----------------------------------------------------------------------------
Server ==
  \/ BeginTick
  \/ ComputeTickets
  \/ ReceiveCompletion \/ Integrate \/ IntegrateFails
  \/ RequestRegion \/ Expire
  \/ AdvanceClock \/ Autosave
  \/ AwaitSave \/ StartFinalSave \/ Flushed \/ JoinWorker

Worker == \E ok \in BOOLEAN : WorkerLoad(ok) \/ WorkerSave(ok)

Environment ==
  \/ Open \/ Crash \/ Stop
  \/ \E u \in Players : Join(u) \/ Depart(u)
  \/ \E u \in Players, r \in Regions, i \in Items : Dig(u, r, i) \/ Place(u, r, i)
  \/ \E r, q \in Regions, i \in Items : Flow(r, q, i)
  \/ \E a \in Ages : SetTime(a)

Next == Server \/ Worker \/ Environment

Spec == Init /\ [][Next]_vars

\* The tick loop never stops by itself and neither does the storage thread;
\* nothing obliges players, the operator or the operating system.
FairSpec == Spec /\ WF_vars(Server) /\ WF_vars(Worker)
-----------------------------------------------------------------------------
(* The world that is played and the world that is saved.                   *)

Places == Regions \cup Players

\* The contents of a place that is not simulated.
Known(x) ==
  IF x \in Regions
    THEN Prefer(Retained.regions[x], ReadRegion(store, x))
    ELSE Prefer(Retained.players[x], ReadPlayer(store, x))

World ==
  [holds |-> [x \in Places |->
                Prefer(IF x \in Regions THEN sim[x] ELSE players[x], Known(x))],
   age |-> age]

\* The world a server started on database s would resume.
Resumed(s) ==
  [holds |-> [x \in Places |->
                IF x \in Regions THEN ReadRegion(s, x) ELSE ReadPlayer(s, x)],
   age |-> ReadAge(s)]

IsSave(c) == c.kind = "save"
SavesQueued == {k \in DOMAIN commands : IsSave(commands[k])}

\* The photograph on its way to the database.
Cut ==
  IF SavesQueued = {} THEN Nil
  ELSE Resumed(Over(commands[CHOOSE k \in SavesQueued : TRUE].batch, store))

Durable == INSTANCE DurableWorld
  WITH world <- World, cut <- Cut, saved <- Resumed(store), Genesis <- Resumed(Empty)
-----------------------------------------------------------------------------
(* Properties.                                                             *)

TypeOK ==
  /\ pc \in {"top", "play", "drain", "request", "sim", "save",
             "finish", "final", "joined", "failed", "down"}
  /\ sim \in [Regions -> Slots]
  /\ idle \in [Regions -> Nat]
  /\ players \in [Players -> Slots]
  /\ age \in Ages
  /\ wanted \subseteq Regions
  /\ requested \in [Regions -> RequestIds \cup {NoRequest}]
  /\ ready \subseteq Loads
  /\ nextRequest \in RequestIds
  /\ pending \in Batches
  /\ inFlight \in {Nil} \cup Batches
  /\ commands \in Seq(LoadCommands \cup SaveCommands)
  /\ completions \in Seq(ReadyCompletions \cup SaveCompletions)
  /\ store \in Batches

\* persistence.rs, worker.rs, regions.rs: together with the storage thread the
\* server is a world that is photographed as a whole, saved as a whole and
\* resumed as a whole.  No unload, reload, departure, failed write, skipped
\* autosave or crash ever resumes a region, a player and the calendar of
\* different moments, or loads a region older than its last snapshot.
Refines == Durable!Spec

LoadsQueued == {k \in DOMAIN commands : commands[k].kind = "load"}
LoadsAnswered == {k \in DOMAIN completions : completions[k].kind = "ready"}

\* Regions with a load in the command channel, in the completion channel, and
\* waiting for integration.
QueuedRegions == {commands[k].pos : k \in LoadsQueued}
AnsweredRegions == {completions[k].ready.pos : k \in LoadsAnswered}
ReadyRegions == {e.pos : e \in ready}

Ticking == pc \in {"top", "play", "drain", "request", "sim", "save"}

LoadsCarryTheirRequest ==
  /\ \A k \in LoadsQueued : requested[commands[k].pos] = commands[k].request
  /\ \A k \in LoadsAnswered : Expected(completions[k].ready)
  /\ \A e \in ready : Expected(e)

NoRegionLoadsTwice ==
  /\ \A k, l \in LoadsQueued : commands[k].pos = commands[l].pos => k = l
  /\ \A k, l \in LoadsAnswered : completions[k].ready.pos = completions[l].ready.pos => k = l
  /\ \A e, f \in ready : e.pos = f.pos => e = f
  /\ QueuedRegions \cap AnsweredRegions = {}
  /\ (QueuedRegions \cup AnsweredRegions) \cap ReadyRegions = {}

NoRequestIsForgotten ==
  Ticking => Outstanding \subseteq QueuedRegions \cup AnsweredRegions \cup ReadyRegions

\* Every load on its way carries the id its region is waiting for, and a
\* ticking server waits for a region exactly while one load of it is on its
\* way.  So the ids may wrap around without a load being taken for another,
\* and no region is lost to a request that nobody answers (regions.rs,
\* requested and ready).
LoadsMatchRequests ==
  LoadsCarryTheirRequest /\ NoRegionLoadsTwice /\ NoRequestIsForgotten

SavesAnswered == {k \in DOMAIN completions : completions[k].kind # "ready"}

\* While a batch is in flight the storage thread has it in its channel or has
\* answered for it, once; with none in flight there is neither.  So SaveDesync
\* is never returned, and the thread is not joined with a write left to do.
OneSaveInFlight ==
  /\ \A k, l \in SavesQueued : k = l
  /\ \A k, l \in SavesAnswered : k = l
  /\ SavesQueued = {} \/ SavesAnswered = {}
  /\ (inFlight = Nil) <=> (SavesQueued \cup SavesAnswered = {})
  /\ \A k \in SavesQueued : commands[k].batch = inFlight
  /\ pc \in {"joined", "failed"} => SavesQueued = {}

\* A stop whose flush succeeded leaves the world on disk exactly as it was
\* played last: regions, players and calendar of one moment, whatever older
\* snapshots of them were pending, in flight or put back (shutdown, flush).
CleanStop == pc = "joined" /\ HasStore => Resumed(store) = World

\* A stop always ends: the server thread does not wait for an answer that the
\* storage thread does not owe.
StopEnds == (pc \in {"finish", "final"}) ~> (pc = "down")

\* A region that stays wanted is loaded in the end and stays, though loads are
\* integrated a few per tick and requests are limited, even while regions
\* before it in scan order come and go, no more of them than the limit.
WantedRegionsLoad ==
  \A r \in Regions :
    <>[](pc # "down" /\ (pc \in {"drain", "request"} => r \in wanted))
      => <>[](r \in Loaded)

=============================================================================
