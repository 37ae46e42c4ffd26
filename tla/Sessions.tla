------------------------------ MODULE Sessions ------------------------------
(***************************************************************************)
(* Connections, players and avatars of the server: session.rs,             *)
(* session/auth.rs, player.rs, lifecycle.rs and the order in which         *)
(* lib.rs calls them.                                                      *)
(*                                                                         *)
(* Clients are the environment: they connect, vanish and send what they    *)
(* like, so a poll returns any short sequence of messages.  A player's     *)
(* inbox is the set of things accepted for it and not yet consumed, each   *)
(* marked with the session that sent it and the body it was meant for.     *)
(*                                                                         *)
(* The server thread is the program counter pc.  A tick runs               *)
(*   accept -> drain -> close -> leave -> command -> act ->                *)
(*   physics -> fractured -> control -> lethal -> place                    *)
(* and the next tick starts over at accept.                                *)
(***************************************************************************)
EXTENDS Integers, Sequences, FiniteSets

CONSTANTS Uuids,
          MaxSessionId,     \* session ids are 1..MaxSessionId, then exhausted
          MaxPlayerId,      \* runtime player ids likewise
          MaxBodyId,        \* body ids likewise: a bound of the model only
          MaxSessions,      \* MAX_SESSIONS
          MaxMessages,      \* MAX_MESSAGES_PER_TICK
          HandshakeTicks,   \* HANDSHAKE_TIMEOUT_TICKS
          HoldTicks,        \* INPUT_HOLD_TICKS
          Nil

ASSUME ConstantsOK ==
  /\ Nil \notin Uuids
  /\ MaxSessionId \in Nat
  /\ MaxPlayerId \in Nat
  /\ MaxBodyId \in Nat
  /\ MaxSessions \in Nat
  /\ MaxMessages \in Nat
  /\ HandshakeTicks \in Nat
  /\ HoldTicks \in Nat

SessionIds == 1..MaxSessionId
PlayerIds == 1..MaxPlayerId
BodyIds == 1..MaxBodyId
NoSession == 0
NoPlayer == 0
NoBody == 0

Lives == {"entering", "alive", "dead", "reviving"}

\* Chat, debug and throttled messages change nothing that is modelled.
Messages ==
  [kind : {"hello"}, uuid : Uuids, valid : BOOLEAN]
    \cup [kind : {"input"}, action : {"use", "jump", "revive"}]
    \cup [kind : {"flood", "command"}]

\* Who sent something, and the body the player had then.
Marks == [by : SessionIds, body : BodyIds \cup {NoBody}]
Pending == [kind : {"use", "jump", "revive", "command"},
            by : SessionIds, body : BodyIds \cup {NoBody}]

VARIABLES
  pc,
  entries,      \* sessions in the table
  closed,       \* those whose connection is closed
  deadline,     \* ticks left for the handshake of a session
  plays,        \* player of an active session, NoPlayer while challenged
  controller,   \* player_to_session
  nextSession, nextPlayer, nextBody,
  toDrain,      \* sessions this tick has yet to poll
  current,      \* session whose messages are handled
  batch,        \* messages polled from it
  leaving,      \* players whose session is gone
  uuid,         \* identity of a present player, Nil when absent
  life, body,
  inbox, held,  \* things accepted; held input, NoMark when neutral
  quiet,        \* ticks since last_input_tick
  bodies,       \* bodies with the policy of a player
  fractures,    \* bodies that lost a cell in this tick
  saved         \* life a player who rejoins is resumed in

tableVars == <<entries, closed, deadline, plays, controller, nextSession>>
pollVars == <<toDrain, current, batch, leaving>>
playerVars == <<uuid, nextPlayer, saved>>
inboxVars == <<inbox, held, quiet>>
lifeVars == <<life, body, nextBody, bodies, fractures>>
vars == <<pc, tableVars, pollVars, playerVars, inboxVars, lifeVars>>

NoMark == [by |-> NoSession, body |-> NoBody]

Present == {p \in PlayerIds : uuid[p] # Nil}
Alive == {p \in Present : life[p] = "alive"}
Challenged == {s \in entries : plays[s] = NoPlayer}
Controls(s) == plays[s] # NoPlayer /\ controller[plays[s]] = s

Init ==
  /\ pc = "accept"
  /\ entries = {} /\ closed = {}
  /\ deadline = [s \in SessionIds |-> 0]
  /\ plays = [s \in SessionIds |-> NoPlayer]
  /\ controller = [p \in PlayerIds |-> NoSession]
  /\ nextSession = 1 /\ nextPlayer = 1 /\ nextBody = 1
  /\ toDrain = {} /\ current = NoSession /\ batch = <<>> /\ leaving = {}
  /\ uuid = [p \in PlayerIds |-> Nil]
  /\ life = [p \in PlayerIds |-> "entering"]
  /\ body = [p \in PlayerIds |-> NoBody]
  /\ inbox = [p \in PlayerIds |-> {}]
  /\ held = [p \in PlayerIds |-> NoMark]
  /\ quiet = [p \in PlayerIds |-> 0]
  /\ bodies = {} /\ fractures = {}
  /\ saved = [u \in Uuids |-> "entering"]
-----------------------------------------------------------------------------
(* The network.                                                            *)

\* A connection is lost, or its client closes it: at any time.
Vanish(s) ==
  /\ s \in entries \ closed
  /\ closed' = closed \cup {s}
  /\ UNCHANGED <<pc, entries, deadline, plays, controller, nextSession, pollVars,
                 playerVars, inboxVars, lifeVars>>

\* Mutation: the id counter is not checked.
AcceptUnchecked ==
  /\ pc = "accept"
  /\ Cardinality(entries) < MaxSessions
  /\ entries' = entries \cup {nextSession}
  /\ deadline' = [deadline EXCEPT ![nextSession] = HandshakeTicks]
  /\ nextSession' = nextSession + 1
  /\ UNCHANGED <<pc, closed, plays, controller, pollVars, playerVars, inboxVars, lifeVars>>

\* A connection beyond the limits is closed at once and leaves no trace.
Accept ==
  /\ pc = "accept"
  /\ Cardinality(entries) < MaxSessions
  /\ nextSession <= MaxSessionId
  /\ entries' = entries \cup {nextSession}
  /\ deadline' = [deadline EXCEPT ![nextSession] = HandshakeTicks]
  /\ nextSession' = nextSession + 1
  /\ UNCHANGED <<pc, closed, plays, controller, pollVars, playerVars, inboxVars, lifeVars>>

BeginDrain ==
  /\ pc = "accept"
  /\ pc' = "drain"
  /\ toDrain' = entries
  /\ UNCHANGED <<tableVars, current, batch, leaving, playerVars, inboxVars, lifeVars>>

Batches == UNION {[1..n -> Messages] : n \in 0..MaxMessages}

\* Takes the messages of the next session; an oversized or malformed one
\* closes it, and those before it still count.
Poll ==
  /\ pc = "drain"
  /\ batch = <<>>
  /\ \E s \in toDrain :
       /\ \A t \in toDrain : s <= t
       /\ current' = s
       /\ toDrain' = toDrain \ {s}
       /\ \/ UNCHANGED closed
          \/ closed' = closed \cup {s}
  /\ batch' \in Batches
  /\ UNCHANGED <<pc, entries, deadline, plays, controller, nextSession, leaving,
                 playerVars, inboxVars, lifeVars>>

\* The rest of what was polled from a rejected session is dropped.
Reject ==
  /\ closed' = closed \cup {current}
  /\ batch' = <<>>
  /\ UNCHANGED <<pc, entries, deadline, plays, controller, nextSession, toDrain, current,
                 leaving, playerVars, inboxVars, lifeVars>>

\* Mutation: the session that had the player is not closed.
BindOnly(p) ==
  /\ controller' = [controller EXCEPT ![p] = current]
  /\ plays' = [plays EXCEPT ![current] = p]
  /\ deadline' = [deadline EXCEPT ![current] = 0]
  /\ UNCHANGED <<entries, closed, nextSession>>

\* The current session takes control of p and the one that had it is closed.
Bind(p) ==
  /\ controller' = [controller EXCEPT ![p] = current]
  /\ plays' = [plays EXCEPT ![current] = p]
  /\ deadline' = [deadline EXCEPT ![current] = 0]
  /\ closed' = closed \cup ({controller[p]} \cap (entries \ {current}))
  /\ UNCHANGED <<entries, nextSession>>

\* Mutation: an inbox keeps what was queued.
ResetNeutralOnly(p) ==
  /\ inbox' = inbox
  /\ held' = [held EXCEPT ![p] = NoMark]
  /\ quiet' = [quiet EXCEPT ![p] = 0]

\* PlayerInbox::reset, also the state of a new inbox.
Reset(p) ==
  /\ inbox' = [inbox EXCEPT ![p] = {}]
  /\ held' = [held EXCEPT ![p] = NoMark]
  /\ quiet' = [quiet EXCEPT ![p] = 0]

Greeting == pc = "drain" /\ batch # <<>> /\ Head(batch).kind = "hello"

HelloIgnored ==
  /\ Greeting
  /\ plays[current] # NoPlayer
  /\ batch' = Tail(batch)
  /\ UNCHANGED <<pc, tableVars, toDrain, current, leaving, playerVars, inboxVars, lifeVars>>

HelloRejected ==
  /\ Greeting
  /\ plays[current] = NoPlayer
  /\ \/ ~Head(batch).valid
     \/ nextPlayer > MaxPlayerId /\ \A p \in Present : uuid[p] # Head(batch).uuid
  /\ Reject

TakeOver ==
  /\ Greeting
  /\ plays[current] = NoPlayer
  /\ Head(batch).valid
  /\ \E p \in Present : uuid[p] = Head(batch).uuid /\ Reset(p) /\ Bind(p)
  /\ batch' = Tail(batch)
  /\ UNCHANGED <<pc, toDrain, current, leaving, playerVars, lifeVars>>

\* A new player resumes as it was saved: dead, or entering the world.
Join ==
  /\ Greeting
  /\ plays[current] = NoPlayer
  /\ LET m == Head(batch) IN
       /\ m.valid
       /\ \A p \in Present : uuid[p] # m.uuid
       /\ nextPlayer <= MaxPlayerId
       /\ uuid' = [uuid EXCEPT ![nextPlayer] = m.uuid]
       /\ life' = [life EXCEPT ![nextPlayer] = saved[m.uuid]]
  /\ nextPlayer' = nextPlayer + 1
  /\ Reset(nextPlayer) /\ Bind(nextPlayer)
  /\ batch' = Tail(batch)
  /\ UNCHANGED <<pc, toDrain, current, leaving, saved, body, nextBody, bodies, fractures>>

\* The player the current session may speak for, if any.
Accepted == {p \in Present : plays[current] = p /\ controller[p] = current}

\* What an input action queues, given the life of the player.
Queued(p, action) ==
  IF action = "revive"
    THEN IF life[p] = "dead" THEN {"revive"} ELSE {}
    ELSE IF life[p] = "alive" THEN {action} ELSE {}

Input ==
  /\ pc = "drain"
  /\ batch # <<>> /\ Head(batch).kind = "input"
  /\ LET mark(p) == [by |-> current, body |-> body[p]] IN
       /\ inbox' = [p \in PlayerIds |->
            IF p \in Accepted
              THEN inbox[p] \cup {[kind |-> k, by |-> current, body |-> body[p]] :
                                    k \in Queued(p, Head(batch).action)}
              ELSE inbox[p]]
       /\ held' = [p \in PlayerIds |->
            IF p \notin Accepted THEN held[p]
            ELSE IF life[p] = "alive" THEN mark(p) ELSE NoMark]
       /\ quiet' = [p \in PlayerIds |-> IF p \in Accepted THEN 0 ELSE quiet[p]]
  /\ batch' = Tail(batch)
  /\ UNCHANGED <<pc, tableVars, toDrain, current, leaving, playerVars, lifeVars>>

\* A frame with too many actions ends the session, whoever it plays.
Flood ==
  /\ pc = "drain"
  /\ batch # <<>> /\ Head(batch).kind = "flood"
  /\ Reject

Command ==
  /\ pc = "drain"
  /\ batch # <<>> /\ Head(batch).kind = "command"
  /\ inbox' = [p \in PlayerIds |->
       IF p \in Accepted
         THEN inbox[p] \cup {[kind |-> "command", by |-> current, body |-> body[p]]}
         ELSE inbox[p]]
  /\ batch' = Tail(batch)
  /\ UNCHANGED <<pc, tableVars, toDrain, current, leaving, playerVars, held, quiet, lifeVars>>

\* Mutation: nobody watches the handshakes.
EndDrainPatiently ==
  /\ pc = "drain"
  /\ batch = <<>> /\ toDrain = {}
  /\ pc' = "close"
  /\ held' = [p \in PlayerIds |->
                IF p \in Present /\ quiet[p] > HoldTicks THEN NoMark ELSE held[p]]
  /\ current' = NoSession
  /\ UNCHANGED <<tableVars, toDrain, batch, leaving, playerVars, inbox, quiet, lifeVars>>

\* After the last message held input that is too old is released and late
\* handshakes are closed.
EndDrain ==
  /\ pc = "drain"
  /\ batch = <<>> /\ toDrain = {}
  /\ pc' = "close"
  /\ held' = [p \in PlayerIds |->
                IF p \in Present /\ quiet[p] > HoldTicks THEN NoMark ELSE held[p]]
  /\ closed' = closed \cup {s \in Challenged : deadline[s] = 0}
  /\ current' = NoSession
  /\ UNCHANGED <<entries, deadline, plays, controller, nextSession, toDrain, batch, leaving,
                 playerVars, inbox, quiet, lifeVars>>

\* Mutation: the player of any session that closed is gone.
CloseAnyPlayer ==
  /\ pc = "close"
  /\ pc' = "leave"
  /\ leaving' = {plays[s] : s \in closed} \ {NoPlayer}
  /\ controller' = [p \in PlayerIds |-> IF p \in leaving' THEN NoSession ELSE controller[p]]
  /\ entries' = entries \ closed
  /\ plays' = [s \in SessionIds |-> IF s \in closed THEN NoPlayer ELSE plays[s]]
  /\ deadline' = [s \in SessionIds |-> IF s \in closed THEN 0 ELSE deadline[s]]
  /\ closed' = {}
  /\ UNCHANGED <<nextSession, toDrain, current, batch, playerVars, inboxVars, lifeVars>>

\* Closed sessions leave the table; with them the players they control.
Close ==
  /\ pc = "close"
  /\ pc' = "leave"
  /\ leaving' = {plays[s] : s \in {t \in closed : Controls(t)}}
  /\ controller' = [p \in PlayerIds |-> IF p \in leaving' THEN NoSession ELSE controller[p]]
  /\ entries' = entries \ closed
  /\ plays' = [s \in SessionIds |-> IF s \in closed THEN NoPlayer ELSE plays[s]]
  /\ deadline' = [s \in SessionIds |-> IF s \in closed THEN 0 ELSE deadline[s]]
  /\ closed' = {}
  /\ UNCHANGED <<nextSession, toDrain, current, batch, playerVars, inboxVars, lifeVars>>

\* Mutation: an interrupted revive is saved as an avatar that re-enters.
SnapshotRevivingAsAlive(l) == IF l = "dead" THEN "dead" ELSE "entering"

\* The life a player is saved in.
Snapshot(l) == IF l \in {"dead", "reviving"} THEN "dead" ELSE "entering"

\* Players who left are saved, and their bodies taken out of the world.
Leave ==
  /\ pc = "leave"
  /\ pc' = "command"
  /\ saved' = [u \in Uuids |->
       IF \E p \in leaving : uuid[p] = u
         THEN Snapshot(life[CHOOSE p \in leaving : uuid[p] = u])
         ELSE saved[u]]
  /\ uuid' = [p \in PlayerIds |-> IF p \in leaving THEN Nil ELSE uuid[p]]
  /\ bodies' = bodies \ {body[p] : p \in leaving}
  /\ body' = [p \in PlayerIds |-> IF p \in leaving THEN NoBody ELSE body[p]]
  /\ inbox' = [p \in PlayerIds |-> IF p \in leaving THEN {} ELSE inbox[p]]
  /\ held' = [p \in PlayerIds |-> IF p \in leaving THEN NoMark ELSE held[p]]
  /\ life' = [p \in PlayerIds |-> IF p \in leaving THEN "entering" ELSE life[p]]
  /\ leaving' = {}
  /\ UNCHANGED <<tableVars, toDrain, current, batch, nextPlayer, quiet, nextBody, fractures>>
-----------------------------------------------------------------------------
(* What was accepted is consumed.                                          *)

Without(kinds) == [p \in PlayerIds |-> {x \in inbox[p] : x.kind \notin kinds}]

RunCommands ==
  /\ pc = "command"
  /\ pc' = "act"
  /\ inbox' = Without({"command"})
  /\ UNCHANGED <<tableVars, pollVars, playerVars, held, quiet, lifeVars>>

Asked == {p \in Present : \E x \in inbox[p] : x.kind = "revive"}

\* The dead players who asked for it.
Revives == {p \in Asked : life[p] = "dead"}

\* Uses and slot actions are consumed, and revives that were asked for begin.
Act ==
  /\ pc = "act"
  /\ pc' = "physics"
  /\ life' = [p \in PlayerIds |-> IF p \in Revives THEN "reviving" ELSE life[p]]
  /\ inbox' = [p \in PlayerIds |-> IF p \in Revives THEN {} ELSE Without({"use", "revive"})[p]]
  /\ held' = [p \in PlayerIds |-> IF p \in Revives THEN NoMark ELSE held[p]]
  /\ quiet' = [p \in PlayerIds |-> IF p \in Revives THEN 0 ELSE quiet[p]]
  /\ UNCHANGED <<tableVars, pollVars, playerVars, body, nextBody, bodies, fractures>>
-----------------------------------------------------------------------------
(* Bodies and lives.                                                       *)

\* The world loses cells of a body: what is left is nothing, or a part that
\* keeps the id, and others with ids of their own.
Fracture(b, keeps, splits) ==
  /\ pc = "physics"
  /\ b \in bodies
  /\ \A f \in fractures : b # f.source /\ b \notin f.parts
  /\ splits => keeps /\ nextBody <= MaxBodyId
  /\ LET parts == (IF keeps THEN {b} ELSE {}) \cup (IF splits THEN {nextBody} ELSE {}) IN
       /\ fractures' = fractures \cup {[source |-> b, parts |-> parts]}
       /\ bodies' = (bodies \ {b}) \cup parts
  /\ nextBody' = IF splits THEN nextBody + 1 ELSE nextBody
  /\ UNCHANGED <<pc, tableVars, pollVars, playerVars, inboxVars, life, body>>

\* The tick counter advances; time runs for handshakes and held input.
Simulate ==
  /\ pc = "physics"
  /\ pc' = "fractured"
  /\ deadline' = [s \in SessionIds |-> IF deadline[s] = 0 THEN 0 ELSE deadline[s] - 1]
  /\ quiet' = [p \in PlayerIds |-> IF p \in Present /\ quiet[p] <= HoldTicks
                                      THEN quiet[p] + 1 ELSE quiet[p]]
  /\ UNCHANGED <<entries, closed, plays, controller, nextSession, pollVars, playerVars,
                 inbox, held, lifeVars>>

\* Players in D die; the bodies in lost become debris.
Die(D, lost) ==
  /\ life' = [p \in PlayerIds |-> IF p \in D THEN "dead" ELSE life[p]]
  /\ body' = [p \in PlayerIds |-> IF p \in D THEN NoBody ELSE body[p]]
  /\ bodies' = bodies \ lost
  /\ inbox' = [p \in PlayerIds |-> IF p \in D THEN {} ELSE inbox[p]]
  /\ held' = [p \in PlayerIds |-> IF p \in D THEN NoMark ELSE held[p]]
  /\ quiet' = [p \in PlayerIds |-> IF p \in D THEN 0 ELSE quiet[p]]

\* The fractures that may end a life.
Fatal == fractures

\* An avatar that lost a cell is dead and its parts are debris.
ResolveFractures ==
  /\ pc = "fractured"
  /\ pc' = "control"
  /\ LET owned == {f \in Fatal : \E p \in Alive : body[p] = f.source} IN
       Die({p \in Alive : \E f \in owned : body[p] = f.source}, UNION {f.parts : f \in owned})
  /\ fractures' = {}
  /\ UNCHANGED <<tableVars, pollVars, playerVars, nextBody>>

\* Avatars are driven, and jumps consumed.
RunControllers ==
  /\ pc = "control"
  /\ pc' = "lethal"
  /\ inbox' = Without({"jump"})
  /\ UNCHANGED <<tableVars, pollVars, playerVars, held, quiet, lifeVars>>

\* Hazards take the last health of some avatars.
ResolveLethal ==
  /\ pc = "lethal"
  /\ pc' = "place"
  /\ \E D \in SUBSET Alive : Die(D, {body[p] : p \in D})
  /\ UNCHANGED <<tableVars, pollVars, playerVars, nextBody, fractures>>

Materializing == {p \in Present : life[p] \in {"entering", "reviving"}}

\* A place is found; ids are lost to candidates that did not fit.
Materialize(p) ==
  /\ pc = "place"
  /\ p \in Materializing
  /\ \E b \in nextBody..MaxBodyId :
       /\ body' = [body EXCEPT ![p] = b]
       /\ bodies' = bodies \cup {b}
       /\ nextBody' = b + 1
  /\ life' = [life EXCEPT ![p] = "alive"]
  /\ Reset(p)
  /\ UNCHANGED <<pc, tableVars, pollVars, playerVars, fractures>>

\* The search ran out of places.
Exhaust(p) ==
  /\ pc = "place"
  /\ p \in Materializing
  /\ Die({p}, {})
  /\ UNCHANGED <<pc, tableVars, pollVars, playerVars, nextBody, fractures>>

EndTick ==
  /\ pc = "place"
  /\ pc' = "accept"
  /\ UNCHANGED <<tableVars, pollVars, playerVars, inboxVars, lifeVars>>
-----------------------------------------------------------------------------
Handle == HelloIgnored \/ HelloRejected \/ TakeOver \/ Join \/ Input \/ Flood \/ Command

\* Steps of the server thread that it takes without being asked.
Tick ==
  \/ BeginDrain \/ Poll \/ Handle \/ EndDrain
  \/ Close \/ Leave \/ RunCommands \/ Act
  \/ Simulate \/ ResolveFractures \/ RunControllers \/ ResolveLethal
  \/ EndTick

Chance ==
  \/ Accept
  \/ \E s \in SessionIds : Vanish(s)
  \/ \E b \in BodyIds, keeps, splits \in BOOLEAN : Fracture(b, keeps, splits)
  \/ \E p \in PlayerIds : Materialize(p) \/ Exhaust(p)

Next == Tick \/ Chance

Spec == Init /\ [][Next]_vars

\* The tick loop never stops by itself; nothing obliges clients or the world.
FairSpec == Spec /\ WF_vars(Tick)
-----------------------------------------------------------------------------
(* Properties.                                                             *)

TypeOK ==
  /\ pc \in {"accept", "drain", "close", "leave", "command", "act",
             "physics", "fractured", "control", "lethal", "place"}
  /\ entries \subseteq SessionIds
  /\ closed \subseteq entries
  /\ deadline \in [SessionIds -> 0..HandshakeTicks]
  /\ plays \in [SessionIds -> PlayerIds \cup {NoPlayer}]
  /\ controller \in [PlayerIds -> SessionIds \cup {NoSession}]
  /\ nextSession \in 1..(MaxSessionId + 1)
  /\ nextPlayer \in 1..(MaxPlayerId + 1)
  /\ nextBody \in 1..(MaxBodyId + 1)
  /\ toDrain \subseteq entries
  /\ current \in entries \cup {NoSession}
  /\ batch \in Seq(Messages)
  /\ leaving \subseteq PlayerIds
  /\ uuid \in [PlayerIds -> Uuids \cup {Nil}]
  /\ life \in [PlayerIds -> Lives]
  /\ body \in [PlayerIds -> BodyIds \cup {NoBody}]
  /\ inbox \in [PlayerIds -> SUBSET Pending]
  /\ held \in [PlayerIds -> Marks \cup {NoMark}]
  /\ quiet \in [PlayerIds -> 0..(HoldTicks + 1)]
  /\ bodies \subseteq BodyIds
  /\ fractures \subseteq [source : BodyIds, parts : SUBSET BodyIds]
  /\ saved \in [Uuids -> {"entering", "dead"}]

ControllerIsMutual ==
  \A p \in PlayerIds : controller[p] # NoSession =>
    controller[p] \in entries /\ plays[controller[p]] = p

PresentAreControlled ==
  \A p \in PlayerIds : (controller[p] # NoSession) <=> (p \in Present \ leaving)

OnePlayerEach == \A p, q \in Present : uuid[p] = uuid[q] => p = q

OthersAreClosed ==
  \A s \in entries \ Challenged :
    ~Controls(s) => s \in closed /\ pc \in {"drain", "close"}

\* Every person is present at most once and controlled by exactly one session
\* of the table.  A session that lost its player to another is closed already
\* and gone when the network phase is over, whatever handshakes, rejections
\* and lost connections the same drain saw (docs/Server.md, takeover).
OneController ==
  ControllerIsMutual /\ PresentAreControlled /\ OnePlayerEach /\ OthersAreClosed

LosesOnlyAClosedController ==
  \A p \in PlayerIds :
    controller[p] # NoSession /\ controller'[p] = NoSession => controller[p] \in closed

\* Takeover cannot remove a player: a player loses its controller only to a
\* newer session, or because the connection of the session that controls it
\* is closed, never by the cleanup of one that used to.
LeavesWithItsSession == [][LosesOnlyAClosedController]_vars

\* Nothing leaks into a new incarnation: whatever waits in the inbox of a
\* player, and the input held for it, was sent by the session that controls it
\* now, for the body it has now; and once a tick has drained the network no
\* held input is older than the hold time (docs/Server.md, inbox).
InboxIsOwn ==
  \A p \in Present \ leaving :
    /\ \A x \in inbox[p] : x.by = controller[p] /\ x.body = body[p]
    /\ held[p] # NoMark =>
         /\ held[p] = [by |-> controller[p], body |-> body[p]]
         /\ life[p] = "alive"
         /\ pc \in {"close", "leave", "command", "act", "physics"} => quiet[p] <= HoldTicks

\* The person is dead, present or saved so.
Deceased(u) ==
  IF \E p \in Present : uuid[p] = u
    THEN \E p \in Present : uuid[p] = u /\ life[p] \in {"dead", "reviving"}
    ELSE saved[u] = "dead"

\* Nobody escapes death by leaving, being taken over, or interrupting a revive:
\* only a revive that finds a place brings a dead player back.
OnlyRevivesRevive ==
  [][\A u \in Uuids :
       Deceased(u) /\ ~Deceased(u)' =>
         \E p \in Present : uuid[p] = u /\ life[p] = "reviving" /\ life'[p] = "alive"]_vars

\* Every handshake ends, in control of a player or removed from the table, and
\* every closed session leaves it: so the table cannot fill with either.
SessionsSettle ==
  \A s \in SessionIds :
    /\ (s \in Challenged) ~> (s \notin Challenged)
    /\ (s \in closed) ~> (s \notin entries)
=============================================================================
