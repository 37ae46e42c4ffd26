--------------------------- MODULE SessionsProofs ---------------------------
(***************************************************************************)
(* For any number of identities, sessions, players and bodies: every       *)
(* variable of Sessions has its type, every person present is controlled   *)
(* by exactly one session, and no cleanup of another session removes it.   *)
(* What waits in an inbox is of the session and the body its player has    *)
(* now, and only a revive ends a death.                                    *)
(*                                                                         *)
(* OneController alone is not inductive.  ControlInv adds that ids not yet *)
(* given out are unused, and what the stages of the drain leave behind.    *)
(***************************************************************************)
EXTENDS Sessions, TLAPS

\* Ids are given out once: those in use are below the counters.
IdsAreFresh ==
  /\ \A s \in entries : s < nextSession
  /\ \A s \in SessionIds \ entries : plays[s] = NoPlayer
  /\ \A p \in Present : p < nextPlayer

\* What the network phase keeps between its steps, and nothing after it.
Stages ==
  /\ pc # "drain" => toDrain = {} /\ batch = <<>> /\ current = NoSession
  /\ batch # <<>> => current \in entries
  /\ leaving \subseteq Present
  /\ leaving # {} => pc = "leave"

ControlInv == TypeOK /\ OneController /\ IdsAreFresh /\ Stages

-----------------------------------------------------------------------------
(* The types.                                                              *)

LEMMA PolledType == ASSUME NEW b \in Batches PROVE b \in Seq(Messages)
BY ConstantsOK DEF Batches

\* A message of a poll, and what is behind it, have their types.
LEMMA MessageTypes ==
  ASSUME NEW b \in Seq(Messages), b # <<>>
  PROVE  /\ Tail(b) \in Seq(Messages)
         /\ Head(b) \in Messages
         /\ Head(b).kind = "hello" => Head(b).uuid \in Uuids
         /\ Head(b).kind = "input" => Head(b).action \in {"use", "jump", "revive"}
BY DEF Messages

\* The invariant holds in a server without sessions.
LEMMA InitControl == Init => ControlInv
BY ConstantsOK DEF Init, ControlInv, TypeOK, OneController, ControllerIsMutual,
   PresentAreControlled, OnePlayerEach, OthersAreClosed, IdsAreFresh, Stages, Present,
   Challenged, Controls, NoMark, Marks, Pending, SessionIds, PlayerIds, BodyIds, NoSession,
   NoPlayer, NoBody, Lives

\* An inbox that is reset has its type.
LEMMA ResetTypes ==
  ASSUME TypeOK, NEW p \in PlayerIds, Reset(p)
  PROVE  /\ inbox' \in [PlayerIds -> SUBSET Pending]
         /\ held' \in [PlayerIds -> Marks \cup {NoMark}]
         /\ quiet' \in [PlayerIds -> 0..(HoldTicks + 1)]
BY ConstantsOK DEF TypeOK, Reset

\* The table has its type after a binding.
LEMMA BindTypes ==
  ASSUME TypeOK, NEW p \in PlayerIds, current \in SessionIds, Bind(p)
  PROVE  /\ controller' \in [PlayerIds -> SessionIds \cup {NoSession}]
         /\ plays' \in [SessionIds -> PlayerIds \cup {NoPlayer}]
         /\ deadline' \in [SessionIds -> 0..HandshakeTicks]
         /\ closed' \subseteq entries'
BY ConstantsOK DEF TypeOK, Bind

\* Lives, bodies and inboxes have their types after deaths.
LEMMA DieTypes ==
  ASSUME TypeOK, NEW D, NEW lost, Die(D, lost)
  PROVE  /\ life' \in [PlayerIds -> Lives]
         /\ body' \in [PlayerIds -> BodyIds \cup {NoBody}]
         /\ bodies' \subseteq BodyIds
         /\ inbox' \in [PlayerIds -> SUBSET Pending]
         /\ held' \in [PlayerIds -> Marks \cup {NoMark}]
         /\ quiet' \in [PlayerIds -> 0..(HoldTicks + 1)]
BY ConstantsOK DEF TypeOK, Die, Lives

\* Every step keeps the types.
LEMMA TypesStep ==
  ASSUME ControlInv, Next
  PROVE  TypeOK'
<1>t. TypeOK
  BY DEF ControlInv
<1>c. batch # <<>> => current \in SessionIds
  BY DEF ControlInv, Stages, TypeOK
<1> USE ConstantsOK DEF tableVars, pollVars, playerVars, inboxVars, lifeVars
<1>1. ASSUME BeginDrain PROVE TypeOK'
  BY <1>t, <1>1 DEF BeginDrain, TypeOK
<1>2. ASSUME Poll PROVE TypeOK'
  <2>1. batch' \in Seq(Messages)
    BY <1>2, PolledType DEF Poll
  <2>2. closed' \subseteq entries /\ toDrain' \subseteq entries /\ current' \in entries
    BY <1>t, <1>2 DEF Poll, TypeOK
  <2>. QED
    BY <1>t, <1>2, <2>1, <2>2 DEF Poll, TypeOK
<1>3. ASSUME HelloIgnored PROVE TypeOK'
  BY <1>t, <1>3, MessageTypes DEF HelloIgnored, Greeting, TypeOK
<1>4. ASSUME Reject, pc' = "drain", batch # <<>> PROVE TypeOK'
  BY <1>t, <1>4 DEF Reject, TypeOK, ControlInv, Stages
<1>5. ASSUME TakeOver PROVE TypeOK'
  <2>1. PICK p \in Present : Reset(p) /\ Bind(p)
    BY <1>5 DEF TakeOver
  <2>2. Tail(batch) \in Seq(Messages) /\ current \in SessionIds
    BY <1>t, <1>5, <1>c, MessageTypes DEF TakeOver, Greeting, TypeOK
  <2>. QED
    BY <1>t, <1>5, <2>1, <2>2, ResetTypes, BindTypes DEF TakeOver, Bind, TypeOK, Present
<1>6. ASSUME Join PROVE TypeOK'
  <2> DEFINE u == Head(batch).uuid
  <2>1. Tail(batch) \in Seq(Messages) /\ current \in SessionIds /\ u \in Uuids
    BY <1>t, <1>6, <1>c, MessageTypes DEF Join, Greeting, TypeOK
  <2>2. /\ uuid' = [uuid EXCEPT ![nextPlayer] = u]
        /\ life' = [life EXCEPT ![nextPlayer] = saved[u]]
        /\ nextPlayer <= MaxPlayerId /\ nextPlayer' = nextPlayer + 1
        /\ Reset(nextPlayer) /\ Bind(nextPlayer) /\ batch' = Tail(batch)
        /\ pc' = pc /\ toDrain' = toDrain /\ current' = current /\ leaving' = leaving
        /\ saved' = saved /\ body' = body /\ nextBody' = nextBody /\ bodies' = bodies
        /\ fractures' = fractures
    BY <1>6 DEF Join
  <2> HIDE DEF u
  <2>3. nextPlayer \in PlayerIds /\ nextPlayer' \in 1..(MaxPlayerId + 1)
    BY <1>t, <2>2 DEF TypeOK, PlayerIds
  <2>4. saved[u] \in Lives
    BY <1>t, <2>1 DEF TypeOK, Lives
  <2>5. uuid' \in [PlayerIds -> Uuids \cup {Nil}] /\ life' \in [PlayerIds -> Lives]
    BY <1>t, <2>1, <2>2, <2>3, <2>4 DEF TypeOK
  <2>6. /\ inbox' \in [PlayerIds -> SUBSET Pending]
        /\ held' \in [PlayerIds -> Marks \cup {NoMark}]
        /\ quiet' \in [PlayerIds -> 0..(HoldTicks + 1)]
    BY <1>t, <2>2, <2>3, ResetTypes
  <2>7. /\ controller' \in [PlayerIds -> SessionIds \cup {NoSession}]
        /\ plays' \in [SessionIds -> PlayerIds \cup {NoPlayer}]
        /\ deadline' \in [SessionIds -> 0..HandshakeTicks]
        /\ closed' \subseteq entries'
    BY <1>t, <2>1, <2>2, <2>3, BindTypes
  <2>8. entries' = entries /\ nextSession' = nextSession
    BY <2>2 DEF Bind
  <2>. QED
    BY <1>t, <2>1, <2>2, <2>3, <2>5, <2>6, <2>7, <2>8 DEF TypeOK
<1>7. ASSUME Input PROVE TypeOK'
  <2>1. Tail(batch) \in Seq(Messages) /\ current \in SessionIds
    BY <1>t, <1>7, <1>c, MessageTypes DEF Input, TypeOK
  <2>2. Head(batch).action \in {"use", "jump", "revive"}
    BY <1>t, <1>7, MessageTypes DEF Input, TypeOK
  <2>3. ASSUME NEW p \in PlayerIds, NEW k \in Queued(p, Head(batch).action)
        PROVE  [kind |-> k, by |-> current, body |-> body[p]] \in Pending
    BY <1>t, <2>1, <2>2, <2>3 DEF Queued, Pending, TypeOK
  <2>4. inbox' \in [PlayerIds -> SUBSET Pending]
    BY <1>t, <1>7, <2>3 DEF Input, TypeOK
  <2>5. ASSUME NEW p \in PlayerIds PROVE [by |-> current, body |-> body[p]] \in Marks
    BY <1>t, <2>1 DEF Marks, TypeOK
  <2>6. held' \in [PlayerIds -> Marks \cup {NoMark}]
    BY <1>t, <1>7, <2>5 DEF Input, TypeOK
  <2>7. quiet' \in [PlayerIds -> 0..(HoldTicks + 1)]
    BY <1>t, <1>7 DEF Input, TypeOK
  <2>. QED
    BY <1>t, <1>7, <2>1, <2>4, <2>6, <2>7 DEF Input, TypeOK
<1>8. ASSUME Command PROVE TypeOK'
  <2>1. Tail(batch) \in Seq(Messages) /\ current \in SessionIds
    BY <1>t, <1>8, <1>c, MessageTypes DEF Command, TypeOK
  <2>2. ASSUME NEW p \in PlayerIds
        PROVE  [kind |-> "command", by |-> current, body |-> body[p]] \in Pending
    BY <1>t, <2>1 DEF Pending, TypeOK
  <2>3. inbox' \in [PlayerIds -> SUBSET Pending]
    BY <1>t, <1>8, <2>2 DEF Command, TypeOK
  <2>. QED
    BY <1>t, <1>8, <2>1, <2>3 DEF Command, TypeOK
<1>9. ASSUME EndDrain PROVE TypeOK'
  <2>1. held' \in [PlayerIds -> Marks \cup {NoMark}]
    BY <1>t, <1>9 DEF EndDrain, TypeOK
  <2>2. closed' \subseteq entries
    BY <1>t, <1>9 DEF EndDrain, TypeOK, Challenged
  <2>. QED
    BY <1>t, <1>9, <2>1, <2>2 DEF EndDrain, TypeOK
<1>10. ASSUME Close PROVE TypeOK'
  <2>1. toDrain = {} /\ current = NoSession
    BY <1>10 DEF Close, ControlInv, Stages
  <2>2. leaving' \subseteq PlayerIds
    BY <1>t, <1>10 DEF Close, Controls, TypeOK
  <2>3. controller' \in [PlayerIds -> SessionIds \cup {NoSession}]
    BY <1>t, <1>10 DEF Close, TypeOK
  <2>4. plays' \in [SessionIds -> PlayerIds \cup {NoPlayer}]
    BY <1>t, <1>10 DEF Close, TypeOK
  <2>5. deadline' \in [SessionIds -> 0..HandshakeTicks]
    <3>1. deadline' = [s \in SessionIds |-> IF s \in closed THEN 0 ELSE deadline[s]]
      BY <1>10 DEF Close
    <3>2. 0 \in 0..HandshakeTicks
      OBVIOUS
    <3>. QED
      BY <1>t, <3>1, <3>2 DEF TypeOK
  <2>. QED
    BY <1>t, <1>10, <2>1, <2>2, <2>3, <2>4, <2>5 DEF Close, TypeOK
<1>11. ASSUME Leave PROVE TypeOK'
  <2>1. saved' \in [Uuids -> {"entering", "dead"}]
    BY <1>t, <1>11 DEF Leave, Snapshot, TypeOK
  <2>2. /\ uuid' \in [PlayerIds -> Uuids \cup {Nil}]
        /\ body' \in [PlayerIds -> BodyIds \cup {NoBody}]
        /\ life' \in [PlayerIds -> Lives]
    BY <1>t, <1>11 DEF Leave, TypeOK, Lives
  <2>3. /\ inbox' \in [PlayerIds -> SUBSET Pending]
        /\ held' \in [PlayerIds -> Marks \cup {NoMark}]
    BY <1>t, <1>11 DEF Leave, TypeOK
  <2>. QED
    BY <1>t, <1>11, <2>1, <2>2, <2>3 DEF Leave, TypeOK
<1>12. ASSUME RunCommands \/ RunControllers PROVE TypeOK'
  <2>1. inbox' \in [PlayerIds -> SUBSET Pending]
    BY <1>t, <1>12 DEF RunCommands, RunControllers, Without, TypeOK
  <2>. QED
    BY <1>t, <1>12, <2>1 DEF RunCommands, RunControllers, TypeOK
<1>13. ASSUME Act PROVE TypeOK'
  <2>1. inbox' \in [PlayerIds -> SUBSET Pending]
    BY <1>t, <1>13 DEF Act, Without, TypeOK
  <2>2. /\ life' \in [PlayerIds -> Lives]
        /\ held' \in [PlayerIds -> Marks \cup {NoMark}]
        /\ quiet' \in [PlayerIds -> 0..(HoldTicks + 1)]
    BY <1>t, <1>13 DEF Act, TypeOK, Lives
  <2>. QED
    BY <1>t, <1>13, <2>1, <2>2 DEF Act, TypeOK
<1>14. ASSUME Simulate PROVE TypeOK'
  BY <1>t, <1>14 DEF Simulate, TypeOK
<1>15. ASSUME ResolveFractures PROVE TypeOK'
  <2>1. PICK D, lost : Die(D, lost)
    BY <1>15 DEF ResolveFractures
  <2>. QED
    BY <1>t, <1>15, <2>1, DieTypes DEF ResolveFractures, TypeOK
<1>16. ASSUME ResolveLethal PROVE TypeOK'
  <2>1. PICK D, lost : Die(D, lost)
    BY <1>16 DEF ResolveLethal
  <2>. QED
    BY <1>t, <1>16, <2>1, DieTypes DEF ResolveLethal, TypeOK
<1>17. ASSUME EndTick PROVE TypeOK'
  BY <1>t, <1>17 DEF EndTick, TypeOK
<1>18. ASSUME Accept PROVE TypeOK'
  <2>1. nextSession \in SessionIds /\ nextSession' \in 1..(MaxSessionId + 1)
    BY <1>t, <1>18 DEF Accept, TypeOK, SessionIds
  <2>2. HandshakeTicks \in 0..HandshakeTicks
    OBVIOUS
  <2>3. entries' = entries \cup {nextSession} /\ closed' = closed /\ plays' = plays
    BY <1>18 DEF Accept
  <2>4. deadline' \in [SessionIds -> 0..HandshakeTicks]
    BY <1>t, <1>18, <2>1, <2>2 DEF Accept, TypeOK
  <2>. QED
    BY <1>t, <1>18, <2>1, <2>3, <2>4 DEF Accept, TypeOK
<1>19. ASSUME NEW s \in SessionIds, Vanish(s) PROVE TypeOK'
  BY <1>t, <1>19 DEF Vanish, TypeOK
<1>20. ASSUME NEW b \in BodyIds, NEW keeps \in BOOLEAN, NEW splits \in BOOLEAN,
              Fracture(b, keeps, splits)
       PROVE  TypeOK'
  <2>1. splits => nextBody \in BodyIds
    BY <1>t, <1>20 DEF Fracture, TypeOK, BodyIds
  <2>2. nextBody' \in 1..(MaxBodyId + 1)
    <3>1. CASE splits
      <4>1. nextBody <= MaxBodyId /\ nextBody' = nextBody + 1
        BY <1>20, <3>1, Zenon DEF Fracture
      <4>. QED
        BY <1>t, <4>1 DEF TypeOK
    <3>2. CASE ~splits
      <4>1. nextBody' = nextBody
        BY <1>20, <3>2, Zenon DEF Fracture
      <4>. QED
        BY <1>t, <4>1 DEF TypeOK
    <3>. QED
      BY <3>1, <3>2
  <2> DEFINE parts == (IF keeps THEN {b} ELSE {}) \cup (IF splits THEN {nextBody} ELSE {})
  <2>3. parts \subseteq BodyIds
    BY <2>1, Zenon
  <2>4. /\ fractures' = fractures \cup {[source |-> b, parts |-> parts]}
        /\ bodies' = (bodies \ {b}) \cup parts
    BY <1>20, Zenon DEF Fracture
  <2> HIDE DEF parts
  <2>5. bodies' \subseteq BodyIds /\ fractures' \subseteq [source : BodyIds, parts : SUBSET BodyIds]
    BY <1>t, <2>3, <2>4 DEF TypeOK
  <2>. QED
    BY <1>t, <1>20, <2>2, <2>5 DEF Fracture, TypeOK
<1>21. ASSUME NEW p \in PlayerIds, Materialize(p) PROVE TypeOK'
  <2>1. PICK b \in nextBody..MaxBodyId :
          /\ body' = [body EXCEPT ![p] = b]
          /\ bodies' = bodies \cup {b}
          /\ nextBody' = b + 1
    BY <1>21 DEF Materialize
  <2>2. b \in BodyIds /\ nextBody' \in 1..(MaxBodyId + 1)
    BY <1>t, <2>1 DEF TypeOK, BodyIds
  <2>. QED
    BY <1>t, <1>21, <2>1, <2>2, ResetTypes DEF Materialize, TypeOK, Lives
<1>22. ASSUME NEW p \in PlayerIds, Exhaust(p) PROVE TypeOK'
  BY <1>t, <1>22, DieTypes DEF Exhaust, TypeOK
<1>23. HelloRejected \/ Flood => Reject /\ pc' = "drain" /\ batch # <<>>
  BY DEF HelloRejected, Flood, Reject, Greeting
<1>. QED
  BY <1>1, <1>2, <1>3, <1>4, <1>5, <1>6, <1>7, <1>8, <1>9, <1>10, <1>11, <1>12, <1>13,
     <1>14, <1>15, <1>16, <1>17, <1>18, <1>19, <1>20, <1>21, <1>22, <1>23
     DEF Next, Tick, Handle, Chance
-----------------------------------------------------------------------------
(* One controller each.                                                    *)

LEMMA ControlStep ==
  ASSUME ControlInv, Next
  PROVE  (OneController /\ IdsAreFresh /\ Stages)'
<1>t. TypeOK /\ TypeOK'
  BY TypesStep DEF ControlInv
<1>i. OneController /\ IdsAreFresh /\ Stages
  BY DEF ControlInv
<1> DEFINE I == OneController /\ IdsAreFresh /\ Stages
<1>q. ASSUME UNCHANGED <<pc, tableVars, toDrain, current, leaving, uuid, nextPlayer>>,
             pc = "drain", batch # <<>>
      PROVE  I'
  BY <1>i, <1>q DEF OneController, ControllerIsMutual, PresentAreControlled, OnePlayerEach,
     OthersAreClosed, IdsAreFresh, Stages, Present, Challenged, Controls, tableVars
<1>r. ASSUME UNCHANGED <<entries, closed, plays, controller, nextSession>>,
             UNCHANGED <<pollVars, uuid, nextPlayer>>,
             pc \notin {"drain", "close", "leave"}, pc' \notin {"drain", "close", "leave"}
      PROVE  I'
  BY <1>i, <1>r DEF OneController, ControllerIsMutual, PresentAreControlled, OnePlayerEach,
     OthersAreClosed, IdsAreFresh, Stages, Present, Challenged, Controls, tableVars, pollVars
<1> USE ConstantsOK DEF tableVars, pollVars, playerVars
<1>1. ASSUME BeginDrain PROVE I'
  BY <1>i, <1>1 DEF BeginDrain, OneController, ControllerIsMutual, PresentAreControlled,
     OnePlayerEach, OthersAreClosed, IdsAreFresh, Stages, Present, Challenged, Controls
<1>2. ASSUME Poll PROVE I'
  <2>1. OneController'
    BY <1>i, <1>2 DEF Poll, OneController, ControllerIsMutual, PresentAreControlled,
       OnePlayerEach, OthersAreClosed, Present, Challenged, Controls
  <2>2. IdsAreFresh'
    BY <1>i, <1>2 DEF Poll, IdsAreFresh, Present
  <2>3. Stages'
    BY <1>i, <1>2, <1>t DEF Poll, Stages, Present, TypeOK
  <2>. QED
    BY <2>1, <2>2, <2>3
<1>3. ASSUME HelloIgnored \/ Input \/ Command PROVE I'
  BY <1>q, <1>3 DEF HelloIgnored, Input, Command, Greeting
<1>4. ASSUME Reject, pc = "drain", pc' = pc, batch # <<>> PROVE I'
  BY <1>i, <1>4 DEF Reject, OneController, ControllerIsMutual, PresentAreControlled,
     OnePlayerEach, OthersAreClosed, IdsAreFresh, Stages, Present, Challenged, Controls
<1>5. ASSUME NEW p \in PlayerIds, Bind(p), pc = "drain", pc' = pc, batch # <<>>,
             UNCHANGED <<toDrain, current, leaving>>, plays[current] = NoPlayer,
             uuid[p] # Nil \/ p = nextPlayer,
             uuid'[p] # Nil, \A q \in PlayerIds \ {p} : uuid'[q] = uuid[q],
             \A q \in Present \ {p} : uuid'[q] # uuid'[p],
             p < nextPlayer', nextPlayer <= nextPlayer'
      PROVE  I'
  <2>a. NoSession \notin SessionIds /\ NoPlayer \notin PlayerIds
    BY DEF SessionIds, PlayerIds, NoSession, NoPlayer
  <2>b. current \in entries /\ leaving = {}
    BY <1>i, <1>5 DEF Stages
  <2>1. /\ current \in entries /\ current \in SessionIds /\ leaving = {}
        /\ entries' = entries /\ entries \subseteq SessionIds
        /\ NoSession \notin SessionIds /\ NoPlayer \notin PlayerIds
    BY <1>t, <1>5, <2>a, <2>b DEF Bind, TypeOK
  <2>2. Present' = Present \cup {p}
    BY <1>5 DEF Present
  <2>3. /\ controller' = [controller EXCEPT ![p] = current]
        /\ plays' = [plays EXCEPT ![current] = p]
        /\ closed' = closed \cup ({controller[p]} \cap (entries \ {current}))
    BY <1>5 DEF Bind
  <2>4. /\ controller \in [PlayerIds -> SessionIds \cup {NoSession}]
        /\ plays \in [SessionIds -> PlayerIds \cup {NoPlayer}]
    BY <1>t DEF TypeOK
  <2>5. ControllerIsMutual'
    BY <1>i, <1>5, <2>1, <2>3, <2>4 DEF OneController, ControllerIsMutual
  <2>6. PresentAreControlled'
    BY <1>i, <1>5, <2>1, <2>2, <2>3, <2>4 DEF OneController, PresentAreControlled
  <2>7. OnePlayerEach'
    BY <1>i, <1>5, <2>2 DEF OneController, OnePlayerEach, Present
  <2>8. OthersAreClosed'
    BY <1>i, <1>5, <2>1, <2>3, <2>4
       DEF OneController, ControllerIsMutual, OthersAreClosed, Challenged, Controls
  <2>9. IdsAreFresh'
    <3>1. \A s \in entries' : s < nextSession'
      BY <1>i, <1>5, <2>1 DEF IdsAreFresh, Bind
    <3>2. \A s \in SessionIds \ entries' : plays'[s] = NoPlayer
      BY <1>i, <2>1, <2>3, <2>4 DEF IdsAreFresh
    <3>3. \A q \in Present' : q < nextPlayer'
      <4>1. nextPlayer \in Nat /\ nextPlayer' \in Nat /\ Present \subseteq Nat
        BY <1>t DEF TypeOK, Present, PlayerIds
      <4>2. \A q \in Present : q < nextPlayer
        BY <1>i DEF IdsAreFresh
      <4>3. ASSUME NEW q \in Present' PROVE q < nextPlayer'
        BY <1>5, <2>2, <4>1, <4>2, <4>3
      <4>. QED
        BY <4>3
    <3>. QED
      BY <3>1, <3>2, <3>3 DEF IdsAreFresh
  <2>10. Stages'
    BY <1>i, <1>5, <2>1 DEF Stages
  <2>. QED
    BY <2>5, <2>6, <2>7, <2>8, <2>9, <2>10 DEF OneController
<1>6. ASSUME TakeOver PROVE I'
  <2>1. PICK p \in Present : uuid[p] = Head(batch).uuid /\ Reset(p) /\ Bind(p)
    BY <1>6 DEF TakeOver
  <2>2. /\ p \in PlayerIds /\ uuid[p] # Nil /\ p < nextPlayer
        /\ \A q \in Present \ {p} : uuid[q] # uuid[p]
    BY <1>i, <2>1 DEF Present, IdsAreFresh, OneController, OnePlayerEach
  <2>3. nextPlayer <= nextPlayer
    BY <1>t DEF TypeOK
  <2>. QED
    BY <1>5, <1>6, <2>1, <2>2, <2>3 DEF TakeOver, Greeting
<1>7. ASSUME Join PROVE I'
  <2>1. /\ Head(batch).uuid \in Uuids
        /\ Head(batch).uuid # Nil
    BY <1>t, <1>7, MessageTypes DEF Join, Greeting, TypeOK
  <2>2. nextPlayer \in PlayerIds /\ nextPlayer' = nextPlayer + 1 /\ nextPlayer \in Nat
    BY <1>t, <1>7 DEF Join, TypeOK, PlayerIds
  <2>3. /\ uuid' = [uuid EXCEPT ![nextPlayer] = Head(batch).uuid]
        /\ \A q \in Present : uuid[q] # Head(batch).uuid
        /\ Bind(nextPlayer)
    BY <1>7 DEF Join
  <2>4. nextPlayer \notin Present
    BY <1>i, <2>2 DEF IdsAreFresh
  <2>5. uuid'[nextPlayer] = Head(batch).uuid /\ \A q \in PlayerIds \ {nextPlayer} : uuid'[q] = uuid[q]
    BY <1>t, <2>2, <2>3 DEF TypeOK
  <2>6. \A q \in Present \ {nextPlayer} : uuid'[q] # uuid'[nextPlayer]
    BY <2>3, <2>5 DEF Present
  <2>. QED
    BY <1>5, <1>7, <2>1, <2>2, <2>3, <2>5, <2>6 DEF Join, Greeting
<1>8. ASSUME EndDrain PROVE I'
  BY <1>i, <1>8, <1>t DEF EndDrain, OneController, ControllerIsMutual, PresentAreControlled,
     OnePlayerEach, OthersAreClosed, IdsAreFresh, Stages, Present, Challenged, Controls, TypeOK
<1>9. ASSUME Close PROVE I'
  <2>0. /\ entries' = entries \ closed /\ closed' = {}
        /\ leaving' = {plays[s] : s \in {t \in closed : Controls(t)}}
        /\ controller' = [p \in PlayerIds |-> IF p \in leaving' THEN NoSession ELSE controller[p]]
        /\ plays' = [s \in SessionIds |-> IF s \in closed THEN NoPlayer ELSE plays[s]]
        /\ Present' = Present /\ nextSession' = nextSession /\ nextPlayer' = nextPlayer
        /\ leaving = {}
    BY <1>9, <1>i DEF Close, Present, Stages
  <2>1. /\ controller \in [PlayerIds -> SessionIds \cup {NoSession}]
        /\ plays \in [SessionIds -> PlayerIds \cup {NoPlayer}]
        /\ closed \subseteq entries /\ entries \subseteq SessionIds
        /\ NoSession \notin SessionIds /\ NoPlayer \notin PlayerIds
    <3>1. /\ controller \in [PlayerIds -> SessionIds \cup {NoSession}]
          /\ plays \in [SessionIds -> PlayerIds \cup {NoPlayer}]
          /\ closed \subseteq entries /\ entries \subseteq SessionIds
      BY <1>t, Zenon DEF TypeOK
    <3>2. NoSession \notin SessionIds /\ NoPlayer \notin PlayerIds
      BY DEF SessionIds, PlayerIds, NoSession, NoPlayer
    <3>. QED
      BY <3>1, <3>2, Zenon
  <2>2. \A p \in PlayerIds : p \in leaving' <=> controller[p] \in closed
    BY <1>i, <2>0, <2>1 DEF Controls, OneController, ControllerIsMutual
  <2>3. ControllerIsMutual'
    BY <1>i, <2>0, <2>1, <2>2 DEF OneController, ControllerIsMutual
  <2>4. PresentAreControlled'
    BY <1>i, <2>0, <2>1, <2>2 DEF OneController, PresentAreControlled
  <2>5. OnePlayerEach'
    BY <1>i, <1>9, <2>0 DEF Close, OneController, OnePlayerEach
  <2>6. OthersAreClosed'
    BY <1>i, <2>0, <2>1, <2>2 DEF OneController, OthersAreClosed, Challenged, Controls
  <2>7. IdsAreFresh'
    BY <1>i, <2>0, <2>1 DEF IdsAreFresh
  <2>8. leaving' \subseteq Present'
    BY <1>i, <2>0, <2>1, <2>2 DEF OneController, PresentAreControlled, Controls
  <2>9. Stages'
    BY <1>i, <1>9, <2>8 DEF Close, Stages
  <2>. QED
    BY <2>3, <2>4, <2>5, <2>6, <2>7, <2>9 DEF OneController
<1>10. ASSUME Leave PROVE I'
  <2>1. /\ uuid' = [p \in PlayerIds |-> IF p \in leaving THEN Nil ELSE uuid[p]]
        /\ leaving' = {} /\ leaving \subseteq PlayerIds
    BY <1>10, <1>t DEF Leave, TypeOK
  <2>2. Present' = Present \ leaving
    BY <2>1 DEF Present
  <2>3. ControllerIsMutual' /\ PresentAreControlled' /\ OthersAreClosed'
    BY <1>i, <1>10, <2>1, <2>2 DEF Leave, OneController, ControllerIsMutual,
       PresentAreControlled, OthersAreClosed, Challenged, Controls
  <2>4. OnePlayerEach'
    BY <1>i, <2>1, <2>2 DEF OneController, OnePlayerEach, Present
  <2>5. IdsAreFresh' /\ Stages'
    BY <1>i, <1>10, <2>1, <2>2 DEF Leave, IdsAreFresh, Stages
  <2>. QED
    BY <2>3, <2>4, <2>5 DEF OneController
<1>11. ASSUME Accept PROVE I'
  <2>1. /\ nextSession \in SessionIds /\ nextSession \notin entries /\ nextSession \in Nat
        /\ entries \subseteq Nat
    BY <1>t, <1>i, <1>11 DEF Accept, TypeOK, SessionIds, IdsAreFresh
  <2>2. plays[nextSession] = NoPlayer
    BY <1>i, <2>1 DEF IdsAreFresh
  <2>3. OneController'
    BY <1>i, <1>11, <2>2 DEF Accept, OneController, ControllerIsMutual, PresentAreControlled,
       OnePlayerEach, OthersAreClosed, Present, Challenged, Controls
  <2>4. IdsAreFresh' /\ Stages'
    BY <1>i, <1>11, <2>1 DEF Accept, IdsAreFresh, Stages, Present
  <2>. QED
    BY <2>3, <2>4
<1>12. ASSUME NEW s \in SessionIds, Vanish(s) PROVE I'
  BY <1>i, <1>12 DEF Vanish, OneController, ControllerIsMutual, PresentAreControlled,
     OnePlayerEach, OthersAreClosed, IdsAreFresh, Stages, Present, Challenged, Controls
<1>13. ASSUME \/ RunCommands \/ Act \/ Simulate \/ ResolveFractures
              \/ RunControllers \/ ResolveLethal \/ EndTick
       PROVE  I'
  BY <1>r, <1>13 DEF RunCommands, Act, Simulate, ResolveFractures, RunControllers,
     ResolveLethal, EndTick
<1>14. ASSUME NEW b \in BodyIds, NEW keeps \in BOOLEAN, NEW splits \in BOOLEAN,
              Fracture(b, keeps, splits)
       PROVE  I'
  BY <1>r, <1>14 DEF Fracture
<1>15. ASSUME NEW p \in PlayerIds, Materialize(p) \/ Exhaust(p) PROVE I'
  BY <1>r, <1>15 DEF Materialize, Exhaust
<1>16. HelloRejected \/ Flood => Reject /\ pc = "drain" /\ pc' = pc /\ batch # <<>>
  BY DEF HelloRejected, Flood, Reject, Greeting
<1>. QED
  BY <1>1, <1>2, <1>3, <1>4, <1>6, <1>7, <1>8, <1>9, <1>10, <1>11, <1>12, <1>13,
     <1>14, <1>15, <1>16 DEF Next, Tick, Handle, Chance
-----------------------------------------------------------------------------
(* The theorems.                                                           *)

LEMMA ControlStutter == ControlInv /\ UNCHANGED vars => ControlInv'
BY DEF ControlInv, TypeOK, OneController, ControllerIsMutual, PresentAreControlled,
   OnePlayerEach, OthersAreClosed, IdsAreFresh, Stages, Present, Challenged, Controls,
   vars, tableVars, pollVars, playerVars, inboxVars, lifeVars

\* The invariant holds in every state.
LEMMA ControlInvariant == Spec => []ControlInv
<1>1. ControlInv /\ [Next]_vars => ControlInv'
  BY TypesStep, ControlStep, ControlStutter DEF ControlInv
<1>. QED
  BY InitControl, <1>1, PTL DEF Spec

\* Every variable of the session table, the players and their bodies keeps its
\* type, for any number of clients.
THEOREM SessionTypes == Spec => []TypeOK
<1>1. ControlInv => TypeOK
  BY DEF ControlInv
<1>. QED
  BY ControlInvariant, <1>1, PTL

\* Whoever connects, takes over, is rejected or lost, every person present is
\* controlled by exactly one session.
THEOREM EveryPlayerHasOneController == Spec => []OneController
<1>1. ControlInv => OneController
  BY DEF ControlInv
<1>. QED
  BY ControlInvariant, <1>1, PTL

\* The cleanup of a superseded session never removes a player.
THEOREM TakeoverKeepsPlayers == Spec => LeavesWithItsSession
<1>1. ControlInv /\ [Next]_vars => [LosesOnlyAClosedController]_vars
  <2> SUFFICES ASSUME ControlInv, Next, NEW p \in PlayerIds,
                      controller[p] # NoSession, controller'[p] = NoSession
               PROVE  controller[p] \in closed
    BY DEF LosesOnlyAClosedController
  <2>t. TypeOK /\ OneController /\ Stages
    BY DEF ControlInv
  <2>1. CASE Close
    <3>1. p \in leaving'
      BY <2>1, <2>t DEF Close, TypeOK
    <3>2. PICK s \in closed : Controls(s) /\ plays[s] = p
      BY <2>1, <3>1 DEF Close
    <3>. QED
      BY <3>2 DEF Controls
  <2>2. ASSUME NEW q \in PlayerIds, Bind(q), current \in SessionIds PROVE FALSE
    <3>1. controller' = [controller EXCEPT ![q] = current] /\ NoSession \notin SessionIds
      BY <2>2 DEF Bind, SessionIds, NoSession
    <3>. QED
      BY <2>2, <2>t, <3>1 DEF TypeOK
  <2>3. TakeOver \/ Join => current \in SessionIds
    BY <2>t DEF TakeOver, Join, Greeting, Stages, TypeOK
  <2>4. CASE TakeOver
    BY <2>2, <2>3, <2>4 DEF TakeOver, Present
  <2>5. CASE Join
    <3>1. nextPlayer \in PlayerIds /\ Bind(nextPlayer)
      BY <2>5, <2>t DEF Join, TypeOK, PlayerIds
    <3>. QED
      BY <2>2, <2>3, <2>5, <3>1
  <2>6. CASE ~Close /\ ~TakeOver /\ ~Join
    <3>1. controller' = controller
      BY <2>6 DEF Next, Tick, Handle, Chance, BeginDrain, Poll, HelloIgnored, HelloRejected,
         Reject, Flood, Input, Command, EndDrain, Leave, RunCommands, Act, Simulate,
         ResolveFractures, RunControllers, ResolveLethal, EndTick, Accept, Vanish, Fracture,
         Materialize, Exhaust, tableVars
    <3>. QED
      BY <3>1
  <2>. QED
    BY <2>1, <2>4, <2>5, <2>6
<1>. QED
  BY ControlInvariant, <1>1, PTL DEF Spec, LeavesWithItsSession
-----------------------------------------------------------------------------
(* Nothing leaks into a new incarnation.                                   *)

\* What is queued and held for one player is its own.
Own(p) ==
  /\ \A x \in inbox[p] : x.by = controller[p] /\ x.body = body[p]
  /\ held[p] # NoMark =>
       /\ held[p] = [by |-> controller[p], body |-> body[p]]
       /\ life[p] = "alive"
       /\ pc \in {"close", "leave", "command", "act", "physics"} => quiet[p] <= HoldTicks

\* What is to be shown of inboxes, player by player.
LEMMA OwnedInboxes == InboxIsOwn <=> \A p \in Present \ leaving : Own(p)
BY DEF InboxIsOwn, Own

\* A player whose inbox was reset owns it, whatever it becomes.
LEMMA ResetIsOwn ==
  ASSUME NEW p \in PlayerIds, inbox'[p] = {}, held'[p] = NoMark
  PROVE  Own(p)'
BY DEF Own

\* A player of whom nothing changes but what leaves the inbox owns it still.
LEMMA KeptIsOwn ==
  ASSUME NEW p \in PlayerIds, Own(p),
         inbox'[p] \subseteq inbox[p], held'[p] \in {held[p], NoMark},
         controller'[p] = controller[p], body'[p] = body[p],
         held'[p] # NoMark =>
           /\ life'[p] = life[p]
           /\ pc' \in {"close", "leave", "command", "act", "physics"} => quiet'[p] <= HoldTicks
  PROVE  Own(p)'
BY DEF Own

\* A death leaves the inbox of everyone their own: those who die lose theirs.
LEMMA DieIsOwn ==
  ASSUME ControlInv, NEW D, NEW lost, Die(D, lost), UNCHANGED controller,
         pc' \in {"control", "place"}, NEW p \in PlayerIds, Own(p)
  PROVE  Own(p)'
<1>t. TypeOK
  BY DEF ControlInv
<1>1. CASE p \in D
  BY <1>t, <1>1, ResetIsOwn DEF Die, TypeOK
<1>2. CASE p \notin D
  BY <1>t, <1>2, KeptIsOwn DEF Die, TypeOK
<1>. QED
  BY <1>1, <1>2

\* Every step leaves the inbox of everyone their own.
LEMMA InboxStep ==
  ASSUME ControlInv, InboxIsOwn, Next
  PROVE  InboxIsOwn'
<1>t. TypeOK /\ TypeOK' /\ OneController /\ Stages /\ IdsAreFresh
  BY TypesStep DEF ControlInv
<1>i. \A p \in Present \ leaving : Own(p)
  BY OwnedInboxes
<1>f. (InboxIsOwn <=> \A p \in Present \ leaving : Own(p))'
  BY OwnedInboxes, PTL
<1> SUFFICES ASSUME NEW p \in PlayerIds, p \in Present', p \notin leaving' PROVE Own(p)'
  BY <1>f DEF Present
<1> USE DEF tableVars, pollVars, playerVars, inboxVars, lifeVars
\* Nothing changes for the player.
<1>q. ASSUME UNCHANGED <<inbox, held, controller, body, uuid, life, leaving>>,
             \/ UNCHANGED quiet /\ pc' \in {pc, "drain", "accept"}
             \/ pc' \in {"fractured", "accept", "drain"}
      PROVE  Own(p)'
  <2>1. Own(p)
    BY <1>i, <1>q DEF Present
  <2>. QED
    BY <1>q, <2>1 DEF Own
<1>1. ASSUME BeginDrain PROVE Own(p)'
  BY <1>q, <1>1 DEF BeginDrain
<1>2. ASSUME Poll PROVE Own(p)'
  BY <1>q, <1>2 DEF Poll
<1>3. ASSUME HelloIgnored \/ HelloRejected \/ Flood PROVE Own(p)'
  BY <1>q, <1>3 DEF HelloIgnored, HelloRejected, Flood, Reject
<1>4. ASSUME NEW r \in PlayerIds, Reset(r), Bind(r), UNCHANGED <<body, leaving>>,
             pc = "drain", pc' = pc,
             \A q \in PlayerIds \ {r} : uuid'[q] = uuid[q] /\ life'[q] = life[q]
      PROVE  Own(p)'
  <2>1. CASE p = r
    BY <1>t, <1>4, <2>1, ResetIsOwn DEF Reset, TypeOK
  <2>2. CASE p # r
    <3>1. Own(p)
      BY <1>i, <1>4, <2>2 DEF Present
    <3>. QED
      BY <1>t, <1>4, <2>2, <3>1, KeptIsOwn DEF Reset, Bind, TypeOK
  <2>. QED
    BY <2>1, <2>2
<1>5. ASSUME TakeOver PROVE Own(p)'
  BY <1>4, <1>5 DEF TakeOver, Greeting, Present
<1>6. ASSUME Join PROVE Own(p)'
  <2>1. nextPlayer \in PlayerIds
    BY <1>t, <1>6 DEF Join, TypeOK, PlayerIds
  <2>2. \A q \in PlayerIds \ {nextPlayer} : uuid'[q] = uuid[q] /\ life'[q] = life[q]
    BY <1>t, <1>6 DEF Join, TypeOK
  <2>. QED
    BY <1>4, <1>6, <2>1, <2>2 DEF Join, Greeting
<1>7. ASSUME Input PROVE Own(p)'
  <2>1. /\ Own(p) /\ pc' = "drain"
        /\ UNCHANGED <<controller, body, life>>
    BY <1>i, <1>7 DEF Input, Present
  <2>2. CASE p \notin Accepted
    BY <1>t, <1>7, <2>1, <2>2, KeptIsOwn DEF Input, TypeOK
  <2>3. CASE p \in Accepted
    <3>1. controller[p] = current
      BY <2>3 DEF Accepted
    <3>2. inbox'[p] = inbox[p] \cup {[kind |-> k, by |-> current, body |-> body[p]] :
                                       k \in Queued(p, Head(batch).action)}
      BY <1>7, <2>3 DEF Input
    <3>3. held'[p] = IF life[p] = "alive" THEN [by |-> current, body |-> body[p]] ELSE NoMark
      BY <1>7, <2>3 DEF Input
    <3>. QED
      BY <2>1, <3>1, <3>2, <3>3 DEF Own
  <2>. QED
    BY <2>2, <2>3
<1>8. ASSUME Command PROVE Own(p)'
  <2>1. /\ Own(p) /\ pc' = "drain"
        /\ UNCHANGED <<controller, body, life, held, quiet>>
    BY <1>i, <1>8 DEF Command, Present
  <2>2. CASE p \notin Accepted
    BY <1>t, <1>8, <2>1, <2>2, KeptIsOwn DEF Command, TypeOK
  <2>3. CASE p \in Accepted
    <3>1. controller[p] = current
      BY <2>3 DEF Accepted
    <3>2. inbox'[p] = inbox[p] \cup {[kind |-> "command", by |-> current, body |-> body[p]]}
      BY <1>8, <2>3 DEF Command
    <3>. QED
      BY <2>1, <3>1, <3>2 DEF Own
  <2>. QED
    BY <2>2, <2>3
<1>9. ASSUME EndDrain PROVE Own(p)'
  <2>1. Own(p) /\ p \in Present /\ UNCHANGED <<controller, body, life, inbox, quiet>>
    BY <1>i, <1>9 DEF EndDrain, Present
  <2>2. held'[p] = IF quiet[p] > HoldTicks THEN NoMark ELSE held[p]
    BY <1>9, <2>1 DEF EndDrain
  <2>3. quiet[p] > HoldTicks \/ quiet[p] <= HoldTicks
    BY <1>t, ConstantsOK DEF TypeOK
  <2>. QED
    BY <2>1, <2>2, <2>3, KeptIsOwn
<1>10. ASSUME Close PROVE Own(p)'
  <2>1. /\ p \in Present /\ leaving = {} /\ controller'[p] = controller[p]
        /\ UNCHANGED <<body, life, inbox, held, quiet>> /\ pc = "close"
    BY <1>t, <1>10 DEF Close, Present, Stages, TypeOK
  <2>2. Own(p)
    BY <1>i, <2>1
  <2>. QED
    BY <2>1, <2>2 DEF Own
<1>11. ASSUME Leave PROVE Own(p)'
  <2>1. p \in Present \ leaving
    BY <1>11 DEF Leave, Present
  <2>2. /\ body'[p] = body[p] /\ life'[p] = life[p] /\ inbox'[p] = inbox[p]
        /\ held'[p] = held[p] /\ quiet' = quiet /\ controller' = controller /\ pc = "leave"
    BY <1>11, <2>1 DEF Leave
  <2>. QED
    BY <1>i, <2>1, <2>2 DEF Own
<1>12. ASSUME RunCommands \/ RunControllers PROVE Own(p)'
  <2>1. /\ p \in Present \ leaving /\ inbox'[p] \subseteq inbox[p]
        /\ UNCHANGED <<controller, body, life, held, quiet>>
        /\ pc = "command" \/ pc' = "lethal"
    BY <1>12 DEF RunCommands, RunControllers, Present, Without
  <2>. QED
    BY <1>i, <2>1 DEF Own
<1>13. ASSUME Act PROVE Own(p)'
  <2>1. /\ p \in Present \ leaving /\ UNCHANGED <<controller, body>> /\ pc = "act"
    BY <1>13 DEF Act, Present
  <2>2. CASE p \in Revives
    BY <1>13, <2>2, ResetIsOwn DEF Act
  <2>3. CASE p \notin Revives
    <3>1. /\ inbox'[p] \subseteq inbox[p] /\ held'[p] = held[p]
          /\ life'[p] = life[p] /\ quiet'[p] = quiet[p]
      BY <1>13, <2>3 DEF Act, Without
    <3>. QED
      BY <1>i, <2>1, <3>1 DEF Own
  <2>. QED
    BY <2>2, <2>3
<1>14. ASSUME Simulate PROVE Own(p)'
  BY <1>q, <1>14 DEF Simulate
<1>15. ASSUME ResolveFractures \/ ResolveLethal PROVE Own(p)'
  <2>1. PICK D, lost : Die(D, lost)
    BY <1>15 DEF ResolveFractures, ResolveLethal
  <2>2. p \in Present \ leaving /\ UNCHANGED controller /\ pc' \in {"control", "place"}
    BY <1>15 DEF ResolveFractures, ResolveLethal, Present
  <2>. QED
    BY <1>i, <2>1, <2>2, DieIsOwn
<1>16. ASSUME EndTick PROVE Own(p)'
  BY <1>q, <1>16 DEF EndTick
<1>17. ASSUME Accept PROVE Own(p)'
  BY <1>q, <1>17 DEF Accept
<1>18. ASSUME NEW s \in SessionIds, Vanish(s) PROVE Own(p)'
  BY <1>q, <1>18 DEF Vanish
<1>19. ASSUME NEW b \in BodyIds, NEW keeps \in BOOLEAN, NEW splits \in BOOLEAN,
              Fracture(b, keeps, splits)
       PROVE  Own(p)'
  BY <1>q, <1>19 DEF Fracture
<1>20. ASSUME NEW r \in PlayerIds, Materialize(r) PROVE Own(p)'
  <2>1. p \in Present \ leaving /\ pc' = "place" /\ UNCHANGED controller
    BY <1>20 DEF Materialize, Present
  <2>2. CASE p = r
    BY <1>t, <1>20, <2>2, ResetIsOwn DEF Materialize, Reset, TypeOK
  <2>3. CASE p # r
    BY <1>i, <1>t, <1>20, <2>1, <2>3, KeptIsOwn DEF Materialize, Reset, TypeOK
  <2>. QED
    BY <2>2, <2>3
<1>21. ASSUME NEW r \in PlayerIds, Exhaust(r) PROVE Own(p)'
  BY <1>i, <1>21, DieIsOwn DEF Exhaust, Present
<1>. QED
  BY <1>1, <1>2, <1>3, <1>5, <1>6, <1>7, <1>8, <1>9, <1>10, <1>11, <1>12, <1>13,
     <1>14, <1>15, <1>16, <1>17, <1>18, <1>19, <1>20, <1>21 DEF Next, Tick, Handle, Chance

\* Whatever waits for a player was sent by the session that controls it now,
\* for the body it has now, and held input is not older than the hold time.
THEOREM NothingLeaksIntoANewLife == Spec => []InboxIsOwn
<1>1. Init => InboxIsOwn
  BY DEF Init, InboxIsOwn, Present
<1>2. ControlInv /\ InboxIsOwn /\ [Next]_vars => InboxIsOwn'
  <2>1. ASSUME InboxIsOwn, UNCHANGED vars PROVE InboxIsOwn'
    BY <2>1 DEF InboxIsOwn, Present, vars, tableVars, pollVars, playerVars, inboxVars, lifeVars
  <2>. QED
    BY <2>1, InboxStep
<1>. QED
  BY ControlInvariant, <1>1, <1>2, PTL DEF Spec

\* Lives of a present person and the record of an absent one.
LEMMA DeceasedOf ==
  ASSUME ControlInv, NEW u \in Uuids
  PROVE  /\ \A p \in Present : uuid[p] = u => (Deceased(u) <=> life[p] \in {"dead", "reviving"})
         /\ (\A p \in Present : uuid[p] # u) => (Deceased(u) <=> saved[u] = "dead")
BY DEF Deceased, ControlInv, OneController, OnePlayerEach

Revived(u) == \E p \in Present : uuid[p] = u /\ life[p] = "reviving" /\ life'[p] = "alive"

\* Nobody comes or goes: a death is undone by a life that changes.
LEMMA SamePeople ==
  ASSUME ControlInv, UNCHANGED <<uuid, saved>>, NEW u \in Uuids, Deceased(u), ~Deceased(u)'
  PROVE  \E p \in Present : uuid[p] = u /\ life[p] \in {"dead", "reviving"}
                              /\ life'[p] \notin {"dead", "reviving"}
BY DEF Deceased, Present

\* Whoever stops being dead in a step was revived by it.
LEMMA ReviveStep ==
  ASSUME ControlInv, Next, NEW u \in Uuids, Deceased(u), ~Deceased(u)'
  PROVE  Revived(u)
<1>t. TypeOK /\ OneController /\ Stages /\ IdsAreFresh
  BY DEF ControlInv
<1> USE DEF tableVars, pollVars, playerVars, inboxVars, lifeVars
<1>u. ASSUME UNCHANGED <<uuid, saved, life>> PROVE FALSE
  BY <1>u DEF Deceased, Present
<1>1. CASE BeginDrain \/ Poll \/ HelloIgnored \/ HelloRejected \/ TakeOver \/ Input \/ Flood
           \/ Command \/ EndDrain \/ Close \/ RunCommands \/ Simulate \/ RunControllers
           \/ EndTick \/ Accept
  BY <1>1, <1>u DEF BeginDrain, Poll, HelloIgnored, HelloRejected, Reject, TakeOver, Input, Flood,
     Command, EndDrain, Close, RunCommands, Simulate, RunControllers, EndTick, Accept
<1>2. CASE \E s \in SessionIds : Vanish(s)
  BY <1>2, <1>u DEF Vanish
<1>3. CASE \E b \in BodyIds, keeps, splits \in BOOLEAN : Fracture(b, keeps, splits)
  BY <1>3, <1>u DEF Fracture
<1>4. CASE Join
  <2>1. /\ nextPlayer \in PlayerIds /\ nextPlayer \notin Present
        /\ Head(batch).uuid \in Uuids /\ Head(batch).uuid # Nil
        /\ \A p \in Present : uuid[p] # Head(batch).uuid
        /\ uuid' = [uuid EXCEPT ![nextPlayer] = Head(batch).uuid]
        /\ life' = [life EXCEPT ![nextPlayer] = saved[Head(batch).uuid]]
        /\ saved' = saved
    <3>1. /\ uuid' = [uuid EXCEPT ![nextPlayer] = Head(batch).uuid]
          /\ life' = [life EXCEPT ![nextPlayer] = saved[Head(batch).uuid]]
          /\ saved' = saved /\ nextPlayer <= MaxPlayerId
          /\ \A p \in Present : uuid[p] # Head(batch).uuid
      BY <1>4 DEF Join
    <3>2. Head(batch).uuid \in Uuids
      BY <1>t, <1>4, MessageTypes DEF Join, Greeting, TypeOK
    <3>3. Head(batch).uuid # Nil
      BY <3>2, ConstantsOK
    <3>4. nextPlayer \in PlayerIds
      BY <1>t, <3>1 DEF TypeOK, PlayerIds
    <3>5. nextPlayer \notin Present
      BY <1>t, <3>4 DEF IdsAreFresh, PlayerIds
    <3>. QED
      BY <3>1, <3>2, <3>3, <3>4, <3>5
  <2>2. \A p \in PlayerIds \ {nextPlayer} : uuid'[p] = uuid[p] /\ life'[p] = life[p]
    BY <1>t, <2>1 DEF TypeOK
  <2>3. Present' = Present \cup {nextPlayer}
    BY <1>t, <2>1 DEF Present, TypeOK
  <2>4. uuid'[nextPlayer] = Head(batch).uuid /\ life'[nextPlayer] = saved[Head(batch).uuid]
    BY <1>t, <2>1 DEF TypeOK
  <2>5. CASE Head(batch).uuid = u
    <3>1. saved[u] = "dead"
      BY <2>1, <2>5 DEF Deceased
    <3>. QED
      BY <2>3, <2>4, <2>5, <3>1 DEF Deceased
  <2>6. CASE Head(batch).uuid # u
    BY <2>1, <2>2, <2>3, <2>4, <2>6 DEF Deceased, Present
  <2>. QED
    BY <2>5, <2>6
<1>5. CASE Leave
  <2>1. /\ saved'[u] = IF \E p \in leaving : uuid[p] = u
                         THEN Snapshot(life[CHOOSE p \in leaving : uuid[p] = u])
                         ELSE saved[u]
        /\ uuid' = [p \in PlayerIds |-> IF p \in leaving THEN Nil ELSE uuid[p]]
        /\ \A p \in PlayerIds \ leaving : life'[p] = life[p]
        /\ leaving \subseteq Present
    BY <1>t, <1>5 DEF Leave, Stages
  <2>2. Present' = Present \ leaving /\ \A p \in Present' : uuid'[p] = uuid[p] /\ life'[p] = life[p]
    BY <2>1 DEF Present
  <2>3. CASE \E p \in leaving : uuid[p] = u
    <3> DEFINE q == CHOOSE p \in leaving : uuid[p] = u
    <3>1. q \in leaving /\ uuid[q] = u
      BY <2>3
    <3>2. life[q] \in {"dead", "reviving"}
      BY <2>1, <3>1, DeceasedOf
    <3>3. saved'[u] = "dead"
      BY <2>1, <2>3, <3>2 DEF Snapshot
    <3>4. \A p \in Present' : uuid'[p] # u
      BY <1>t, <2>1, <2>2, <3>1 DEF OneController, OnePlayerEach
    <3>. QED
      BY <3>3, <3>4 DEF Deceased
  <2>4. CASE ~\E p \in leaving : uuid[p] = u
    BY <2>1, <2>2, <2>4 DEF Deceased
  <2>. QED
    BY <2>3, <2>4
<1>6. ASSUME UNCHANGED <<uuid, saved>>,
             \A p \in Present : life[p] \in {"dead", "reviving"} =>
               \/ life'[p] \in {"dead", "reviving"}
               \/ life[p] = "reviving" /\ life'[p] = "alive"
      PROVE  Revived(u)
  <2>1. PICK p \in Present : /\ uuid[p] = u /\ life[p] \in {"dead", "reviving"}
                             /\ life'[p] \notin {"dead", "reviving"}
    BY <1>6, SamePeople
  <2>. QED
    BY <1>6, <2>1 DEF Revived
<1>7. CASE Act
  BY <1>6, <1>7 DEF Act, Present
<1>8. CASE ResolveFractures \/ ResolveLethal \/ \E p \in PlayerIds : Exhaust(p)
  <2>1. PICK D, lost : Die(D, lost)
    BY <1>8 DEF ResolveFractures, ResolveLethal, Exhaust
  <2>2. \A p \in Present : life'[p] = "dead" \/ life'[p] = life[p]
    BY <2>1 DEF Die, Present
  <2>3. UNCHANGED <<uuid, saved>>
    BY <1>8 DEF ResolveFractures, ResolveLethal, Exhaust
  <2>. QED
    BY <1>6, <2>2, <2>3
<1>9. CASE \E p \in PlayerIds : Materialize(p)
  <2>1. PICK r \in PlayerIds : Materialize(r)
    BY <1>9
  <2>2. \A p \in Present : life'[p] = IF p = r THEN "alive" ELSE life[p]
    BY <1>t, <2>1 DEF Materialize, Present, TypeOK
  <2>3. life[r] \in {"entering", "reviving"} /\ UNCHANGED <<uuid, saved>>
    BY <2>1 DEF Materialize, Materializing
  <2>. QED
    BY <1>6, <2>2, <2>3
<1>. QED
  BY <1>1, <1>2, <1>3, <1>4, <1>5, <1>7, <1>8, <1>9 DEF Next, Tick, Handle, Chance

\* Neither leaving and joining again, nor a takeover, nor an interrupted revive
\* brings a dead player back: only a revive that finds a place does.
THEOREM DeathIsNotEscaped == Spec => OnlyRevivesRevive
<1>1. ControlInv /\ [Next]_vars =>
        [\A u \in Uuids : Deceased(u) /\ ~Deceased(u)' =>
           \E p \in Present : uuid[p] = u /\ life[p] = "reviving" /\ life'[p] = "alive"]_vars
  BY ReviveStep DEF Revived
<1>. QED
  BY ControlInvariant, <1>1, PTL DEF Spec, OnlyRevivesRevive
=============================================================================
