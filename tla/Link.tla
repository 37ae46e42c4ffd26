-------------------------------- MODULE Link ---------------------------------
(***************************************************************************)
(* The client's side of a connection: it dials, greets, reads, loses and   *)
(* redials, while panels open and close over the game                      *)
(* (fallingsand_client game/net/mod.rs, native.rs and embedded.rs,         *)
(* game/mod.rs; fallingsand_net memory.rs, wt_native.rs and framing.rs).   *)
(*                                                                         *)
(* A frame of the client is UI events, drain, supervise and flush, and the *)
(* tasks of the transport run between any two of them.  The server is what *)
(* its sessions (module Sessions) can do to one connection.  Timers count  *)
(* frames.  A frame does not count for an answer that is on its way,       *)
(* except for one of the faults that Next can spend.                       *)
(***************************************************************************)
EXTENDS Integers, Sequences, FiniteSets, SequencesExt, FiniteSetsExt

CONSTANTS
  HandshakeFrames, \* HANDSHAKE_TIMEOUT_SECS, in frames
  DialFrames,      \* DIAL_TIMEOUT_SECS
  RetryDelay, RetryMax,
  MaxAttempt,      \* bound on the attempts that are told apart
  MaxQueue,        \* bound on the messages under way
  MaxFaults,       \* bound on what goes wrong
  MaxEvents,       \* bound on what the user does
  Nil

Lives == {"entering", "alive", "dead", "reviving"}
Incapacitated(l) == l \in {"dead", "reviving"}

\* What the server says; the frames of a tick carry the player's life.
FrameOf(l) == [kind |-> "frame", life |-> l]
Say(kind) == [kind |-> kind]
Messages == {Say(k) : k \in {"challenge", "ack", "mismatch", "reject"}}
              \cup {FrameOf(l) : l \in Lives}

Texts == {"rejected", "closed", "mismatch", "timed out", "stream closed"}
Reasons == [text : Texts, authoritative : BOOLEAN]
Dials == [frames : 0..DialFrames, found : {"nothing", "conn", "error"}]
Sessions == [player : BOOLEAN, waited : 0..HandshakeFrames]
Conns == [far : {"challenged", "active", "gone"}, wire : Seq(Messages), rx : Seq(Messages),
          hello : BOOLEAN, gone : BOOLEAN, closed : Reasons \cup {Nil}]

\* Nil is none of the things that can be there.
ASSUME NilIsNothing ==
  /\ Nil \notin {"remote", "embedded", "failed", "inventory", "chat", "menu", "refused",
                 "unreadable"} \cup Texts
  /\ Nil \notin Reasons /\ Nil \notin Dials /\ Nil \notin Sessions /\ Nil \notin Conns

ASSUME LinkAssumption ==
  {HandshakeFrames, DialFrames, RetryDelay, RetryMax, MaxAttempt, MaxQueue, MaxFaults,
   MaxEvents} \subseteq Nat

\* A frame is a quarter of a second at most, the shortest delay is two seconds.
ASSUME DelaysOutlastAFrame == RetryDelay > 1 /\ RetryMax > 1

VARIABLES
  pc,        \* the stage of the frame
  flow,      \* Nil in the menu, or the kind of game: remote, embedded or failed
  phase,     \* connecting until the first frame of a player, then playing
  panel,     \* the panel over the game, or Nil
  life,      \* the life of the player as the client knows it
  asked,     \* whether a revive was asked for and not answered
  target,    \* whether the supervisor knows where to dial
  attempt, retry,
  lastError, \* what the connection screen would say, or Nil
  dial,      \* Nil, or a dial: its frames and what its thread found
  session,   \* Nil, or the session: whether it has a player, frames greeted
  conn,      \* Nil, or the connection under the session
  up,        \* whether the server runs
  paused,    \* whether an embedded server is paused
  faults, events

uiVars == <<flow, phase, panel, life, asked>>
dialVars == <<target, attempt, retry, lastError, dial>>
vars == <<pc, uiVars, dialVars, session, conn, up, paused, faults, events>>

(***************************************************************************)
(* A connection: the server's session at its far end, what is under way    *)
(* and what can be polled, what the transport found about its end, and     *)
(* the reason that status reports.                                         *)
(***************************************************************************)
NewConn == [far |-> "challenged", wire |-> <<Say("challenge")>>, rx |-> <<>>,
            hello |-> FALSE, gone |-> FALSE, closed |-> Nil]
Reason(text, authoritative) == [text |-> text, authoritative |-> authoritative]

\* The first word counts, unless it was a guess.
Mark(c, r) ==
  IF c.closed = Nil \/ (r.authoritative /\ ~c.closed.authoritative)
    THEN [c EXCEPT !.closed = r] ELSE c

Close(c, text) == [Mark(c, Reason(text, TRUE)) EXCEPT !.far = "gone"]

Doubled[n \in Nat] == IF n = 0 THEN RetryDelay ELSE 2 * Doubled[n - 1]
Delay(n) == Min({Doubled[n], RetryMax})
Ready == session # Nil /\ session.player

\* What the connection screen shows (Supervisor::phase; a stall is left out).
Shown ==
  CASE Ready -> "online"
    [] ~Ready /\ (session # Nil \/ target) -> "trying"
    [] OTHER -> "lost"
-----------------------------------------------------------------------------
(* The stage of UI events, one at most.                                    *)

Act == pc = "ui" /\ events < MaxEvents /\ events' = events + 1 /\ pc' = "drain"

NoEvent ==
  /\ pc = "ui" /\ pc' = "drain"
  /\ UNCHANGED <<uiVars, dialVars, session, conn, up, paused, faults, events>>

Enter(kind, error) ==
  /\ flow' = kind
  /\ phase' = "connecting" /\ panel' = Nil /\ life' = "entering" /\ asked' = FALSE
  /\ attempt' = 0 /\ retry' = 0 /\ lastError' = error /\ dial' = Nil

ConnectRemote ==
  /\ Act /\ flow = Nil
  /\ Enter("remote", Nil) /\ target' = TRUE
  /\ UNCHANGED <<session, conn, up, paused, faults>>

\* An address that cannot be read: there is a game, and nowhere to dial.
ConnectNowhere ==
  /\ Act /\ flow = Nil
  /\ Enter("failed", "unreadable") /\ target' = FALSE
  /\ UNCHANGED <<session, conn, up, paused, faults>>

\* An embedded server starts, and its connection is there at once.
Play ==
  /\ Act /\ flow = Nil
  /\ Enter("embedded", Nil) /\ target' = FALSE
  /\ session' = [player |-> FALSE, waited |-> 0]
  /\ conn' = [NewConn EXCEPT !.wire = <<>>, !.rx = <<Say("challenge")>>]
  /\ up' = TRUE /\ paused' = FALSE
  /\ UNCHANGED faults

\* Quit to the menu or cancel: the session is closed and the game is
\* dropped; an embedded server is asked to stop, paused or not, and joined.
Leave ==
  /\ Act /\ flow # Nil
  /\ flow' = Nil /\ panel' = Nil /\ phase' = "connecting" /\ life' = "entering"
  /\ asked' = FALSE
  /\ target' = FALSE /\ attempt' = 0 /\ retry' = 0 /\ lastError' = Nil /\ dial' = Nil
  /\ session' = Nil /\ conn' = Nil
  /\ up' = (up \/ flow = "embedded")
  /\ paused' = FALSE
  /\ UNCHANGED faults

OpenPanel(p) ==
  /\ Act
  /\ flow # Nil /\ phase = "playing" /\ panel = Nil
  /\ p \in {"inventory", "chat"} => Ready /\ ~Incapacitated(life)
  /\ panel' = p
  /\ paused' = (paused \/ (p = "menu" /\ flow = "embedded"))
  /\ UNCHANGED <<flow, phase, life, asked, dialVars, session, conn, up, faults>>

ClosePanel ==
  /\ Act /\ panel # Nil
  /\ panel' = Nil
  /\ paused' = (paused /\ panel # "menu")
  /\ UNCHANGED <<flow, phase, life, asked, dialVars, session, conn, up, faults>>

\* The request is sent with the input of this frame.
Revive ==
  /\ Act
  /\ life = "dead" /\ panel # "menu" /\ ~asked
  /\ asked' = TRUE
  /\ UNCHANGED <<flow, phase, panel, life, dialVars, session, conn, up, paused, faults>>
-----------------------------------------------------------------------------
(* drain: everything that can be polled is read.                           *)

Client == [session |-> session, conn |-> conn, target |-> target, error |-> lastError,
           phase |-> phase, life |-> life]

Read(s, m) ==
  CASE m.kind = "challenge" -> [s EXCEPT !.conn.hello = TRUE]
    [] m.kind = "ack" -> [s EXCEPT !.session.player = TRUE]
    [] m.kind = "mismatch" -> [s EXCEPT !.conn = Close(@, "mismatch")]
    [] m.kind = "reject" ->
         [s EXCEPT !.conn = Close(@, "rejected"), !.target = FALSE, !.error = "refused"]
    [] m.kind = "frame" ->
         [s EXCEPT !.life = m.life, !.phase = IF s.session.player THEN "playing" ELSE @]

\* The messages are read in the order they came.
ReadAll(s, ms) ==
  LET read[n \in 0..Len(ms)] == IF n = 0 THEN s ELSE Read(read[n - 1], ms[n])
  IN  read[Len(ms)]

\* Whether the far end owes this connection a step.
Answering == up /\ ~paused /\ conn.far # "gone" /\ ~conn.gone

\* A frame of waiting for the greeting counts if nothing is coming, or if
\* what is coming is slow.
Waited(s, slow) ==
  IF s.session.player \/ (Answering /\ ~slow) THEN s
  ELSE IF s.session.waited < HandshakeFrames THEN [s EXCEPT !.session.waited = @ + 1]
       ELSE [s EXCEPT !.conn = Close(@, "timed out")]

\* What is closed is read to its end, and then left to supervise.
DrainSession(slow) ==
  LET read == ReadAll([Client EXCEPT !.conn.rx = <<>>], conn.rx)
      after == IF conn.closed # Nil THEN read ELSE Waited(read, slow)
  IN  /\ session' = after.session
      /\ conn' = after.conn
      /\ target' = after.target
      /\ lastError' = after.error
      /\ phase' = after.phase
      /\ life' = after.life
      /\ asked' = (asked /\ after.life = life)
      /\ panel' = IF ~Incapacitated(life) /\ Incapacitated(after.life)
                     /\ panel \in {"inventory", "chat"} THEN Nil ELSE panel

Drain(slow) ==
  /\ pc = "drain" /\ pc' = "supervise"
  /\ slow => faults < MaxFaults /\ session # Nil /\ ~Ready
  /\ faults' = IF slow THEN faults + 1 ELSE faults
  /\ IF session # Nil THEN DrainSession(slow)
       ELSE UNCHANGED <<session, conn, target, lastError, phase, life, asked, panel>>
  /\ UNCHANGED <<flow, attempt, retry, dial, up, paused, events>>
-----------------------------------------------------------------------------
(* supervise: one of four cases; a dial that has ended, with whatever, is   *)
(* followed by the countdown in the same frame.                            *)

EndFrame == pc' = "ui" /\ UNCHANGED <<up, faults, events>>

\* Mutation: losing the session closes the game menu as well.
PanelAfterLossOpen(p) == Nil

PanelAfterLoss(p) == IF p \in {"inventory", "chat"} THEN Nil ELSE p

\* Mutation: the last word is always the connection's.
ErrorAfterLossAlways == conn.closed.text

ErrorAfterLoss == IF target \/ lastError = Nil THEN conn.closed.text ELSE lastError

Lose ==
  /\ pc = "supervise" /\ EndFrame
  /\ session # Nil /\ conn.closed # Nil
  /\ session' = Nil /\ conn' = Nil
  /\ life' = "entering" /\ asked' = FALSE
  /\ panel' = PanelAfterLoss(panel)
  /\ retry' = Delay(attempt)
  /\ lastError' = ErrorAfterLoss
  /\ UNCHANGED <<flow, phase, target, attempt, dial, paused>>

Hold ==
  /\ pc = "supervise" /\ EndFrame
  /\ session # Nil /\ conn.closed = Nil
  /\ IF session.player THEN attempt' = 0 /\ lastError' = Nil
                       ELSE UNCHANGED <<attempt, lastError>>
  /\ UNCHANGED <<uiVars, target, retry, dial, session, conn, paused>>

\* The dial thread answers, or the dial is given up.
PollDial(slow) ==
  /\ pc = "supervise"
  /\ session = Nil /\ dial # Nil
  /\ slow => faults < MaxFaults /\ dial.found = "nothing"
  /\ faults' = IF slow THEN faults + 1 ELSE faults
  /\ CASE dial.found = "conn" ->
            /\ dial' = Nil
            /\ session' = [player |-> FALSE, waited |-> 0]
            /\ conn' = NewConn
            /\ pc' = "retry"
            /\ UNCHANGED lastError
       [] dial.found = "error" ->
            /\ dial' = Nil
            /\ lastError' = "closed"
            /\ pc' = "retry"
            /\ UNCHANGED <<session, conn>>
       [] dial.found = "nothing" /\ dial.frames = DialFrames ->
            /\ dial' = Nil
            /\ lastError' = "timed out"
            /\ pc' = "retry"
            /\ UNCHANGED <<session, conn>>
       [] OTHER ->
            /\ dial' = IF up /\ ~slow THEN dial ELSE [dial EXCEPT !.frames = @ + 1]
            /\ pc' = "ui"
            /\ UNCHANGED <<session, conn, lastError>>
  /\ UNCHANGED <<uiVars, target, attempt, retry, up, paused, events>>

\* Mutation: the countdown is set anew whenever it has run out.
RedialLater ==
  /\ retry' = Delay(attempt) /\ attempt' = Min({attempt + 1, MaxAttempt})
  /\ UNCHANGED dial

Redial ==
  /\ attempt' = Min({attempt + 1, MaxAttempt})
  /\ retry' = Delay(attempt')
  /\ dial' = [frames |-> 0, found |-> "nothing"]

\* No session and no dial, or a dial that has just ended: wait for the next
\* attempt, or make it.
Retry ==
  /\ pc = "retry" \/ (pc = "supervise" /\ session = Nil /\ dial = Nil)
  /\ EndFrame
  /\ CASE ~target -> UNCHANGED <<attempt, retry, dial>>
       [] target /\ retry > 1 -> retry' = retry - 1 /\ UNCHANGED <<attempt, dial>>
       [] OTHER -> Redial
  /\ UNCHANGED <<uiVars, target, lastError, session, conn, paused>>
-----------------------------------------------------------------------------
(* The threads and tasks of the transport, and the server, between any two *)
(* stages of a frame.                                                      *)

Fault == faults < MaxFaults /\ faults' = faults + 1
OnlyConn == UNCHANGED <<pc, uiVars, dialVars, session, up, paused, events>>

DialEnds ==
  /\ dial # Nil /\ dial.found = "nothing"
  /\ dial' = [dial EXCEPT !.found = IF up THEN "conn" ELSE "error"]
  /\ UNCHANGED <<pc, uiVars, target, attempt, retry, lastError, session, conn, up, paused,
                 faults, events>>

\* reader: the next frame of the stream.
Deliver ==
  /\ conn # Nil /\ conn.wire # <<>>
  /\ conn' = [conn EXCEPT !.rx = Append(@, Head(conn.wire)), !.wire = Tail(@)]
  /\ OnlyConn /\ UNCHANGED faults

\* reader: the end of the stream; watch_closed: the end of the session,
\* whatever the reader has still to deliver.
StreamEnds ==
  /\ conn # Nil /\ conn.gone /\ conn.wire = <<>>
  /\ conn.closed = Nil
  /\ conn' = Mark(conn, Reason("stream closed", FALSE))
  /\ OnlyConn /\ UNCHANGED faults

WatchClosed ==
  /\ conn # Nil /\ conn.gone
  /\ conn.closed # Nil => ~conn.closed.authoritative
  /\ conn' = Mark(conn, Reason("closed", TRUE))
  /\ OnlyConn /\ UNCHANGED faults

\* Closing a session may take with it what was not read.
LoseWire ==
  /\ conn # Nil /\ conn.gone /\ conn.wire # <<>>
  /\ conn' = [conn EXCEPT !.wire = <<>>]
  /\ OnlyConn /\ UNCHANGED faults

\* In memory what is sent can be polled, and both ends share one status.
Send(c, ms) ==
  IF flow = "embedded" THEN [c EXCEPT !.rx = @ \o ms] ELSE [c EXCEPT !.wire = @ \o ms]

Hangup(c) ==
  IF flow = "embedded" THEN [Mark(c, Reason("closed", TRUE)) EXCEPT !.far = "gone"]
                       ELSE [c EXCEPT !.far = "gone", !.gone = TRUE]

Serving == conn # Nil /\ up /\ ~paused
Room == Len(conn.wire) + Len(conn.rx) < MaxQueue

\* The handshake, and one tick's frame.  What a player's life does between
\* two frames is up to the world.
Welcome ==
  /\ Serving /\ conn.far = "challenged" /\ conn.hello
  /\ conn' = [Send(conn, <<Say("ack")>>) EXCEPT !.far = "active", !.hello = FALSE]
  /\ OnlyConn /\ UNCHANGED faults

Tick(l) ==
  /\ Serving /\ conn.far = "active" /\ Room
  /\ conn' = Send(conn, <<FrameOf(l)>>)
  /\ OnlyConn /\ UNCHANGED faults

\* An identity that fails, or a newer session of the same player.
Reject ==
  /\ Serving /\ Fault
  /\ conn.far = "active" \/ conn.hello
  /\ conn' = Hangup(Send(conn, <<Say("reject")>>))
  /\ OnlyConn

Mismatch ==
  /\ Serving /\ Fault
  /\ conn.far = "challenged" /\ conn.hello
  /\ conn' = [Send(conn, <<Say("mismatch")>>) EXCEPT !.far = "active", !.hello = FALSE]
  /\ OnlyConn

\* The server hangs up, or the network does.
Drop ==
  /\ conn # Nil /\ conn.far # "gone" /\ Fault
  /\ conn' = Hangup(conn)
  /\ OnlyConn

\* The server stops: it answers nobody, and its connections end.
ServerDies ==
  /\ up /\ Fault
  /\ up' = FALSE
  /\ conn' = IF conn = Nil THEN Nil ELSE Hangup(conn)
  /\ UNCHANGED <<pc, uiVars, dialVars, session, paused, events>>

ServerStarts ==
  /\ ~up /\ flow # "embedded"
  /\ up' = TRUE
  /\ UNCHANGED <<pc, uiVars, dialVars, session, conn, paused, faults, events>>
-----------------------------------------------------------------------------
Init ==
  /\ pc = "ui" /\ flow = Nil /\ phase = "connecting" /\ panel = Nil
  /\ life = "entering" /\ asked = FALSE
  /\ target = FALSE /\ attempt = 0 /\ retry = 0 /\ lastError = Nil /\ dial = Nil
  /\ session = Nil /\ conn = Nil
  /\ up = TRUE /\ paused = FALSE
  /\ faults = 0 /\ events = 0

UserActs ==
  \/ ConnectRemote \/ ConnectNowhere \/ Play \/ Leave \/ ClosePanel \/ Revive
  \/ \E p \in {"inventory", "chat", "menu"} : OpenPanel(p)

Frame ==
  \/ NoEvent
  \/ \E slow \in BOOLEAN : Drain(slow) \/ PollDial(slow)
  \/ Lose \/ Hold \/ Retry

Transport == DialEnds \/ Deliver \/ StreamEnds \/ WatchClosed

Greets == Welcome \/ ServerStarts

Next ==
  \/ UserActs
  \/ Frame
  \/ Transport
  \/ Greets
  \/ \E l \in Lives : Tick(l)
  \/ LoseWire \/ Reject \/ Mismatch \/ Drop \/ ServerDies

Spec == Init /\ [][Next]_vars

(***************************************************************************)
(* The driver runs frame after frame; the tasks of the transport and a     *)
(* server that runs do what they have begun.  The user and faults need not *)
(* come.                                                                   *)
(***************************************************************************)
FairSpec == Spec /\ WF_vars(Frame) /\ WF_vars(DialEnds) /\ WF_vars(Deliver)
                 /\ WF_vars(WatchClosed) /\ WF_vars(Welcome) /\ WF_vars(ServerStarts)
-----------------------------------------------------------------------------
TypeOK ==
  /\ pc \in {"ui", "drain", "supervise", "retry"}
  /\ flow \in {Nil, "remote", "embedded", "failed"}
  /\ phase \in {"connecting", "playing"}
  /\ panel \in {Nil, "inventory", "chat", "menu"}
  /\ life \in Lives /\ asked \in BOOLEAN
  /\ target \in BOOLEAN
  /\ attempt \in 0..MaxAttempt /\ retry \in 0..RetryMax
  /\ lastError \in {Nil, "refused", "unreadable"} \cup Texts
  /\ dial \in Dials \cup {Nil}
  /\ session \in Sessions \cup {Nil}
  /\ conn \in Conns \cup {Nil}
  /\ session = Nil <=> conn = Nil
  /\ {up, paused} \subseteq BOOLEAN
  /\ faults \in 0..MaxFaults /\ events \in 0..MaxEvents

\* Every value has its type, and a client that read the server's refusal, or
\* whose address could not be read, stays down and says why, whatever the
\* closing of the connection adds in which order (drain, supervise).
RefusalIsFinal ==
  /\ TypeOK
  /\ flow = "remote" /\ ~target => lastError = "refused" /\ dial = Nil /\ ~(Shown = "online" /\ pc = "ui")
  /\ flow = "failed" => ~target /\ lastError = "unreadable" /\ dial = Nil /\ session = Nil

\* An embedded server is paused exactly while the game menu is open: no way
\* to lose a panel leaves the world frozen, and none lets it run on behind
\* the menu.
PausedByTheMenu == paused <=> flow = "embedded" /\ panel = "menu"

\* A client that knows where to dial gets a player in the end, unless it is
\* refused or the user leaves.
LinkRecovers == target ~> (Ready \/ ~target)
=============================================================================
