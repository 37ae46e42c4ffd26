----------------------------- MODULE LinkProofs ------------------------------
(***************************************************************************)
(* For any timeouts, delays and bounds of Link: a refusal is final, and an *)
(* embedded server is paused exactly while the game menu is open.          *)
(***************************************************************************)
EXTENDS Link, Recursion

-----------------------------------------------------------------------------
(* Delays.                                                                 *)

\* The delay of an attempt outlasts a frame, and is no longer than the longest.
LEMMA DelayIsBounded == ASSUME NEW n \in Nat PROVE Delay(n) \in 2..RetryMax
  <1>1. RetryDelay \in Nat /\ RetryMax \in Nat /\ RetryDelay > 1 /\ RetryMax > 1
    BY LinkAssumption, DelaysOutlastAFrame
  <1> DEFINE step == [k \in Nat |-> [x \in Nat |-> 2 * x]]
  <1>2. PICK f \in [Nat -> Nat] : Iterates(f, RetryDelay, step)
    <2>1. step \in [Nat -> [Nat -> Nat]]
      OBVIOUS
    <2> HIDE DEF step
    <2>. QED
      BY <1>1, <2>1, RecursiveFunctionExists
  <1> DEFINE Doubles(g) == g = [k \in Nat |-> IF k = 0 THEN RetryDelay ELSE 2 * g[k - 1]]
  <1>3. Doubles(f)
    <2>1. ASSUME NEW k \in Nat PROVE f[k] = IF k = 0 THEN RetryDelay ELSE 2 * f[k - 1]
      <3>1. CASE k = 0
        BY <1>2, <3>1 DEF Iterates
      <3>2. CASE k # 0
        <4>1. k - 1 \in Nat /\ (k - 1) + 1 = k
          BY <3>2
        <4>2. f[(k - 1) + 1] = step[k - 1][f[k - 1]]
          BY <1>2, <4>1 DEF Iterates
        <4>. QED
          BY <1>2, <3>2, <4>1, <4>2
      <3>. QED
        BY <3>1, <3>2
    <2>. QED
      BY <2>1
  <1>4. Doubles(Doubled)
    BY <1>3 DEF Doubled
  <1> DEFINE T == {k \in Nat : Doubled[k] \in Nat /\ Doubled[k] > 1}
  <1>5. 0 \in T
    BY <1>1, <1>4
  <1>6. ASSUME NEW k \in T PROVE k + 1 \in T
    <2>1. Doubled[k + 1] = 2 * Doubled[k]
      BY <1>4
    <2>. QED
      BY <2>1
  <1>7. T = Nat
    <2> HIDE DEF T
    <2>1. T \in SUBSET Nat
      BY DEF T
    <2>. QED
      BY <1>5, <1>6, <2>1, Induction
  <1>8. Doubled[n] \in Nat /\ Doubled[n] > 1
    BY <1>7
  <1>. QED
    <2> HIDE DEF T, step, Doubles
    <2>1. Doubled[n] \in Int /\ RetryMax \in Int
      BY <1>1, <1>8
    <2>2. Min({Doubled[n], RetryMax}) =
            IF Doubled[n] <= RetryMax THEN Doubled[n] ELSE RetryMax
      BY <2>1, LeastOfTwo
    <2>. QED
      BY <1>1, <1>8, <2>2 DEF Delay

\* The count of attempts stays below its bound.
LEMMA AttemptsAreBounded ==
  ASSUME NEW n \in 0..MaxAttempt
  PROVE  Min({n + 1, MaxAttempt}) \in 0..MaxAttempt
  <1>1. n + 1 \in Int /\ MaxAttempt \in Nat
    BY LinkAssumption
  <1>2. ASSUME NEW m \in Int
        PROVE  Min({m, MaxAttempt}) = IF m <= MaxAttempt THEN m ELSE MaxAttempt
    BY <1>1, LeastOfTwo
  <1>. QED
    BY <1>1, <1>2
-----------------------------------------------------------------------------
(* What is read.                                                           *)

\* Reading message after message stays in a set that reading one stays in.
LEMMA ReadAllStays ==
  ASSUME NEW S, NEW s \in S, NEW ms \in Seq(Messages),
         \A t \in S, m \in Messages : Read(t, m) \in S
  PROVE  ReadAll(s, ms) \in S
  <1> DEFINE N == Len(ms)
             Reads(g) == g = [n \in 0..N |-> IF n = 0 THEN s ELSE Read(g[n - 1], ms[n])]
             step == [n \in 1..N |-> [t \in S |-> Read(t, ms[n])]]
             read == CHOOSE g : Reads(g)
  <1>1. N \in Nat /\ \A n \in 1..N : ms[n] \in Messages
    OBVIOUS
  <1>2. step \in [1..N -> [S -> S]]
    BY <1>1
  <1>3. PICK f \in [0..N -> S] : Runs(f, N, s, step)
    <2> HIDE DEF step, N
    <2>. QED
      BY <1>1, <1>2, BoundedFunctionExists
  <1>4. Reads(f)
    <2> HIDE DEF N
    <2>1. ASSUME NEW n \in 1..N
          PROVE  f[n] = Read(f[n - 1], ms[n])
      <3>1. f[n] = step[n][f[n - 1]] /\ f[n - 1] \in S
        BY <1>1, <1>3, <2>1 DEF Runs
      <3>. QED
        BY <3>1
    <2>. QED
      BY <1>1, <1>3, <2>1 DEF Runs
  <1>5. Reads(read)
    BY <1>4
  <1>6. ReadAll(s, ms) = read[N]
    BY DEF ReadAll
  <1> HIDE DEF read, step
  <1> DEFINE T == {n \in 0..N : read[n] \in S}
  <1>7. 0 \in T
    BY <1>1, <1>5
  <1>8. ASSUME NEW n \in 0..(N - 1), n \in T PROVE n + 1 \in T
    <2>1. read[n + 1] = Read(read[n], ms[n + 1])
      BY <1>1, <1>5
    <2>. QED
      BY <1>1, <1>8, <2>1
  <1>9. 0..N \subseteq T
    <2> HIDE DEF T, N
    <2>. QED
      BY <1>1, <1>7, <1>8, BoundedInduction
  <1>. QED
    BY <1>1, <1>6, <1>9
-----------------------------------------------------------------------------
(* The invariant.  While there is a session nothing is dialled.  A client  *)
(* that was refused says so; it neither dials nor greets, and the session  *)
(* that brought the refusal does not live to the end of the frame, since   *)
(* its connection was closed with the refusal.  A dial was begun with a    *)
(* delay that outlasts a frame, and the countdown stands while it lasts:   *)
(* so the frame in which it brings a connection dials no second time.      *)

RefusalInv ==
  /\ session # Nil => dial = Nil
  /\ flow = "remote" /\ ~target =>
       /\ lastError = "refused"
       /\ dial = Nil
       /\ session # Nil => conn.closed # Nil /\ pc = "supervise"
  /\ flow = "failed" => lastError = "unreadable"
  /\ flow \in {Nil, "failed"} => ~target /\ dial = Nil /\ session = Nil
  /\ dial # Nil => retry > 1
  /\ pc = "retry" => dial = Nil
  /\ pc = "retry" /\ session # Nil => retry > 1

LinkInv == TypeOK /\ PausedByTheMenu /\ RefusalInv

\* Nil is told apart from everything that can be there.
LEMMA NilIsApart ==
  /\ Nil \notin {"remote", "embedded", "failed", "inventory", "chat", "menu", "refused",
                 "unreadable", "rejected", "closed", "mismatch", "timed out", "stream closed"}
  /\ Nil \notin Reasons /\ Nil \notin Dials /\ Nil \notin Sessions /\ Nil \notin Conns
  BY NilIsNothing DEF Texts

\* What the client keeps while it reads.
Snapshots == [session : Sessions, conn : Conns, target : BOOLEAN,
              error : {Nil, "refused", "unreadable"} \cup Texts, phase : {"connecting", "playing"},
              life : Lives]

Refusing(s) == ~s.target => s.error = "refused" /\ s.conn.closed # Nil

\* The reasons that the model gives are reasons.
LEMMA ReasonType ==
  ASSUME NEW text \in Texts, NEW b \in BOOLEAN
  PROVE  Reason(text, b) \in Reasons /\ Reason(text, b) # Nil
  <1>1. Reason(text, b) \in Reasons
    BY DEF Reason, Reasons
  <1>. QED
    BY <1>1, NilIsApart

\* Marking a connection leaves it with a reason.
LEMMA MarkType ==
  ASSUME NEW c \in Conns, NEW r \in Reasons
  PROVE  /\ Mark(c, r) \in Conns
         /\ Mark(c, r).closed # Nil
  BY NilIsApart DEF Mark, Conns

\* A connection that is closed is a connection, and closed.
LEMMA CloseType ==
  ASSUME NEW c \in Conns, NEW text \in Texts
  PROVE  /\ Close(c, text) \in Conns
         /\ Close(c, text).closed # Nil
  <1> DEFINE d == Mark(c, Reason(text, TRUE))
  <1>1. d \in Conns /\ d.closed # Nil
    BY ReasonType, MarkType
  <1>2. Close(c, text) = [d EXCEPT !.far = "gone"]
    BY DEF Close
  <1> HIDE DEF d
  <1>. QED
    BY <1>1, <1>2 DEF Conns

\* Reading a message keeps a refusal, and a message that refuses closes.
LEMMA ReadKeeps ==
  ASSUME NEW s \in Snapshots, NEW m \in Messages
  PROVE  Read(s, m) \in Snapshots /\ (Refusing(s) => Refusing(Read(s, m)))
  <1>1. /\ Close(s.conn, "mismatch") \in Conns /\ Close(s.conn, "mismatch").closed # Nil
        /\ Close(s.conn, "rejected") \in Conns /\ Close(s.conn, "rejected").closed # Nil
    BY CloseType DEF Snapshots, Texts
  <1>2. CASE m.kind = "challenge"
    <2> DEFINE c == [s.conn EXCEPT !.hello = TRUE]
    <2>1. s.conn \in Conns
      BY DEF Snapshots
    <2>2. c \in Conns /\ c.closed = s.conn.closed
      BY <2>1 DEF Conns
    <2>3. Read(s, m) = [s EXCEPT !.conn = c]
      BY <1>2 DEF Read, Snapshots
    <2> HIDE DEF c
    <2>4. Read(s, m) \in Snapshots
      BY <2>2, <2>3 DEF Snapshots
    <2>5. Read(s, m).conn = c /\ Read(s, m).target = s.target /\ Read(s, m).error = s.error
      BY <2>3 DEF Snapshots
    <2>. QED
      BY <2>2, <2>4, <2>5 DEF Refusing
  <1>3. CASE m.kind = "ack"
    <2> DEFINE w == [s.session EXCEPT !.player = TRUE]
    <2>1. w \in Sessions
      BY DEF Snapshots, Sessions
    <2>2. Read(s, m) = [s EXCEPT !.session = w]
      BY <1>3 DEF Read, Snapshots
    <2> HIDE DEF w
    <2>3. Read(s, m) \in Snapshots
      BY <2>1, <2>2 DEF Snapshots
    <2>4. /\ Read(s, m).conn = s.conn /\ Read(s, m).target = s.target
          /\ Read(s, m).error = s.error
      BY <2>2 DEF Snapshots
    <2>. QED
      BY <2>3, <2>4 DEF Refusing
  <1>4. CASE m.kind = "mismatch"
    <2>1. Read(s, m) = [s EXCEPT !.conn = Close(s.conn, "mismatch")]
      BY <1>4 DEF Read, Snapshots
    <2>. QED
      BY <1>1, <2>1 DEF Snapshots, Refusing
  <1>5. CASE m.kind = "reject"
    <2>1. Read(s, m) = [s EXCEPT !.conn = Close(s.conn, "rejected"), !.target = FALSE,
                                 !.error = "refused"]
      BY <1>5 DEF Read, Snapshots
    <2>. QED
      BY <1>1, <2>1 DEF Snapshots, Refusing
  <1>6. CASE m.kind = "frame"
    <2>1. Read(s, m) = [s EXCEPT !.life = m.life,
                                 !.phase = IF s.session.player THEN "playing" ELSE s.phase]
      BY <1>6 DEF Read, Snapshots
    <2>2. m.life \in Lives
      BY <1>6 DEF Messages, Say, FrameOf
    <2>. QED
      BY <2>1, <2>2 DEF Snapshots, Refusing
  <1>. QED
    BY <1>2, <1>3, <1>4, <1>5, <1>6 DEF Messages, Say, FrameOf

\* So does waiting for the greeting.
LEMMA WaitedKeeps ==
  ASSUME NEW s \in Snapshots, NEW slow
  PROVE  Waited(s, slow) \in Snapshots /\ (Refusing(s) => Refusing(Waited(s, slow)))
  <1>1. Close(s.conn, "timed out") \in Conns /\ Close(s.conn, "timed out").closed # Nil
    BY CloseType DEF Snapshots, Texts
  <1>2. CASE s.session.player \/ (Answering /\ ~slow)
    BY <1>2 DEF Waited
  <1>3. CASE ~(s.session.player \/ (Answering /\ ~slow)) /\ s.session.waited < HandshakeFrames
    <2>1. Waited(s, slow) = [s EXCEPT !.session.waited = s.session.waited + 1]
      BY <1>3 DEF Waited, Snapshots, Sessions
    <2>2. s.session.waited + 1 \in 0..HandshakeFrames
      BY <1>3, LinkAssumption DEF Snapshots, Sessions
    <2>. QED
      BY <2>1, <2>2 DEF Snapshots, Sessions, Refusing
  <1>4. CASE ~(s.session.player \/ (Answering /\ ~slow)) /\ ~(s.session.waited < HandshakeFrames)
    <2>1. Waited(s, slow) = [s EXCEPT !.conn = Close(s.conn, "timed out")]
      BY <1>4 DEF Waited, Snapshots
    <2>. QED
      BY <1>1, <2>1 DEF Snapshots, Refusing
  <1>. QED
    BY <1>2, <1>3, <1>4

\* What drain leaves behind.
LEMMA DrainKeeps ==
  ASSUME LinkInv, session # Nil, pc = "drain", NEW slow, DrainSession(slow)
  PROVE  /\ session' \in Sessions /\ conn' \in Conns /\ target' \in BOOLEAN
         /\ lastError' \in {Nil, "refused", "unreadable"} \cup Texts
         /\ phase' \in {"connecting", "playing"} /\ life' \in Lives
         /\ asked' \in BOOLEAN
         /\ \/ panel' = panel
            \/ panel' = Nil /\ panel \in {"inventory", "chat"}
         /\ flow = "remote" /\ ~target' => lastError' = "refused" /\ conn'.closed # Nil
  <1> DEFINE start == [Client EXCEPT !.conn.rx = <<>>]
             read == ReadAll(start, conn.rx)
             after == IF conn.closed # Nil THEN read ELSE Waited(read, slow)
             Fine == {s \in Snapshots : Refusing(s)}
  <1>1. session \in Sessions /\ conn \in Conns /\ conn.rx \in Seq(Messages)
    BY DEF LinkInv, TypeOK, Conns
  <1>2. start \in Snapshots /\ start.target = target
    <2> DEFINE c == [conn EXCEPT !.rx = <<>>]
    <2>1. <<>> \in Seq(Messages)
      OBVIOUS
    <2>2. c \in Conns
      BY <1>1, <2>1 DEF Conns
    <2>3. start = [session |-> session, conn |-> c, target |-> target, error |-> lastError,
                   phase |-> phase, life |-> life]
      BY DEF Client
    <2> HIDE DEF c, start
    <2>. QED
      BY <1>1, <2>2, <2>3 DEF LinkInv, TypeOK, Snapshots
  <1>3. flow = "remote" => start \in Fine
    BY <1>2 DEF LinkInv, RefusalInv, Refusing
  <1>4. \A t \in Snapshots, m \in Messages : Read(t, m) \in Snapshots
    BY ReadKeeps
  <1>5. \A t \in Fine, m \in Messages : Read(t, m) \in Fine
    BY ReadKeeps
  <1>6. read \in Snapshots
    <2> HIDE DEF start
    <2>. QED
      BY <1>1, <1>2, <1>4, ReadAllStays
  <1>7. flow = "remote" => read \in Fine
    <2> HIDE DEF start, Fine
    <2>. QED
      BY <1>1, <1>3, <1>5, ReadAllStays
  <1>8. /\ session' = after.session /\ conn' = after.conn /\ target' = after.target
        /\ lastError' = after.error /\ phase' = after.phase /\ life' = after.life
        /\ asked' = (asked /\ after.life = life)
        /\ panel' = IF ~Incapacitated(life) /\ Incapacitated(after.life)
                       /\ panel \in {"inventory", "chat"} THEN Nil ELSE panel
    BY DEF DrainSession
  <1> HIDE DEF read
  <1>9. after \in Snapshots /\ (flow = "remote" => Refusing(after))
    BY <1>6, <1>7, WaitedKeeps
  <1> HIDE DEF after
  <1>. QED
    BY <1>8, <1>9 DEF Snapshots, Refusing
-----------------------------------------------------------------------------
(* Steps of the transport and of the server.                               *)

\* Something that is sent.
LEMMA SendType ==
  ASSUME NEW c \in Conns, NEW m \in Messages
  PROVE  Send(c, <<m>>) \in Conns /\ Send(c, <<m>>).closed = c.closed
  <1>1. c.rx \o <<m>> \in Seq(Messages) /\ c.wire \o <<m>> \in Seq(Messages)
    BY DEF Conns
  <1> DEFINE x == c.rx \o <<m>>  w == c.wire \o <<m>>
  <1>2. Send(c, <<m>>) = IF flow = "embedded" THEN [c EXCEPT !.rx = x]
                                             ELSE [c EXCEPT !.wire = w]
    BY DEF Send, Conns
  <1> HIDE DEF x, w
  <1>3. [c EXCEPT !.rx = x] \in Conns /\ [c EXCEPT !.rx = x].closed = c.closed
    BY <1>1 DEF Conns, x
  <1>4. [c EXCEPT !.wire = w] \in Conns /\ [c EXCEPT !.wire = w].closed = c.closed
    BY <1>1 DEF Conns, w
  <1>. QED
    BY <1>2, <1>3, <1>4

\* An end of a connection.
LEMMA HangupType ==
  ASSUME NEW c \in Conns
  PROVE  Hangup(c) \in Conns /\ (c.closed # Nil => Hangup(c).closed # Nil)
  <1> DEFINE d == Mark(c, Reason("closed", TRUE))
  <1>1. d \in Conns /\ d.closed # Nil
    BY ReasonType, MarkType DEF Texts
  <1>2. Hangup(c) = IF flow = "embedded" THEN [d EXCEPT !.far = "gone"]
                                        ELSE [c EXCEPT !.far = "gone", !.gone = TRUE]
    BY DEF Hangup
  <1> HIDE DEF d
  <1>3. [d EXCEPT !.far = "gone"] \in Conns /\ [d EXCEPT !.far = "gone"].closed # Nil
    BY <1>1 DEF Conns
  <1> DEFINE e == [c EXCEPT !.far = "gone", !.gone = TRUE]
  <1>4. e \in Conns
    BY DEF Conns
  <1>5. e.closed = c.closed
    BY DEF Conns
  <1> HIDE DEF e
  <1>6. Hangup(c) = IF flow = "embedded" THEN [d EXCEPT !.far = "gone"] ELSE e
    BY <1>2 DEF e
  <1>. QED
    BY <1>3, <1>4, <1>5, <1>6

\* What reaches the connection alone keeps the invariant, as long as a closed
\* connection stays closed.
LEMMA ConnKeepsInv ==
  ASSUME LinkInv, conn # Nil,
         conn' \in Conns, conn.closed # Nil => conn'.closed # Nil,
         UNCHANGED <<pc, uiVars, dialVars, session, paused, events>>,
         up' \in BOOLEAN, faults' \in 0..MaxFaults
  PROVE  LinkInv'
  <1>1. conn' # Nil
    BY NilIsApart
  <1>2. TypeOK'
    BY <1>1 DEF LinkInv, TypeOK, uiVars, dialVars
  <1>3. PausedByTheMenu'
    BY DEF LinkInv, PausedByTheMenu, uiVars
  <1>4. RefusalInv'
    BY DEF LinkInv, RefusalInv, uiVars, dialVars
  <1>. QED
    BY <1>2, <1>3, <1>4 DEF LinkInv

\* The count of faults stays below its bound.
LEMMA FaultCounts == ASSUME LinkInv, Fault PROVE faults' \in 0..MaxFaults
  BY LinkAssumption DEF LinkInv, TypeOK, Fault

\* The tasks of the transport keep the invariant.
LEMMA TransportKeepsInv ==
  ASSUME LinkInv, Deliver \/ StreamEnds \/ WatchClosed \/ LoseWire
  PROVE  LinkInv'
  <1>1. conn # Nil /\ conn \in Conns /\ OnlyConn /\ faults' = faults
    BY DEF LinkInv, TypeOK, Deliver, StreamEnds, WatchClosed, LoseWire
  <1>2. up' \in BOOLEAN /\ faults' \in 0..MaxFaults
    BY <1>1 DEF LinkInv, TypeOK, OnlyConn
  <1>3. CASE Deliver
    <2>1. /\ conn.wire # <<>> /\ conn.wire \in Seq(Messages) /\ conn.rx \in Seq(Messages)
          /\ conn' = [conn EXCEPT !.rx = Append(conn.rx, Head(conn.wire)), !.wire = Tail(conn.wire)]
      BY <1>1, <1>3 DEF Deliver, Conns
    <2>2. Append(conn.rx, Head(conn.wire)) \in Seq(Messages) /\ Tail(conn.wire) \in Seq(Messages)
      BY <2>1
    <2>3. conn' \in Conns /\ conn'.closed = conn.closed
      BY <1>1, <2>1, <2>2 DEF Conns
    <2>. QED
      BY <1>1, <1>2, <2>3, ConnKeepsInv DEF OnlyConn
  <1>4. CASE StreamEnds
    <2>1. conn' = Mark(conn, Reason("stream closed", FALSE))
      BY <1>4 DEF StreamEnds
    <2>2. Reason("stream closed", FALSE) \in Reasons
      BY ReasonType DEF Texts
    <2>3. conn' \in Conns /\ conn'.closed # Nil
      BY <1>1, <2>1, <2>2, MarkType
    <2>. QED
      BY <1>1, <1>2, <2>3, ConnKeepsInv DEF OnlyConn
  <1>5. CASE WatchClosed
    <2>1. conn' = Mark(conn, Reason("closed", TRUE))
      BY <1>5 DEF WatchClosed
    <2>2. Reason("closed", TRUE) \in Reasons
      BY ReasonType DEF Texts
    <2>3. conn' \in Conns /\ conn'.closed # Nil
      BY <1>1, <2>1, <2>2, MarkType
    <2>. QED
      BY <1>1, <1>2, <2>3, ConnKeepsInv DEF OnlyConn
  <1>6. CASE LoseWire
    <2>1. conn' = [conn EXCEPT !.wire = <<>>] /\ <<>> \in Seq(Messages)
      BY <1>6 DEF LoseWire
    <2>2. conn' \in Conns /\ conn'.closed = conn.closed
      BY <1>1, <2>1 DEF Conns
    <2>. QED
      BY <1>1, <1>2, <2>2, ConnKeepsInv DEF OnlyConn
  <1>. QED
    BY <1>3, <1>4, <1>5, <1>6

\* So does whatever the far end does.
LEMMA ServerKeepsInv ==
  ASSUME LinkInv,
         Welcome \/ (\E l \in Lives : Tick(l)) \/ Reject \/ Mismatch \/ Drop
  PROVE  LinkInv'
  <1>1. conn # Nil /\ conn \in Conns /\ OnlyConn
    BY DEF LinkInv, TypeOK, Welcome, Tick, Reject, Mismatch, Drop, Serving
  <1>2. faults' \in 0..MaxFaults /\ up' \in BOOLEAN
    <2>1. faults' = faults \/ Fault
      BY DEF Welcome, Tick, Reject, Mismatch, Drop
    <2>. QED
      BY <1>1, <2>1, FaultCounts DEF LinkInv, TypeOK, OnlyConn
  <1>3. Say("ack") \in Messages /\ Say("reject") \in Messages /\ Say("mismatch") \in Messages
        /\ \A l \in Lives : FrameOf(l) \in Messages
    BY DEF Messages
  <1>4. conn' \in Conns /\ (conn.closed # Nil => conn'.closed # Nil)
    <2>1. CASE Welcome
      <3> DEFINE d == Send(conn, <<Say("ack")>>)
      <3>1. d \in Conns /\ d.closed = conn.closed
        BY <1>1, <1>3, SendType
      <3>2. conn' = [d EXCEPT !.far = "active", !.hello = FALSE]
        BY <2>1 DEF Welcome
      <3> HIDE DEF d
      <3>. QED
        BY <3>1, <3>2 DEF Conns
    <2>2. ASSUME NEW l \in Lives, Tick(l) PROVE conn' \in Conns /\ conn'.closed = conn.closed
      BY <1>1, <1>3, <2>2, SendType DEF Tick
    <2>3. CASE Reject
      BY <1>1, <1>3, <2>3, SendType, HangupType DEF Reject
    <2>4. CASE Mismatch
      <3> DEFINE d == Send(conn, <<Say("mismatch")>>)
      <3>1. d \in Conns /\ d.closed = conn.closed
        BY <1>1, <1>3, SendType
      <3>2. conn' = [d EXCEPT !.far = "active", !.hello = FALSE]
        BY <2>4 DEF Mismatch
      <3> HIDE DEF d
      <3>. QED
        BY <3>1, <3>2 DEF Conns
    <2>5. CASE Drop
      BY <1>1, <2>5, HangupType DEF Drop
    <2>. QED
      BY <2>1, <2>2, <2>3, <2>4, <2>5
  <1>. QED
    BY <1>1, <1>2, <1>4, ConnKeepsInv DEF OnlyConn
-----------------------------------------------------------------------------
(* Steps of the client.                                                    *)

LEMMA UserKeepsInv == ASSUME LinkInv, UserActs PROVE LinkInv'
  <1>t. TypeOK /\ PausedByTheMenu /\ RefusalInv
    BY DEF LinkInv
  <1>n. Nil \notin {"remote", "embedded", "failed", "inventory", "chat", "menu"}
    BY NilIsApart
  <1>e. Act => events' \in 0..MaxEvents
    BY <1>t, LinkAssumption DEF Act, TypeOK
  <1>0. 0 \in 0..MaxAttempt /\ 0 \in 0..RetryMax /\ 0 \in 0..HandshakeFrames
    BY LinkAssumption
  <1>1. CASE ConnectRemote
    <2>1. TypeOK'
      BY <1>t, <1>e, <1>0, <1>1 DEF ConnectRemote, Act, Enter, TypeOK, Lives
    <2>2. PausedByTheMenu'
      BY <1>t, <1>n, <1>1 DEF ConnectRemote, Enter, PausedByTheMenu
    <2>3. RefusalInv'
      BY <1>n, <1>1 DEF ConnectRemote, Act, Enter, RefusalInv
    <2>. QED
      BY <2>1, <2>2, <2>3 DEF LinkInv
  <1>2. CASE Play
    <2>1. session' \in Sessions /\ session' # Nil
      <3>1. session' \in Sessions
        BY <1>0, <1>2 DEF Play, Sessions
      <3>. QED
        BY <3>1, NilIsApart
    <2>2. conn' \in Conns /\ conn' # Nil
      <3> DEFINE rx == <<Say("challenge")>>
      <3>1. Say("challenge") \in Messages
        BY DEF Messages
      <3>2. <<>> \in Seq(Messages) /\ rx \in Seq(Messages)
        BY <3>1
      <3>3. conn' = [far |-> "challenged", wire |-> <<>>, rx |-> rx, hello |-> FALSE,
                     gone |-> FALSE, closed |-> Nil]
        BY <1>2 DEF Play, NewConn
      <3> HIDE DEF rx
      <3>4. conn' \in Conns
        BY <3>2, <3>3 DEF Conns
      <3>. QED
        BY <3>4, NilIsApart
    <2>3. TypeOK'
      BY <1>t, <1>e, <1>0, <1>2, <2>1, <2>2 DEF Play, Act, Enter, TypeOK, Lives
    <2>4. PausedByTheMenu'
      BY <1>n, <1>2 DEF Play, Enter, PausedByTheMenu
    <2>5. RefusalInv'
      BY <1>n, <1>2 DEF Play, Act, Enter, RefusalInv
    <2>. QED
      BY <2>3, <2>4, <2>5 DEF LinkInv
  <1>3. CASE Leave
    <2>1. TypeOK'
      BY <1>t, <1>e, <1>0, <1>3 DEF Leave, Act, TypeOK, Lives
    <2>2. PausedByTheMenu'
      BY <1>n, <1>3 DEF Leave, PausedByTheMenu
    <2>3. RefusalInv'
      BY <1>n, <1>3 DEF Leave, Act, RefusalInv
    <2>. QED
      BY <2>1, <2>2, <2>3 DEF LinkInv
  <1>4. ASSUME NEW p \in {"inventory", "chat", "menu"}, OpenPanel(p) PROVE LinkInv'
    <2>1. TypeOK'
      BY <1>t, <1>e, <1>4 DEF OpenPanel, Act, TypeOK, dialVars
    <2>2. PausedByTheMenu'
      BY <1>t, <1>n, <1>4 DEF OpenPanel, PausedByTheMenu
    <2>3. RefusalInv'
      BY <1>t, <1>4 DEF OpenPanel, Act, RefusalInv, dialVars
    <2>. QED
      BY <2>1, <2>2, <2>3 DEF LinkInv
  <1>5. CASE ClosePanel
    <2>1. TypeOK'
      BY <1>t, <1>e, <1>5 DEF ClosePanel, Act, TypeOK, dialVars
    <2>2. PausedByTheMenu'
      BY <1>t, <1>n, <1>5 DEF ClosePanel, PausedByTheMenu
    <2>3. RefusalInv'
      BY <1>t, <1>5 DEF ClosePanel, Act, RefusalInv, dialVars
    <2>. QED
      BY <2>1, <2>2, <2>3 DEF LinkInv
  <1>6. CASE Revive
    <2>1. TypeOK'
      BY <1>t, <1>e, <1>6 DEF Revive, Act, TypeOK, dialVars
    <2>2. PausedByTheMenu'
      BY <1>t, <1>6 DEF Revive, PausedByTheMenu
    <2>3. RefusalInv'
      BY <1>t, <1>6 DEF Revive, Act, RefusalInv, dialVars
    <2>. QED
      BY <2>1, <2>2, <2>3 DEF LinkInv
  <1>7. CASE ConnectNowhere
    <2>1. TypeOK'
      BY <1>t, <1>e, <1>0, <1>7 DEF ConnectNowhere, Act, Enter, TypeOK, Lives
    <2>2. PausedByTheMenu'
      BY <1>t, <1>n, <1>7 DEF ConnectNowhere, Enter, PausedByTheMenu
    <2>3. RefusalInv'
      BY <1>t, <1>n, <1>7 DEF ConnectNowhere, Act, Enter, RefusalInv
    <2>. QED
      BY <2>1, <2>2, <2>3 DEF LinkInv
  <1>. QED
    BY <1>1, <1>2, <1>3, <1>4, <1>5, <1>6, <1>7 DEF UserActs

\* So does a frame of the client, in each of its stages.
LEMMA FrameKeepsInv == ASSUME LinkInv, Frame PROVE LinkInv'
  <1>t. TypeOK /\ PausedByTheMenu /\ RefusalInv
    BY DEF LinkInv
  <1>n. Nil \notin {"remote", "embedded", "failed", "inventory", "chat", "menu", "refused",
                    "unreadable"}
    BY NilIsApart
  <1>1. CASE NoEvent
    <2>1. TypeOK'
      BY <1>t, <1>1 DEF NoEvent, TypeOK, uiVars, dialVars
    <2>2. PausedByTheMenu' /\ RefusalInv'
      BY <1>t, <1>1 DEF NoEvent, PausedByTheMenu, RefusalInv, uiVars, dialVars
    <2>. QED
      BY <2>1, <2>2 DEF LinkInv
  <1>2. ASSUME NEW slow \in BOOLEAN, Drain(slow) PROVE LinkInv'
    <2>1. /\ pc = "drain" /\ pc' = "supervise" /\ faults' \in 0..MaxFaults
          /\ flow' = flow /\ attempt' = attempt /\ retry' = retry /\ dial' = dial
          /\ up' = up /\ paused' = paused /\ events' = events
      BY <1>t, <1>2, LinkAssumption DEF Drain, TypeOK
    <2>2. CASE session = Nil
      <3>1. /\ session' = session /\ conn' = conn /\ target' = target /\ lastError' = lastError
            /\ phase' = phase /\ life' = life /\ asked' = asked /\ panel' = panel
        BY <1>2, <2>2 DEF Drain
      <3>2. TypeOK'
        BY <1>t, <2>1, <3>1 DEF TypeOK
      <3>3. PausedByTheMenu' /\ RefusalInv'
        BY <1>t, <2>1, <2>2, <3>1 DEF PausedByTheMenu, RefusalInv
      <3>. QED
        BY <3>2, <3>3 DEF LinkInv
    <2>3. CASE session # Nil
      <3>1. DrainSession(slow)
        BY <1>2, <2>3 DEF Drain
      <3>2. /\ session' \in Sessions /\ conn' \in Conns /\ target' \in BOOLEAN
            /\ lastError' \in {Nil, "refused", "unreadable"} \cup Texts
            /\ phase' \in {"connecting", "playing"} /\ life' \in Lives
            /\ asked' \in BOOLEAN
            /\ \/ panel' = panel
               \/ panel' = Nil /\ panel \in {"inventory", "chat"}
            /\ flow = "remote" /\ ~target' => lastError' = "refused" /\ conn'.closed # Nil
        BY <2>1, <2>3, <3>1, DrainKeeps
      <3>3. session' # Nil /\ conn' # Nil
        BY <3>2, NilIsApart
      <3>4. TypeOK'
        BY <1>t, <2>1, <3>2, <3>3 DEF TypeOK
      <3>5. PausedByTheMenu'
        BY <1>t, <1>n, <2>1, <3>2 DEF PausedByTheMenu
      <3>6. dial' = Nil
        BY <1>t, <2>1, <2>3 DEF RefusalInv
      <3>7. RefusalInv'
        BY <1>t, <2>1, <2>3, <3>2, <3>6 DEF RefusalInv
      <3>. QED
        BY <3>4, <3>5, <3>7 DEF LinkInv
    <2>. QED
      BY <2>2, <2>3
  <1>3. ASSUME NEW slow \in BOOLEAN, PollDial(slow) PROVE LinkInv'
    <2>1. /\ session = Nil /\ dial # Nil /\ dial \in Dials /\ faults' \in 0..MaxFaults
          /\ flow' = flow /\ phase' = phase /\ panel' = panel /\ life' = life /\ asked' = asked
          /\ target' = target /\ attempt' = attempt /\ retry' = retry
          /\ up' = up /\ paused' = paused /\ events' = events
      <3>1. faults' \in 0..MaxFaults
        <4>1. (slow => faults < MaxFaults) /\ faults' = IF slow THEN faults + 1 ELSE faults
          BY <1>3 DEF PollDial
        <4>2. faults \in 0..MaxFaults /\ MaxFaults \in Nat
          BY <1>t, LinkAssumption DEF TypeOK
        <4>. QED
          BY <4>1, <4>2
      <3>. QED
        BY <1>t, <1>3, <3>1 DEF PollDial, TypeOK, uiVars
    <2>2. ~(flow = "remote" /\ ~target) /\ flow \notin {Nil, "failed"} /\ retry > 1
      BY <1>t, <2>1 DEF RefusalInv
    <2>3. PausedByTheMenu'
      BY <1>t, <2>1 DEF PausedByTheMenu
    <2>4. CASE dial.found = "conn"
      <3>1. /\ dial' = Nil /\ session' = [player |-> FALSE, waited |-> 0] /\ conn' = NewConn
            /\ pc' = "retry" /\ lastError' = lastError
        BY <1>3, <2>4 DEF PollDial
      <3>2. session' \in Sessions /\ session' # Nil
        <4>1. session' \in Sessions
          BY <3>1, LinkAssumption DEF Sessions
        <4>. QED
          BY <4>1, NilIsApart
      <3>3. conn' \in Conns /\ conn' # Nil
        <4> DEFINE wire == <<Say("challenge")>>
        <4>1. Say("challenge") \in Messages
          BY DEF Messages
        <4>2. <<>> \in Seq(Messages) /\ wire \in Seq(Messages)
          BY <4>1
        <4>3. conn' = [far |-> "challenged", wire |-> wire, rx |-> <<>>, hello |-> FALSE,
                       gone |-> FALSE, closed |-> Nil]
          BY <3>1 DEF NewConn
        <4> HIDE DEF wire
        <4>4. conn' \in Conns
          BY <4>2, <4>3 DEF Conns
        <4>. QED
          BY <4>4, NilIsApart
      <3>4. TypeOK'
        BY <1>t, <2>1, <3>1, <3>2, <3>3 DEF TypeOK
      <3>5. RefusalInv'
        BY <2>1, <2>2, <3>1 DEF RefusalInv
      <3>. QED
        BY <2>3, <3>4, <3>5 DEF LinkInv
    <2>5. CASE dial.found # "conn"
      <3>1. /\ session' = session /\ conn' = conn
            /\ pc' = "ui" \/ (pc' = "retry" /\ dial' = Nil)
            /\ lastError' \in {lastError, "closed", "timed out"}
        BY <1>3, <2>5 DEF PollDial
      <3>e. lastError' \in {Nil, "refused", "unreadable"} \cup Texts
        BY <1>t, <3>1 DEF TypeOK, Texts
      <3>2. dial' \in Dials \cup {Nil}
        <4>1. \/ dial' = Nil
              \/ dial' = dial
              \/ dial.frames # DialFrames /\ dial' = [dial EXCEPT !.frames = dial.frames + 1]
          BY <1>3, <2>1, <2>5 DEF PollDial, Dials
        <4>2. dial.frames # DialFrames => dial.frames + 1 \in 0..DialFrames
          BY <2>1, LinkAssumption DEF Dials
        <4>. QED
          BY <2>1, <4>1, <4>2 DEF Dials
      <3>3. TypeOK'
        <4>1. pc' \in {"ui", "drain", "supervise", "retry"}
          BY <3>1
        <4>. QED
          BY <1>t, <2>1, <3>1, <3>2, <3>e, <4>1 DEF TypeOK
      <3>4. RefusalInv'
        BY <2>1, <2>2, <3>1 DEF RefusalInv
      <3>. QED
        BY <2>3, <3>3, <3>4 DEF LinkInv
    <2>. QED
      BY <2>4, <2>5
  <1>4. CASE Lose
    <2>1. /\ pc = "supervise" /\ pc' = "ui" /\ up' = up /\ faults' = faults /\ events' = events
          /\ session # Nil /\ conn.closed # Nil /\ conn \in Conns
          /\ session' = Nil /\ conn' = Nil /\ life' = "entering" /\ asked' = FALSE
          /\ panel' = IF panel \in {"inventory", "chat"} THEN Nil ELSE panel
          /\ retry' = Delay(attempt)
          /\ lastError' = IF target \/ lastError = Nil THEN conn.closed.text ELSE lastError
          /\ flow' = flow /\ phase' = phase /\ target' = target /\ attempt' = attempt
          /\ dial' = dial /\ paused' = paused
      BY <1>t, <1>4 DEF Lose, EndFrame, PanelAfterLoss, ErrorAfterLoss, TypeOK
    <2>2. conn.closed.text \in Texts
      BY <2>1 DEF Conns, Reasons
    <2>3. retry' \in 0..RetryMax
      BY <1>t, <2>1, DelayIsBounded, LinkAssumption DEF TypeOK
    <2>4. TypeOK'
      BY <1>t, <2>1, <2>2, <2>3 DEF TypeOK, Lives
    <2>5. PausedByTheMenu'
      BY <1>t, <1>n, <2>1 DEF PausedByTheMenu
    <2>6. RefusalInv'
      BY <1>t, <1>n, <2>1 DEF RefusalInv
    <2>. QED
      BY <2>4, <2>5, <2>6 DEF LinkInv
  <1>5. CASE Hold
    <2>1. /\ pc = "supervise" /\ pc' = "ui" /\ up' = up /\ faults' = faults /\ events' = events
          /\ session # Nil /\ conn.closed = Nil
          /\ attempt' \in {0, attempt} /\ lastError' \in {Nil, lastError}
          /\ flow' = flow /\ phase' = phase /\ panel' = panel /\ life' = life /\ asked' = asked
          /\ target' = target /\ retry' = retry /\ dial' = dial /\ session' = session
          /\ conn' = conn /\ paused' = paused
      BY <1>5 DEF Hold, EndFrame, uiVars
    <2>2. TypeOK'
      BY <1>t, <2>1, LinkAssumption DEF TypeOK
    <2>3. PausedByTheMenu' /\ RefusalInv'
      BY <1>t, <2>1 DEF PausedByTheMenu, RefusalInv
    <2>. QED
      BY <2>2, <2>3 DEF LinkInv
  <1>6. CASE Retry
    <2>1. /\ pc = "retry" \/ (pc = "supervise" /\ session = Nil)
          /\ pc' = "ui" /\ up' = up /\ faults' = faults /\ events' = events
          /\ dial = Nil
          /\ flow' = flow /\ phase' = phase /\ panel' = panel /\ life' = life /\ asked' = asked
          /\ target' = target /\ lastError' = lastError /\ session' = session
          /\ conn' = conn /\ paused' = paused
      BY <1>t, <1>6 DEF Retry, EndFrame, RefusalInv, uiVars
    <2>2. /\ ~target \/ session # Nil => dial' = Nil
          /\ dial' # Nil => retry' > 1
          /\ attempt' \in 0..MaxAttempt /\ retry' \in 0..RetryMax /\ dial' \in Dials \cup {Nil}
      <3>1. CASE ~target
        BY <1>t, <1>6, <2>1, <3>1 DEF Retry, TypeOK
      <3>2. CASE target /\ retry > 1
        <4>1. retry' = retry - 1 /\ attempt' = attempt /\ dial' = dial
          BY <1>6, <3>2 DEF Retry
        <4>. QED
          BY <1>t, <2>1, <3>2, <4>1, LinkAssumption DEF TypeOK
      <3>3. CASE target /\ ~(retry > 1)
        <4>1. Redial
          BY <1>6, <3>3 DEF Retry
        <4>2. attempt' \in 0..MaxAttempt
          BY <1>t, <4>1, AttemptsAreBounded DEF Redial, TypeOK
        <4>3. retry' \in 0..RetryMax /\ retry' > 1
          BY <4>1, <4>2, DelayIsBounded, LinkAssumption DEF Redial
        <4>4. dial' \in Dials
          BY <4>1, LinkAssumption DEF Redial, Dials
        <4>5. session = Nil
          BY <1>t, <2>1, <3>3 DEF RefusalInv
        <4>. QED
          BY <3>3, <4>2, <4>3, <4>4, <4>5
      <3>. QED
        BY <3>1, <3>2, <3>3
    <2>3. TypeOK'
      BY <1>t, <2>1, <2>2 DEF TypeOK
    <2>4. PausedByTheMenu'
      BY <1>t, <2>1 DEF PausedByTheMenu
    <2>5. RefusalInv'
      BY <1>t, <2>1, <2>2 DEF RefusalInv
    <2>. QED
      BY <2>3, <2>4, <2>5 DEF LinkInv
  <1>. QED
    BY <1>1, <1>2, <1>3, <1>4, <1>5, <1>6 DEF Frame

\* The invariant holds in every state.
LEMMA LinkInvHolds == Spec => []LinkInv
  <1>1. Init => LinkInv
    <2> SUFFICES ASSUME Init PROVE LinkInv
      OBVIOUS
    <2>1. TypeOK
      <3>1. /\ 0 \in 0..MaxAttempt /\ 0 \in 0..RetryMax /\ 0 \in 0..MaxFaults
            /\ 0 \in 0..MaxEvents
        BY LinkAssumption
      <3>2. {up, paused} \subseteq BOOLEAN
        BY DEF Init
      <3>. QED
        BY <3>1, <3>2 DEF Init, TypeOK, Lives
    <2>2. PausedByTheMenu /\ RefusalInv
      BY NilIsApart DEF Init, PausedByTheMenu, RefusalInv
    <2>. QED
      BY <2>1, <2>2 DEF LinkInv
  <1>2. LinkInv /\ [Next]_vars => LinkInv'
    <2> SUFFICES ASSUME LinkInv, [Next]_vars PROVE LinkInv'
      OBVIOUS
    <2>1. CASE UserActs
      BY <2>1, UserKeepsInv
    <2>2. CASE Frame
      BY <2>2, FrameKeepsInv
    <2>3. CASE Deliver \/ StreamEnds \/ WatchClosed \/ LoseWire
      BY <2>3, TransportKeepsInv
    <2>4. CASE Welcome \/ (\E l \in Lives : Tick(l)) \/ Reject \/ Mismatch \/ Drop
      BY <2>4, ServerKeepsInv
    <2>5. CASE DialEnds
      <3>1. /\ dial # Nil /\ dial \in Dials
            /\ dial' = [dial EXCEPT !.found = IF up THEN "conn" ELSE "error"]
            /\ pc' = pc /\ flow' = flow /\ phase' = phase /\ panel' = panel /\ life' = life
            /\ asked' = asked /\ target' = target /\ attempt' = attempt /\ retry' = retry
            /\ lastError' = lastError /\ session' = session /\ conn' = conn /\ up' = up
            /\ paused' = paused /\ faults' = faults /\ events' = events
        BY <2>5 DEF DialEnds, uiVars, LinkInv, TypeOK
      <3>2. dial' \in Dials
        BY <3>1 DEF Dials
      <3>3. TypeOK'
        BY <3>1, <3>2 DEF LinkInv, TypeOK
      <3>4. PausedByTheMenu'
        BY <3>1 DEF LinkInv, PausedByTheMenu
      <3>5. RefusalInv'
        BY <3>1 DEF LinkInv, RefusalInv
      <3>. QED
        BY <3>3, <3>4, <3>5 DEF LinkInv
    <2>6. CASE ServerDies
      <3>1. /\ conn' = IF conn = Nil THEN Nil ELSE Hangup(conn)
            /\ up' = FALSE /\ faults' \in 0..MaxFaults
            /\ UNCHANGED <<pc, uiVars, dialVars, session, paused, events>>
        BY <2>6, FaultCounts DEF ServerDies
      <3>2. CASE conn = Nil
        <4>1. conn' = conn
          BY <3>1, <3>2
        <4>2. TypeOK'
          <5>1. /\ flow' = flow /\ phase' = phase /\ panel' = panel /\ life' = life
                /\ asked' = asked /\ target' = target /\ attempt' = attempt
                /\ retry' = retry /\ lastError' = lastError /\ dial' = dial
                /\ pc' = pc /\ session' = session /\ paused' = paused /\ events' = events
            BY <3>1 DEF uiVars, dialVars
          <5>2. TypeOK
            BY DEF LinkInv
          <5>3. {up', paused'} \subseteq BOOLEAN
            BY <3>1, <5>1, <5>2 DEF TypeOK
          <5>4. faults' \in 0..MaxFaults
            BY <3>1
          <5>. QED
            BY <4>1, <5>1, <5>2, <5>3, <5>4 DEF TypeOK
        <4>3. PausedByTheMenu'
          BY <3>1, <4>1 DEF LinkInv, PausedByTheMenu, uiVars, dialVars
        <4>4. RefusalInv'
          BY <3>1, <4>1 DEF LinkInv, RefusalInv, uiVars, dialVars
        <4>. QED
          BY <4>2, <4>3, <4>4 DEF LinkInv
      <3>3. CASE conn # Nil
        <4>1. conn' \in Conns /\ (conn.closed # Nil => conn'.closed # Nil)
          BY <3>1, <3>3, HangupType DEF LinkInv, TypeOK
        <4>. QED
          BY <3>1, <3>3, <4>1, ConnKeepsInv
      <3>. QED
        BY <3>2, <3>3
    <2>7. CASE ServerStarts
      BY <2>7
      DEF ServerStarts, LinkInv, TypeOK, PausedByTheMenu, RefusalInv, uiVars, dialVars
    <2>8. CASE UNCHANGED vars
      BY <2>8
      DEF vars, LinkInv, TypeOK, PausedByTheMenu, RefusalInv, uiVars, dialVars
    <2>. QED
      BY <2>1, <2>2, <2>3, <2>4, <2>5, <2>6, <2>7, <2>8 DEF Next, Transport, Greets
  <1>. QED
    BY <1>1, <1>2, PTL DEF Spec
-----------------------------------------------------------------------------
(* The theorems.                                                           *)

\* Once a client has read the server's refusal it stays down, with that
\* error, until the user leaves or connects again.
THEOREM RefusalsAreFinal == Spec => []RefusalIsFinal
  <1>1. LinkInv => RefusalIsFinal
    <2>1. LinkInv /\ flow = "remote" /\ ~target /\ pc = "ui" => ~Ready
      BY DEF LinkInv, RefusalInv, Ready
    <2>2. ~Ready => Shown # "online"
      BY DEF Shown
    <2>. QED
      BY <2>1, <2>2 DEF LinkInv, RefusalInv, RefusalIsFinal
  <1>. QED
    BY <1>1, LinkInvHolds, PTL

\* An embedded server is paused exactly while the game menu is open.
THEOREM PausesAreTheMenus == Spec => []PausedByTheMenu
  <1>1. LinkInv => PausedByTheMenu
    BY DEF LinkInv
  <1>. QED
    BY <1>1, LinkInvHolds, PTL
=============================================================================
