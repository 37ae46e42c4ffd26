------------------------------- MODULE Rounds --------------------------------
(***************************************************************************)
(* How bodies move.  In a tick every body turns its motion into whole      *)
(* quanta, one cell or one step of an angle, and all bodies spend them in  *)
(* rounds: each proposes its next quantum, the proposals that run into     *)
(* something are refused, and the others commit (fallingsand_sim           *)
(* body/rounds.rs).                                                        *)
(*                                                                         *)
(* The fixed-point numbers are small integers here.  A pose is the list of *)
(* the offsets of a body's cells, one per slot, around its centre of mass. *)
(* The solver of contacts is left to chance: a refused quantum keeps,      *)
(* loses, hands over or, where something bounces, reverses its speed.      *)
(***************************************************************************)
EXTENDS Integers, Sequences, FiniteSets, SequencesExt, FiniteSetsExt, TLC

CONSTANTS
  Scenes,      \* set of [ground, frozen, bodies], see SceneAssumption
  Threshold,   \* units of motion in a quantum
  MaxSpeed,    \* most units an accumulator holds
  StepCells,   \* highest step that an assisted body climbs
  Gravity,     \* units of speed a body may gain downwards in a tick
  MaxTicks     \* bound on the ticks

Freedoms == {"y", "x", "turn"}
Rank == [y |-> 1, x |-> 2, turn |-> 3]
Still == [y |-> 0, x |-> 0, turn |-> 0]

\* Phases of the materials: gas and liquid yield, powder yields to who carries it.
Density == [air |-> 0, water |-> 1, sand |-> 2]
Free == {"air", "water", "sand"}
Ground == Free \cup {"stone"}

VARIABLES
  scene,   \* the scene that is played
  order,   \* the bodies in the order of the array that holds them
  pc,      \* "rest" between ticks, "rounds" within
  ready,   \* whether the chunks of the frozen cells are simulated
  cells,   \* [what, id]: a material of its own, or a slot of body id
  bodies,  \* [at, step, vel, acc, carried, parked]
  movers,  \* what each freedom met in this tick, or in the one before at rest
  ticks

vars == <<scene, order, pc, ready, cells, bodies, movers, ticks>>

Bodies == DOMAIN scene.bodies
Kind(b) == scene.bodies[b]
Cells == DOMAIN scene.ground

Shift(p, o) == <<p[1] + o[1], p[2] + o[2]>>
Difference(p, q) == <<p[1] - q[1], p[2] - q[2]>>
Dot(u, v) == u[1] * v[1] + u[2] * v[2]
Abs(n) == IF n < 0 THEN -n ELSE n
Sign(n) == CASE n > 0 -> 1 [] n < 0 -> -1 [] OTHER -> 0
Clamp(n, bound) == Sign(n) * Min({Abs(n), bound})
\* Rust divides towards zero, and its remainder has the sign of the dividend.
Quotient(n, d) == Sign(n) * (Abs(n) \div d)
Remainder(n, d) == n - d * Quotient(n, d)
RoundDiv(n, d) == Sign(n) * ((2 * Abs(n) + d) \div (2 * d))

\* The mean of a pose's cells, in the units of motion.
Mean(kind, step) ==
  LET pose == kind.poses[step]
      along(k) == MapThenSumSet(LAMBDA i : pose[i][k], DOMAIN pose)
  IN  <<RoundDiv(Threshold * along(1), Len(pose)), RoundDiv(Threshold * along(2), Len(pose))>>

Pose(kind, at, step) == [i \in DOMAIN kind.poses[step] |-> Shift(at, kind.poses[step][i])]
Covered(raster) == {raster[i] : i \in DOMAIN raster}
Raster(b) == Pose(Kind(b), bodies[b].at, bodies[b].step)
Mass(b) == Len(Raster(b))

\* x itself; the checker evaluates it here and once.
Eager(x) == CHOOSE y \in {x} : TRUE

\* Bodies stand apart, every pose has one cell per slot, and none repeats a cell.
SceneAssumption ==
  \A s \in Scenes :
    /\ \A p \in DOMAIN s.ground : s.ground[p] \in Ground
    /\ s.frozen \subseteq DOMAIN s.ground
    /\ \A b \in DOMAIN s.bodies :
         LET k == s.bodies[b]
             S == Covered(Pose(k, k.at, 1))
         IN  /\ \A n \in DOMAIN k.poses : /\ IsInjective(k.poses[n])
                                          /\ Len(k.poses[n]) = Len(k.poses[1])
             /\ \A p \in S : p \in DOMAIN s.ground /\ s.ground[p] # "stone"
             /\ \A c \in DOMAIN s.bodies \ {b} :
                  S \cap Covered(Pose(s.bodies[c], s.bodies[c].at, 1)) = {}
ASSUME SceneAssumption
ASSUME BoundAssumption == {Threshold, MaxSpeed, StepCells} \subseteq Nat \ {0}

Readiness == IF scene.frozen = {} THEN {TRUE} ELSE BOOLEAN
Simulated(p) == ready \/ p \notin scene.frozen

\* What the cell p holds for the bodies: its owner, or 0.
Owner(ground, p) == ground[p].id
Passenger(ground, b, p) ==
  LET below == Shift(p, <<0, -1>>) IN below \in Cells /\ Owner(ground, below) = b
Admits(ground, b, p) ==
  /\ p \in Cells
  /\ IF Owner(ground, p) # 0 THEN Owner(ground, p) = b
     ELSE \/ ground[p].what \in {"air", "water"}
          \/ ground[p].what = "sand" /\ Passenger(ground, b, p)

BodyGrounded(b) ==
  \E i \in DOMAIN Raster(b) :
    LET below == Shift(Raster(b)[i], <<0, -1>>)
    IN  below \in Cells /\ Owner(cells, below) = 0 /\ cells[below].what \in {"stone", "sand"}

PointVelocity(b, p) ==
  LET d == Difference(p, bodies[b].at)
      r == Difference(<<Threshold * d[1], Threshold * d[2]>>, Mean(Kind(b), bodies[b].step))
      v == bodies[b].vel
  IN  <<v.x - RoundDiv(v.turn * r[2], Threshold), v.y + RoundDiv(v.turn * r[1], Threshold)>>
-----------------------------------------------------------------------------
(* Proposals.                                                              *)

Holds(b, f) == f # "turn" \/ (Kind(b).turns /\ Mass(b) > 1)
Pending(b, f) == Abs(bodies[b].acc[f]) \div Threshold

Budget(b) == {f \in Freedoms : Holds(b, f) /\ ~movers[b][f].parked /\ Pending(b, f) > 0}
\* Most quanta first; y before x before turn among equals.
Best(b) ==
  CHOOSE f \in Budget(b) : \A g \in Budget(b) :
    \/ Pending(b, f) > Pending(b, g)
    \/ Pending(b, f) = Pending(b, g) /\ Rank[f] <= Rank[g]
Probes(b) ==
  {f \in Freedoms : /\ Holds(b, f) /\ ~movers[b][f].parked /\ ~movers[b][f].probed
                    /\ bodies[b].vel[f] # 0}

Movers == {b \in Bodies : ~bodies[b].parked /\ Budget(b) # {}}
Probers == {b \in Bodies \ Movers : ~bodies[b].parked /\ Probes(b) # {}}

\* The cells between two places, with the one each is entered from.
WalkLine(from, to) ==
  LET d == Difference(to, from)
      walk[n \in 0..(Abs(d[1]) + Abs(d[2]))] ==
        IF n = 0 THEN [at |-> from, err |-> Abs(d[1]) - Abs(d[2])]
        ELSE LET w == walk[n - 1]
             IN  IF w.at[1] # to[1] /\ (2 * w.err > -Abs(d[2]) \/ w.at[2] = to[2])
                 THEN [at |-> Shift(w.at, <<Sign(d[1]), 0>>), err |-> w.err - Abs(d[2])]
                 ELSE [at |-> Shift(w.at, <<0, Sign(d[2])>>), err |-> w.err + Abs(d[1])]
  IN  [n \in 1..(Abs(d[1]) + Abs(d[2])) |-> <<walk[n].at, walk[n - 1].at>>]

\* Up first, then across.
WalkStep(from, sign, rise) ==
  [n \in 1..(rise + 1) |->
     LET up == Shift(from, <<0, n - 1>>)
     IN  IF n <= rise THEN <<Shift(up, <<0, 1>>), up>> ELSE <<Shift(up, <<sign, 0>>), up>>]

\* What the walks of the slots enter that is not the body's own, each cell
\* with the side from which it is entered first.
Entered(b, walks) ==
  FoldLeft(LAMBDA acc, pair :
             IF pair[1] \in DOMAIN acc \/ (pair[1] \in Cells /\ Owner(cells, pair[1]) = b)
             THEN acc ELSE acc @@ (pair[1] :> pair[2]),
           <<>>, walks)

Propose(b, f, sign, at, step, walks) ==
  [freedom |-> f, sign |-> sign, at |-> at, step |-> step,
   raster |-> Pose(Kind(b), at, step), entered |-> Entered(b, walks),
   status |-> "open", deps |-> {}, contacts |-> {}]

BuildProposal(b, f, sign) ==
  LET body == bodies[b]
      step == IF f = "turn" THEN 1 + ((body.step - 1 + sign) % Len(Kind(b).poses)) ELSE body.step
      at == CASE f = "x" -> Shift(body.at, <<sign, 0>>)
              [] f = "y" -> Shift(body.at, <<0, sign>>)
              [] OTHER -> body.at
      to == Pose(Kind(b), at, step)
      walks == IF f = "turn"
               THEN FlattenSeq([i \in DOMAIN to |-> WalkLine(Raster(b)[i], to[i])])
               ELSE [i \in DOMAIN to |-> <<to[i], Raster(b)[i]>>]
  IN  Propose(b, f, sign, at, step, walks)

BuildStepProposal(b, sign, rise) ==
  Propose(b, "x", sign, Shift(bodies[b].at, <<sign, rise>>), bodies[b].step,
          FlattenSeq([i \in DOMAIN Raster(b) |-> WalkStep(Raster(b)[i], sign, rise)]))

\* Mutation: a proposal waits for any peer that moves.
FollowsAnyone(b, p, probe, at) == ~probe /\ Owner(cells, at) \in Movers \ {b}

Crossing(b, c) ==
  bodies[b].vel.x * bodies[c].vel.x + bodies[b].vel.y * bodies[c].vel.y < 0

\* A proposal waits for a peer that moves too and not against it, and hits
\* everything else that does not yield.
Follows(b, p, probe, at) ==
  /\ ~probe
  /\ Owner(cells, at) \in Movers \ {b}
  /\ ~Crossing(b, Owner(cells, at))
Blocks(b, p, probe, at) ==
  /\ ~Admits(cells, b, at)
  /\ ~Follows(b, p, probe, at)

Classify(b, p, probe) ==
  LET reached == {at \in DOMAIN p.entered : at \in Cells /\ Simulated(at)}
      hits == {at \in reached : Blocks(b, p, probe, at)}
  IN  [p EXCEPT
         !.deps = {<<Owner(cells, at), at>> : at \in {q \in reached : Follows(b, p, probe, q)}},
         !.contacts = {<<Owner(cells, at), at>> : at \in hits},
         !.status = CASE reached # DOMAIN p.entered -> "canceled"
                      [] hits # {} -> "refused"
                      [] OTHER -> "open"]

AssistPathClear(b, p) ==
  \A at \in DOMAIN p.entered : at \in Cells /\ Simulated(at) /\ Admits(cells, b, at)

ApplyAssists(b, p) ==
  LET rises == {r \in 1..StepCells : AssistPathClear(b, BuildStepProposal(b, p.sign, r))}
  IN  IF p.freedom = "x" /\ p.status = "refused" /\ Kind(b).assists /\ BodyGrounded(b)
         /\ rises # {}
      THEN BuildStepProposal(b, p.sign, Min(rises))
      ELSE p

Refuse(p, hits) == [p EXCEPT !.status = "refused", !.contacts = @ \cup hits]

\* Of those that claim a cell the greatest closing momentum wins, then the least id.
ResolveTies(props) ==
  Eager(LET open == {b \in DOMAIN props : props[b].status = "open"}
      claimants(at) == {b \in open : at \in DOMAIN props[b].entered}
      momentum(b, at) ==
        Max({0, Dot(PointVelocity(b, at), Difference(at, props[b].entered[at]))}) * Mass(b)
      winner(at) ==
        CHOOSE b \in claimants(at) : \A c \in claimants(at) :
          \/ momentum(b, at) > momentum(c, at)
          \/ momentum(b, at) = momentum(c, at) /\ b <= c
      losses(b) == {at \in DOMAIN props[b].entered : winner(at) # b}
  IN  [b \in DOMAIN props |->
         IF b \in open /\ losses(b) # {}
         THEN Refuse(props[b], {<<winner(at), at>> : at \in losses(b)})
         ELSE props[b]])

\* One pass over the proposals, in the order of the bodies.
CascadeOnce(props, seq) ==
  FoldLeft(LAMBDA acc, b :
             LET blocked == {d \in acc[b].deps : acc[d[1]].status \in {"refused", "canceled"}}
             IN  IF acc[b].status = "open" /\ blocked # {}
                 THEN [acc EXCEPT ![b] = Refuse(@, blocked)] ELSE acc,
           props, seq)
Cascade(props, seq) ==
  LET after[n \in 0..Len(seq)] ==
        IF n = 0 THEN props ELSE Eager(CascadeOnce(after[n - 1], seq))
  IN  after[Len(seq)]
-----------------------------------------------------------------------------
(* Commits.  w is the grid and the proposals, while they are committed.    *)

OpenIn(w, b) == w.props[b].status = "open"
Leaves(w, b) == Covered(Raster(b))   \* a body that is open has not moved yet
Arrives(w, b) == Covered(w.props[b].raster)

\* Row by row, upwards.
Before(p, q) == p[2] < q[2] \/ (p[2] = q[2] /\ p[1] < q[1])
InOrder(S) ==
  [i \in 1..Cardinality(S) |->
     CHOOSE p \in S : Cardinality({q \in S : Before(q, p)}) = i - 1]

\* Mutation: what a body pushes away is gone.
Swallow(stuff) == [n \in DOMAIN stuff |-> [what |-> "air", id |-> 0]]

\* The densest first: it goes to the lowest of the cells.
Sink(stuff) ==
  SortSeq(stuff, LAMBDA a, b : Density[a.what] > Density[b.what])

CommitGroup(w, group) ==
  LET current == UNION {Leaves(w, b) : b \in group}
      next == UNION {Arrives(w, b) : b \in group}
      vacated == InOrder(current \ next)
      claimed == InOrder(next \ current)
      displaced == Sink([n \in DOMAIN claimed |-> w.cells[claimed[n]]])
      filled == [p \in Cells |->
                   IF p \in Covered(vacated)
                   THEN displaced[CHOOSE n \in DOMAIN vacated : vacated[n] = p] ELSE w.cells[p]]
      slots == UNION {{<<b, i>> : i \in DOMAIN Raster(b)} : b \in group}
      moved == [p \in Cells |->
                  IF p \in next
                  THEN LET s == CHOOSE s \in slots : w.props[s[1]].raster[s[2]] = p
                       IN  w.cells[Raster(s[1])[s[2]]]
                  ELSE filled[p]]
  IN  [cells |-> Eager(moved),
       props |-> Eager([b \in DOMAIN w.props |->
                          IF b \in group THEN [w.props[b] EXCEPT !.status = "committed"]
                          ELSE w.props[b]])]

Revalidate(w, b) == \A at \in DOMAIN w.props[b].entered : Admits(w.cells, b, at)

RefuseAfterCommit(w, b) ==
  LET p == w.props[b]
      hits == {at \in DOMAIN p.entered : at \in Cells /\ ~Admits(w.cells, b, at)}
  IN  [w EXCEPT !.props[b] = Refuse(p, {<<Owner(w.cells, at), at>> : at \in hits})]

\* Mutation: everybody goes in turn.
CommitInTurn(w, seq) ==
  FoldLeft(LAMBDA acc, b :
             IF ~OpenIn(acc, b) THEN acc
             ELSE IF Revalidate(acc, b) THEN CommitGroup(acc, {b})
             ELSE RefuseAfterCommit(acc, b),
           w, seq)

\* Those whose predecessors have moved go, in the order of the bodies.
CommitReady(w, seq) ==
  FoldLeft(LAMBDA acc, b :
             IF ~OpenIn(acc, b) \/ \E d \in acc.props[b].deps : acc.props[d[1]].status # "committed"
             THEN acc
             ELSE IF Revalidate(acc, b) THEN CommitGroup(acc, {b})
             ELSE RefuseAfterCommit(acc, b),
           w, seq)

JointValid(w, group) ==
  /\ \A b, c \in group : b # c => Arrives(w, b) \cap Arrives(w, c) = {}
  /\ \A b \in group : \A at \in DOMAIN w.props[b].entered :
       /\ at \in Cells
       /\ LET o == Owner(w.cells, at)
          IN  IF o = 0 THEN Admits(w.cells, b, at) ELSE o \in group /\ at \notin Arrives(w, o)

\* What b waits for, directly or not, among those that are left.
GroupOf(w, b, left) ==
  LET within[n \in 0..Cardinality(left)] ==
        IF n = 0 THEN {b}
        ELSE within[n - 1]
               \cup {d[1] : d \in {e \in UNION {w.props[c].deps : c \in within[n - 1]} :
                                     e[1] \in left}}
  IN  within[Cardinality(left)]

\* The rest waits in circles: each goes together or not at all.
CommitCircles(w, seq) ==
  FoldLeft(LAMBDA acc, b :
             IF b \notin acc.left THEN acc
             ELSE LET group == GroupOf(acc.w, b, acc.left)
                      members == SelectSeq(seq, LAMBDA c : c \in group)
                  IN  [left |-> acc.left \ group,
                       w |-> IF JointValid(acc.w, group) THEN CommitGroup(acc.w, group)
                             ELSE FoldLeft(RefuseAfterCommit, acc.w, members)],
           [left |-> {b \in DOMAIN w.props : OpenIn(w, b)}, w |-> w], seq).w

Commit(props, seq) ==
  LET after[n \in 0..Len(seq)] ==
        IF n = 0 THEN [cells |-> cells, props |-> props] ELSE Eager(CommitReady(after[n - 1], seq))
  IN  CommitCircles(after[Len(seq)], seq)

\* What a round does to the grid and to the proposals when the bodies are
\* stored in the order seq.
Proposals ==
  Eager([b \in Movers |->
           Classify(b, BuildProposal(b, Best(b), Sign(bodies[b].acc[Best(b)])), FALSE)])
ProbesOf ==
  {<<b, Classify(b, BuildProposal(b, f, Sign(bodies[b].vel[f])), TRUE)>> :
     <<b, f>> \in {q \in Probers \X Freedoms : q[2] \in Probes(q[1])}}
Unloaded ==
  {b \in Movers : Proposals[b].status = "canceled"}
    \cup {q[1] : q \in {r \in ProbesOf : r[2].status = "canceled"}}

Decide(seq) ==
  LET mine == SelectSeq(seq, LAMBDA b : b \in Movers)
      first == Proposals
      assisted == Eager([b \in Movers |-> ApplyAssists(b, first[b])])
  IN  Eager(Commit(Cascade(ResolveTies(assisted), mine), mine))
-----------------------------------------------------------------------------
(* The end of a round.                                                     *)

CornerEngaged(b, at, from) ==
  LET n == Difference(from, at)
      v == PointVelocity(b, at)
  IN  n[1] = 0 \/ n[2] = 0 \/ (v[1] * n[1] < 0 /\ v[2] * n[2] < 0)

Engaged(b, p) == {c \in p.contacts : CornerEngaged(b, c[2], p.entered[c[2]])}
Closes(b, p) ==
  \E c \in Engaged(b, p) :
    Dot(PointVelocity(b, c[2]), Difference(p.entered[c[2]], c[2])) < 0

\* Restitution: the bouncier of the two decides.
Bounces(b, p) ==
  \E c \in Engaged(b, p) : Kind(b).bouncy \/ (c[1] # 0 /\ Kind(c[1]).bouncy)

Energy(vel) ==
  MapThenSumSet(LAMBDA b : Mass(b) * MapThenSumSet(LAMBDA f : vel[b][f] * vel[b][f], Freedoms),
                Bodies)

\* What the solver may make of the speeds: a refused quantum keeps its speed,
\* loses it, hands it over to a body it hit or turns it around.
Outcomes(b, p, vel) ==
  LET f == p.freedom
  IN  {vel, [vel EXCEPT ![b][f] = 0]}
        \cup {[vel EXCEPT ![b][f] = vel[c[1]][f], ![c[1]][f] = vel[b][f]] :
                 c \in {d \in Engaged(b, p) : d[1] # 0 /\ Holds(d[1], f)}}
        \cup {[vel EXCEPT ![b][f] = -@] : q \in {r \in {p} : Bounces(b, r)}}

Resolved(refusals) ==
  LET start == [b \in Bodies |-> bodies[b].vel]
      after == FoldSet(LAMBDA r, found : UNION {Outcomes(r[1], r[2], vel) : vel \in found},
                       {start}, {r \in refusals : Engaged(r[1], r[2]) # {}})
  IN  {vel \in after : Energy(vel) <= Energy(start)}

\* The accumulator of a refused quantum: it rebounds with what is left of
\* the budget, or drops its whole quanta.
Rebound(b, p, speed) ==
  LET left == bodies[b].acc[p.freedom] - p.sign * Threshold
      approach == Max({Abs(bodies[b].vel[p.freedom]), 1})
  IN  IF ~Closes(b, p) THEN Remainder(bodies[b].acc[p.freedom], Threshold)
      ELSE IF Sign(speed) = p.sign THEN left
      ELSE Clamp(RoundDiv(-left * Abs(speed), approach), MaxSpeed)

\* A turn shifts the mean of the cells, and sets that much of x and y aside,
\* whether or not they may still move in this tick.
Drift(b, p) == Difference(Mean(Kind(b), p.step), Mean(Kind(b), bodies[b].step))

AccAfter(b, p, speed) ==
  LET acc == bodies[b].acc
      f == p.freedom
      drift == Drift(b, p)
  IN  CASE p.status = "canceled" -> [acc EXCEPT ![f] = Remainder(@, Threshold)]
        [] p.status = "refused" -> [acc EXCEPT ![f] = Rebound(b, p, speed)]
        [] f = "turn" -> [turn |-> acc.turn - p.sign * Threshold,
                          x |-> acc.x - drift[1], y |-> acc.y - drift[2]]
        [] OTHER -> [acc EXCEPT ![f] = @ - p.sign * Threshold]

RefusalsOf(w) ==
  {<<b, w.props[b]>> : b \in {c \in Movers : w.props[c].status = "refused"}}
    \cup {q \in ProbesOf : q[2].status = "refused"}

\* The best restitution among what refused a freedom in this tick, -1 for none.
Worse(held, bounced) == Max({held, IF bounced THEN 1 ELSE 0})

\* Mutation: a probe forgets that it has been sent.
FinishForgetful(w, b) ==
  [f \in Freedoms |->
     LET m == movers[b][f]
         mine == b \in Movers /\ w.props[b].freedom = f
         p == w.props[b]
         stopped == mine /\ p.status = "refused"
     IN  [parked |-> m.parked \/ b \in Unloaded \/ (stopped /\ ~Closes(b, p)),
          probed |-> FALSE,
          moved |-> m.moved \/ (mine /\ p.status = "committed"),
          refused |-> IF stopped THEN Worse(m.refused, Bounces(b, p)) ELSE m.refused]]

FinishMover(w, b) ==
  [f \in Freedoms |->
     LET m == movers[b][f]
         mine == b \in Movers /\ w.props[b].freedom = f
         p == w.props[b]
         probe == {q \in ProbesOf : q[1] = b /\ q[2].freedom = f}
         stopped == mine /\ p.status = "refused"
     IN  [parked |-> m.parked \/ b \in Unloaded \/ (stopped /\ ~Closes(b, p)),
          probed |-> m.probed \/ probe # {},
          moved |-> m.moved \/ (mine /\ p.status = "committed"),
          refused |-> CASE stopped -> Worse(m.refused, Bounces(b, p))
                        [] \E q \in probe : q[2].status = "refused" -> Worse(m.refused, FALSE)
                        [] OTHER -> m.refused]]

Fresh == [f \in Freedoms |->
            [parked |-> FALSE, probed |-> FALSE, moved |-> FALSE, refused |-> -1]]

Round ==
  /\ pc = "rounds"
  /\ Movers \cup Probers # {}
  /\ \E w \in {Decide(order)} : \E vel \in Resolved(RefusalsOf(w)) :
           /\ cells' = w.cells
           /\ bodies' = [b \in Bodies |->
                [bodies[b] EXCEPT
                   !.vel = vel[b],
                   !.parked = @ \/ b \in Unloaded,
                   !.at = IF b \in Movers /\ w.props[b].status = "committed"
                          THEN w.props[b].at ELSE @,
                   !.step = IF b \in Movers /\ w.props[b].status = "committed"
                            THEN w.props[b].step ELSE @,
                   !.acc = IF b \in Movers
                           THEN AccAfter(b, w.props[b], vel[b][w.props[b].freedom]) ELSE @]]
           /\ movers' = [b \in Bodies |-> FinishMover(w, b)]
  /\ UNCHANGED <<scene, order, pc, ready, ticks>>

\* A freedom that was refused and never moved keeps what its restitution
\* gives back of the speed it came with.
Spent(b, f) ==
  IF movers[b][f].refused = -1 \/ movers[b][f].moved THEN bodies[b].vel[f]
  ELSE Clamp(bodies[b].vel[f], movers[b][f].refused * Abs(bodies[b].carried[f]))

EndRounds ==
  /\ pc = "rounds"
  /\ Movers \cup Probers = {}
  /\ bodies' = [b \in Bodies |->
                  [bodies[b] EXCEPT !.vel = [f \in Freedoms |-> Spent(b, f)]]]
  /\ pc' = "rest"
  /\ UNCHANGED <<scene, order, ready, cells, movers, ticks>>

\* Motion that is too slow drains, the rest adds up.
Accumulate(acc, v) == IF v = 0 THEN Quotient(acc, 2) ELSE Clamp(acc + v, MaxSpeed)

\* Body.parked is dropped once nothing around the raster is frozen.
Blocked(b) ==
  \E p \in Covered(Raster(b)), dx, dy \in {-1, 0, 1} :
    Shift(p, <<dx, dy>>) \notin Cells \/ ~Simulated(Shift(p, <<dx, dy>>))'

Integrate ==
  /\ pc = "rest"
  /\ ticks < MaxTicks
  /\ ticks' = ticks + 1
  /\ ready' \in Readiness
  /\ UNCHANGED scene
  /\ \E falls \in {{}, Bodies} :
       bodies' = [b \in Bodies |->
         LET body == bodies[b]
             parked == body.parked /\ Blocked(b)
             vel == IF ~parked /\ b \in falls THEN [body.vel EXCEPT !.y = @ - Gravity]
                    ELSE body.vel
         IN  [body EXCEPT
                !.parked = parked,
                !.carried = body.vel,
                !.vel = vel,
                !.acc = IF parked THEN @ ELSE [f \in Freedoms |-> Accumulate(@[f], vel[f])]]]
  /\ movers' = [b \in Bodies |-> Fresh]
  /\ pc' = "rounds"
  /\ UNCHANGED <<order, cells>>

Orders(S) == {seq \in [1..Cardinality(S) -> S] : IsInjective(seq)}

Init ==
  /\ scene \in Scenes
  /\ order \in Orders(Bodies)
  /\ pc = "rest"
  /\ ready \in Readiness
  /\ bodies = [b \in Bodies |->
                 [at |-> Kind(b).at, step |-> 1, vel |-> Kind(b).vel, acc |-> Still,
                  carried |-> Still, parked |-> FALSE]]
  /\ cells = [p \in Cells |->
                LET over == {b \in Bodies : p \in Covered(Pose(Kind(b), Kind(b).at, 1))}
                IN  IF over = {} THEN [what |-> scene.ground[p], id |-> 0]
                    ELSE [what |-> "flesh", id |-> CHOOSE b \in over : TRUE]]
  /\ movers = [b \in Bodies |-> Fresh]
  /\ ticks = 0

Done == pc = "rest" /\ ticks = MaxTicks /\ UNCHANGED vars

Next == Integrate \/ Round \/ EndRounds \/ Done
Spec == Init /\ [][Next]_vars
\* The rounds of a tick run in one call, to their end.  This is WF_vars(Next):
\* Next can take a step in every state but the last of a behaviour.
FairSpec == Spec /\ ([]<><<TRUE>>_vars \/ []<>(pc = "rest" /\ ticks = MaxTicks))
-----------------------------------------------------------------------------
(* What must hold.                                                         *)

\* How far the means of two poses of a body are apart.
Sway(b) ==
  LET steps == DOMAIN Kind(b).poses
      mean == [n \in steps |-> Mean(Kind(b), n)]
  IN  Max({Abs(mean[m][k] - mean[n][k]) : m, n \in steps, k \in {1, 2}})

\* The state has its types, and no accumulator holds more than its bound and
\* what turns have set aside.
TypeOK ==
  /\ scene \in Scenes
  /\ order \in Orders(Bodies)
  /\ pc \in {"rest", "rounds"}
  /\ ready \in BOOLEAN
  /\ cells \in [Cells -> [what : Ground \cup {"flesh"}, id : Bodies \cup {0}]]
  /\ \A b \in Bodies :
       /\ bodies[b].step \in DOMAIN Kind(b).poses
       /\ bodies[b].parked \in BOOLEAN
       /\ \A f \in Freedoms :
            /\ {bodies[b].vel[f], bodies[b].carried[f]} \subseteq Int
            /\ Abs(bodies[b].acc[f]) <= MaxSpeed + (IF f = "turn" THEN 0 ELSE Sway(b))
  /\ \A b \in Bodies : movers[b] \in
       [Freedoms -> [parked : BOOLEAN, probed : BOOLEAN, moved : BOOLEAN, refused : {-1, 0, 1}]]
  /\ ticks \in 0..MaxTicks

\* Whatever moved together, every cell of a body's pose carries its stamp, and
\* no stamp is left where its body is not (commit_group, apply_commit).
BodiesStayWhole ==
  /\ \A b \in Bodies : \A p \in Covered(Raster(b)) :
       p \in Cells /\ cells[p] = [what |-> "flesh", id |-> b]
  /\ \A p \in Cells : cells[p].id # 0 => p \in Covered(Raster(cells[p].id))

\* Bodies push gas, liquid and passengers into the cells they leave: of each
\* material there is as much as there was (docs/Physics.md, Conservation).
NothingIsLost ==
  \A m \in Ground :
    Cardinality({p \in Cells : cells[p] = [what |-> m, id |-> 0]})
      = Cardinality({p \in Cells : /\ scene.ground[p] = m
                                   /\ \A b \in Bodies : p \notin Covered(Pose(Kind(b), Kind(b).at, 1))})

\* Every value has its type, and steps of bodies neither tear them nor swallow
\* what they displace.
MatterIsKept == TypeOK /\ BodiesStayWhole /\ NothingIsLost

\* Nobody enters what another leaves when the two move against each other
\* (anti-crossing, docs/Physics.md:48), and nobody who is parked moves or
\* enters a frozen chunk.
LawfulSteps ==
  [][\A b, c \in Bodies :
       LET entered == Covered(Raster(b))' \ Covered(Raster(b))
       IN  /\ b # c /\ entered \cap Covered(Raster(c)) # {} => ~Crossing(b, c)
           /\ entered # {} => ~bodies[b].parked /\ \A p \in entered : Simulated(p)]_vars

\* Every order of the array comes to the same round.
SameRound(seq) ==
  LET mine == Decide(order)
      other == Decide(seq)
  IN  /\ other.cells = mine.cells
      /\ \A b \in Movers : other.props[b].status = mine.props[b].status

\* Movers that wait for one another in a circle, once ties are resolved.
Waiting(props) ==
  {b \in DOMAIN props :
     \E d \in props[b].deps : b \in GroupOf([props |-> props], d[1], DOMAIN props)}

\* Whatever order the bodies are stored in, a round in which nobody waits in
\* a circle comes out the same (docs/Physics.md, Simultaneity).
OrderIsImmaterialInLines ==
  pc = "rounds" /\ Waiting(Proposals) = {} => \A seq \in Orders(Bodies) : SameRound(seq)

\* A tick leaves no whole quantum behind for the next, unless the body is
\* parked at a chunk that is not simulated, or it turned while something held
\* it: then what the turns set aside may be left, and no more (finish_round,
\* apply_commit).
BudgetsAreSpent ==
  \A b \in Bodies : ~bodies[b].parked => \A f \in Freedoms : Holds(b, f) =>
    \/ Pending(b, f) = 0
    \/ /\ f # "turn" /\ movers[b][f].parked /\ movers[b].turn.moved
       /\ Abs(bodies[b].acc[f]) < Threshold + Sway(b)

\* The rounds of a tick come to an end, and with every budget spent (run_rounds).
RoundsEnd == pc = "rounds" ~> (pc = "rest" /\ BudgetsAreSpent)
=============================================================================
