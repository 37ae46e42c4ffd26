------------------------------ MODULE MCRounds -------------------------------
(***************************************************************************)
(* Small scenes for Rounds.                                                *)
(***************************************************************************)
EXTENDS Rounds

Plane(width, height, stone, sand, water) ==
  [p \in (0..(width - 1)) \X (0..(height - 1)) |->
     CASE p \in stone -> "stone" [] p \in sand -> "sand" [] p \in water -> "water"
       [] OTHER -> "air"]
Row(xs, y) == {<<x, y>> : x \in xs}

Thing(at, poses, x, y) ==
  [at |-> at, poses |-> poses, vel |-> [y |-> y, x |-> x, turn |-> 0],
   turns |-> FALSE, assists |-> FALSE, bouncy |-> FALSE]
Dot1 == << <<<<0, 0>>>> >>
Wide == << <<<<0, 0>>, <<1, 0>>>> >>
Tall == << <<<<0, 0>>, <<0, 1>>>> >>
Hook == << <<<<0, -1>>, <<0, 0>>, <<0, 1>>, <<1, -1>>, <<1, 1>>>> >>
Bar == << <<<<-1, 0>>, <<0, 0>>, <<1, 0>>>>,
          <<<<-1, -1>>, <<0, 0>>, <<1, 1>>>>,
          <<<<0, -1>>, <<0, 0>>, <<0, 1>>>>,
          <<<<1, -1>>, <<0, 0>>, <<-1, 1>>>> >>
Elbow == << <<<<0, 0>>, <<1, 0>>, <<0, 1>>>>, <<<<0, 0>>, <<0, 1>>, <<-1, 0>>>>,
            <<<<0, 0>>, <<-1, 0>>, <<0, -1>>>>, <<<<0, 0>>, <<0, -1>>, <<1, 0>>>> >>

\* A hook and the bar in its mouth fall together, and a third comes from the side.
Interlocked ==
  [ground |-> Plane(5, 5, {}, {}, {}), frozen |-> {},
   bodies |-> <<Thing(<<1, 2>>, Hook, 0, -2), Thing(<<2, 2>>, Wide, 0, -2),
                Thing(<<0, 2>>, Dot1, 2, 0)>>]

\* Three make for the same cell, one of them bounces, water around.
Crossroads ==
  [ground |-> Plane(5, 4, Row(0..4, 0), {}, Row({0, 4}, 1)), frozen |-> {},
   bodies |-> <<[Thing(<<1, 1>>, Dot1, 2, 0) EXCEPT !.bouncy = TRUE],
                Thing(<<3, 1>>, Tall, -3, 0), Thing(<<2, 2>>, Dot1, 0, -2)>>]

\* A walker with sand on its head at a step, somebody behind it.
Steps ==
  [ground |-> Plane(6, 5, Row(0..5, 0) \cup Row({4, 5}, 1), {<<2, 3>>}, {<<4, 2>>}),
   frozen |-> {},
   bodies |-> <<[Thing(<<2, 1>>, Tall, 3, 0) EXCEPT !.assists = TRUE],
                Thing(<<0, 1>>, Wide, 2, 0)>>]

\* A bar turns between a grain, a rock and a bar that falls on it.
Turning ==
  [ground |-> Plane(5, 5, Row(0..4, 0), {<<0, 1>>}, {}), frozen |-> {},
   bodies |-> <<[Thing(<<2, 2>>, Bar, 0, 0) EXCEPT !.vel.turn = 3, !.turns = TRUE],
                Thing(<<3, 4>>, Dot1, 0, -2)>>]

\* An elbow turns beneath a rock that holds its corner, and somebody comes
\* from behind: the turn sets a quantum aside that x may not spend.
Cornered ==
  [ground |-> Plane(5, 5, {<<3, 3>>}, {}, {}), frozen |-> {},
   bodies |-> <<[Thing(<<2, 2>>, Elbow, 2, 0) EXCEPT !.vel.turn = 3, !.turns = TRUE],
                Thing(<<0, 2>>, Dot1, 2, 0)>>]

\* A convoy runs at chunks that may be frozen.
Frontier ==
  [ground |-> Plane(6, 3, Row(0..5, 0), {}, {}), frozen |-> {4, 5} \X (0..2),
   bodies |-> <<Thing(<<0, 1>>, Dot1, 4, 0), Thing(<<1, 1>>, Wide, 4, 2),
                Thing(<<2, 2>>, Dot1, 2, -2)>>]

MCScenes == {Interlocked, Crossroads, Steps, Turning, Cornered, Frontier}
=============================================================================
