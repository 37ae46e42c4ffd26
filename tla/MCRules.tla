------------------------------ MODULE MCRules ------------------------------
(* Small scenes for Rules, written as rows from the top down. *)
EXTENDS Rules

Picture(rowsDown) ==
  [p \in (1..Len(rowsDown[1])) \X (1..Len(rowsDown)) |-> rowsDown[Len(rowsDown) + 1 - p[2]][p[1]]]

MCGrips == {[side |-> 1, holds |-> 0, starts |-> 0, drift |-> 1],
            [side |-> -1, holds |-> 1, starts |-> 1, drift |-> -1],
            [side |-> -1, holds |-> 0, starts |-> 1, drift |-> -1]}

MCScenes == {
  \* grains that fall, pile up and topple
  Picture(<< <<"sand", "air", "air">>, <<"sand", "air", "air">> >>),
  \* a grain two cells from a drop that opens when the charcoal has burnt
  Picture(<< <<"sand", "air", "air">>, <<"stone", "stone", "lit charcoal">> >>),
  Picture(<< <<"air", "sand">>, <<"air", "charcoal">>, <<"air", "air">> >>),
  \* a grain through water, and on a body
  Picture(<< <<"sand", "air">>, <<"air", "water">>, <<"air", "flesh">> >>),
  \* a grain that falls into deep water
  Picture(<< <<"sand">>, <<"air">>, <<"water">>, <<"water">>, <<"water">> >>),
  \* water over oil, beside a wall, and falling down a step
  Picture(<< <<"water", "air", "air">>, <<"stone", "water", "air">> >>),
  Picture(<< <<"water", "air", "air">>, <<"oil", "stone", "air">> >>),
  \* a gas under a ceiling
  Picture(<< <<"air", "stone", "air">>, <<"air", "smoke", "air">> >>),
  \* fires on fuels, with and without air
  Picture(<< <<"air", "fire">>, <<"oil", "oil">> >>),
  Picture(<< <<"charcoal", "stone">>, <<"stone", "lit charcoal">>, <<"stone", "charcoal">> >>),
  Picture(<< <<"stone", "lit oil">>, <<"oil", "stone">> >>),
  \* lava under water, and a fire on a body
  Picture(<< <<"water">>, <<"lava">>, <<"oil">> >>),
  Picture(<< <<"air", "fire">>, <<"flesh", "charcoal">> >>)
}
=============================================================================
