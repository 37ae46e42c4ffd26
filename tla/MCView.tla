------------------------------- MODULE MCView --------------------------------
(* View on two chunks of two cells.                                         *)
EXTENDS View, TLC

\* Nothing tells the things of a slot apart.
Symmetry == Permutations(Things)
=============================================================================
