------------------------------ MODULE MCTimer ------------------------------
(***************************************************************************)
(* Model-checking instance of Timer: the symmetry of the entry slots.      *)
(***************************************************************************)
EXTENDS Timer, TLC

Slots == Permutations(Entry)
=============================================================================
