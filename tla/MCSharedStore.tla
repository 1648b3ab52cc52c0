---------------------------- MODULE MCSharedStore ----------------------------
(* SharedStore on small instances. *)
EXTENDS SharedStore, TLC

Symmetry == Permutations(Val)
=============================================================================
