------------------------------- MODULE MCCore -------------------------------
(* Small instances of BasicWindowManager for TLC. *)
EXTENDS FocusRefinement, TLC

Symmetry == Permutations(Windows) \cup Permutations(Apps)
=============================================================================
