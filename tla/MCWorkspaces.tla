---------------------------- MODULE MCWorkspaces ----------------------------
(* Small instances of TitlebarWorkspaces for TLC. *)
EXTENDS TitlebarWorkspaces, TLC

Symmetry == Permutations(Windows)
=============================================================================
