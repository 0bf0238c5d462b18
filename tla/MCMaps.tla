------------------------------ MODULE MCMaps ------------------------------
(* Small instances of Maps for TLC. *)
EXTENDS Maps, TLC

Symmetry == Permutations(Players)
=============================================================================
