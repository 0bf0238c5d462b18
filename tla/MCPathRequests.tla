-------------------------- MODULE MCPathRequests --------------------------
(* Small instances of PathRequests for TLC. *)
EXTENDS PathRequests, TLC

Symmetry == Permutations(Slots) \cup Permutations(Tags)
=============================================================================
