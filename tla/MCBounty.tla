------------------------------ MODULE MCBounty ------------------------------
(* Instances of Bounty for TLC. *)
EXTENDS Bounty

LimitAt == [l \in Levels |-> IF l = 0 THEN 0 ELSE 8]
Symmetry == Permutations(Players)
=============================================================================
