------------------------------ MODULE MCItems ------------------------------
(* Instances of Items for TLC. *)
EXTENDS Items, TLC

LimitOfBag == [c \in Containers |-> IF c \in Magical THEN 1 ELSE 0]
Symmetry == Permutations(Players) \cup Permutations(Piles)
=============================================================================
