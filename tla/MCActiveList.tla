--------------------------- MODULE MCActiveList ---------------------------
(* Instances of ActiveList for TLC. *)
EXTENDS ActiveList
=============================================================================
