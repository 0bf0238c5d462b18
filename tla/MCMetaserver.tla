--------------------------- MODULE MCMetaserver ---------------------------
(* Instances of Metaserver for TLC. *)
EXTENDS Metaserver, TLC
=============================================================================
