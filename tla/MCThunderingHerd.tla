--------------------------- MODULE MCThunderingHerd ---------------------------
(* ThunderingHerd for TLC. *)
EXTENDS ThunderingHerd
=============================================================================
