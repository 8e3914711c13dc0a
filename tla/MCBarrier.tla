------------------------------ MODULE MCBarrier ------------------------------
(* Barrier for TLC: barrier_init was told how many there are. *)
EXTENDS Barrier

Everybody == Cardinality(Proc)
=============================================================================
