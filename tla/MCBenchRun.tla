------------------------------ MODULE MCBenchRun ------------------------------
(* BenchRun for TLC. *)
EXTENDS BenchRun
=============================================================================
