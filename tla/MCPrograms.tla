------------------------------ MODULE MCPrograms ------------------------------
(* Programs for TLC. *)
EXTENDS Programs
=============================================================================
