---------------------------- MODULE MCInodeCache ----------------------------
(* InodeCache for TLC: the values lie on both sides of the reader's limit   *)
(* (MaxSize - 1) and of put's (MaxSize).                                    *)
EXTENDS InodeCache, TLC

CONSTANTS short, edge, long, huge
Sizes == (short :> 2) @@ (edge :> 3) @@ (long :> 4) @@ (huge :> 5)
=============================================================================
