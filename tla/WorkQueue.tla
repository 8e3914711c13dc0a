------------------------------- MODULE WorkQueue -------------------------------
(***************************************************************************)
(* What a bounded work queue promises: the items come out once each and in *)
(* the order in which they were put, and never more than MaxSize wait.     *)
(***************************************************************************)
EXTENDS Integers, Sequences

CONSTANTS MaxSize, MsgCount

VARIABLES
  put,     \* items put so far: 1..put
  taken    \* the items taken, in order

Init == put = 0 /\ taken = <<>>

Put ==
  /\ put < MsgCount /\ put - Len(taken) < MaxSize
  /\ put' = put + 1
  /\ UNCHANGED taken

Take ==
  /\ Len(taken) < put
  /\ taken' = Append(taken, Len(taken) + 1)
  /\ UNCHANGED put

Next == Put \/ Take

Spec == Init /\ [][Next]_<<put, taken>>
===============================================================================
