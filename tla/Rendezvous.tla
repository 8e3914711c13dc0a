------------------------------ MODULE Rendezvous ------------------------------
(***************************************************************************)
(* What a barrier promises: nobody gets through before everybody has come. *)
(***************************************************************************)
CONSTANT Proc

VARIABLES
  arrived,   \* who has come
  through    \* who has gone on

Init == arrived = {} /\ through = {}

Arrive(p) ==
  /\ p \notin arrived
  /\ arrived' = arrived \cup {p}
  /\ UNCHANGED through

Pass(p) ==
  /\ arrived = Proc /\ p \notin through
  /\ through' = through \cup {p}
  /\ UNCHANGED arrived

Next == \E p \in Proc : Arrive(p) \/ Pass(p)

Spec == Init /\ [][Next]_<<arrived, through>>
===============================================================================
