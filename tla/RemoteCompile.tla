--------------------------- MODULE RemoteCompile ---------------------------
(***************************************************************************)
(* What pdistcc promises to a build tool, with no network in sight: each   *)
(* request is compiled at most once, and its client ends in exactly one of *)
(* three ways.  It holds an object only if the compiler succeeded, it      *)
(* shows the compiler's diagnostics only if the compiler failed, and it    *)
(* may report an error at any time.  There is no retry, so a verdict and   *)
(* an outcome, once given, stand.                                          *)
(***************************************************************************)
CONSTANT Request

VARIABLES
  verdict,   \* verdict[r]: what the compiler said of request r
  outcome    \* outcome[r]: how the client that made request r ended

vars == <<verdict, outcome>>

(* A verdict and an outcome for each request. *)
TypeOK ==
  /\ verdict \in [Request -> {"none", "ok", "bad"}]
  /\ outcome \in [Request -> {"waiting", "object", "diagnostics", "error"}]

Init ==
  /\ verdict = [r \in Request |-> "none"]
  /\ outcome = [r \in Request |-> "waiting"]

Compile(r) ==
  /\ verdict[r] = "none"
  /\ \E v \in {"ok", "bad"} : verdict' = [verdict EXCEPT ![r] = v]
  /\ UNCHANGED outcome

Settle(r, how) ==
  /\ outcome[r] = "waiting"
  /\ outcome' = [outcome EXCEPT ![r] = how]
  /\ UNCHANGED verdict

Deliver(r) == verdict[r] = "ok" /\ Settle(r, "object")
Report(r)  == verdict[r] = "bad" /\ Settle(r, "diagnostics")
Fail(r)    == Settle(r, "error")

Answer(r) == Deliver(r) \/ Report(r) \/ Fail(r)

Next == \E r \in Request : Compile(r) \/ Answer(r)

(* What may happen.  Nothing promises that anything does: no socket has a   *)
(* timeout, so a client may wait for ever.                                  *)
Spec == Init /\ [][Next]_vars
=============================================================================
