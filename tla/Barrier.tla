------------------------------- MODULE Barrier -------------------------------
(***************************************************************************)
(* The barrier of c/barrier.c: a counter, a semaphore used as a mutex      *)
(* around it, and a semaphore used as a turnstile that the last to arrive  *)
(* opens and everybody else passes on.  Threads or processes share it, so  *)
(* one of them may die anywhere, and a sem_wait may be interrupted.        *)
(***************************************************************************)
EXTENDS Integers, FiniteSets

CONSTANTS
  Proc,      \* who calls barrier_wait, each once
  N          \* barrier_init's N

ASSUME ProcAssumption ==
  Proc # {} /\ IsFiniteSet(Proc) /\ N = Cardinality(Proc)

VARIABLES
  count,     \* b->count
  mutex,     \* b->mutex, a semaphore
  gate,      \* b->barrier, a semaphore
  pc,        \* pc[p]: where p is in barrier_wait
  seen,      \* seen[p]: the count p has loaded and not yet stored
  dead       \* who has died; pc[p] tells where

barrierVars == <<count, mutex, gate, pc, seen, dead>>

Holding  == {"load", "store", "test", "unlock"}
Beyond   == {"gate", "repost", "passed", "left"}
Arrived  == {p \in Proc : pc[p] \in {"test", "unlock"} \cup Beyond}
Passed   == {p \in Proc : pc[p] = "passed"}
Returned == {"passed", "left", "refused"}

(* No semaphore is ever negative. *)
TypeOK ==
  /\ count \in Nat /\ mutex \in Nat /\ gate \in Nat
  /\ pc \in [Proc -> {"outside", "mutex", "refused"} \cup Holding \cup Beyond]
  /\ seen \in [Proc -> Nat]
  /\ dead \in SUBSET Proc

(* barrier_init *)
Init ==
  /\ count = 0 /\ mutex = 1 /\ gate = 0
  /\ pc = [p \in Proc |-> "outside"]
  /\ seen = [p \in Proc |-> 0]
  /\ dead = {}

Goto(p, from, to) ==
  /\ p \notin dead /\ pc[p] = from
  /\ pc' = [pc EXCEPT ![p] = to]
  /\ UNCHANGED dead

Call(p) == Goto(p, "outside", "mutex") /\ UNCHANGED <<count, mutex, gate, seen>>

(* sem_wait blocks while the semaphore is zero.  The faulty ones do not: a  *)
(* sem_trywait whose failure is ignored, and a turnstile that counts down   *)
(* whatever it has.                                                         *)
WaitMutexFault(p) ==
  /\ Goto(p, "mutex", "load")
  /\ mutex' = IF mutex > 0 THEN mutex - 1 ELSE mutex
  /\ UNCHANGED <<count, gate, seen>>
WaitMutex(p) ==
  /\ Goto(p, "mutex", "load")
  /\ mutex > 0 /\ mutex' = mutex - 1
  /\ UNCHANGED <<count, gate, seen>>

(* b->count++, a load and a store. *)
Load(p) ==
  /\ Goto(p, "load", "store")
  /\ seen' = [seen EXCEPT ![p] = count]
  /\ UNCHANGED <<count, mutex, gate>>
Store(p) ==
  /\ Goto(p, "store", "test")
  /\ count' = seen[p] + 1
  /\ UNCHANGED <<mutex, gate, seen>>

LastFault == count >= N - 1
Last == count = N
Test(p) ==
  /\ Goto(p, "test", "unlock")
  /\ gate' = IF Last THEN gate + 1 ELSE gate
  /\ UNCHANGED <<count, mutex, seen>>

PostMutex(p) ==
  /\ Goto(p, "unlock", "gate")
  /\ mutex' = mutex + 1
  /\ UNCHANGED <<count, gate, seen>>

WaitGate(p) ==
  /\ Goto(p, "gate", "repost")
  /\ gate > 0 /\ gate' = gate - 1
  /\ UNCHANGED <<count, mutex, seen>>

(* Whoever passes the turnstile leaves it open for the next. *)
RepostFault(g) == g
Repost(g) == g + 1
PostGate(p) ==
  /\ Goto(p, "repost", "passed")
  /\ gate' = Repost(gate)
  /\ UNCHANGED <<count, mutex, seen>>

(* A signal handler runs: sem_wait fails, and barrier_wait with it. *)
Interrupt(p) ==
  /\ Goto(p, "mutex", "refused") \/ Goto(p, "gate", "left")
  /\ UNCHANGED <<count, mutex, gate, seen>>

Step(p) ==
  \/ WaitMutex(p) \/ Load(p) \/ Store(p) \/ Test(p) \/ PostMutex(p)
  \/ WaitGate(p) \/ PostGate(p)

Die(p) ==
  /\ p \notin dead
  /\ dead' = dead \cup {p}
  /\ UNCHANGED <<count, mutex, gate, pc, seen>>

(* Everybody has returned or died: the one way the system may stop. *)
AllEnded ==
  /\ \A p \in Proc : p \in dead \/ pc[p] \in Returned
  /\ UNCHANGED barrierVars

Next ==
  \/ \E p \in Proc : Call(p) \/ Step(p) \/ Interrupt(p) \/ Die(p)
  \/ AllEnded

(* A process that is in barrier_wait keeps running, but need not call it.   *)
(* Weak fairness is enough for the semaphores: each process passes the      *)
(* turnstile once, so from some point on nobody closes it before p.         *)
Spec == Init /\ [][Next]_barrierVars /\ \A p \in Proc : WF_barrierVars(Step(p))

-----------------------------------------------------------------------------
(* The counter is exact, whoever has died in the middle: an increment is    *)
(* never lost between b->count++'s load and store.                          *)
CountExact == count = Cardinality(Arrived)

(* Each semaphore is one token, held by one process or by none, and there   *)
(* is none in the turnstile until the last has come.  sem_post can then not *)
(* overflow, so the error returns of barrier_wait that follow a sem_post    *)
(* are dead code.                                                           *)
At(places) == {p \in Proc : pc[p] \in places}
TokensKept ==
  /\ mutex + Cardinality(At(Holding)) = 1
  /\ gate + Cardinality(At({"repost"})) = 1
       \/ /\ gate = 0 /\ At({"repost", "passed"}) = {}
          /\ Arrived = Proc => At({"test"}) # {}

(* barrier_wait returns 0 to nobody before all N have come. *)
Promise == INSTANCE Rendezvous WITH arrived <- Arrived, through <- Passed
KeepsPromise == Promise!Spec

(* Once all have come, everybody gets through, unless somebody died inside  *)
(* the mutex or between the turnstile's sem_wait and its sem_post: a death  *)
(* before or after costs nothing.                                           *)
Opens ==
  Arrived = Proc ~> \/ \A p \in Proc : p \in dead \/ pc[p] \in Returned
                    \/ \E p \in dead : pc[p] \in Holding \cup {"repost"}

-----------------------------------------------------------------------------
(* The inductive invariant: one process at a time around the counter, one   *)
(* at a time in the turnstile, and the turnstile is either untouched or     *)
(* open for good, which it is from the moment the last has left the test.   *)
Alone(places, free) ==
  /\ free \in {0, 1}
  /\ free = 1 => At(places) = {}
  /\ \A p, q \in At(places) : p = q

Closed ==
  /\ gate = 0 /\ At({"repost", "passed"}) = {}
  /\ Arrived = Proc => At({"test"}) # {}

Open ==
  /\ gate = 1 \/ At({"repost"}) # {}
  /\ At({"unlock"} \cup Beyond) = Proc

(* The semaphores guard what they should, the count is exact and no loaded *)
(* count is stale, and the turnstile is closed or open for good.           *)
IInv ==
  /\ TypeOK
  /\ Alone(Holding, mutex) /\ (mutex = 0 => At(Holding) # {})
  /\ Alone({"repost"}, gate)
  /\ CountExact
  /\ \A p \in Proc : pc[p] = "store" => seen[p] = count
  /\ Closed \/ Open
=============================================================================
