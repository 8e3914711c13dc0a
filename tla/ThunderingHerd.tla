---------------------------- MODULE ThunderingHerd ----------------------------
(***************************************************************************)
(* dat/thunderingherd.cpp: a producer puts items into a bounded queue, and *)
(* a herd of workers, woken all together, takes them out.  A step is what  *)
(* a thread does between two accesses to the mutex or to a condition       *)
(* variable: both notifications come after the mutex has been given back.  *)
(***************************************************************************)
EXTENDS Integers, Sequences

CONSTANTS
  N,         \* workerCount, at least 1: Conf::parse sees to it
  MaxSize,   \* max_size
  MsgCount   \* msgCount

Worker   == 1..N
Producer == 0
Thread   == {Producer} \cup Worker
Free     == N + 1     \* nobody has the mutex

ASSUME SizesAssumption ==
  N \in Nat \ {0} /\ MaxSize \in Nat \ {0} /\ MsgCount \in Nat

VARIABLES
  q, finished, mutex,   \* the shared Queue
  pc,       \* pc[t]: where thread t is
  sent,     \* the producer's loop counter, and the item it puts next
  main,     \* where run() is
  i,        \* its loop variable: the worker to start, or to join
  taken     \* history: the items taken, in order

vars == <<q, finished, mutex, pc, sent, main, i, taken>>

(* The queue never holds more than max_size, and one thread has the mutex.  *)
TypeOK ==
  /\ q \in Seq(1..MsgCount) /\ Len(q) <= MaxSize
  /\ finished \in BOOLEAN
  /\ mutex \in Thread \cup {Free}
  /\ pc \in [Thread -> {"unborn", "lock", "check", "blocked", "notify", "exit"}]
  /\ sent \in 0..MsgCount
  /\ main \in {"start", "joinProducer", "join", "done", "aborted"}
  /\ i \in 1..N + 1
  /\ taken \in Seq(1..MsgCount)

Init ==
  /\ q = <<>> /\ finished = FALSE /\ mutex = Free
  /\ pc = [t \in Thread |-> "unborn"]
  /\ sent = 0 /\ main = "start" /\ i = 1 /\ taken = <<>>

-----------------------------------------------------------------------------
(* Mutex and condition variables *)

Goes(t, from, to) ==
  /\ main # "aborted" /\ pc[t] = from
  /\ pc' = [pc EXCEPT ![t] = to]

data == <<q, finished, sent, main, i, taken>>

(* The lock at the head of a critical section, or the end of a wait.        *)
Acquire(t) ==
  /\ mutex = Free /\ Goes(t, "lock", "check")
  /\ mutex' = t
  /\ UNCHANGED data

(* The predicate is false: wait gives the mutex back.                       *)
Blocks(t) ==
  /\ Goes(t, "check", "blocked")
  /\ mutex' = Free
  /\ UNCHANGED data

(* A wait may end without a notification; it then looks again.              *)
Spurious(t) ==
  /\ Goes(t, "blocked", "lock")
  /\ UNCHANGED <<mutex, data>>

(* Thread t notifies, and goes on at another place.                         *)
Notifies(t, waiters, next) ==
  /\ main # "aborted" /\ pc[t] = "notify"
  /\ pc' = [s \in Thread |-> IF s = t THEN next
                             ELSE IF s \in waiters THEN "lock" ELSE pc[s]]
  /\ UNCHANGED <<mutex, data>>
Waiting(S) == {s \in S : pc[s] = "blocked"}

-----------------------------------------------------------------------------
(* worker *)

(* The predicate of the wait, and the condition of the break; a worker that *)
(* leaves what is still in the queue has the fault.                         *)
HasWork == q # <<>>
StopsFault == finished
Stops == q = <<>> /\ finished

WorkerWaits(w) == ~HasWork /\ ~finished /\ Blocks(w)

(* front and pop are one critical section. *)
Pop(w) ==
  /\ HasWork /\ ~Stops /\ Goes(w, "check", "notify")
  /\ taken' = Append(taken, Head(q))
  /\ q' = Tail(q)
  /\ mutex' = Free
  /\ UNCHANGED <<finished, sent, main, i>>

Break(w) ==
  /\ Stops /\ Goes(w, "check", "exit")
  /\ mutex' = Free
  /\ UNCHANGED data

(* notify_one wakes the producer: nobody else waits for cond_nonfull.       *)
NotifyNonfull(w) == Notifies(w, Waiting({Producer}), "lock")

WorkerStep(w) == WorkerWaits(w) \/ Pop(w) \/ Break(w) \/ NotifyNonfull(w)

-----------------------------------------------------------------------------
(* producer *)

NonFullFault == Len(q) <= MaxSize
NonFull == Len(q) < MaxSize

ProducerWaits == sent < MsgCount /\ ~NonFull /\ Blocks(Producer)

Push ==
  /\ sent < MsgCount /\ NonFull /\ Goes(Producer, "check", "notify")
  /\ sent' = sent + 1
  /\ q' = Append(q, sent + 1)
  /\ mutex' = Free
  /\ UNCHANGED <<finished, main, i, taken>>

(* The last critical section: there will be no more items.                  *)
Finish ==
  /\ sent = MsgCount /\ Goes(Producer, "check", "notify")
  /\ finished' = TRUE
  /\ mutex' = Free
  /\ UNCHANGED <<q, sent, main, i, taken>>

(* notify_all, after an item and after the end; the fault is notify_one.    *)
NotifyNonemptyFault ==
  Notifies(Producer,
    {CHOOSE w \in Worker : Waiting(Worker) = {} \/ w \in Waiting(Worker)}
      \cap Waiting(Worker),
    IF finished THEN "exit" ELSE "lock")
NotifyNonempty ==
  Notifies(Producer, Waiting(Worker), IF finished THEN "exit" ELSE "lock")

ProducerStep == ProducerWaits \/ Push \/ Finish \/ NotifyNonempty

-----------------------------------------------------------------------------
(* run *)

shared == <<q, finished, mutex, sent, taken>>

Start ==
  /\ main = "start"
  /\ IF i <= N
       THEN /\ Goes(i, "unborn", "lock") /\ i' = i + 1 /\ UNCHANGED main
       ELSE /\ Goes(Producer, "unborn", "lock") /\ i' = 1
            /\ main' = "joinProducer"
  /\ UNCHANGED shared

(* A thread that cannot be started throws out of run, past threads that are *)
(* joinable: std::terminate ends the program.                               *)
StartFails ==
  /\ main = "start" /\ main' = "aborted"
  /\ UNCHANGED <<pc, i, shared>>

Join ==
  /\ \/ main = "joinProducer" /\ pc[Producer] = "exit"
        /\ main' = "join" /\ UNCHANGED i
     \/ main = "join" /\ i <= N /\ pc[i] = "exit"
        /\ i' = i + 1 /\ main' = IF i = N THEN "done" ELSE "join"
  /\ UNCHANGED <<pc, shared>>

Ended == main \in {"done", "aborted"} /\ UNCHANGED vars

ThreadStep(t) ==
  \/ Acquire(t)
  \/ t \in Worker /\ WorkerStep(t)
  \/ t = Producer /\ ProducerStep

Next ==
  \/ Start \/ StartFails \/ Join
  \/ \E t \in Thread : ThreadStep(t) \/ Spurious(t)
  \/ Ended

(* Threads run; the mutex goes to somebody who waits for it, not to anybody *)
(* in particular.  No wait ends by itself.                                  *)
Spec ==
  /\ Init /\ [][Next]_vars
  /\ WF_vars(Start \/ Join)
  /\ \A t \in Thread : WF_vars(ThreadStep(t))

-----------------------------------------------------------------------------
(* What the queue must do *)

(* Whatever is taken comes out in the order it was put, once, with no item  *)
(* lost, and the queue is bounded: the threads implement WorkQueue.         *)
W == INSTANCE WorkQueue WITH put <- sent
KeepsPromise == W!Spec

(* No wakeup is lost: a thread that waits although it need not is about to  *)
(* be notified.  The notifications come after the unlock, when another      *)
(* thread may already have changed the queue again.                         *)
NoLostWakeup ==
  /\ (HasWork \/ finished) /\ Waiting(Worker) # {} => pc[Producer] = "notify"
  /\ NonFull /\ pc[Producer] = "blocked" => \E w \in Worker : pc[w] = "notify"

(* The first worker to leave leaves nothing behind: everything has been put *)
(* and taken by then, so that no item is left over when run returns.        *)
LeavesWhenDone ==
  (\E w \in Worker : pc[w] = "exit") => Len(taken) = MsgCount

(* run returns, unless a thread could not be started, or spurious wakeups   *)
(* go on for ever: nobody is left waiting.                                  *)
Returns ==
  \/ <>(main \in {"done", "aborted"})
  \/ []<><<\E t \in Thread : Spurious(t)>>_vars
===============================================================================
