------------------------- MODULE ThunderingHerd_proofs -------------------------
(***************************************************************************)
(* Theorems about the queue of dat/thunderingherd.cpp, for any number of   *)
(* workers and items and any size of the queue.                            *)
(***************************************************************************)
EXTENDS ThunderingHerd, SequenceTheorems, TLAPS

-----------------------------------------------------------------------------
(* The inductive invariant *)

(* What was put is what was taken and what is in the queue, in order.       *)
InOrder ==
  /\ Len(taken) + Len(q) = sent
  /\ \A k \in 1..Len(taken) : taken[k] = k
  /\ \A k \in 1..Len(q) : q[k] = Len(taken) + k

(* The producer says it has finished after its last item, and then puts no  *)
(* more; who has left has seen that, and an empty queue.                    *)
Finishing ==
  /\ finished => sent = MsgCount /\ pc[Producer] \in {"notify", "exit"}
  /\ \A w \in Worker : pc[w] = "exit" => finished /\ q = <<>>

IInv == TypeOK /\ InOrder /\ Finishing /\ NoLostWakeup

-----------------------------------------------------------------------------
(* Each part is kept by every step *)

(* The threads, the producer and the workers are different things.          *)
LEMMA Threads ==
  /\ Producer \in Thread /\ Producer \notin Worker
  /\ Worker \subseteq Thread /\ Free \notin Thread
BY SizesAssumption DEF Producer, Thread, Worker, Free

(* Any step but a stutter is one of these. *)
LEMMA Steps ==
  ASSUME Next
  PROVE  \/ Start \/ StartFails \/ Join \/ Ended
         \/ \E t \in Thread : Acquire(t) \/ Spurious(t)
         \/ \E w \in Worker :
              WorkerWaits(w) \/ Pop(w) \/ Break(w) \/ NotifyNonfull(w)
         \/ ProducerWaits \/ Push \/ Finish \/ NotifyNonempty
BY DEF Next, ThreadStep, WorkerStep, ProducerStep

(* The initial states. *)
LEMMA InitIInv == Init => IInv
<1> SUFFICES ASSUME Init PROVE IInv
  OBVIOUS
<1>1. TypeOK
  <2>1. q \in Seq(1..MsgCount) /\ taken \in Seq(1..MsgCount) /\ Len(q) = 0
    BY DEF Init
  <2>2. sent \in 0..MsgCount /\ i \in 1..N + 1 /\ Len(q) <= MaxSize
    BY <2>1, SizesAssumption DEF Init
  <2> QED
    BY <2>1, <2>2 DEF Init, TypeOK
<1>2. InOrder
  BY DEF Init, InOrder
<1>3. Finishing /\ NoLostWakeup
  BY Threads DEF Init, Finishing, NoLostWakeup, Waiting, HasWork
<1> QED
  BY <1>1, <1>2, <1>3 DEF IInv

(* A thread that moves stays at one of the places. *)
LEMMA MovesType ==
  ASSUME TypeOK, NEW t, NEW from, NEW to, Goes(t, from, to),
         to \in {"lock", "check", "blocked", "notify", "exit"}
  PROVE  pc' \in [Thread ->
           {"unborn", "lock", "check", "blocked", "notify", "exit"}]
BY DEF TypeOK, Goes

LEMMA NotifiesType ==
  ASSUME TypeOK, NEW t, NEW S, NEW to \in {"lock", "exit"}, Notifies(t, S, to)
  PROVE  pc' \in [Thread ->
           {"unborn", "lock", "check", "blocked", "notify", "exit"}]
BY DEF TypeOK, Notifies

LEMMA TypeKept == TypeOK /\ [Next]_vars => TypeOK'
<1> SUFFICES ASSUME TypeOK, [Next]_vars PROVE TypeOK'
  OBVIOUS
<1> USE Threads
<1> DEFINE Places == {"unborn", "lock", "check", "blocked", "notify", "exit"}
<1>1. CASE UNCHANGED vars
  BY <1>1 DEF TypeOK, vars
<1>2. CASE Start \/ StartFails \/ Join
  <2>1. pc' \in [Thread -> Places]
    BY <1>2, MovesType DEF TypeOK, Start, StartFails, Join
  <2>2. i' \in 1..N + 1
    BY <1>2, SizesAssumption DEF TypeOK, Start, StartFails, Join
  <2>3. main' \in {"start", "joinProducer", "join", "done", "aborted"}
    BY <1>2 DEF TypeOK, Start, StartFails, Join
  <2> QED
    BY <1>2, <2>1, <2>2, <2>3 DEF TypeOK, Start, StartFails, Join, shared
<1>3. CASE Ended
  BY <1>3 DEF TypeOK, Ended, vars
<1>4. ASSUME NEW t \in Thread, Acquire(t) \/ Spurious(t) PROVE TypeOK'
  <2>1. pc' \in [Thread -> Places]
    BY <1>4, MovesType DEF Acquire, Spurious
  <2> QED
    BY <1>4, <2>1 DEF TypeOK, Acquire, Spurious, data
<1>5. ASSUME NEW t \in Thread, Blocks(t) PROVE TypeOK'
  <2>1. pc' \in [Thread -> Places]
    BY <1>5, MovesType DEF Blocks
  <2> QED
    BY <1>5, <2>1 DEF TypeOK, Blocks, data
<1>6. ASSUME NEW w \in Worker, Pop(w) PROVE TypeOK'
  <2>1. pc' \in [Thread -> Places]
    BY <1>6, MovesType DEF Pop
  <2>2. /\ Head(q) \in 1..MsgCount /\ Tail(q) \in Seq(1..MsgCount)
        /\ Len(Tail(q)) = Len(q) - 1
    BY <1>6, HeadTailProperties DEF TypeOK, Pop, HasWork
  <2>3. Append(taken, Head(q)) \in Seq(1..MsgCount)
    BY <2>2 DEF TypeOK
  <2>4. Len(q') <= MaxSize
    BY <1>6, <2>2, SizesAssumption DEF TypeOK, Pop
  <2> QED
    BY <1>6, <2>1, <2>2, <2>3, <2>4 DEF TypeOK, Pop
<1>7. ASSUME NEW w \in Worker, Break(w) PROVE TypeOK'
  <2>1. pc' \in [Thread -> Places]
    BY <1>7, MovesType DEF Break
  <2> QED
    BY <1>7, <2>1 DEF TypeOK, Break, data
<1>8. ASSUME NEW t \in Thread, NEW S, NEW to \in {"lock", "exit"},
             Notifies(t, S, to)
      PROVE  TypeOK'
  <2>1. pc' \in [Thread -> Places]
    BY <1>8, NotifiesType
  <2> QED
    BY <1>8, <2>1 DEF TypeOK, Notifies, data
<1>9. CASE Push
  <2>1. pc' \in [Thread -> Places]
    BY <1>9, MovesType DEF Push
  <2>2. sent + 1 \in 1..MsgCount
    BY <1>9, SizesAssumption DEF TypeOK, Push
  <2>3. /\ Append(q, sent + 1) \in Seq(1..MsgCount)
        /\ Len(Append(q, sent + 1)) = Len(q) + 1
    BY <2>2, AppendProperties DEF TypeOK
  <2>4. Len(q') <= MaxSize
    BY <1>9, <2>3, SizesAssumption DEF TypeOK, Push, NonFull
  <2> QED
    BY <1>9, <2>1, <2>2, <2>3, <2>4 DEF TypeOK, Push
<1>10. CASE Finish
  <2>1. pc' \in [Thread -> Places]
    BY <1>10, MovesType DEF Finish
  <2> QED
    BY <1>10, <2>1 DEF TypeOK, Finish
<1> QED
  BY <1>1, <1>2, <1>3, <1>4, <1>5, <1>6, <1>7, <1>8, <1>9, <1>10, Steps
  DEF WorkerWaits, ProducerWaits, NotifyNonfull, NotifyNonempty
(* Only Push and Pop move items. *)
LEMMA OrderKept == TypeOK /\ InOrder /\ [Next]_vars => InOrder'
<1> SUFFICES ASSUME TypeOK, InOrder, [Next]_vars PROVE InOrder'
  OBVIOUS
<1>1. CASE UNCHANGED <<q, sent, taken>>
  BY <1>1 DEF InOrder
<1>2. ASSUME NEW w \in Worker, Pop(w) PROVE InOrder'
  <2>1. q \in Seq(1..MsgCount) /\ q # <<>> /\ Len(q) \in Nat /\ q[1] = Head(q)
    BY <1>2 DEF TypeOK, Pop, HasWork
  <2>2. /\ Head(q) \in 1..MsgCount /\ Len(Tail(q)) = Len(q) - 1
        /\ \A k \in 1..Len(Tail(q)) : Tail(q)[k] = q[k + 1]
    BY <2>1, HeadTailProperties
  <2>3. 1 \in 1..Len(q)
    BY <2>1, EmptySeq
  <2>4. Head(q) = Len(taken) + 1
    BY <2>1, <2>3 DEF InOrder
  <2>5. taken \in Seq(1..MsgCount) /\ Len(taken) \in Nat
    BY DEF TypeOK
  <2>6. /\ Len(taken') = Len(taken) + 1
        /\ \A k \in 1..Len(taken) : taken'[k] = taken[k]
        /\ taken'[Len(taken) + 1] = Head(q)
    BY <1>2, <2>2, <2>5, AppendProperties DEF Pop
  <2>7. q' = Tail(q) /\ sent' = sent
    BY <1>2 DEF Pop
  <2>8. Len(taken') + Len(q') = sent'
    BY <2>1, <2>2, <2>5, <2>6, <2>7 DEF InOrder
  <2>9. ASSUME NEW k \in 1..Len(taken') PROVE taken'[k] = k
    BY <2>4, <2>5, <2>6 DEF InOrder
  <2>10. ASSUME NEW k \in 1..Len(q') PROVE q'[k] = Len(taken') + k
    <3>1. k + 1 \in 1..Len(q) /\ q'[k] = q[k + 1]
      BY <2>1, <2>2, <2>7
    <3>2. q[k + 1] = Len(taken) + (k + 1)
      BY <3>1 DEF InOrder
    <3> QED
      BY <2>5, <2>6, <3>1, <3>2
  <2> QED
    BY <2>8, <2>9, <2>10 DEF InOrder
<1>3. CASE Push
  <2>1. /\ q \in Seq(1..MsgCount) /\ Len(q) \in Nat
        /\ sent + 1 \in 1..MsgCount /\ Len(taken) \in Nat
    BY <1>3, SizesAssumption DEF TypeOK, Push
  <2>2. /\ Len(q') = Len(q) + 1
        /\ \A k \in 1..Len(q) : q'[k] = q[k]
        /\ q'[Len(q) + 1] = sent + 1
    BY <1>3, <2>1, AppendProperties DEF Push
  <2>3. sent' = sent + 1 /\ taken' = taken
    BY <1>3 DEF Push
  <2>4. ASSUME NEW k \in 1..Len(q') PROVE q'[k] = Len(taken') + k
    <3>1. CASE k = Len(q) + 1
      BY <2>1, <2>2, <2>3, <3>1 DEF InOrder
    <3>2. CASE k # Len(q) + 1
      BY <2>1, <2>2, <2>3, <3>2 DEF InOrder
    <3> QED
      BY <3>1, <3>2
  <2>5. Len(taken') + Len(q') = sent'
    BY <2>1, <2>2, <2>3 DEF InOrder
  <2> QED
    BY <2>3, <2>4, <2>5 DEF InOrder
<1> QED
  BY <1>1, <1>2, <1>3, Steps
  DEF Start, StartFails, Join, Ended, vars, shared, data, Acquire, Spurious,
      WorkerWaits, ProducerWaits, Blocks, Break, NotifyNonfull, NotifyNonempty,
      Notifies, Finish

(* A worker leaves when the producer has finished and the queue is empty,   *)
(* and the producer is then past its last item.                             *)
LEMMA FinishingKept == TypeOK /\ Finishing /\ [Next]_vars => Finishing'
<1> SUFFICES ASSUME TypeOK, Finishing, [Next]_vars PROVE Finishing'
  OBVIOUS
<1> USE Threads DEF Finishing
<1>1. CASE UNCHANGED vars
  BY <1>1 DEF vars
<1>2. CASE Start
  BY <1>2, SizesAssumption
  DEF TypeOK, Start, Goes, shared, Worker, Thread, Producer
<1>3. CASE StartFails \/ Join
  BY <1>3 DEF StartFails, Join, shared
<1>4. CASE Ended
  BY <1>4 DEF Ended, vars
<1>5. ASSUME NEW t \in Thread, Acquire(t) \/ Spurious(t) \/ Blocks(t)
      PROVE  Finishing'
  BY <1>5 DEF TypeOK, Acquire, Spurious, Blocks, Goes, data
<1>6. ASSUME NEW w \in Worker, Pop(w) PROVE Finishing'
  BY <1>6 DEF TypeOK, Pop, Goes, HasWork
<1>7. ASSUME NEW w \in Worker, Break(w) PROVE Finishing'
  BY <1>7 DEF TypeOK, Break, Goes, Stops, data
<1>8. ASSUME NEW w \in Worker, NotifyNonfull(w) PROVE Finishing'
  BY <1>8 DEF TypeOK, NotifyNonfull, Notifies, Waiting, data
<1>9. CASE Push
  BY <1>9 DEF TypeOK, Push, Goes
<1>10. CASE Finish
  BY <1>10 DEF TypeOK, Finish, Goes
<1>11. CASE NotifyNonempty
  BY <1>11 DEF TypeOK, NotifyNonempty, Notifies, Waiting, data
<1> QED
  BY <1>1, <1>2, <1>3, <1>4, <1>5, <1>6, <1>7, <1>8, <1>9, <1>10, <1>11, Steps
  DEF WorkerWaits, ProducerWaits

(* Whoever blocks has seen that there is nothing to do, and whoever changes *)
(* that goes on to notify.                                                  *)
LEMMA WakeupsKept == TypeOK /\ NoLostWakeup /\ [Next]_vars => NoLostWakeup'
<1> SUFFICES ASSUME TypeOK, NoLostWakeup, [Next]_vars PROVE NoLostWakeup'
  OBVIOUS
<1> USE Threads DEF NoLostWakeup, Waiting
<1>1. CASE UNCHANGED vars
  BY <1>1 DEF vars, HasWork, NonFull
<1>2. CASE Start
  BY <1>2, SizesAssumption
  DEF TypeOK, Start, Goes, shared, HasWork, NonFull, Worker, Thread, Producer
<1>3. CASE StartFails \/ Join
  BY <1>3 DEF StartFails, Join, shared, HasWork, NonFull
<1>4. CASE Ended
  BY <1>4 DEF Ended, vars, HasWork, NonFull
<1>5. ASSUME NEW t \in Thread, Acquire(t) \/ Spurious(t) PROVE NoLostWakeup'
  BY <1>5 DEF TypeOK, Acquire, Spurious, Goes, data, HasWork, NonFull
<1>6. ASSUME NEW w \in Worker, WorkerWaits(w) PROVE NoLostWakeup'
  BY <1>6 DEF TypeOK, WorkerWaits, Blocks, Goes, data, HasWork, NonFull
<1>7. ASSUME NEW w \in Worker, Pop(w) PROVE NoLostWakeup'
  BY <1>7 DEF TypeOK, Pop, Goes, HasWork
<1>8. ASSUME NEW w \in Worker, Break(w) PROVE NoLostWakeup'
  BY <1>8 DEF TypeOK, Break, Goes, data, HasWork, NonFull
<1>9. ASSUME NEW w \in Worker, NotifyNonfull(w) PROVE NoLostWakeup'
  BY <1>9 DEF TypeOK, NotifyNonfull, Notifies, data, HasWork, NonFull
<1>10. CASE ProducerWaits
  BY <1>10 DEF TypeOK, ProducerWaits, Blocks, Goes, data, HasWork, NonFull
<1>11. CASE Push
  BY <1>11 DEF TypeOK, Push, Goes
<1>12. CASE Finish
  BY <1>12 DEF TypeOK, Finish, Goes
<1>13. CASE NotifyNonempty
  BY <1>13 DEF TypeOK, NotifyNonempty, Notifies, data, HasWork, NonFull
<1> QED
  BY <1>1, <1>2, <1>3, <1>4, <1>5, <1>6, <1>7, <1>8, <1>9, <1>10, <1>11, <1>12,
     <1>13, Steps

-----------------------------------------------------------------------------
(* The theorems *)

(* The invariant holds always. *)
THEOREM Invariance == Spec => []IInv
<1>1. IInv /\ [Next]_vars => IInv'
  BY TypeKept, OrderKept, FinishingKept, WakeupsKept DEF IInv
<1> QED
  BY InitIInv, <1>1, PTL DEF Spec

(* The queue stays within max_size, and every variable has its type.        *)
THEOREM TypeCorrect == Spec => []TypeOK
BY Invariance, PTL DEF IInv

(* No thread sleeps through what it waits for, although both sides notify   *)
(* only after they have given the mutex back.                               *)
THEOREM WakeupsAreKept == Spec => []NoLostWakeup
BY Invariance, PTL DEF IInv

(* A worker leaves only when every item has been put and taken.             *)
THEOREM WorkIsDone == Spec => []LeavesWhenDone
<1>1. IInv => LeavesWhenDone
  <2> SUFFICES ASSUME IInv, NEW w \in Worker, pc[w] = "exit"
               PROVE  Len(taken) = MsgCount
    BY DEF LeavesWhenDone
  <2>1. sent = MsgCount /\ q = <<>>
    BY DEF IInv, Finishing
  <2> QED
    BY <2>1 DEF IInv, InOrder, TypeOK
<1> QED
  BY Invariance, <1>1, PTL

(* The threads implement WorkQueue: every item comes out once, in the order *)
(* in which it was put, from a queue that is never longer than max_size.    *)
THEOREM IsWorkQueue == Spec => KeepsPromise
<1>1. Init => W!Init
  BY DEF Init, W!Init
<1>2. IInv /\ [Next]_vars => [W!Next]_<<sent, taken>>
  <2> SUFFICES ASSUME IInv, [Next]_vars, ~UNCHANGED <<sent, taken>>
               PROVE  W!Next
    OBVIOUS
  <2>1. CASE Push
    <3>1. sent < MsgCount /\ Len(q) < MaxSize /\ sent' = sent + 1
          /\ taken' = taken
      BY <2>1 DEF Push, NonFull
    <3>2. sent - Len(taken) = Len(q)
      BY DEF IInv, InOrder, TypeOK
    <3> QED
      BY <3>1, <3>2 DEF W!Next, W!Put
  <2>2. ASSUME NEW w \in Worker, Pop(w) PROVE W!Next
    <3>1. q \in Seq(1..MsgCount) /\ q # <<>> /\ q[1] = Head(q)
      BY <2>2 DEF IInv, TypeOK, Pop, HasWork
    <3>2. 1 \in 1..Len(q) /\ Len(q) \in Nat
      BY <3>1, EmptySeq
    <3>3. Head(q) = Len(taken) + 1 /\ Len(taken) < sent
      BY <3>1, <3>2 DEF IInv, InOrder, TypeOK
    <3> QED
      BY <2>2, <3>3 DEF Pop, W!Next, W!Take
  <2> QED
    BY <2>1, <2>2, Steps
    DEF Start, StartFails, Join, Ended, vars, shared, data, Acquire, Spurious,
        WorkerWaits, ProducerWaits, Blocks, Break, NotifyNonfull,
        NotifyNonempty, Notifies, Finish
<1> QED
  BY Invariance, <1>1, <1>2, PTL DEF Spec, KeepsPromise, W!Spec
===============================================================================
