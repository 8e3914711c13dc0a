---------------------------- MODULE BenchRun_proofs ----------------------------
(***************************************************************************)
(* What holds of the barrier for any number of processes, and of a         *)
(* benchmark run for any number of children.                               *)
(***************************************************************************)
EXTENDS BenchRun, FiniteSetTheorems, TLAPS

-----------------------------------------------------------------------------
(* The barrier: a step moves one process, from one place to another (Goto); *)
(* the proof follows the sets At(places) and Arrived through that move.     *)

(* Only the store of the counter makes somebody arrive. *)
LEMMA ArrivedStays ==
  ASSUME TypeOK, NEW p \in Proc, NEW from, NEW to, Goto(p, from, to),
         from \in {"test", "unlock"} \cup Beyond
           <=> to \in {"test", "unlock"} \cup Beyond
  PROVE  Arrived' = Arrived
BY DEF TypeOK, Goto, Arrived

(* Its arrival makes one more. *)
LEMMA ArrivedGrows ==
  ASSUME TypeOK, NEW p \in Proc, Goto(p, "store", "test")
  PROVE  /\ Arrived' = Arrived \cup {p} /\ p \notin Arrived
         /\ IsFiniteSet(Arrived) /\ Cardinality(Arrived) \in Nat
         /\ Cardinality(Arrived') = Cardinality(Arrived) + 1
<1>1. Arrived' = Arrived \cup {p} /\ p \notin Arrived
  BY DEF TypeOK, Goto, Arrived, Beyond
<1>2. IsFiniteSet(Arrived)
  BY ProcAssumption, FS_Subset DEF Arrived
<1> QED
  BY <1>1, <1>2, FS_AddElement, FS_CardinalityType

(* When the counter says N, everybody has come. *)
LEMMA AllCounted ==
  ASSUME CountExact PROVE count = N <=> Arrived = Proc
<1>1. Arrived \subseteq Proc
  BY DEF Arrived
<1> QED
  BY <1>1, ProcAssumption, FS_Subset DEF CountExact

(* The invariant holds of a barrier fresh from barrier_init. *)
LEMMA InitInv == Init => IInv
<1> SUFFICES ASSUME Init PROVE IInv
  OBVIOUS
<1>1. Arrived = {} /\ \A places : "outside" \notin places => At(places) = {}
  BY DEF Init, Arrived, At, Beyond
<1>2. CountExact
  BY <1>1, FS_EmptySet DEF Init, CountExact
<1>3. At(Holding) = {} /\ At({"repost"}) = {} /\ At({"repost", "passed"}) = {}
  BY <1>1 DEF Holding
<1>4. Arrived # Proc
  BY <1>1, ProcAssumption
<1> QED
  BY <1>2, <1>3, <1>4 DEF Init, IInv, TypeOK, Alone, Closed, At

(* Every step keeps it. *)
LEMMA NextInv == IInv /\ [Next]_barrierVars => IInv'
<1> SUFFICES ASSUME IInv, [Next]_barrierVars PROVE IInv'
  OBVIOUS
<1>a. TypeOK /\ CountExact
  BY DEF IInv
<1> USE <1>a DEF IInv, TypeOK, Alone, Closed, Open, At
<1>1. ASSUME NEW p \in Proc, Call(p) PROVE IInv'
  <2>1. Arrived' = Arrived
    BY <1>1, ArrivedStays DEF Call, Beyond
  <2> QED
    BY <1>1, <2>1 DEF Call, Goto, Holding, Beyond, CountExact
<1>2. ASSUME NEW p \in Proc, WaitMutex(p) PROVE IInv'
  <2>1. Arrived' = Arrived
    BY <1>2, ArrivedStays DEF WaitMutex, Beyond
  <2> QED
    BY <1>2, <2>1 DEF WaitMutex, Goto, Holding, Beyond, CountExact
<1>3. ASSUME NEW p \in Proc, Load(p) PROVE IInv'
  <2>1. Arrived' = Arrived
    BY <1>3, ArrivedStays DEF Load, Beyond
  <2> QED
    BY <1>3, <2>1 DEF Load, Goto, Holding, Beyond, CountExact
<1>4. ASSUME NEW p \in Proc, Store(p) PROVE IInv'
  <2>1. /\ Arrived' = Arrived \cup {p}
        /\ Cardinality(Arrived') = Cardinality(Arrived) + 1
    BY <1>4, ArrivedGrows DEF Store
  <2>2. count' = count + 1
    BY <1>4 DEF Store, Goto
  <2>3. CountExact'
    BY <2>1, <2>2 DEF CountExact
  <2> QED
    BY <1>4, <2>1, <2>3 DEF Store, Goto, Holding, Beyond
<1>5. ASSUME NEW p \in Proc, Test(p) PROVE IInv'
  <2>1. Arrived' = Arrived
    BY <1>5, ArrivedStays DEF Test, Beyond
  <2>2. CASE Last
    <3>1. Arrived = Proc
      BY <2>2, AllCounted DEF Last
    <3> QED
      BY <1>5, <2>1, <2>2, <3>1
         DEF Test, Goto, Holding, Beyond, CountExact, Arrived
  <2>3. CASE ~Last
    <3>1. Arrived # Proc
      BY <2>3, AllCounted DEF Last
    <3> QED
      BY <1>5, <2>1, <2>3, <3>1 DEF Test, Goto, Holding, Beyond, CountExact
  <2> QED
    BY <2>2, <2>3
<1>6. ASSUME NEW p \in Proc, PostMutex(p) PROVE IInv'
  <2>1. Arrived' = Arrived
    BY <1>6, ArrivedStays DEF PostMutex, Beyond
  <2> QED
    BY <1>6, <2>1 DEF PostMutex, Goto, Holding, Beyond, CountExact
<1>7. ASSUME NEW p \in Proc, WaitGate(p) PROVE IInv'
  <2>1. Arrived' = Arrived
    BY <1>7, ArrivedStays DEF WaitGate, Beyond
  <2> QED
    BY <1>7, <2>1 DEF WaitGate, Goto, Holding, Beyond, CountExact
<1>8. ASSUME NEW p \in Proc, PostGate(p) PROVE IInv'
  <2>1. Arrived' = Arrived
    BY <1>8, ArrivedStays DEF PostGate, Beyond
  <2> QED
    BY <1>8, <2>1 DEF PostGate, Repost, Goto, Holding, Beyond, CountExact
<1>9. ASSUME NEW p \in Proc, Interrupt(p) PROVE IInv'
  <2>1. Arrived' = Arrived
    BY <1>9, ArrivedStays DEF Interrupt, Beyond
  <2> QED
    BY <1>9, <2>1 DEF Interrupt, Goto, Holding, Beyond, CountExact
<1>10. ASSUME NEW p \in Proc, Die(p) PROVE IInv'
  BY <1>10 DEF Die, CountExact, Arrived
<1>11. CASE UNCHANGED barrierVars
  BY <1>11 DEF barrierVars, CountExact, Arrived
<1> QED
  BY <1>1, <1>2, <1>3, <1>4, <1>5, <1>6, <1>7, <1>8, <1>9, <1>10, <1>11
     DEF Next, Step, AllEnded

(* IInv holds of every barrier in use, whatever the number of processes. *)
THEOREM Invariance == Spec => []IInv
BY InitInv, NextInv, PTL DEF Spec

(* No increment of b->count is lost. *)
THEOREM CountIsExact == Spec => []CountExact
<1>1. IInv => CountExact
  BY DEF IInv
<1> QED
  BY <1>1, Invariance, PTL

(* A set that holds one process at most, and one if it is not empty. *)
LEMMA OneAtMost ==
  ASSUME NEW S, \A p, q \in S : p = q
  PROVE  /\ S = {} => Cardinality(S) = 0
         /\ S # {} => Cardinality(S) = 1
<1>1. S = {} => Cardinality(S) = 0
  BY FS_EmptySet
<1>2. ASSUME S # {} PROVE Cardinality(S) = 1
  <2>1. PICK p \in S : S = {p}
    BY <1>2
  <2> QED
    BY <2>1, FS_Singleton
<1> QED
  BY <1>1, <1>2

(* Neither semaphore ever counts more than one token: no sem_post of        *)
(* barrier_wait fails, and the mutex is one.                                *)
THEOREM TokensAreKept == Spec => []TokensKept
<1>1. IInv => TokensKept
  <2> SUFFICES ASSUME IInv PROVE TokensKept
    OBVIOUS
  <2>1. mutex + Cardinality(At(Holding)) = 1
    BY OneAtMost DEF IInv, Alone
  <2>2. CASE Closed
    BY <2>1, <2>2 DEF Closed, TokensKept
  <2>3. CASE Open
    <3>1. gate + Cardinality(At({"repost"})) = 1
      BY <2>3, OneAtMost DEF IInv, Alone, Open
    <3> QED
      BY <2>1, <3>1 DEF TokensKept
  <2> QED
    BY <2>2, <2>3 DEF IInv
<1> QED
  BY <1>1, Invariance, PTL

(* barrier_wait lets nobody through before all N have come: the barrier is  *)
(* the rendezvous it is meant to be.                                        *)
THEOREM IsRendezvous == Spec => KeepsPromise
<1>1. Init => Promise!Init
  BY DEF Init, Promise!Init, Arrived, Passed, Beyond
<1>2. IInv /\ [Next]_barrierVars => [Promise!Next]_<<Arrived, Passed>>
  <2> SUFFICES ASSUME IInv, [Next]_barrierVars
               PROVE  Promise!Next \/ UNCHANGED <<Arrived, Passed>>
    OBVIOUS
  <2>a. TypeOK
    BY DEF IInv
  <2>1. ASSUME NEW p \in Proc, Store(p) PROVE Promise!Next
    <3>1. Arrived' = Arrived \cup {p} /\ p \notin Arrived
      BY <2>a, <2>1, ArrivedGrows DEF Store
    <3>2. Passed' = Passed
      BY <2>a, <2>1 DEF Store, Goto, Passed, TypeOK
    <3> QED
      BY <3>1, <3>2 DEF Promise!Next, Promise!Arrive
  <2>2. ASSUME NEW p \in Proc, PostGate(p) PROVE Promise!Next
    <3>1. Arrived' = Arrived
      BY <2>a, <2>2, ArrivedStays DEF PostGate, Beyond
    <3>2. Passed' = Passed \cup {p} /\ p \notin Passed
      BY <2>a, <2>2 DEF PostGate, Goto, Passed, TypeOK
    <3>3. Arrived = Proc
      BY <2>2 DEF PostGate, Goto, IInv, Closed, Open, At, Arrived
    <3> QED
      BY <3>1, <3>2, <3>3 DEF Promise!Next, Promise!Pass
  <2>3. ASSUME NEW p \in Proc, NEW from, NEW to, Goto(p, from, to),
               from # "store", to # "passed", from # "passed",
               from \in {"test", "unlock"} \cup Beyond
                 <=> to \in {"test", "unlock"} \cup Beyond
        PROVE  UNCHANGED <<Arrived, Passed>>
    BY <2>a, <2>3, ArrivedStays DEF Goto, Passed, TypeOK
  <2>4. ASSUME NEW p \in Proc,
               \/ Call(p) \/ WaitMutex(p) \/ Load(p) \/ Test(p)
               \/ PostMutex(p) \/ WaitGate(p) \/ Interrupt(p)
        PROVE  UNCHANGED <<Arrived, Passed>>
    BY <2>3, <2>4 DEF Call, WaitMutex, Load, Test, PostMutex, WaitGate,
                      Interrupt, Beyond
  <2>5. ASSUME NEW p \in Proc, Die(p) PROVE UNCHANGED <<Arrived, Passed>>
    BY <2>5 DEF Die, Arrived, Passed
  <2>6. CASE UNCHANGED barrierVars
    BY <2>6 DEF barrierVars, Arrived, Passed
  <2> QED
    BY <2>1, <2>2, <2>4, <2>5, <2>6 DEF Next, Step, AllEnded
<1> QED
  BY <1>1, <1>2, Invariance, PTL DEF Spec, KeepsPromise, Promise!Spec

-----------------------------------------------------------------------------
(* The run: the children take the barrier's steps (TakesBarrierSteps), so   *)
(* that its invariant holds here too; BenchIInv adds how their places agree *)
(* with the barrier, with result->lock and with what the parent has counted.*)

Merged   == {"unlock", "finished"}
OnceMerged == {"load2", "store2"} \cup Merged
Together == {"uncached", "lock", "finished"} \cup Merging
ChildrenAt(places) == {p \in Proc : child[p] \in places}

(* A child calls barrier_wait when it has measured, and measures again only *)
(* when that has returned 0.                                                *)
AtBarrier ==
  \A p \in Proc :
    /\ child[p] \in {"unborn", "unforked", "cached"} => pc[p] = "outside"
    /\ child[p] \in Together => pc[p] = "passed"

(* One child at a time is between the lock and the unlock of the result,    *)
(* and what it has loaded is the total it adds to.                          *)
MergesApart ==
  /\ lock = 1 => ChildrenAt(Merging) = {}
  /\ \A p, q \in ChildrenAt(Merging) : p = q
  /\ \A p \in Proc : /\ child[p] = "store" => loaded[p] = stats
                     /\ child[p] = "store2" => loaded[p] = nocache

(* The totals count the children that have been through their stores.       *)
StatsExact == stats = Cardinality(ChildrenAt(OnceMerged))
NocacheExact == nocache = Cardinality(ChildrenAt(Merged))

(* The parent forks the slots in order, then waits for them in order; those *)
(* it has waited for and that did not finish are in its count.              *)
Missing(states, n) == Cardinality({p \in 1..n : states[p] # "finished"})
Loops ==
  /\ parent = "setup" => i = 1 /\ ret = 0 /\ \A p \in Proc : child[p] = "unborn"
  /\ parent = "fork" =>
       i \in Proc /\ ret = 0 /\ \A p \in Proc : child[p] = "unborn" <=> p >= i
  /\ parent = "wait" =>
       /\ i \in Proc /\ ret < i
       /\ \A p \in Proc : child[p] # "unborn"
       /\ Missing(child, i - 1) <= ret
  /\ parent = "done" =>
       \/ \A p \in Proc : child[p] = "unborn"
       \/ /\ \A p \in Proc : child[p] # "unborn"
          /\ Missing(child, N) <= ret

BenchIInv ==
  /\ IInv /\ BenchTypeOK /\ AtBarrier /\ MergesApart /\ Loops
  /\ StatsExact /\ NocacheExact

-----------------------------------------------------------------------------
(* The slots are the numbers from 1 to N, and there is one. *)
LEMMA Slots == N \in Nat \ {0} /\ Proc = 1..N /\ IsFiniteSet(Proc)
BY ProcAssumption, SlotsAssumption, FS_CardinalityType, FS_EmptySet

(* The cardinality of a set of slots is a number up to N. *)
LEMMA SomeSlots ==
  ASSUME NEW S \in SUBSET Proc
  PROVE  IsFiniteSet(S) /\ Cardinality(S) \in 0..N
<1>1. Cardinality(Proc) = N
  BY ProcAssumption
<1>2. IsFiniteSet(S) /\ Cardinality(S) <= N
  BY <1>1, Slots, FS_Subset
<1> QED
  BY <1>2, Slots, FS_CardinalityType

(* To the barrier, a step of the run is a step of a process or none. *)
LEMMA TakesBarrierSteps == [BenchNext]_vars => [Next]_barrierVars
<1> SUFFICES ASSUME [BenchNext]_vars, ~UNCHANGED barrierVars PROVE Next
  OBVIOUS
<1>1. ASSUME Setup \/ Fork \/ Wait \/ WaitFails PROVE FALSE
  BY <1>1 DEF Setup, Fork, Wait, WaitFails
<1>2. ASSUME NEW p \in Proc,
             \/ MeetReturns(p) \/ MeasureUncached(p) \/ MeasureFails(p)
             \/ LockResult(p) \/ MergeLoad(p) \/ MergeStore(p)
             \/ UnlockResult(p)
      PROVE  FALSE
  BY <1>2 DEF MeetReturns, MeasureUncached, MeasureFails, LockResult,
              MergeLoad, MergeStore, UnlockResult
<1>3. ASSUME NEW p \in Proc, MeasureCached(p) \/ Meet(p) PROVE Next
  BY <1>3 DEF MeasureCached, Meet, Next
<1>4. ASSUME NEW p \in Proc, InterruptChild(p) \/ Kill(p) PROVE Next
  BY <1>4 DEF InterruptChild, Kill, Next
<1>5. ~UNCHANGED vars
  BY DEF vars
<1> QED
  BY <1>1, <1>2, <1>3, <1>4, <1>5 DEF BenchNext, ChildStep, Done

(* So what holds of every barrier holds of this one. *)
LEMMA BarrierHolds == IInv /\ [BenchNext]_vars => IInv'
BY TakesBarrierSteps, NextInv

-----------------------------------------------------------------------------
(* Where a child is agrees with where it is in barrier_wait. *)
LEMMA AtBarrierStep ==
  ASSUME BenchIInv, [BenchNext]_vars PROVE AtBarrier'
<1> USE DEF BenchIInv, AtBarrier, Together, Merging, BenchTypeOK, TypeOK
<1>1. CASE Setup \/ Wait \/ WaitFails
  BY <1>1 DEF Setup, Wait, WaitFails, barrierVars
<1>2. CASE Fork
  BY <1>2 DEF Fork, barrierVars, NextSlot, Loops
<1>3. ASSUME NEW p \in Proc, MeasureCached(p) PROVE AtBarrier'
  BY <1>3 DEF MeasureCached, Becomes, Call, Goto
<1>4. ASSUME NEW p \in Proc, Meet(p) PROVE AtBarrier'
  BY <1>4 DEF Meet, benchVars, Step, Goto, WaitMutex, Load, Store, Test,
              PostMutex, WaitGate, PostGate
<1>5. ASSUME NEW p \in Proc,
             \/ MeetReturns(p) \/ MeasureUncached(p) \/ MeasureFails(p)
             \/ LockResult(p) \/ MergeLoad(p) \/ MergeStore(p)
             \/ UnlockResult(p)
      PROVE  AtBarrier'
  BY <1>5 DEF MeetReturns, MeasureUncached, MeasureFails, LockResult,
              MergeLoad, MergeStore, UnlockResult, Becomes, barrierVars
<1>6. ASSUME NEW p \in Proc, InterruptChild(p) \/ Kill(p) PROVE AtBarrier'
  BY <1>6 DEF InterruptChild, Kill, Becomes, Interrupt, Goto, Die, benchVars,
              barrierVars
<1>7. CASE UNCHANGED vars
  BY <1>7 DEF vars, benchVars, barrierVars
<1> QED
  BY <1>1, <1>2, <1>3, <1>4, <1>5, <1>6, <1>7 DEF BenchNext, ChildStep, Done

(* Children merge one at a time. *)
LEMMA MergesApartStep ==
  ASSUME BenchIInv, [BenchNext]_vars PROVE MergesApart'
<1> USE DEF BenchIInv, MergesApart, ChildrenAt, Merging, BenchTypeOK, totals
<1>1. CASE Setup \/ Wait \/ WaitFails
  BY <1>1 DEF Setup, Wait, WaitFails
<1>2. CASE Fork
  BY <1>2 DEF Fork, NextSlot
<1>3. ASSUME NEW p \in Proc,
             \/ MeasureCached(p) \/ Meet(p) \/ MeetReturns(p)
             \/ MeasureUncached(p) \/ MeasureFails(p)
      PROVE  MergesApart'
  BY <1>3 DEF MeasureCached, Meet, MeetReturns, MeasureUncached, MeasureFails,
              Becomes, benchVars
<1>4. ASSUME NEW p \in Proc, LockResult(p) PROVE MergesApart'
  BY <1>4 DEF LockResult, Becomes
<1>5. ASSUME NEW p \in Proc, MergeLoad(p) \/ MergeStore(p) PROVE MergesApart'
  BY <1>5 DEF MergeLoad, MergeStore, Becomes
<1>6. ASSUME NEW p \in Proc, UnlockResult(p) PROVE MergesApart'
  BY <1>6 DEF UnlockResult, Becomes
<1>7. ASSUME NEW p \in Proc, InterruptChild(p) \/ Kill(p) PROVE MergesApart'
  BY <1>7 DEF InterruptChild, Kill, Becomes, benchVars
<1>8. CASE UNCHANGED vars
  BY <1>8 DEF vars, benchVars
<1> QED
  BY <1>1, <1>2, <1>3, <1>4, <1>5, <1>6, <1>7, <1>8
     DEF BenchNext, ChildStep, Done

(* result->stats grows when somebody stores it, by the one who does. *)
LEMMA StatsExactStep ==
  ASSUME BenchIInv, [BenchNext]_vars PROVE StatsExact'
<1> DEFINE Ms == ChildrenAt(OnceMerged)
           Stores(p) == MergeStore(p) /\ child[p] = "store"
<1> USE DEF BenchIInv, BenchTypeOK, Merging
<1>0. stats = Cardinality(Ms)
  BY DEF StatsExact
<1>1. ASSUME NEW p \in Proc, Stores(p) PROVE StatsExact'
  <2>1. Ms' = Ms \cup {p} /\ p \notin Ms
    BY <1>1 DEF MergeStore, Becomes, ChildrenAt, OnceMerged, Merged
  <2>2. Cardinality(Ms') = Cardinality(Ms) + 1
    BY <2>1, SomeSlots, FS_AddElement DEF ChildrenAt
  <2>3. stats' = stats + 1
    BY <1>1 DEF MergeStore, Becomes, MergesApart
  <2> QED
    BY <1>0, <2>2, <2>3 DEF StatsExact
<1>2. ASSUME UNCHANGED stats, Ms' = Ms PROVE StatsExact'
  BY <1>0, <1>2 DEF StatsExact
<1> USE DEF ChildrenAt, OnceMerged, Merged
<1>3. ASSUME Setup \/ Wait \/ WaitFails PROVE UNCHANGED stats /\ Ms' = Ms
  BY <1>3 DEF Setup, Wait, WaitFails, totals
<1>4. ASSUME Fork PROVE UNCHANGED stats /\ Ms' = Ms
  BY <1>4 DEF Fork, NextSlot, Loops, totals
<1>5. ASSUME NEW p \in Proc,
             \/ MeasureCached(p) \/ Meet(p) \/ MeetReturns(p)
             \/ MeasureUncached(p) \/ MeasureFails(p) \/ LockResult(p)
             \/ MergeLoad(p) \/ UnlockResult(p)
      PROVE  UNCHANGED stats /\ Ms' = Ms
  BY <1>5 DEF MeasureCached, Meet, MeetReturns, MeasureUncached, MeasureFails,
              LockResult, MergeLoad, UnlockResult, Becomes, benchVars, totals
<1>6. ASSUME NEW p \in Proc, MergeStore(p), ~Stores(p)
      PROVE  UNCHANGED stats /\ Ms' = Ms
  BY <1>6 DEF MergeStore, Becomes
<1>7. ASSUME NEW p \in Proc, InterruptChild(p) \/ Kill(p)
      PROVE  UNCHANGED stats /\ Ms' = Ms
  BY <1>7 DEF InterruptChild, Kill, Becomes, benchVars, totals
<1>8. ASSUME UNCHANGED vars PROVE UNCHANGED stats /\ Ms' = Ms
  BY <1>8 DEF vars, benchVars, totals
<1> HIDE DEF Ms, Stores, StatsExact
<1> QED
  BY <1>1, <1>2, <1>3, <1>4, <1>5, <1>6, <1>7, <1>8
     DEF BenchNext, ChildStep, Done

(* So does result->nocache_stats. *)
LEMMA NocacheExactStep ==
  ASSUME BenchIInv, [BenchNext]_vars PROVE NocacheExact'
<1> DEFINE Ms == ChildrenAt(Merged)
           Stores(p) == MergeStore(p) /\ child[p] = "store2"
<1> USE DEF BenchIInv, BenchTypeOK, Merging
<1>0. nocache = Cardinality(Ms)
  BY DEF NocacheExact
<1>1. ASSUME NEW p \in Proc, Stores(p) PROVE NocacheExact'
  <2>1. Ms' = Ms \cup {p} /\ p \notin Ms
    BY <1>1 DEF MergeStore, Becomes, ChildrenAt, Merged
  <2>2. Cardinality(Ms') = Cardinality(Ms) + 1
    BY <2>1, SomeSlots, FS_AddElement DEF ChildrenAt
  <2>3. nocache' = nocache + 1
    BY <1>1 DEF MergeStore, Becomes, MergesApart
  <2> QED
    BY <1>0, <2>2, <2>3 DEF NocacheExact
<1>2. ASSUME UNCHANGED nocache, Ms' = Ms PROVE NocacheExact'
  BY <1>0, <1>2 DEF NocacheExact
<1> USE DEF ChildrenAt, Merged
<1>3. ASSUME Setup \/ Wait \/ WaitFails PROVE UNCHANGED nocache /\ Ms' = Ms
  BY <1>3 DEF Setup, Wait, WaitFails, totals
<1>4. ASSUME Fork PROVE UNCHANGED nocache /\ Ms' = Ms
  BY <1>4 DEF Fork, NextSlot, Loops, totals
<1>5. ASSUME NEW p \in Proc,
             \/ MeasureCached(p) \/ Meet(p) \/ MeetReturns(p)
             \/ MeasureUncached(p) \/ MeasureFails(p) \/ LockResult(p)
             \/ MergeLoad(p) \/ UnlockResult(p)
      PROVE  UNCHANGED nocache /\ Ms' = Ms
  BY <1>5 DEF MeasureCached, Meet, MeetReturns, MeasureUncached, MeasureFails,
              LockResult, MergeLoad, UnlockResult, Becomes, benchVars, totals
<1>6. ASSUME NEW p \in Proc, MergeStore(p), ~Stores(p)
      PROVE  UNCHANGED nocache /\ Ms' = Ms
  BY <1>6 DEF MergeStore, Becomes
<1>7. ASSUME NEW p \in Proc, InterruptChild(p) \/ Kill(p)
      PROVE  UNCHANGED nocache /\ Ms' = Ms
  BY <1>7 DEF InterruptChild, Kill, Becomes, benchVars, totals
<1>8. ASSUME UNCHANGED vars PROVE UNCHANGED nocache /\ Ms' = Ms
  BY <1>8 DEF vars, benchVars, totals
<1> HIDE DEF Ms, Stores, NocacheExact
<1> QED
  BY <1>1, <1>2, <1>3, <1>4, <1>5, <1>6, <1>7, <1>8
     DEF BenchNext, ChildStep, Done

(* They are never more than one apart, as children merge one at a time.     *)
LEMMA TotalsTogether ==
  ASSUME BenchIInv PROVE NoMergeLost
<1> DEFINE A == ChildrenAt(OnceMerged)
           B == ChildrenAt(Merged)
<1>1. B \in SUBSET Proc /\ A \in SUBSET Proc
  BY DEF ChildrenAt
<1>2. /\ IsFiniteSet(B) /\ Cardinality(B) \in 0..N
      /\ Cardinality(A) \in 0..N
  BY <1>1, SomeSlots
<1>3. stats = Cardinality(A) /\ nocache = Cardinality(B)
  BY DEF BenchIInv, StatsExact, NocacheExact
<1>4. stats - nocache \in {0, 1}
  <2>1. CASE A = B
    BY <1>2, <1>3, <2>1, Slots
  <2>2. CASE A # B
    <3>1. PICK p \in A : p \notin B
      BY <2>2 DEF ChildrenAt, OnceMerged
    <3>2. A = B \cup {p}
      BY <3>1
         DEF BenchIInv, MergesApart, ChildrenAt, OnceMerged, Merged, Merging
    <3>3. Cardinality(A) = Cardinality(B) + 1
      BY <1>2, <3>1, <3>2, FS_AddElement
    <3> QED
      BY <1>2, <1>3, <3>3, Slots
  <2> QED
    BY <2>1, <2>2
<1> QED
  BY <1>3, <1>4 DEF NoMergeLost, ChildrenAt, OnceMerged, Merged

-----------------------------------------------------------------------------
(* A step of a child does not make it unborn, nor unborn ones born, and     *)
(* never ends what has finished.                                            *)
LEMMA ChildMoves ==
  ASSUME BenchTypeOK, NEW p \in Proc,
         ChildStep(p) \/ InterruptChild(p) \/ Kill(p)
  PROVE  /\ UNCHANGED <<parent, i, ret>>
         /\ child' \in [Proc -> {"unborn", "unforked", "cached", "meeting",
                         "uncached", "lock", "finished", "failed"}
                           \cup Merging]
         /\ \A q \in Proc : /\ child'[q] = "unborn" <=> child[q] = "unborn"
                            /\ child[q] = "finished" => child'[q] = "finished"
BY DEF BenchTypeOK, ChildStep, MeasureCached, Meet, MeetReturns,
   MeasureUncached, MeasureFails, LockResult, MergeLoad, MergeStore,
   UnlockResult, InterruptChild, Kill, Becomes, benchVars, Merging

(* How many are missing of the first n, of the first n + 1 and of none.     *)
LEMMA MissingNumber ==
  ASSUME NEW states, NEW n \in Nat
  PROVE  /\ Missing(states, n) \in Nat /\ Missing(states, 0) = 0
         /\ Missing(states, n + 1) =
              IF states[n + 1] = "finished" THEN Missing(states, n)
                                            ELSE Missing(states, n) + 1
<1> DEFINE S(k) == {p \in 1..k : states[p] # "finished"}
<1>1. IsFiniteSet(S(n)) /\ Cardinality(S(n)) \in Nat
  <2>1. S(n) \in SUBSET (1..n) /\ IsFiniteSet(1..n)
    BY FS_Interval
  <2> HIDE DEF S
  <2> QED
    BY <2>1, FS_Subset, FS_CardinalityType
<1>2. S(0) = {}
  OBVIOUS
<1>3. CASE states[n + 1] = "finished"
  <2>1. S(n + 1) = S(n)
    BY <1>3
  <2> QED
    BY <1>1, <1>2, <1>3, <2>1, FS_EmptySet DEF Missing
<1>4. CASE states[n + 1] # "finished"
  <2>1. S(n + 1) = S(n) \cup {n + 1} /\ n + 1 \notin S(n)
    BY <1>4
  <2>2. Cardinality(S(n + 1)) = Cardinality(S(n)) + 1
    BY <1>1, <2>1, FS_AddElement
  <2> QED
    BY <1>1, <1>2, <1>4, <2>2, FS_EmptySet DEF Missing
<1> QED
  BY <1>3, <1>4

(* Nobody is missing who was not, when what has finished stays so.          *)
LEMMA MissingShrinks ==
  ASSUME NEW before, NEW after, NEW n \in Nat,
         \A p \in 1..n : before[p] = "finished" => after[p] = "finished"
  PROVE  Missing(after, n) <= Missing(before, n)
<1> DEFINE S(states) == {p \in 1..n : states[p] # "finished"}
<1>1. S(after) \in SUBSET S(before) /\ S(before) \in SUBSET (1..n)
  OBVIOUS
<1>2. IsFiniteSet(S(before))
  BY <1>1, FS_Interval, FS_Subset
<1> HIDE DEF S
<1>3. Cardinality(S(after)) <= Cardinality(S(before))
  BY <1>1, <1>2, FS_Subset
<1> QED
  BY <1>3 DEF S, Missing

(* Waiting for one more: it counts if it is missed.                         *)
LEMMA OneMore ==
  ASSUME BenchIInv, Wait \/ WaitFails
  PROVE  /\ ret' \in Nat /\ ret' <= i /\ Missing(child', i) <= ret'
<1>1. /\ i \in 1..N /\ ret < i /\ ret \in Nat
      /\ Missing(child, i - 1) <= ret /\ UNCHANGED child
  BY Slots DEF BenchIInv, Loops, BenchTypeOK, Wait, WaitFails, NextSlot
<1>2. ret' = ret \/ ret' = ret + 1
  BY DEF Wait, WaitFails
<1>3. ret' = ret => child[i] = "finished"
  BY <1>1 DEF Wait, WaitFails, Counts, Ended
<1>4. i - 1 \in Nat /\ i - 1 + 1 = i
  BY <1>1, Slots
<1>5. /\ Missing(child, i - 1) \in Nat
      /\ Missing(child, i) = IF child[i] = "finished"
                               THEN Missing(child, i - 1)
                               ELSE Missing(child, i - 1) + 1
  BY <1>4, MissingNumber
<1> QED
  BY <1>1, <1>2, <1>3, <1>5

(* The parent's loops go from slot to slot. *)
LEMMA LoopsStep ==
  ASSUME BenchIInv, [BenchNext]_vars PROVE Loops' /\ ret' \in 0..N
<1>a. BenchTypeOK /\ Loops /\ N \in Nat \ {0} /\ Proc = 1..N
  BY Slots DEF BenchIInv
<1>1. CASE Setup
  BY <1>a, <1>1 DEF Setup, Loops, BenchTypeOK
<1>2. CASE Fork
  <2>1. /\ i \in 1..N /\ ret = 0 /\ ret' = 0
        /\ \A p \in Proc : child[p] = "unborn" <=> p >= i
    BY <1>a, <1>2 DEF Fork, NextSlot, Loops
  <2>2. \A p \in Proc : child'[p] = "unborn" <=> p >= i + 1
    BY <1>a, <1>2, <2>1 DEF Fork, BenchTypeOK
  <2>3. CASE i < N
    BY <1>a, <1>2, <2>1, <2>2, <2>3 DEF Fork, NextSlot, Loops
  <2>4. CASE i = N
    <3>1. i' = 1 /\ parent' = "wait" /\ \A p \in Proc : child'[p] # "unborn"
      BY <1>a, <1>2, <2>2, <2>4 DEF Fork, NextSlot
    <3>2. Missing(child', i' - 1) = 0
      BY <3>1, MissingNumber
    <3> QED
      BY <1>a, <2>1, <3>1, <3>2 DEF Loops
  <2> QED
    BY <1>a, <2>1, <2>3, <2>4
<1>3. CASE Wait \/ WaitFails
  <2>1. ret' \in Nat /\ ret' <= i /\ Missing(child', i) <= ret'
    BY <1>3, OneMore
  <2>2. i \in 1..N /\ \A p \in Proc : child'[p] # "unborn"
    BY <1>a, <1>3 DEF Loops, Wait, WaitFails, NextSlot
  <2>3. CASE i < N
    <3>1. i' = i + 1 /\ parent' = "wait" /\ i' - 1 = i
      BY <1>3, <2>2, <2>3 DEF Wait, WaitFails, NextSlot
    <3> QED
      BY <1>a, <2>1, <2>2, <3>1, <2>3 DEF Loops
  <2>4. CASE i = N
    <3>1. i' = 1 /\ parent' = "done"
      BY <1>a, <1>3, <2>4 DEF Wait, WaitFails, NextSlot
    <3> QED
      BY <1>a, <2>1, <2>2, <2>4, <3>1 DEF Loops
  <2> QED
    BY <1>a, <2>2, <2>3, <2>4
<1>4. ASSUME NEW p \in Proc, ChildStep(p) \/ InterruptChild(p) \/ Kill(p)
      PROVE  Loops' /\ ret' \in 0..N
  <2>1. /\ UNCHANGED <<parent, i, ret>>
        /\ \A q \in Proc : /\ child'[q] = "unborn" <=> child[q] = "unborn"
                           /\ child[q] = "finished" => child'[q] = "finished"
    BY <1>a, <1>4, ChildMoves
  <2>2. ASSUME NEW n \in 0..N
        PROVE  /\ Missing(child', n) <= Missing(child, n)
               /\ Missing(child', n) \in Nat /\ Missing(child, n) \in Nat
    BY <1>a, <2>1, MissingNumber, MissingShrinks
  <2>3. ret \in 0..N /\ (i \in Proc => i - 1 \in 0..N) /\ N \in 0..N
    BY <1>a DEF BenchTypeOK
  <2>4. /\ i \in Proc /\ Missing(child, i - 1) <= ret =>
             Missing(child', i - 1) <= ret
        /\ Missing(child, N) <= ret => Missing(child', N) <= ret
    BY <2>2, <2>3
  <2> QED
    BY <1>a, <2>1, <2>3, <2>4 DEF Loops
<1>5. CASE UNCHANGED vars
  BY <1>a, <1>5 DEF vars, benchVars, Loops, BenchTypeOK
<1> QED
  BY <1>1, <1>2, <1>3, <1>4, <1>5 DEF BenchNext, Done

(* Types, among them that the lock is a mutex and the total a count.        *)
LEMMA BenchTypeOKStep ==
  ASSUME BenchIInv, [BenchNext]_vars PROVE BenchTypeOK'
<1>a. BenchTypeOK /\ MergesApart /\ Loops /\ N \in Nat \ {0} /\ Proc = 1..N
  BY Slots DEF BenchIInv
<1>b. TypeOK' /\ ret' \in 0..N
  BY BarrierHolds, LoopsStep DEF BenchIInv, IInv
<1>c. stats' \in 0..N /\ nocache' \in 0..N
  BY StatsExactStep, NocacheExactStep, SomeSlots
     DEF StatsExact, NocacheExact, ChildrenAt
<1> USE <1>a, <1>b, <1>c DEF BenchTypeOK, totals
<1>1. CASE Setup
  BY <1>1 DEF Setup
<1>2. CASE Fork
  <2>1. child' \in [Proc -> {"unborn", "unforked", "cached", "meeting",
                      "uncached", "lock", "finished", "failed"}
                        \cup Merging]
    BY <1>2 DEF Fork
  <2>2. parent' \in {"fork", "wait"} /\ i' \in 1..N + 1
    BY <1>2 DEF Fork, NextSlot
  <2> QED
    BY <1>2, <2>1, <2>2 DEF Fork
<1>3. CASE Wait \/ WaitFails
  BY <1>3 DEF Wait, WaitFails, NextSlot
<1>4. ASSUME NEW p \in Proc, ChildStep(p) \/ InterruptChild(p) \/ Kill(p)
      PROVE  BenchTypeOK'
  <2>1. /\ UNCHANGED <<parent, i, ret>>
        /\ child' \in [Proc -> {"unborn", "unforked", "cached", "meeting",
                         "uncached", "lock", "finished", "failed"}
                           \cup Merging]
    BY <1>4, ChildMoves
  <2>2. lock' \in {0, 1} /\ loaded' \in [Proc -> 0..N]
    <3>1. CASE UnlockResult(p)
      BY <3>1 DEF UnlockResult, Becomes, MergesApart, ChildrenAt, Merging
    <3>2. CASE LockResult(p) \/ MergeLoad(p) \/ MergeStore(p)
      BY <3>2 DEF LockResult, MergeLoad, MergeStore
    <3>3. CASE \/ MeasureCached(p) \/ Meet(p) \/ MeetReturns(p)
               \/ MeasureUncached(p) \/ MeasureFails(p)
               \/ InterruptChild(p) \/ Kill(p)
      BY <3>3 DEF MeasureCached, Meet, MeetReturns, MeasureUncached,
                  MeasureFails, InterruptChild, Kill, benchVars
    <3> QED
      BY <1>4, <3>1, <3>2, <3>3 DEF ChildStep
  <2> QED
    BY <2>1, <2>2
<1>5. CASE UNCHANGED vars
  BY <1>5 DEF vars, benchVars
<1> QED
  BY <1>1, <1>2, <1>3, <1>4, <1>5 DEF BenchNext, Done

(* Before the run nothing has been forked, measured or counted. *)
LEMMA BenchInitInv == BenchInit => BenchIInv
<1> SUFFICES ASSUME BenchInit PROVE BenchIInv
  OBVIOUS
<1>1. IInv
  BY InitInv DEF BenchInit
<1>2. BenchTypeOK
  BY <1>1, Slots DEF BenchInit, BenchTypeOK, IInv
<1>3. StatsExact /\ NocacheExact
  <2>1. ChildrenAt(OnceMerged) = {} /\ ChildrenAt(Merged) = {}
    BY DEF BenchInit, ChildrenAt, OnceMerged, Merged
  <2> QED
    BY <2>1, FS_EmptySet DEF BenchInit, StatsExact, NocacheExact
<1>4. AtBarrier /\ MergesApart /\ Loops
  BY DEF BenchInit, Init, AtBarrier, MergesApart, Loops, Together, Merging,
         ChildrenAt
<1> QED
  BY <1>1, <1>2, <1>3, <1>4 DEF BenchIInv

(* Every step of the run keeps the invariant. *)
LEMMA BenchNextInv == BenchIInv /\ [BenchNext]_vars => BenchIInv'
BY BarrierHolds, BenchTypeOKStep, AtBarrierStep, MergesApartStep,
   StatsExactStep, NocacheExactStep, LoopsStep DEF BenchIInv

(* What the parts of the invariant add up to. *)
LEMMA BenchIInvMeans ==
  ASSUME BenchIInv
  PROVE  BenchTypeOK /\ PhasesApart /\ NoMergeLost /\ FailuresCounted
<1>1. PhasesApart
  <2> SUFFICES ASSUME NEW p \in Proc, NEW q \in Proc, child[p] \in Together
               PROVE  pc[q] # "outside"
    BY DEF PhasesApart, BenchIInv, AtBarrier, Together, Merging
  <2>1. pc[p] = "passed"
    BY DEF BenchIInv, AtBarrier
  <2>2. At({"unlock"} \cup Beyond) = Proc
    BY <2>1 DEF BenchIInv, IInv, Closed, Open, At
  <2> QED
    BY <2>2 DEF At, Beyond
<1>2. FailuresCounted
  BY Slots DEF BenchIInv, Loops, FailuresCounted, Missing
<1> QED
  BY <1>1, <1>2, TotalsTogether DEF BenchIInv

-----------------------------------------------------------------------------
(* BenchIInv holds of a run with any number of children. *)
THEOREM BenchInvariance == BenchSpec => []BenchIInv
BY BenchInitInv, BenchNextInv, PTL DEF BenchSpec

(* result->lock is a mutex, and the totals stay within the children. *)
THEOREM BenchTypeCorrect == BenchSpec => []BenchTypeOK
BY BenchIInvMeans, BenchInvariance, PTL

(* No child measures uncached while another measures cached ones or has yet *)
(* to be forked (bench_inode_cache, after its barrier_wait).                *)
THEOREM PhasesAreApart == BenchSpec => []PhasesApart
BY BenchIInvMeans, BenchInvariance, PTL

(* bench_stats_merge loses no child's numbers, whoever is killed where, and *)
(* the two totals are never more than one child apart.                      *)
THEOREM MergesAreKept == BenchSpec => []NoMergeLost
BY BenchIInvMeans, BenchInvariance, PTL

(* run_bench counts every child that did not come to its end.               *)
THEOREM FailuresAreCounted == BenchSpec => []FailuresCounted
BY BenchIInvMeans, BenchInvariance, PTL
===============================================================================
