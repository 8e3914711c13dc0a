------------------------------- MODULE BenchRun -------------------------------
(***************************************************************************)
(* A run of c/bench_inodecache.c: run_bench forks N children, each measures*)
(* cached lookups, meets the others at the barrier of the shared result,   *)
(* measures uncached ones and merges its numbers into the shared totals    *)
(* under result->lock; the parent waits for the children one by one.  The  *)
(* barrier is the one of module Barrier, of which a child takes the steps. *)
(***************************************************************************)
EXTENDS Barrier

(* N is nproc, and a process is its slot of children[]. *)
ASSUME SlotsAssumption == Proc = 1..N

VARIABLES
  parent,    \* where run_bench is
  i,         \* its loop variable
  ret,       \* its return value: how many children failed
  child,     \* child[p]: where the child in slot p is
  lock,      \* result->lock, a semaphore
  stats,     \* children merged into result->stats
  nocache,   \* children merged into result->nocache_stats
  loaded     \* loaded[p]: the total p is adding to

totals    == <<stats, nocache>>
benchVars == <<parent, i, ret, child, lock, totals, loaded>>
vars      == <<benchVars, barrierVars>>

(* load and store are of the first merge, load2 and store2 of the second.   *)
Merging == {"load", "store", "load2", "store2", "unlock"}

(* result->lock is a mutex, and totals and counts stay within the children. *)
BenchTypeOK ==
  /\ parent \in {"setup", "fork", "wait", "done"}
  /\ i \in 1..N + 1
  /\ ret \in 0..N
  /\ child \in [Proc -> {"unborn", "unforked", "cached", "meeting", "uncached",
                         "lock", "finished", "failed"} \cup Merging]
  /\ lock \in {0, 1}
  /\ stats \in 0..N /\ nocache \in 0..N
  /\ loaded \in [Proc -> 0..N]
  /\ TypeOK

BenchInit ==
  /\ parent = "setup" /\ i = 1 /\ ret = 0
  /\ child = [p \in Proc |-> "unborn"]
  /\ lock = 1 /\ stats = 0 /\ nocache = 0
  /\ loaded = [p \in Proc |-> 0]
  /\ Init

-----------------------------------------------------------------------------
(* The parent *)

(* Memory, the shared result, the cache and its entry; when one of them is  *)
(* not to be had, run_bench ends without a child.  It returns ENOMEM (here  *)
(* 1) for the first and, its `err` being nobody's, 0 for the others.        *)
Setup ==
  /\ parent = "setup"
  /\ \/ parent' = "fork" /\ UNCHANGED ret
     \/ parent' = "done" /\ ret' \in {0, 1}
  /\ UNCHANGED <<i, child, lock, totals, loaded, barrierVars>>

(* Both of run_bench's loops go through the slots in order. *)
NextSlot(here, there) ==
  /\ parent = here
  /\ IF i < N THEN i' = i + 1 /\ UNCHANGED parent
              ELSE i' = 1 /\ parent' = there

Fork ==
  /\ NextSlot("fork", "wait")
  /\ \E how \in {"cached", "unforked"} : child' = [child EXCEPT ![i] = how]
  /\ UNCHANGED <<ret, lock, totals, loaded, barrierVars>>

Ended(p) == p \in dead \/ child[p] \in {"finished", "failed"}

(* A slot without a child, a child that was killed and one that returned    *)
(* an error each count.                                                     *)
CountsFault(p) == child[p] = "failed"
Counts(p) == p \in dead \/ child[p] \in {"unforked", "failed"}
Wait ==
  /\ NextSlot("wait", "done")
  /\ child[i] = "unforked" \/ Ended(i)
  /\ ret' = IF Counts(i) THEN ret + 1 ELSE ret
  /\ UNCHANGED <<child, lock, totals, loaded, barrierVars>>

(* waitpid itself fails: the child counts, and nobody waits for it.         *)
WaitFails ==
  /\ NextSlot("wait", "done")
  /\ child[i] # "unforked"
  /\ ret' = ret + 1
  /\ UNCHANGED <<child, lock, totals, loaded, barrierVars>>

-----------------------------------------------------------------------------
(* The children *)

Alive(p) == p \notin dead
Becomes(p, from, to) ==
  /\ Alive(p) /\ child[p] = from
  /\ child' = [child EXCEPT ![p] = to]
  /\ UNCHANGED <<parent, i, ret>>

(* inode_cache_get as often as asked for, then barrier_wait. *)
MeasureCachedFault(p) ==
  /\ Becomes(p, "cached", "uncached")
  /\ UNCHANGED <<lock, totals, loaded, barrierVars>>
MeasureCached(p) ==
  /\ Becomes(p, "cached", "meeting") /\ Call(p)
  /\ UNCHANGED <<lock, totals, loaded>>

Meet(p) ==
  /\ child[p] = "meeting" /\ Step(p)
  /\ UNCHANGED benchVars

MeetReturns(p) ==
  /\ \/ pc[p] = "passed" /\ Becomes(p, "meeting", "uncached")
     \/ pc[p] \in {"left", "refused"} /\ Becomes(p, "meeting", "failed")
  /\ UNCHANGED <<lock, totals, loaded, barrierVars>>

(* get_gcc_triplet as often. *)
MeasureUncached(p) ==
  /\ Becomes(p, "uncached", "lock")
  /\ UNCHANGED <<lock, totals, loaded, barrierVars>>

(* A lookup or the compiler fails, or gives another triplet. *)
MeasureFails(p) ==
  /\ Becomes(p, "cached", "failed") \/ Becomes(p, "uncached", "failed")
  /\ UNCHANGED <<lock, totals, loaded, barrierVars>>

LockResultFault(p) ==
  /\ Becomes(p, "lock", "load")
  /\ lock' = lock - 1
  /\ UNCHANGED <<totals, loaded, barrierVars>>
LockResult(p) ==
  /\ Becomes(p, "lock", "load")
  /\ lock > 0 /\ lock' = lock - 1
  /\ UNCHANGED <<totals, loaded, barrierVars>>

(* bench_stats_merge reads the totals and writes them: first those of the   *)
(* cached measurements, then those of the others.                           *)
MergeLoad(p) ==
  /\ \/ Becomes(p, "load", "store")
        /\ loaded' = [loaded EXCEPT ![p] = stats]
     \/ Becomes(p, "load2", "store2")
        /\ loaded' = [loaded EXCEPT ![p] = nocache]
  /\ UNCHANGED <<lock, totals, barrierVars>>
MergeStore(p) ==
  /\ \/ Becomes(p, "store", "load2")
        /\ stats' = loaded[p] + 1 /\ UNCHANGED nocache
     \/ Becomes(p, "store2", "unlock")
        /\ nocache' = loaded[p] + 1 /\ UNCHANGED stats
  /\ UNCHANGED <<lock, loaded, barrierVars>>

UnlockResult(p) ==
  /\ Becomes(p, "unlock", "finished")
  /\ lock' = lock + 1
  /\ UNCHANGED <<totals, loaded, barrierVars>>

ChildStep(p) ==
  \/ MeasureCached(p) \/ Meet(p) \/ MeetReturns(p)
  \/ MeasureUncached(p) \/ MeasureFails(p)
  \/ LockResult(p) \/ MergeLoad(p) \/ MergeStore(p) \/ UnlockResult(p)

(* A sem_wait fails, of the barrier's or of result->lock.                   *)
InterruptChild(p) ==
  \/ /\ child[p] = "meeting" /\ Interrupt(p)
     /\ UNCHANGED benchVars
  \/ /\ Becomes(p, "lock", "failed")
     /\ UNCHANGED <<lock, totals, loaded, barrierVars>>

Kill(p) ==
  /\ child[p] \notin {"unborn", "unforked"} /\ ~Ended(p)
  /\ Die(p)
  /\ UNCHANGED benchVars

Done == parent = "done" /\ UNCHANGED vars

BenchNext ==
  \/ Setup \/ Fork \/ Wait \/ WaitFails
  \/ \E p \in Proc : ChildStep(p) \/ InterruptChild(p) \/ Kill(p)
  \/ Done

(* Parent and children keep running; the parent's waitpid and the           *)
(* children's sem_wait are the only places where one waits for another.     *)
(* result->lock is taken once by each child, so weak fairness is enough.    *)
BenchSpec ==
  /\ BenchInit /\ [][BenchNext]_vars
  /\ WF_vars(Setup \/ Fork \/ Wait)
  /\ \A p \in Proc : WF_vars(ChildStep(p))

-----------------------------------------------------------------------------
(* The uncached measurement of one child never overlaps the cached one of   *)
(* another, nor a fork still to come: that is what the barrier is for.      *)
PhasesApart ==
  \A p, q \in Proc :
    child[p] \in {"uncached", "lock", "finished"} \cup Merging
      => child[q] \notin {"unborn", "unforked", "cached"}

(* No merge is lost, whatever the children do at the same time and wherever *)
(* one of them is killed: each total counts those that came to its store.   *)
(* A child that stops between its two merges leaves the totals one apart,   *)
(* and no more, as it keeps the lock.                                       *)
NoMergeLost ==
  /\ stats = Cardinality({p \in Proc : child[p] \in
                            {"load2", "store2", "unlock", "finished"}})
  /\ nocache = Cardinality({p \in Proc : child[p] \in {"unlock", "finished"}})
  /\ stats - nocache \in {0, 1}

(* When run_bench has been through all the children, it has counted every   *)
(* one that did not come to the end: it returns 0 only if each has merged   *)
(* its numbers.                                                             *)
FailuresCounted ==
  parent = "done" /\ child[N] # "unborn" =>
    ret >= Cardinality({p \in Proc : child[p] # "finished"})

(* A child is lost to the others: never forked, failed or interrupted       *)
(* before all had met, or killed where they still need it.                  *)
Lost(p) ==
  \/ p \in dead /\ child[p] \notin {"uncached", "lock"}
  \/ child[p] = "unforked"
  \/ child[p] = "failed" /\ pc[p] # "passed"

-----------------------------------------------------------------------------
(* What the parent's loops mean to do: go on without the processes that     *)
(* failed to start, count those that failed, and come to an end, at least   *)
(* when nobody is killed.                                                   *)
RunEnds == [](dead = {}) => <>(parent = "done")
===============================================================================
