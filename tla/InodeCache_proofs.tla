--------------------------- MODULE InodeCache_proofs ---------------------------
(***************************************************************************)
(* Theorems about an entry of the inode cache, for any processes, values   *)
(* and sizes.                                                              *)
(***************************************************************************)
EXTENDS InodeCache, SequenceTheorems, TLAPS

-----------------------------------------------------------------------------
(* The inductive invariant *)

Shared    == {"entry", "read", "unlock"}      \* where a get has the lock
Exclusive == {"entry", "write", "sync", "unlink", "unlock"}
Unlocked  == {"idle", "lockfile", "flock"}

(* TypeOK, but for the entry's contents, which OnDisk is about.             *)
Types ==
  /\ python \in BOOLEAN
  /\ held \in [Proc -> {"none", "sh", "ex"}]
  /\ pc \in [Proc -> Unlocked \cup Shared \cup Exclusive]
  /\ op \in [Proc -> Ops]
  /\ val \in [Proc -> Value \cup {Missing}]
  /\ done \in [Proc -> Nat]
  /\ buf \in [Proc -> Seq(Cell)]
  /\ ret \in [Proc -> {"none", "ok", "ENOENT", "EXIT_FAILURE", "errno"}]
  /\ result \in [Proc -> Seq(Cell)]
  /\ last \in Value \cup {Missing}
  /\ torn \in BOOLEAN /\ lockFile \in BOOLEAN

(* Who has which lock, and where it can be with it.                         *)
Locking ==
  /\ \A p \in Proc : pc[p] \in Unlocked => held[p] = "none"
  /\ \A p \in Proc : pc[p] \notin Unlocked => held[p] = Kind(p)
  /\ \A p, r \in Proc : p # r /\ held[p] = "ex" => held[r] = "none"
  /\ \A p \in Proc : pc[p] \notin Unlocked /\ op[p] = "get" => pc[p] \in Shared
  /\ \A p \in Proc : pc[p] = "read" => op[p] = "get"
  /\ \A p \in Proc : pc[p] \in {"write", "sync"} => op[p] = "put"
  /\ \A p \in Proc : pc[p] = "unlink" => op[p] = "del"
  /\ \A p \in Proc : op[p] = "put" => val[p] \in Value
  /\ \A p \in Proc : pc[p] \in Unlocked \cup {"entry"} => done[p] = 0
  /\ \A p \in Proc : pc[p] \in Unlocked \cup {"entry"} => buf[p] = <<>>

(* The first k cells of a value.                                            *)
Prefix(v, k) == [j \in 1..k |-> <<v, j>>]

(* What the entry holds: while somebody writes it, what he has written.     *)
OnDisk ==
  /\ \A p \in Proc : pc[p] = "write" =>
       /\ file = Prefix(val[p], done[p]) /\ done[p] < Size[val[p]]
       /\ last = val[p] /\ ~torn
  /\ \A p \in Proc : pc[p] = "sync" =>
       file = Cells(val[p]) /\ last = val[p] /\ ~torn
  /\ file \in Seq(Cell) \cup {Missing}

(* What a get has read is the beginning of the entry.                       *)
Reading ==
  \A p \in Proc : pc[p] = "read" =>
    /\ file # Missing
    /\ Len(buf[p]) <= Len(file)
    /\ \A j \in 1..Len(buf[p]) : buf[p][j] = file[j]

IInv ==
  /\ Types /\ Locking /\ OnDisk /\ Reading
  /\ TornOnlyIfCutShort /\ PutIsStored /\ GetIsLastPut

-----------------------------------------------------------------------------
(* The initial states and the steps *)

LEMMA Steps ==
  ASSUME Next
  PROVE  \E p \in Proc :
           \/ Begin(p) \/ OpenLock(p) \/ Flock(p) \/ Unlock(p) \/ FailToLock(p)
           \/ OpenTruncated(p) \/ Write(p) \/ SyncAndClose(p)
           \/ OpenEntry(p) \/ Read(p) \/ ReadEnds(p)
           \/ Unlink(p) \/ Fail(p) \/ Crash(p)
BY DEF Next, Step

LEMMA InitIInv == Init => IInv
<1> SUFFICES ASSUME Init PROVE IInv
  OBVIOUS
<1>1. Types
  <2>1. <<>> \in Seq(Cell)
    BY EmptySeq
  <2>2. buf \in [Proc -> Seq(Cell)] /\ result \in [Proc -> Seq(Cell)]
    BY <2>1 DEF Init, Garbage
  <2> QED
    BY <2>2 DEF Init, Types, Unlocked, Shared, Exclusive, Ops
<1>2. Locking
  BY DEF Init, Locking, Unlocked
<1>3. OnDisk /\ Reading
  BY DEF Init, OnDisk, Reading
<1>4. TornOnlyIfCutShort /\ PutIsStored /\ GetIsLastPut
  BY DEF Init, TornOnlyIfCutShort, PutIsStored, GetIsLastPut
<1> QED
  BY <1>1, <1>2, <1>3, <1>4 DEF IInv

(* Whoever has the lock for itself is alone with the entry.                 *)
LEMMA Alone ==
  ASSUME Types, Locking, NEW p \in Proc, pc[p] \notin Unlocked, op[p] # "get",
         NEW r \in Proc, r # p
  PROVE  pc[r] \in Unlocked
BY DEF Types, Locking, Kind

(* A reader is there without writers. *)
LEMMA NoWriter ==
  ASSUME Types, Locking, NEW p \in Proc, pc[p] \notin Unlocked, op[p] = "get",
         NEW r \in Proc
  PROVE  pc[r] \in Unlocked \/ op[r] = "get"
BY DEF Types, Locking, Kind

-----------------------------------------------------------------------------
(* Types *)

LEMMA TypesKept ==
  Types /\ Locking /\ OnDisk /\ Reading /\ [Next]_vars => Types'
<1> SUFFICES ASSUME Types, Locking, OnDisk, Reading, [Next]_vars PROVE Types'
  OBVIOUS
<1> USE DEF Types, Unlocked, Shared, Exclusive, At
<1>1. CASE UNCHANGED vars
  BY <1>1 DEF vars
<1>2. ASSUME NEW p \in Proc, Ends(p)
      PROVE  /\ held' \in [Proc -> {"none", "sh", "ex"}]
             /\ op' \in [Proc -> Ops]
             /\ val' \in [Proc -> Value \cup {Missing}]
             /\ done' \in [Proc -> Nat]
             /\ buf' \in [Proc -> Seq(Cell)]
             /\ ret' \in [Proc -> {"none", "ok", "ENOENT", "EXIT_FAILURE",
                                   "errno"}]
             /\ result' \in [Proc -> Seq(Cell)]
  <2>1. <<>> \in Seq(Cell)
    BY EmptySeq
  <2> QED
    BY <1>2, <2>1 DEF Ends, Ops, Garbage
<1>3. ASSUME NEW p \in Proc, Begin(p) PROVE Types'
  BY <1>3 DEF Begin, Ops, history
<1>4. ASSUME NEW p \in Proc, OpenLock(p) PROVE Types'
  BY <1>4 DEF OpenLock, locals, history
<1>5. ASSUME NEW p \in Proc, Flock(p) PROVE Types'
  BY <1>5 DEF Flock, Kind, locals, history
<1>6. ASSUME NEW p \in Proc, Unlock(p) \/ FailToLock(p) PROVE Types'
  BY <1>2, <1>6 DEF Unlock, FailToLock, history
<1>7. ASSUME NEW p \in Proc, OpenTruncated(p) PROVE Types'
  BY <1>7 DEF OpenTruncated, locals
<1>8. ASSUME NEW p \in Proc, Write(p) PROVE Types'
  BY <1>8 DEF Write, history
<1>9. ASSUME NEW p \in Proc, SyncAndClose(p) \/ OpenEntry(p) PROVE Types'
  BY <1>9 DEF SyncAndClose, OpenEntry, Returns, locals, history
<1>10. ASSUME NEW p \in Proc, Read(p) PROVE Types'
  <2>1. file \in Seq(Cell) /\ buf[p] \in Seq(Cell)
    BY <1>10 DEF Read, OnDisk, Reading
  <2>2. Len(buf[p]) + 1 \in 1..Len(file)
    BY <1>10, <2>1 DEF Read, AtEnd, Contents, Reading
  <2>3. Append(buf[p], file[Len(buf[p]) + 1]) \in Seq(Cell)
    BY <2>1, <2>2, ElementOfSeq, AppendProperties
  <2>4. buf' = [buf EXCEPT ![p] = Append(buf[p], file[Len(buf[p]) + 1])]
    BY <1>10 DEF Read, Contents, Reading
  <2> QED
    BY <1>10, <2>3, <2>4 DEF Read, history
<1>11. ASSUME NEW p \in Proc, ReadEnds(p) PROVE Types'
  BY <1>11 DEF ReadEnds, ReadCode, Returns, locals, history
<1>12. ASSUME NEW p \in Proc, Unlink(p) PROVE Types'
  BY <1>12 DEF Unlink, Returns, locals
<1>13. ASSUME NEW p \in Proc, Fail(p) PROVE Types'
  BY <1>13 DEF Fail, OnError, CutShort, Returns, locals
<1>14. ASSUME NEW p \in Proc, Crash(p) PROVE Types'
  BY <1>2, <1>14 DEF Crash, CutShort
<1> QED
  BY <1>1, <1>3, <1>4, <1>5, <1>6, <1>7, <1>8, <1>9, <1>10, <1>11, <1>12,
     <1>13, <1>14, Steps

-----------------------------------------------------------------------------
(* Locks *)

LEMMA LockingKept ==
  Types /\ Locking /\ [Next]_vars => Locking'
<1> SUFFICES ASSUME Types, Locking, [Next]_vars PROVE Locking'
  OBVIOUS
<1> USE DEF Types, Locking, Unlocked, Shared, Exclusive, At, Kind
<1>1. CASE UNCHANGED vars
  BY <1>1 DEF vars
<1>2. ASSUME NEW p \in Proc, Begin(p) PROVE Locking'
  BY <1>2 DEF Begin, history
<1>3. ASSUME NEW p \in Proc, OpenLock(p) PROVE Locking'
  <2>1. \E next \in {"flock", "idle"} : pc' = [pc EXCEPT ![p] = next]
    BY <1>3 DEF OpenLock
  <2>2. pc[p] \in Unlocked /\ UNCHANGED <<held, op, val, done, buf>>
    BY <1>3 DEF OpenLock, locals
  <2> QED
    BY <2>1, <2>2
<1>4. ASSUME NEW p \in Proc, Flock(p) PROVE Locking'
  BY <1>4 DEF Flock, Conflicts, locals, history, Ops
<1>5. ASSUME NEW p \in Proc, Unlock(p) \/ FailToLock(p) \/ Crash(p)
      PROVE  Locking'
  <2>1. pc' = [pc EXCEPT ![p] = "idle"] /\ Ends(p)
    BY <1>5 DEF Unlock, FailToLock, Crash
  <2> QED
    BY <2>1 DEF Ends, Ops
<1>6. ASSUME NEW p \in Proc, OpenTruncated(p) PROVE Locking'
  BY <1>6 DEF OpenTruncated, locals
<1>7. ASSUME NEW p \in Proc, Write(p) PROVE Locking'
  BY <1>7 DEF Write
<1>8. ASSUME NEW p \in Proc, SyncAndClose(p) \/ ReadEnds(p) \/ Unlink(p)
      PROVE  Locking'
  <2>1. /\ pc' = [pc EXCEPT ![p] = "unlock"]
        /\ pc[p] \in {"sync", "read", "unlink"}
        /\ UNCHANGED <<held, op, val, done, buf>>
    BY <1>8 DEF SyncAndClose, ReadEnds, Unlink, locals
  <2> QED
    BY <2>1
<1>9. ASSUME NEW p \in Proc, OpenEntry(p) PROVE Locking'
  <2>1. \E next \in {"read", "unlock"} : pc' = [pc EXCEPT ![p] = next]
    BY <1>9 DEF OpenEntry
  <2>2. /\ pc[p] = "entry" /\ op[p] = "get"
        /\ UNCHANGED <<held, op, val, done, buf>>
    BY <1>9 DEF OpenEntry, locals
  <2> QED
    BY <2>1, <2>2
<1>10. ASSUME NEW p \in Proc, Read(p) PROVE Locking'
  BY <1>10 DEF Read
<1>11. ASSUME NEW p \in Proc, Fail(p) PROVE Locking'
  <2>1. /\ pc' = [pc EXCEPT ![p] = "unlock"] /\ pc[p] \notin Unlocked
        /\ UNCHANGED <<held, op, val, done, buf>>
    BY <1>11 DEF Fail, OnError, locals
  <2> QED
    BY <2>1
<1> QED
  BY <1>1, <1>2, <1>3, <1>4, <1>5, <1>6, <1>7, <1>8, <1>9, <1>10, <1>11,
     Steps

-----------------------------------------------------------------------------
(* The entry *)

(* Writing the next cell makes the prefix one cell longer.                  *)
LEMMA PutPrefix ==
  ASSUME NEW v \in Value, NEW k \in Nat, k < Size[v]
  PROVE  Put(Prefix(v, k), k + 1, Cells(v)[k + 1]) = Prefix(v, k + 1)
<1>1. Len(Prefix(v, k)) = k
  BY DEF Prefix
<1>2. Cells(v)[k + 1] = <<v, k + 1>>
  BY SizeAssumption DEF Cells
<1> QED
  BY <1>1, <1>2 DEF Put, Prefix

LEMMA PrefixType ==
  ASSUME NEW v \in Value, NEW k \in Nat
  PROVE  Prefix(v, k) \in Seq(Cell)
BY DEF Prefix, Cell

(* What a step does to the entry, unless it is one of the four that change  *)
(* it: nothing, nor to what was last put.                                   *)
LEMMA EntryKept ==
  ASSUME NEW p \in Proc,
         \/ Begin(p) \/ OpenLock(p) \/ Flock(p) \/ Unlock(p) \/ FailToLock(p)
         \/ SyncAndClose(p) \/ OpenEntry(p) \/ Read(p) \/ ReadEnds(p)
  PROVE  UNCHANGED <<file, last, torn>>
BY DEF Begin, OpenLock, Flock, Unlock, FailToLock, SyncAndClose, OpenEntry,
       Read, ReadEnds, history

(* Nor does a step move anybody else, or change what he works with.         *)
LEMMA OthersKept ==
  ASSUME Types, NEW p \in Proc, NEW r \in Proc, r # p,
         \/ Begin(p) \/ OpenLock(p) \/ Flock(p) \/ Unlock(p) \/ FailToLock(p)
         \/ OpenTruncated(p) \/ Write(p) \/ SyncAndClose(p)
         \/ OpenEntry(p) \/ Read(p) \/ ReadEnds(p)
         \/ Unlink(p) \/ Fail(p) \/ Crash(p)
  PROVE  /\ pc'[r] = pc[r] /\ op'[r] = op[r] /\ val'[r] = val[r]
         /\ done'[r] = done[r] /\ buf'[r] = buf[r]
         /\ ret'[r] = ret[r] /\ result'[r] = result[r]
<1> USE DEF Types, At, Returns, locals
<1>1. CASE Begin(p) \/ OpenLock(p) \/ Flock(p)
  BY <1>1 DEF Begin, OpenLock, Flock
<1>2. CASE Unlock(p) \/ FailToLock(p) \/ Crash(p)
  BY <1>2 DEF Unlock, FailToLock, Crash, Ends
<1>3. CASE OpenTruncated(p) \/ Write(p) \/ SyncAndClose(p)
  BY <1>3 DEF OpenTruncated, Write, SyncAndClose
<1>4. CASE OpenEntry(p) \/ Read(p) \/ ReadEnds(p)
  BY <1>4 DEF OpenEntry, Read, ReadEnds
<1>5. CASE Unlink(p) \/ Fail(p)
  BY <1>5 DEF Unlink, Fail
<1> QED
  BY <1>1, <1>2, <1>3, <1>4, <1>5

(* An operation that changes the entry or its history has it to itself, but *)
(* for one that dies or fails: that leaves the entry, and only a put's end  *)
(* half-way cuts it short.                                                  *)
LEMMA OnDiskKept ==
  Types /\ Locking /\ OnDisk /\ Reading /\ [Next]_vars => OnDisk'
<1> SUFFICES ASSUME Types, Locking, OnDisk, Reading, [Next]_vars PROVE OnDisk'
  OBVIOUS
<1>1. CASE UNCHANGED vars
  BY <1>1 DEF vars, OnDisk
<1>2. ASSUME NEW p \in Proc,
             \/ Begin(p) \/ OpenLock(p) \/ Flock(p) \/ Unlock(p)
             \/ FailToLock(p) \/ SyncAndClose(p) \/ OpenEntry(p) \/ Read(p)
             \/ ReadEnds(p)
      PROVE  OnDisk'
  <2>1. pc'[p] \notin {"write", "sync"}
    BY <1>2 DEF Types, Begin, OpenLock, Flock, Unlock, FailToLock,
       SyncAndClose, OpenEntry, Read, ReadEnds, At
  <2>2. \A r \in Proc : r # p =>
          pc'[r] = pc[r] /\ val'[r] = val[r] /\ done'[r] = done[r]
    BY <1>2, OthersKept
  <2>3. UNCHANGED <<file, last, torn>>
    BY <1>2, EntryKept
  <2> QED
    BY <2>1, <2>2, <2>3 DEF OnDisk
<1>3. ASSUME NEW p \in Proc, OpenTruncated(p) \/ Write(p) \/ Unlink(p)
      PROVE  \A r \in Proc : r # p => pc'[r] \notin {"write", "sync"}
  <2>1. pc[p] \notin Unlocked /\ op[p] # "get"
    BY <1>3 DEF OpenTruncated, Write, Unlink, At, Locking, Unlocked
  <2>2. \A r \in Proc : r # p => pc[r] \in Unlocked
    BY <2>1, Alone
  <2>3. \A r \in Proc : r # p => pc'[r] = pc[r]
    BY <1>3, OthersKept
  <2> QED
    BY <2>2, <2>3 DEF Unlocked
<1>4. ASSUME NEW p \in Proc, OpenTruncated(p) PROVE OnDisk'
  <2>1. /\ pc'[p] = "write" /\ val'[p] = val[p] /\ val[p] \in Value
        /\ done'[p] = 0
    BY <1>4 DEF OpenTruncated, At, Types, Locking, Unlocked, locals
  <2>2. file' = <<>> /\ last' = val[p] /\ torn' = FALSE
    BY <1>4 DEF OpenTruncated
  <2>3. <<>> = Prefix(val[p], 0)
    BY DEF Prefix
  <2>4. 0 < Size[val[p]]
    BY <2>1, SizeAssumption
  <2>5. file' \in Seq(Cell)
    BY <2>2, EmptySeq
  <2> QED
    BY <1>3, <1>4, <2>1, <2>2, <2>3, <2>4, <2>5 DEF OnDisk
<1>5. ASSUME NEW p \in Proc, Write(p) PROVE OnDisk'
  <2> DEFINE v == val[p]
             k == done[p]
  <2>1. /\ pc[p] = "write" /\ v \in Value /\ k \in Nat
        /\ Size[v] \in Nat
    BY <1>5, SizeAssumption DEF Write, At, Types, Locking
  <2>2. file = Prefix(v, k) /\ k < Size[v] /\ last = v /\ ~torn
    BY <2>1 DEF OnDisk
  <2>3. Contents = Prefix(v, k)
    <3>1. file # Missing
      BY <2>1, <2>2, PrefixType, SizeAssumption
    <3> QED
      BY <2>2, <3>1 DEF Contents
  <2>4. file' = Prefix(v, k + 1)
    BY <1>5, <2>1, <2>2, <2>3, PutPrefix DEF Write
  <2>5. val'[p] = v /\ done'[p] = k + 1 /\ last' = last /\ torn' = torn
    BY <1>5 DEF Write, Types, history
  <2>6. file' \in Seq(Cell)
    BY <2>1, <2>4, PrefixType
  <2>7. \A r \in Proc : r # p => pc'[r] \notin {"write", "sync"}
    BY <1>3, <1>5
  <2>8. CASE k + 1 < Size[v]
    <3>1. pc'[p] = "write"
      BY <1>5, <2>8 DEF Write, WriteMore, At, Types
    <3>2. /\ file' = Prefix(val'[p], done'[p]) /\ done'[p] < Size[val'[p]]
          /\ last' = val'[p] /\ ~torn'
      BY <2>2, <2>4, <2>5, <2>8
    <3> QED
      BY <2>6, <2>7, <3>1, <3>2 DEF OnDisk
  <2>9. CASE ~(k + 1 < Size[v])
    <3>1. pc'[p] = "sync"
      BY <1>5, <2>9 DEF Write, WriteMore, At, Types
    <3>2. k + 1 = Size[v]
      BY <2>1, <2>2, <2>9
    <3>3. Prefix(v, k + 1) = Cells(v)
      BY <3>2 DEF Prefix, Cells
    <3>4. file' = Cells(val'[p]) /\ last' = val'[p] /\ ~torn'
      BY <2>2, <2>4, <2>5, <3>3
    <3> QED
      BY <2>6, <2>7, <3>1, <3>4 DEF OnDisk
  <2> QED
    BY <2>8, <2>9
<1>6. ASSUME NEW p \in Proc, Unlink(p) PROVE OnDisk'
  <2>1. pc'[p] = "unlock" /\ file' = Missing
    BY <1>6 DEF Unlink, At, Types
  <2> QED
    BY <1>3, <1>6, <2>1 DEF OnDisk
<1>7. ASSUME NEW p \in Proc, Fail(p) \/ Crash(p) PROVE OnDisk'
  <2>1. pc'[p] \notin {"write", "sync"} /\ file' = file /\ last' = last
    BY <1>7 DEF Fail, Crash, At, OnError, Types
  <2>2. \A r \in Proc : r # p =>
          pc'[r] = pc[r] /\ val'[r] = val[r] /\ done'[r] = done[r]
    BY <1>7, OthersKept
  <2>3. \A r \in Proc : r # p /\ pc[r] \in {"write", "sync"} => torn' = torn
    <3> SUFFICES ASSUME NEW r \in Proc, r # p, pc[r] \in {"write", "sync"}
                 PROVE  torn' = torn
      OBVIOUS
    <3>1. pc[p] \in Unlocked
      BY Alone DEF Locking, Unlocked
    <3> QED
      BY <1>7, <3>1 DEF Fail, Crash, CutShort, Unlocked, Types
  <2> QED
    BY <2>1, <2>2, <2>3 DEF OnDisk
<1> QED
  BY <1>1, <1>2, <1>4, <1>5, <1>6, <1>7, Steps

(* Nobody changes what a get reads.                                         *)
LEMMA ReadingKept ==
  Types /\ Locking /\ OnDisk /\ Reading /\ [Next]_vars => Reading'
<1> SUFFICES ASSUME Types, Locking, OnDisk, Reading, [Next]_vars,
                    NEW r \in Proc, pc'[r] = "read"
             PROVE  /\ file' # Missing
                    /\ Len(buf'[r]) <= Len(file')
                    /\ \A j \in 1..Len(buf'[r]) : buf'[r][j] = file'[j]
  BY DEF Reading
<1>1. CASE UNCHANGED vars
  BY <1>1 DEF vars, Reading
<1>2. ASSUME NEW p \in Proc, OpenEntry(p), p = r
      PROVE  file' = file /\ file # Missing /\ buf'[r] = <<>>
  BY <1>2 DEF OpenEntry, At, Types, Locking, locals, Unlocked
<1>3. ASSUME NEW p \in Proc, Read(p), p = r
      PROVE  /\ file' = file /\ file # Missing
             /\ Len(buf'[r]) <= Len(file)
             /\ \A j \in 1..Len(buf'[r]) : buf'[r][j] = file[j]
  <2>1. /\ pc[r] = "read" /\ file' = file /\ file # Missing
        /\ Contents = file
    BY <1>3 DEF Read, Reading, Contents
  <2>2. buf[r] \in Seq(Cell) /\ file \in Seq(Cell)
    BY <2>1 DEF Types, OnDisk
  <2>3. Len(buf[r]) \in Nat /\ Len(file) \in Nat
    BY <2>2, LenProperties
  <2>4. Len(buf[r]) < Len(file)
    BY <1>3, <2>1, <2>3 DEF Read, AtEnd
  <2>5. file[Len(buf[r]) + 1] \in Cell
    BY <2>2, <2>3, <2>4, ElementOfSeq
  <2>6. buf'[r] = Append(buf[r], file[Len(buf[r]) + 1])
    BY <1>3, <2>1 DEF Read, Types
  <2>7. /\ Len(buf'[r]) = Len(buf[r]) + 1
        /\ \A j \in 1..Len(buf[r]) : buf'[r][j] = buf[r][j]
        /\ buf'[r][Len(buf[r]) + 1] = file[Len(buf[r]) + 1]
    BY <2>2, <2>5, <2>6, AppendProperties
  <2>8. \A j \in 1..Len(buf[r]) : buf[r][j] = file[j]
    BY <2>1 DEF Reading
  <2>9. \A j \in 1..Len(buf'[r]) :
          j \in 1..Len(buf[r]) \/ j = Len(buf[r]) + 1
    BY <2>3, <2>7
  <2> QED
    BY <2>1, <2>3, <2>4, <2>7, <2>8, <2>9
<1>4. ASSUME NEW p \in Proc, p = r,
             \/ Begin(p) \/ OpenLock(p) \/ Flock(p) \/ Unlock(p)
             \/ FailToLock(p) \/ OpenTruncated(p) \/ Write(p)
             \/ SyncAndClose(p) \/ ReadEnds(p) \/ Unlink(p) \/ Fail(p)
             \/ Crash(p)
      PROVE  FALSE
  BY <1>4 DEF Begin, OpenLock, Flock, Unlock, FailToLock, OpenTruncated,
     Write, SyncAndClose, ReadEnds, Unlink, Fail, Crash, At, OnError, Types
<1>5. ASSUME NEW p \in Proc, p # r,
             \/ Begin(p) \/ OpenLock(p) \/ Flock(p) \/ Unlock(p)
             \/ FailToLock(p) \/ OpenTruncated(p) \/ Write(p)
             \/ SyncAndClose(p) \/ OpenEntry(p) \/ Read(p) \/ ReadEnds(p)
             \/ Unlink(p) \/ Fail(p) \/ Crash(p)
      PROVE  pc[r] = "read" /\ buf'[r] = buf[r] /\ file' = file
  <2>1. pc[r] = "read" /\ buf'[r] = buf[r]
    BY <1>5, OthersKept
  <2>2. ASSUME OpenTruncated(p) \/ Write(p) \/ Unlink(p) PROVE FALSE
    <3>1. pc[p] \notin Unlocked /\ op[p] # "get"
      BY <2>2 DEF OpenTruncated, Write, Unlink, At, Locking, Unlocked
    <3> QED
      BY <1>5, <2>1, <3>1, Alone DEF Unlocked
  <2>3. CASE Fail(p) \/ Crash(p)
    BY <2>1, <2>3 DEF Fail, Crash
  <2> QED
    BY <1>5, <2>1, <2>2, <2>3, EntryKept
<1>6. CASE pc[r] = "read" /\ buf'[r] = buf[r] /\ file' = file
  BY <1>6 DEF Reading
<1>7. CASE file' = file /\ file # Missing /\ buf'[r] = <<>>
  <2>1. file \in Seq(Cell)
    BY <1>7 DEF OnDisk
  <2> QED
    BY <1>7, <2>1
<1>8. CASE Next
  <2>1. PICK p \in Proc :
          \/ Begin(p) \/ OpenLock(p) \/ Flock(p) \/ Unlock(p)
          \/ FailToLock(p) \/ OpenTruncated(p) \/ Write(p)
          \/ SyncAndClose(p) \/ OpenEntry(p) \/ Read(p) \/ ReadEnds(p)
          \/ Unlink(p) \/ Fail(p) \/ Crash(p)
    BY <1>8, Steps
  <2>2. CASE p # r
    BY <1>5, <1>6, <2>1, <2>2
  <2>3. CASE p = r
    BY <1>2, <1>3, <1>4, <1>7, <2>1, <2>3
  <2> QED
    BY <2>2, <2>3
<1> QED
  BY <1>1, <1>8

-----------------------------------------------------------------------------
(* The properties *)

LEMMA TornKept ==
  /\ Types /\ Locking /\ OnDisk /\ Reading /\ TornOnlyIfCutShort
  /\ [Next]_vars
  => TornOnlyIfCutShort'
<1> SUFFICES ASSUME Types, Locking, OnDisk, Reading, TornOnlyIfCutShort,
                    [Next]_vars, file' # Missing,
                    \A p \in Proc : pc'[p] \notin {"write", "sync"}
             PROVE  torn' \/ file' = Cells(last')
  BY DEF TornOnlyIfCutShort
<1>1. CASE UNCHANGED vars
  BY <1>1 DEF vars, TornOnlyIfCutShort
<1>2. ASSUME NEW p \in Proc, pc[p] \notin {"write", "sync"},
             UNCHANGED <<file, last, torn>>,
             \A r \in Proc : r # p => pc'[r] = pc[r]
      PROVE  torn' \/ file' = Cells(last')
  BY <1>2 DEF TornOnlyIfCutShort
<1>3. ASSUME NEW p \in Proc,
             \/ Begin(p) \/ OpenLock(p) \/ Flock(p) \/ Unlock(p)
             \/ FailToLock(p) \/ OpenEntry(p) \/ Read(p) \/ ReadEnds(p)
      PROVE  torn' \/ file' = Cells(last')
  <2>1. pc[p] \notin {"write", "sync"}
    BY <1>3 DEF Begin, OpenLock, Flock, Unlock, FailToLock, OpenEntry, Read,
       ReadEnds, At
  <2> QED
    BY <1>2, <1>3, <2>1, EntryKept, OthersKept
<1>4. ASSUME NEW p \in Proc, OpenTruncated(p) PROVE FALSE
  BY <1>4 DEF OpenTruncated, At, Types
<1>5. ASSUME NEW p \in Proc, Write(p) PROVE FALSE
  BY <1>5 DEF Write, At, Types
<1>6. ASSUME NEW p \in Proc, SyncAndClose(p)
      PROVE  torn' \/ file' = Cells(last')
  <2>1. file = Cells(val[p]) /\ last = val[p]
    BY <1>6 DEF SyncAndClose, At, OnDisk
  <2> QED
    BY <1>6, <2>1, EntryKept
<1>7. ASSUME NEW p \in Proc, Unlink(p) PROVE FALSE
  BY <1>7 DEF Unlink
<1>8. ASSUME NEW p \in Proc, Fail(p) \/ Crash(p)
      PROVE  torn' \/ file' = Cells(last')
  <2>1. file' = file /\ last' = last /\ torn' = (torn \/ pc[p] = "write")
    BY <1>8 DEF Fail, Crash, CutShort
  <2>2. CASE pc[p] = "write"
    BY <2>1, <2>2
  <2>3. CASE pc[p] = "sync"
    BY <2>1, <2>3 DEF OnDisk
  <2>4. CASE pc[p] \notin {"write", "sync"}
    <3>1. torn' = torn
      BY <2>1, <2>4 DEF Types
    <3> QED
      BY <1>2, <1>8, <2>1, <2>4, <3>1, OthersKept
  <2> QED
    BY <2>2, <2>3, <2>4
<1> QED
  BY <1>1, <1>3, <1>4, <1>5, <1>6, <1>7, <1>8, Steps

LEMMA PutIsStoredKept ==
  /\ Types /\ Locking /\ OnDisk /\ PutIsStored /\ [Next]_vars
  => PutIsStored'
<1> SUFFICES ASSUME Types, Locking, OnDisk, PutIsStored, [Next]_vars,
                    NEW r \in Proc, op'[r] = "put", pc'[r] = "unlock",
                    ret'[r] = "ok"
             PROVE  file' = Cells(val'[r]) /\ ~torn'
  BY DEF PutIsStored
<1>1. CASE UNCHANGED vars
  BY <1>1 DEF vars, PutIsStored
<1>2. ASSUME NEW p \in Proc, p = r, SyncAndClose(p)
      PROVE  file' = Cells(val'[r]) /\ ~torn'
  <2>1. pc[r] = "sync" /\ val'[r] = val[r]
    BY <1>2 DEF SyncAndClose, At, locals
  <2>2. UNCHANGED <<file, last, torn>>
    BY <1>2, EntryKept
  <2> QED
    BY <2>1, <2>2 DEF OnDisk
<1>3. ASSUME NEW p \in Proc, p = r,
             \/ Begin(p) \/ OpenLock(p) \/ Flock(p) \/ Unlock(p)
             \/ FailToLock(p) \/ OpenTruncated(p) \/ Write(p) \/ OpenEntry(p)
             \/ Read(p) \/ ReadEnds(p) \/ Unlink(p) \/ Fail(p) \/ Crash(p)
      PROVE  FALSE
  <2> USE DEF Types, Locking, At, Returns, locals
  <2>1. CASE Begin(p) \/ OpenLock(p) \/ Flock(p)
    BY <1>3, <2>1 DEF Begin, OpenLock, Flock
  <2>2. CASE Unlock(p) \/ FailToLock(p) \/ Crash(p)
    BY <1>3, <2>2 DEF Unlock, FailToLock, Crash
  <2>3. CASE OpenTruncated(p) \/ Write(p)
    BY <1>3, <2>3 DEF OpenTruncated, Write
  <2>4. CASE OpenEntry(p) \/ Read(p) \/ ReadEnds(p)
    BY <1>3, <2>4 DEF OpenEntry, Read, ReadEnds
  <2>5. CASE Unlink(p) \/ Fail(p)
    BY <1>3, <2>5 DEF Unlink, Fail
  <2> QED
    BY <1>3, <2>1, <2>2, <2>3, <2>4, <2>5
<1>4. ASSUME NEW p \in Proc, p # r,
             \/ Begin(p) \/ OpenLock(p) \/ Flock(p) \/ Unlock(p)
             \/ FailToLock(p) \/ OpenTruncated(p) \/ Write(p)
             \/ SyncAndClose(p) \/ OpenEntry(p) \/ Read(p) \/ ReadEnds(p)
             \/ Unlink(p) \/ Fail(p) \/ Crash(p)
      PROVE  file' = Cells(val'[r]) /\ ~torn'
  <2>1. /\ op[r] = "put" /\ pc[r] = "unlock" /\ ret[r] = "ok"
        /\ val'[r] = val[r]
    BY <1>4, OthersKept
  <2>2. file = Cells(val[r]) /\ ~torn
    BY <2>1 DEF PutIsStored
  <2>3. pc[p] \in Unlocked
    BY <1>4, <2>1, Alone DEF Unlocked
  <2>4. CASE Crash(p)
    BY <2>1, <2>2, <2>3, <2>4 DEF Crash, CutShort, Unlocked
  <2>5. CASE OpenTruncated(p) \/ Write(p) \/ Unlink(p) \/ Fail(p)
    BY <2>3, <2>5 DEF OpenTruncated, Write, Unlink, Fail, At, Unlocked
  <2> QED
    BY <1>4, <2>1, <2>2, <2>4, <2>5, EntryKept
<1>5. CASE Next
  <2>1. PICK p \in Proc :
          \/ Begin(p) \/ OpenLock(p) \/ Flock(p) \/ Unlock(p)
          \/ FailToLock(p) \/ OpenTruncated(p) \/ Write(p)
          \/ SyncAndClose(p) \/ OpenEntry(p) \/ Read(p) \/ ReadEnds(p)
          \/ Unlink(p) \/ Fail(p) \/ Crash(p)
    BY <1>5, Steps
  <2>2. CASE p # r
    BY <1>4, <2>1, <2>2
  <2>3. CASE p = r
    BY <1>2, <1>3, <2>1, <2>3
  <2> QED
    BY <2>2, <2>3
<1> QED
  BY <1>1, <1>5

(* What a get has read up to the end of the entry is the entry, which is    *)
(* whole, because nobody writes it as long as the get has the lock.         *)
LEMMA GetKept ==
  /\ Types /\ Locking /\ OnDisk /\ Reading /\ TornOnlyIfCutShort
  /\ GetIsLastPut /\ [Next]_vars
  => GetIsLastPut'
<1> SUFFICES ASSUME Types, Locking, OnDisk, Reading, TornOnlyIfCutShort,
                    GetIsLastPut, [Next]_vars,
                    NEW r \in Proc, op'[r] = "get", pc'[r] = "unlock",
                    ret'[r] = "ok"
             PROVE  torn' \/ result'[r] = Cells(last')
  BY DEF GetIsLastPut
<1>1. CASE UNCHANGED vars
  BY <1>1 DEF vars, GetIsLastPut
<1>2. ASSUME NEW p \in Proc, p = r, ReadEnds(p)
      PROVE  torn' \/ result'[r] = Cells(last')
  <2>1. /\ pc[r] = "read" /\ op[r] = "get" /\ result'[r] = buf[r]
        /\ ret'[r] = ReadCode(r)
    BY <1>2 DEF ReadEnds, Returns, At, Types, Locking
  <2>2. AtEnd(r)
    BY <1>2, <2>1 DEF ReadEnds, ReadCode
  <2>3. file # Missing /\ Contents = file
    BY <2>1 DEF Reading, Contents
  <2>4. buf[r] \in Seq(Cell) /\ file \in Seq(Cell)
    BY <2>3 DEF Types, OnDisk
  <2>5. Len(buf[r]) = Len(file) /\ \A j \in 1..Len(buf[r]) : buf[r][j] = file[j]
    BY <2>1, <2>2, <2>3, <2>4, LenProperties DEF AtEnd, Reading
  <2>6. buf[r] = file
    BY <2>4, <2>5, SeqEqual
  <2>7. \A q \in Proc : pc[q] \notin {"write", "sync"}
    <3> SUFFICES ASSUME NEW q \in Proc, pc[q] \in {"write", "sync"}
                 PROVE  FALSE
      OBVIOUS
    <3>1. op[q] = "put" /\ pc[q] \notin Unlocked
      BY DEF Locking, Unlocked
    <3>2. pc[r] \notin Unlocked
      BY <2>1 DEF Unlocked
    <3> QED
      BY <2>1, <3>1, <3>2, NoWriter
  <2>8. torn \/ file = Cells(last)
    BY <2>3, <2>7 DEF TornOnlyIfCutShort
  <2> QED
    BY <1>2, <2>1, <2>6, <2>8, EntryKept
<1>3. ASSUME NEW p \in Proc, p = r,
             \/ Begin(p) \/ OpenLock(p) \/ Flock(p) \/ Unlock(p)
             \/ FailToLock(p) \/ OpenTruncated(p) \/ Write(p)
             \/ SyncAndClose(p) \/ OpenEntry(p) \/ Read(p) \/ Unlink(p)
             \/ Fail(p) \/ Crash(p)
      PROVE  FALSE
  <2> USE DEF Types, Locking, At, Returns, locals
  <2>1. CASE Begin(p) \/ OpenLock(p) \/ Flock(p)
    BY <1>3, <2>1 DEF Begin, OpenLock, Flock
  <2>2. CASE Unlock(p) \/ FailToLock(p) \/ Crash(p)
    BY <1>3, <2>2 DEF Unlock, FailToLock, Crash
  <2>3. CASE OpenTruncated(p) \/ Write(p) \/ SyncAndClose(p)
    BY <1>3, <2>3 DEF OpenTruncated, Write, SyncAndClose
  <2>4. CASE OpenEntry(p) \/ Read(p)
    BY <1>3, <2>4 DEF OpenEntry, Read
  <2>5. CASE Unlink(p) \/ Fail(p)
    BY <1>3, <2>5 DEF Unlink, Fail
  <2> QED
    BY <1>3, <2>1, <2>2, <2>3, <2>4, <2>5
<1>4. ASSUME NEW p \in Proc, p # r,
             \/ Begin(p) \/ OpenLock(p) \/ Flock(p) \/ Unlock(p)
             \/ FailToLock(p) \/ OpenTruncated(p) \/ Write(p)
             \/ SyncAndClose(p) \/ OpenEntry(p) \/ Read(p) \/ ReadEnds(p)
             \/ Unlink(p) \/ Fail(p) \/ Crash(p)
      PROVE  torn' \/ result'[r] = Cells(last')
  <2>1. /\ op[r] = "get" /\ pc[r] = "unlock" /\ ret[r] = "ok"
        /\ result'[r] = result[r]
    BY <1>4, OthersKept
  <2>2. torn \/ result[r] = Cells(last)
    BY <2>1 DEF GetIsLastPut
  <2>3. ASSUME OpenTruncated(p) \/ Write(p) \/ Unlink(p) PROVE FALSE
    <3>1. pc[p] \notin Unlocked /\ op[p] # "get"
      BY <2>3 DEF OpenTruncated, Write, Unlink, At, Locking, Unlocked
    <3> QED
      BY <1>4, <2>1, <3>1, Alone DEF Unlocked
  <2>4. CASE Fail(p) \/ Crash(p)
    BY <2>1, <2>2, <2>4 DEF Fail, Crash, CutShort
  <2> QED
    BY <1>4, <2>1, <2>2, <2>3, <2>4, EntryKept
<1>5. CASE Next
  <2>1. PICK p \in Proc :
          \/ Begin(p) \/ OpenLock(p) \/ Flock(p) \/ Unlock(p)
          \/ FailToLock(p) \/ OpenTruncated(p) \/ Write(p)
          \/ SyncAndClose(p) \/ OpenEntry(p) \/ Read(p) \/ ReadEnds(p)
          \/ Unlink(p) \/ Fail(p) \/ Crash(p)
    BY <1>5, Steps
  <2>2. CASE p # r
    BY <1>4, <2>1, <2>2
  <2>3. CASE p = r
    BY <1>2, <1>3, <2>1, <2>3
  <2> QED
    BY <2>2, <2>3
<1> QED
  BY <1>1, <1>5

-----------------------------------------------------------------------------
(* The theorems *)

(* The invariant that the others rest on: who has the lock and may be where *)
(* with it, what a put has written so far, what a get has read so far       *)
(* (inode_cache_lock and the three operations that call it).                *)
THEOREM Invariance == Spec => []IInv
<1>1. Init => IInv
  BY InitIInv
<1>2. IInv /\ [Next]_vars => IInv'
  <2> SUFFICES ASSUME IInv, [Next]_vars PROVE IInv'
    OBVIOUS
  <2> USE DEF IInv
  <2>1. Types' /\ Locking'
    BY TypesKept, LockingKept
  <2>2. OnDisk' /\ Reading'
    BY OnDiskKept, ReadingKept
  <2>3. TornOnlyIfCutShort' /\ PutIsStored' /\ GetIsLastPut'
    BY TornKept, PutIsStoredKept, GetKept
  <2> QED
    BY <2>1, <2>2, <2>3
<1> QED
  BY <1>1, <1>2, PTL DEF Spec

(* Every variable keeps its type, the entry among them: what is written is  *)
(* always a sequence of cells, without a hole in it.                        *)
THEOREM TypeCorrect == Spec => []TypeOK
<1>1. IInv => TypeOK
  BY DEF IInv, Types, OnDisk, TypeOK, Unlocked, Shared, Exclusive
<1> QED
  BY <1>1, Invariance, PTL

(* However many processes get, put and delete an entry, fail or die: a get  *)
(* that returns 0 returns the value last put, or that put was cut short.    *)
THEOREM GetsTheLastPut == Spec => []GetIsLastPut
<1>1. IInv => GetIsLastPut
  BY DEF IInv
<1> QED
  BY <1>1, Invariance, PTL

(* And outside of puts the entry is whole, unless the last was cut short.   *)
THEOREM EntryIsWhole == Spec => []TornOnlyIfCutShort
<1>1. IInv => TornOnlyIfCutShort
  BY DEF IInv
<1> QED
  BY <1>1, Invariance, PTL

(* A put that is about to return 0 has its value in the file.               *)
THEOREM PutsAreStored == Spec => []PutIsStored
<1>1. IInv => PutIsStored
  BY DEF IInv
<1> QED
  BY <1>1, Invariance, PTL
===============================================================================
