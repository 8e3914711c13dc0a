------------------------------ MODULE InodeCache ------------------------------
(***************************************************************************)
(* One entry of the inode cache, which exists in C (c/inodecache.c) and in *)
(* Python (inodecache.py): the file that holds the value, the lock file    *)
(* beside it, and processes that get, put and delete it, each system call  *)
(* being a step.  Any call may fail and any process may be killed between  *)
(* two of them.                                                            *)
(*                                                                         *)
(* A value is cut into cells, the last of which ends with the NUL that the *)
(* C put writes too; read and write move at least a cell at a time.        *)
(***************************************************************************)
EXTENDS Integers, Sequences

CONSTANTS
  Proc,
  Value,     \* what can be put
  Size,      \* Size[v]: cells of v, its NUL included (strlen(value) + 1)
  MaxSize,   \* INO_CACHE_ENTRY_MAX_SIZE, in cells
  Missing    \* no such file

Cells(v) == [k \in 1..Size[v] |-> <<v, k>>]
Cell     == Value \X Nat

ASSUME SizeAssumption ==
  /\ Size \in [Value -> Nat \ {0}]
  /\ MaxSize \in Nat \ {0, 1}
  /\ Missing \notin Seq(Cell) \cup Value

VARIABLES
  python,    \* they all use the Python cache, or all the C one
  file,      \* the entry: Missing, or its cells
  lockFile,  \* there is an <entry_name>.lock
  held,      \* held[p]: the flock p has on it
  pc,        \* pc[p]: the system call p is about to make
  op,        \* op[p]: its operation
  val,       \* val[p]: the value it puts, Missing if none
  done,      \* done[p]: cells it has written
  buf,       \* buf[p]: cells it has read (val_buf)
  ret,       \* ret[p]: what its operation is about to return
  result,    \* result[p]: what get's *result points to
  last,      \* history: the value last put, successfully or not
  torn       \* history: that put was cut short

vars == <<python, file, lockFile, held, pc, op, val, done, buf, ret, result,
          last, torn>>

(* What strdup makes of a buffer nobody filled: the code reads it all the   *)
(* same (an empty entry, a failed read), so it can be anything.             *)
Garbage == <<>>

Ops == {"get", "put", "del"}

(* Each variable's values; pc names the system call to be made next. *)
TypeOK ==
  /\ python \in BOOLEAN
  /\ file \in Seq(Cell) \cup {Missing}
  /\ lockFile \in BOOLEAN
  /\ held \in [Proc -> {"none", "sh", "ex"}]
  /\ pc \in [Proc -> {"idle", "lockfile", "flock", "entry", "read", "write",
                      "sync", "unlink", "unlock"}]
  /\ op \in [Proc -> Ops]
  /\ val \in [Proc -> Value \cup {Missing}]
  /\ done \in [Proc -> Nat]
  /\ buf \in [Proc -> Seq(Cell)]
  /\ ret \in [Proc -> {"none", "ok", "ENOENT", "EXIT_FAILURE", "errno"}]
  /\ result \in [Proc -> Seq(Cell)]
  /\ last \in Value \cup {Missing}
  /\ torn \in BOOLEAN

Init ==
  /\ python \in BOOLEAN
  /\ file = Missing /\ lockFile = FALSE
  /\ held = [p \in Proc |-> "none"]
  /\ pc = [p \in Proc |-> "idle"]
  /\ op = [p \in Proc |-> "get"]
  /\ val = [p \in Proc |-> Missing]
  /\ done = [p \in Proc |-> 0]
  /\ buf = [p \in Proc |-> <<>>]
  /\ ret = [p \in Proc |-> "none"]
  /\ result = [p \in Proc |-> Garbage]
  /\ last = Missing /\ torn = FALSE

-----------------------------------------------------------------------------
(* Steps common to the three operations *)

At(p, place, next) ==
  pc[p] = place /\ pc' = [pc EXCEPT ![p] = next] /\ UNCHANGED python
Returns(p, code)   == ret' = [ret EXCEPT ![p] = code]

locals  == <<op, val, done, buf>>
history == <<last, torn>>

(* The checks of the arguments (for C, a longer value is E2BIG before       *)
(* anything has happened), and hash_inode's name for the entry.             *)
TooLong(v) == ~python /\ Size[v] > MaxSize
Begin(p) ==
  /\ At(p, "idle", "lockfile")
  /\ \/ op' = [op EXCEPT ![p] = "get"] /\ UNCHANGED val
     \/ op' = [op EXCEPT ![p] = "del"] /\ UNCHANGED val
     \/ /\ op' = [op EXCEPT ![p] = "put"]
        /\ \E v \in Value : ~TooLong(v) /\ val' = [val EXCEPT ![p] = v]
  /\ UNCHANGED <<file, lockFile, held, done, buf, ret, result, history>>

(* inode_cache_lock: writers create the lock file, readers only open it, so *)
(* an entry nobody has ever put is ENOENT before any lock is taken.  In     *)
(* Python the lock creates its file for readers too.                        *)
(* A put that only shares the lock has the fault.                           *)
KindFault(p) == IF op[p] = "del" THEN "ex" ELSE "sh"
Kind(p) == IF op[p] = "get" THEN "sh" ELSE "ex"
CreatesLock(p) == python \/ Kind(p) = "ex"
OpenLock(p) ==
  /\ \/ /\ CreatesLock(p) \/ lockFile
        /\ At(p, "lockfile", "flock")
        /\ lockFile' = TRUE
        /\ UNCHANGED locals
     \/ /\ ~CreatesLock(p) /\ ~lockFile
        /\ At(p, "lockfile", "idle")
        /\ UNCHANGED <<lockFile, locals>>
  /\ UNCHANGED <<file, held, ret, result, history>>

(* flock in C, fcntl in Python; neither knows of the other. *)
Conflicts(q, kind) == held[q] # "none" /\ "ex" \in {held[q], kind}
Flock(p) ==
  /\ At(p, "flock", IF op[p] = "del" THEN "unlink" ELSE "entry")
  /\ \A q \in Proc : ~Conflicts(q, Kind(p))
  /\ held' = [held EXCEPT ![p] = Kind(p)]
  /\ UNCHANGED <<file, lockFile, locals, ret, result, history>>

(* The end of an operation: the caller has what it returns.  The kernel     *)
(* drops a lock when its descriptor is closed, also for a process that dies.*)
Ends(p) ==
  /\ held' = [held EXCEPT ![p] = "none"]
  /\ done' = [done EXCEPT ![p] = 0]
  /\ buf' = [buf EXCEPT ![p] = <<>>]
  /\ op' = [op EXCEPT ![p] = "get"]
  /\ val' = [val EXCEPT ![p] = Missing]
  /\ ret' = [ret EXCEPT ![p] = "none"]
  /\ result' = [result EXCEPT ![p] = Garbage]

Unlock(p) ==
  /\ At(p, "unlock", "idle")
  /\ Ends(p)
  /\ UNCHANGED <<file, lockFile, history>>

-----------------------------------------------------------------------------
(* inode_cache_put *)

OpenTruncated(p) ==
  /\ op[p] = "put" /\ At(p, "entry", "write")
  /\ file' = <<>>
  /\ last' = val[p] /\ torn' = FALSE
  /\ UNCHANGED <<lockFile, held, locals, ret, result>>

(* write_entry: the cell goes where the descriptor is; a file somebody has  *)
(* truncated or removed meanwhile is filled up with zeros.                  *)
Put(cells, k, cell) ==
  [j \in 1..(IF Len(cells) > k THEN Len(cells) ELSE k) |->
     IF j = k THEN cell ELSE IF j <= Len(cells) THEN cells[j] ELSE Missing]
Contents == IF file = Missing THEN <<>> ELSE file

(* While there is something left to write; the faulty loop gives up early. *)
WriteMoreFault(k, n) == k < n - 1
WriteMore(k, n) == k < n
Write(p) ==
  LET k == done[p] + 1 IN
  /\ At(p, "write", IF WriteMore(k, Size[val[p]]) THEN "write" ELSE "sync")
  /\ file' = Put(Contents, k, Cells(val[p])[k])
  /\ done' = [done EXCEPT ![p] = k]
  /\ UNCHANGED <<lockFile, held, op, val, buf, ret, result, history>>

SyncAndClose(p) ==
  /\ At(p, "sync", "unlock")
  /\ Returns(p, "ok")
  /\ UNCHANGED <<file, lockFile, held, locals, result, history>>

-----------------------------------------------------------------------------
(* inode_cache_get *)

OpenEntry(p) ==
  /\ op[p] = "get"
  /\ \/ file # Missing /\ At(p, "entry", "read") /\ UNCHANGED ret
     \/ file = Missing /\ At(p, "entry", "unlock") /\ Returns(p, "ENOENT")
  /\ UNCHANGED <<file, lockFile, held, locals, result, history>>

(* read_entry leaves room for a NUL, and reads while there is room left.    *)
(* Python reads it all.                                                     *)
Room(p) == python \/ Len(buf[p]) < MaxSize - 1
AtEnd(p) == Len(buf[p]) >= Len(Contents)
Read(p) ==
  /\ pc[p] = "read" /\ Room(p) /\ ~AtEnd(p)
  /\ buf' = [buf EXCEPT ![p] = Append(@, Contents[Len(@) + 1])]
  /\ UNCHANGED <<python, file, lockFile, held, pc, op, val, done, ret, result,
                 history>>

(* The loop ends.  Without room left the last read was not the end of the   *)
(* file, as far as the code can tell; with nothing read at all, it looks at *)
(* the byte before the buffer.  *result is set either way.                  *)
ReadCode(p) == IF Room(p) THEN "ok" ELSE "EXIT_FAILURE"
ReadEnds(p) ==
  /\ ~Room(p) \/ AtEnd(p)
  /\ At(p, "read", "unlock")
  /\ Returns(p, ReadCode(p))
  /\ result' = [result EXCEPT ![p] = buf[p]]
  /\ UNCHANGED <<file, lockFile, held, locals, history>>

-----------------------------------------------------------------------------
(* inode_cache_del *)

Unlink(p) ==
  /\ At(p, "unlink", "unlock")
  /\ file' = Missing /\ torn' = FALSE
  /\ Returns(p, "ok")
  /\ UNCHANGED <<lockFile, held, locals, result, last>>

-----------------------------------------------------------------------------
(* Failures *)

CutShort(p) == torn' = (torn \/ pc[p] = "write")

(* A system call fails, before there is a lock or under it.  A get sets     *)
(* *result even when the read has failed.                                   *)
FailToLock(p) ==
  /\ At(p, "lockfile", "idle") \/ At(p, "flock", "idle")
  /\ Ends(p)
  /\ UNCHANGED <<file, lockFile, history>>

(* Every error exit unlocks; the fault is one that just returns. *)
OnErrorFault == "idle"
OnError == "unlock"
Fail(p) ==
  /\ pc[p] \in {"entry", "read", "write", "sync", "unlink"}
  /\ At(p, pc[p], OnError)
  /\ Returns(p, "errno")
  /\ CutShort(p)
  /\ UNCHANGED <<file, lockFile, held, locals, result, last>>

(* The process is killed; another one takes its place. *)
Crash(p) ==
  /\ pc[p] # "idle"
  /\ pc' = [pc EXCEPT ![p] = "idle"] /\ UNCHANGED python
  /\ Ends(p)
  /\ CutShort(p)
  /\ UNCHANGED <<file, lockFile, last>>

Step(p) ==
  \/ OpenLock(p) \/ Flock(p) \/ Unlock(p)
  \/ OpenTruncated(p) \/ Write(p) \/ SyncAndClose(p)
  \/ OpenEntry(p) \/ Read(p) \/ ReadEnds(p)
  \/ Unlink(p)

Next ==
  \E p \in Proc :
    Begin(p) \/ Step(p) \/ FailToLock(p) \/ Fail(p) \/ Crash(p)

(* An operation keeps running once it has begun; the one place where it     *)
(* waits is flock.                                                          *)
Spec == Init /\ [][Next]_vars /\ \A p \in Proc : WF_vars(Step(p))

-----------------------------------------------------------------------------
(* What a cache must do *)

(* A get that succeeds returns the value last put, every cell of it and     *)
(* with C's NUL, however many get, put and delete at the same time, unless  *)
(* that put was cut short.                                                  *)
GetIsLastPut ==
  \A p \in Proc :
    op[p] = "get" /\ pc[p] = "unlock" /\ ret[p] = "ok" =>
      torn \/ result[p] = Cells(last)

(* An incomplete entry outlives no put that was not cut short: whenever     *)
(* nobody is inside a put, the entry is what was last put.                  *)
TornOnlyIfCutShort ==
  file # Missing /\ (\A p \in Proc : pc[p] \notin {"write", "sync"}) =>
    torn \/ file = Cells(last)

(* A put that went well is what the file holds until somebody else has the  *)
(* lock: it never succeeds for an entry that is not in the file.            *)
PutIsStored ==
  \A p \in Proc :
    op[p] = "put" /\ pc[p] = "unlock" /\ ret[p] = "ok" =>
      file = Cells(val[p]) /\ ~torn

(* The locks of a process that ends, fails or dies never hold up the        *)
(* others for good: when no more operations begin, all of them end.         *)
Quiesces ==
  []<><<\E p \in Proc : Begin(p)>>_vars \/ <>[](\A p \in Proc : pc[p] = "idle")

-----------------------------------------------------------------------------
(* What the repository says and the code does not do *)

(* The last return of read_entry "should not happen": what put accepts      *)
(* fits into the buffer of a get.                                           *)
FitsBuffer == \A p \in Proc : ret[p] = "EXIT_FAILURE" => torn
===============================================================================
