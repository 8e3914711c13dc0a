-------------------------------- MODULE MkdirP --------------------------------
(***************************************************************************)
(* c/mkdir_p.c: mkdir_p walks down a path, making what is missing, with a  *)
(* descriptor of the directory it has reached.  Others make and remove     *)
(* directories of the same path at the same time.                          *)
(***************************************************************************)
EXTENDS Integers

CONSTANT Depth    \* components of the path, at least 1

VARIABLES
  tree,      \* tree[k]: what is at the path's first k components
  absolute,  \* the path begins with a '/'
  hollow,    \* the component that is empty ("a//b", "a/"), 0 if none is
  mk,        \* where mkdir_p is
  k,         \* the component it is at
  fds,       \* directories it has open
  gone,      \* the directory it is in (dirfd) has been removed
  cut,       \* the path has a NUL in the place of the '/' after component k
  made,      \* its result: "fd", or what failed
  removed    \* history: somebody removed a directory of the path

input == <<absolute, hollow>>
mkdirVars == <<tree, input, mk, k, fds, gone, cut, made, removed>>

(* Nothing exists below what is missing, or below what is no directory.     *)
Nested == \A j \in 1..Depth - 1 : tree[j] # "dir" => tree[j + 1] = "none"

TypeOK ==
  /\ tree \in [1..Depth -> {"none", "dir", "other"}]
  /\ Nested
  /\ absolute \in BOOLEAN /\ hollow \in 0..Depth
  /\ mk \in {"start", "mkdirat", "openat", "returned"}
  /\ k \in 1..Depth
  /\ fds \in 0..Depth + 1
  /\ gone \in BOOLEAN /\ cut \in BOOLEAN
  /\ made \in {"none", "fd", "exists", "noent", "notdir", "errno"}
  /\ removed \in BOOLEAN

Init ==
  /\ tree \in [1..Depth -> {"none", "dir", "other"}] /\ Nested
  /\ absolute \in BOOLEAN
  /\ hollow \in 0..Depth /\ (hollow # 0 => tree[hollow] = "none")
  /\ mk = "start" /\ k = 1
  /\ fds = 0 /\ gone = FALSE /\ cut = FALSE
  /\ made = "none" /\ removed = FALSE

-----------------------------------------------------------------------------
(* mkdir_p.  It has a directory open unless it starts from the current one. *)
Dirs == IF mk # "start" /\ (absolute \/ k > 1) THEN 1 ELSE 0

(* At "out" it puts the '/' back and closes what it has.                    *)
FailsFault(why) ==
  /\ mk' = "returned" /\ made' = why
  /\ fds' = fds - Dirs
  /\ UNCHANGED <<tree, input, k, gone, cut, removed>>
Fails(why) ==
  /\ mk' = "returned" /\ made' = why
  /\ cut' = FALSE /\ fds' = fds - Dirs
  /\ UNCHANGED <<tree, input, k, gone, removed>>

OpenRoot ==
  /\ mk = "start"
  /\ \/ /\ mk' = "mkdirat"
        /\ fds' = IF absolute THEN 1 ELSE 0
        /\ UNCHANGED <<tree, input, k, gone, cut, made, removed>>
     \/ absolute /\ Fails("errno")

(* What mkdirat returns for component k of the directory it has.            *)
MkdirCode ==
  IF gone \/ hollow = k THEN "noent"
  ELSE IF tree[k] # "none" THEN "exists"
  ELSE "made"

(* What exists is as good as made; the fault insists on making it.          *)
ToleratedFault == {"made"}
Tolerated == {"made", "exists"}
MkdirAt ==
  /\ mk = "mkdirat"
  /\ \/ /\ MkdirCode \in Tolerated
        /\ mk' = "openat" /\ cut' = (k < Depth)
        /\ tree' = [tree EXCEPT ![k] = IF @ = "none" THEN "dir" ELSE @]
        /\ UNCHANGED <<input, k, fds, gone, made, removed>>
     \/ MkdirCode \notin Tolerated /\ Fails(MkdirCode)
     \/ MkdirCode = "made" /\ Fails("errno")

(* The next directory replaces the one it had, which is closed.             *)
OpenAt ==
  /\ mk = "openat"
  /\ \/ /\ tree[k] = "dir" /\ ~gone
        /\ fds' = fds + 1 - Dirs /\ cut' = FALSE
        /\ IF k < Depth
             THEN mk' = "mkdirat" /\ k' = k + 1 /\ UNCHANGED made
             ELSE mk' = "returned" /\ made' = "fd" /\ UNCHANGED k
        /\ UNCHANGED <<tree, input, gone, removed>>
     \/ (tree[k] # "dir" \/ gone) /\ Fails("notdir")
     \/ Fails("errno")

MkdirStep == OpenRoot \/ MkdirAt \/ OpenAt

(* All that the caller keeps is the descriptor. *)
Forgotten ==
  /\ tree' = [j \in 1..Depth |-> "none"]
  /\ absolute' = FALSE /\ hollow' = 0 /\ k' = 1
  /\ gone' = FALSE /\ removed' = FALSE
  /\ UNCHANGED <<mk, fds, cut, made>>

-----------------------------------------------------------------------------
(* Everybody else, such as other processes in mkdir_p *)

OthersMake(j) ==
  /\ tree[j] = "none" /\ hollow # j
  /\ j > 1 => tree[j - 1] = "dir"
  /\ \E what \in {"dir", "other"} : tree' = [tree EXCEPT ![j] = what]
  /\ UNCHANGED <<input, mk, k, fds, gone, cut, made, removed>>

(* A directory can go when it is empty, even while somebody has it open:    *)
(* then nothing can be made in it any more.                                 *)
OthersRemove(j) ==
  /\ tree[j] # "none"
  /\ j < Depth => tree[j + 1] = "none"
  /\ tree' = [tree EXCEPT ![j] = "none"]
  /\ removed' = TRUE
  /\ gone' = (gone \/ j < k)
  /\ UNCHANGED <<input, mk, k, fds, cut, made>>

Others == \E j \in 1..Depth : OthersMake(j) \/ OthersRemove(j)
===============================================================================
