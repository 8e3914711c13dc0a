-------------------------- MODULE CompilerProperties --------------------------
(***************************************************************************)
(* c/compiler_properties.c: get_gcc_triplet and get_march_native fork the  *)
(* compiler, read from a pipe what it prints, wait for it, and leave what  *)
(* they were asked for in a variable of the caller.                        *)
(***************************************************************************)
EXTENDS Integers, Sequences

CONSTANTS
  PipeCap,   \* lines the pipe holds, at least 1
  MaxLines   \* lines the compiler prints, at most

Call == {"triplet", "march"}

(* A line, as far as the code can tell: what it says and how it ends.       *)
(* "part" is the beginning of the answer, cut off when the compiler died.   *)
Line == [says : {"answer", "part", "other"}, ends : {"newline", "eof"}]

VARIABLES
  fn,       \* the function that runs, or ran last
  at,       \* where it is
  err,      \* what it returns: "ok", the compiler's "status", an "errno"; or
            \* the errno of a fork that failed with its pipe made, "nofork"
  ptr,      \* ptr[f]: what the caller's variable for f points to
  gcc,      \* the compiler, its exit status while nobody has waited for it
  todo,     \* lines it has yet to print
  pipe,     \* lines in the pipe
  ends,     \* ends of the pipe that the process has open
  left      \* it has left a compiler behind that it never waited for

probeVars == <<fn, at, err, ptr, gcc, todo, pipe, ends, left>>

TypeOK ==
  /\ fn \in Call
  /\ at \in {"idle", "setup", "getline", "waitpid", "out", "returned"}
  /\ err \in {"ok", "status", "errno", "nofork"}
  /\ ptr \in [Call -> {"null", "answer", "part", "other", "junk", "freed"}]
  /\ gcc \in {"none", "running", "success", "failure", "killed"}
  /\ todo \in Seq(Line)
  /\ pipe \in Seq(Line) /\ Len(pipe) <= PipeCap
  /\ ends \in 0..2 /\ left \in BOOLEAN

Init ==
  /\ fn = "triplet" /\ at = "idle" /\ err = "ok"
  /\ ptr = [f \in Call |-> "null"]
  /\ gcc = "none" /\ todo = <<>> /\ pipe = <<>>
  /\ ends = 0 /\ left = FALSE

-----------------------------------------------------------------------------
(* The compiler *)

Says(what) == [says |-> what, ends |-> "newline"]
Others(n)  == [j \in 1..n |-> Says("other")]

(* -dumpmachine answers with its first line, if it prints any;              *)
(* --help=target has at most one line for an option, among others.  The     *)
(* last line may lack its newline.                                          *)
Answers(f) ==
  {<<>>} \cup
  {Others(b) \o <<Says("answer")>> \o Others(a) :
     a \in 0..MaxLines - 1,
     b \in IF f = "triplet" THEN {0} ELSE 0..MaxLines - 1}
Unended(s) == [s EXCEPT ![Len(s)].ends = "eof"]
Output(f) ==
  LET short == {s \in Answers(f) : Len(s) <= MaxLines}
      full  == IF f = "march" THEN short \cup {Others(MaxLines)} ELSE short
  IN  full \cup {Unended(s) : s \in full \ {<<>>}}

GccPrints ==
  /\ gcc = "running" /\ todo # <<>> /\ Len(pipe) < PipeCap
  /\ pipe' = Append(pipe, Head(todo))
  /\ todo' = Tail(todo)
  /\ UNCHANGED <<fn, at, err, ptr, gcc, ends, left>>

GccExits ==
  /\ gcc = "running" /\ todo = <<>>
  /\ gcc' \in {"success", "failure"}
  /\ UNCHANGED <<fn, at, err, ptr, todo, pipe, ends, left>>

(* It is killed, in the middle of a line if there is room for one; or it    *)
(* could not be run at all, or fails without printing the rest.             *)
GccFails ==
  /\ gcc = "running"
  /\ \/ gcc' \in {"killed", "failure"} /\ UNCHANGED pipe
     \/ /\ gcc' = "killed" /\ todo # <<>> /\ Len(pipe) < PipeCap
        /\ pipe' = Append(pipe,
             [says |-> IF Head(todo).says = "answer" THEN "part" ELSE "other",
              ends |-> "eof"])
  /\ todo' = <<>>
  /\ UNCHANGED <<fn, at, err, ptr, ends, left>>

GccStep == GccPrints \/ GccExits

-----------------------------------------------------------------------------
(* Steps of both functions *)

(* free(p), of a pointer that stays what it was.                            *)
Freed(v) == IF v = "null" THEN "null" ELSE "freed"

Begin(f) ==
  /\ at \in {"idle", "returned"}
  /\ fn' = f /\ at' = "setup" /\ err' = "ok"
  /\ UNCHANGED <<ptr, gcc, todo, pipe, ends, left>>

(* pipe, fork, close, fdopen.  What the caller's variable pointed to is     *)
(* freed; the callers pass a NULL.                                          *)
Fork ==
  /\ at = "setup" /\ at' = "getline"
  /\ gcc' = "running" /\ todo' \in Output(fn) /\ ends' = ends + 1
  /\ ptr' = [ptr EXCEPT ![fn] = "null"]
  /\ UNCHANGED <<fn, err, pipe, left>>

(* The pipe fails; or the fork, or what get_gcc_triplet allocates before it;*)
(* or fdopen.  There are none, both or one of the pipe's ends, and in the   *)
(* end a child that nobody waits for.                                       *)
SetupFails ==
  /\ at = "setup" /\ at' = "out"
  /\ \/ err' = "errno"  /\ UNCHANGED <<ends, left>>
     \/ err' = "nofork" /\ ends' = ends + 2 /\ UNCHANGED left
     \/ err' = "errno"  /\ ends' = ends + 1 /\ left' = TRUE
  /\ UNCHANGED <<fn, ptr, gcc, todo, pipe>>

GccEnded == gcc \in {"success", "failure", "killed"}
AtEof == pipe = <<>> /\ GccEnded

(* A line arrives, and fn goes on at another place.                         *)
Gets(next) ==
  /\ at = "getline" /\ pipe # <<>>
  /\ at' = next /\ pipe' = Tail(pipe)

(* getline, strdup or waitpid fails. *)
SystemCallFails ==
  /\ at \in {"getline", "waitpid"} /\ at' = "out" /\ err' = "errno"
  /\ UNCHANGED <<fn, ptr, gcc, todo, pipe, ends, left>>

(* At the end of the input the code returns -errno, and errno is whatever   *)
(* it happens to be, 0 included.  get_gcc_triplet's variable has the buffer *)
(* that getline allocated, and put nothing into.                            *)
NothingRead ==
  /\ at = "getline" /\ AtEof /\ at' = "out"
  /\ err' \in {"ok", "errno"}
  /\ ptr' = [ptr EXCEPT ![fn] = IF fn = "triplet" THEN "junk" ELSE @]
  /\ UNCHANGED <<fn, gcc, todo, pipe, ends, left>>

(* The faulty code believes a compiler that says something and then fails.  *)
StatusCodeFault == "ok"
StatusCode == IF gcc = "success" THEN "ok" ELSE "status"
Waitpid ==
  /\ at = "waitpid" /\ GccEnded /\ at' = "out"
  /\ err' = IF StatusCode = "ok" /\ ptr[fn] = "null" THEN "errno"
                                                   ELSE StatusCode
  /\ gcc' = "none"
  /\ UNCHANGED <<fn, ptr, todo, pipe, ends, left>>

(* At out the stream is closed, and with it the end of the pipe that is     *)
(* read, but not the other one; on an error what *value points to is freed. *)
(* A faulty out closes neither.                                             *)
ClosedFault(n) == n
Closed(n) == IF n > 0 THEN n - 1 ELSE 0
Out(value) ==
  /\ at = "out" /\ at' = "returned"
  /\ ptr' = [ptr EXCEPT ![fn] = IF err = "ok" THEN @ ELSE value]
  /\ ends' = Closed(ends)
  /\ left' = (left \/ gcc # "none")
  /\ gcc' = "none" /\ todo' = <<>> /\ pipe' = <<>>
  /\ UNCHANGED <<fn, err>>

-----------------------------------------------------------------------------
(* get_gcc_triplet takes the first line for its answer.  On an error it     *)
(* sets `value`, its own variable, to NULL, and leaves the caller's alone.  *)

TripletLine ==
  /\ fn = "triplet" /\ Gets("waitpid")
  /\ ptr' = [ptr EXCEPT !["triplet"] = Head(pipe).says]
  /\ UNCHANGED <<fn, err, gcc, todo, ends, left>>

TripletOut == fn = "triplet" /\ Out(Freed(ptr["triplet"]))

-----------------------------------------------------------------------------
(* get_march_native looks for a line "-march=CPU", spaces removed, and      *)
(* leaves its loop there; or at a last line that has no newline.            *)

MarchLine ==
  /\ fn = "march"
  /\ Gets(IF Head(pipe) = Says("other") THEN "getline" ELSE "waitpid")
  /\ ptr' = [ptr EXCEPT !["march"] =
               IF Head(pipe).says = "other" THEN @ ELSE Head(pipe).says]
  /\ UNCHANGED <<fn, err, gcc, todo, ends, left>>

MarchOutFault == fn = "march" /\ Out(Freed(ptr["march"]))
MarchOut == fn = "march" /\ Out("null")

CallStep ==
  \/ Fork \/ TripletLine \/ MarchLine \/ NothingRead
  \/ Waitpid \/ TripletOut \/ MarchOut
CallFails == SetupFails \/ SystemCallFails

-----------------------------------------------------------------------------
(* The caller is in waitpid while the compiler waits for it to read: the    *)
(* stream is still open.                                                    *)
Stuck ==
  at = "waitpid" /\ gcc = "running" /\ todo # <<>> /\ Len(pipe) = PipeCap
===============================================================================
