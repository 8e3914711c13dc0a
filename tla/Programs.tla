------------------------------- MODULE Programs -------------------------------
(***************************************************************************)
(* The two C programs that ask the compiler for its properties, from main  *)
(* to their exit status: bench_inodecache makes the cache directory, asks  *)
(* for the triplet and does a run of BenchRun; test_inodecache uses the    *)
(* cache and asks for the triplet and for -march=native.                   *)
(***************************************************************************)
EXTENDS BenchRun, Sequences

CONSTANTS Depth, PipeCap, MaxLines

ASSUME ProgramsAssumption ==
  Depth \in Nat \ {0} /\ PipeCap \in Nat \ {0} /\ MaxLines \in Nat

VARIABLES
  tree, absolute, hollow, mk, k, fds, gone, cut, made, removed,    \* mkdir_p
  fn, at, err, ptr, gcc, todo, pipe, ends, left,         \* compiler properties
  program,    \* "bench" or "test"
  main,       \* where its main is
  status,     \* its exit status: 0 or not
  freedTwice  \* it has called free with a pointer that had been freed

M == INSTANCE MkdirP
C == INSTANCE CompilerProperties

mkdirVars == <<tree, absolute, hollow, mk, k, fds, gone, cut, made, removed>>
probeVars == <<fn, at, err, ptr, gcc, todo, pipe, ends, left>>
mainVars  == <<program, main, status, freedTwice>>
allVars   == <<vars, mkdirVars, probeVars, mainVars>>

(* The types of all the parts. *)
MainTypeOK ==
  /\ BenchTypeOK /\ M!TypeOK /\ C!TypeOK
  /\ program \in {"bench", "test"}
  /\ main \in {"mkdir", "cache", "triplet", "march", "run", "out", "exit"}
  /\ status \in {0, 1}
  /\ freedTwice \in BOOLEAN

MainInit ==
  /\ BenchInit /\ M!Init /\ C!Init
  /\ \/ program = "bench" /\ main = "mkdir"
     \/ program = "test" /\ main = "cache"
  /\ status = 0 /\ freedTwice = FALSE

Moves(here, there) ==
  main = here /\ main' = there /\ UNCHANGED <<program, freedTwice>>

-----------------------------------------------------------------------------
(* Calls, of which main sees the result *)

Making(step) ==
  /\ main = "mkdir"
  /\ step
  /\ UNCHANGED <<vars, probeVars, mainVars>>
Mkdir == Making(M!MkdirStep)
OthersMkdir == mk # "returned" /\ Making(M!Others)

Asking(step) ==
  /\ main \in {"triplet", "march"}
  /\ step
  /\ UNCHANGED <<vars, mkdirVars, mainVars>>
Ask == Asking(C!CallStep)
GccStep == Asking(C!GccStep)
AskFails == Asking(C!CallFails)
GccFails == Asking(C!GccFails)

(* What run_bench and its children do, while main is in it. *)
Running(step) ==
  /\ main = "run"
  /\ step
  /\ UNCHANGED <<mkdirVars, probeVars, mainVars>>

-----------------------------------------------------------------------------
(* main of bench_inodecache *)

(* With the descriptor main goes on; the path is of no more concern, and    *)
(* the model forgets it.                                                    *)
MkdirReturns ==
  /\ program = "bench" /\ mk = "returned"
  /\ \/ /\ made = "fd" /\ Moves("mkdir", "triplet") /\ C!Begin("triplet")
        /\ M!Forgotten /\ UNCHANGED status
     \/ /\ made # "fd" /\ Moves("mkdir", "out") /\ status' = 1
        /\ UNCHANGED <<mkdirVars, probeVars>>
  /\ UNCHANGED vars

TripletReturns ==
  /\ program = "bench" /\ at = "returned"
  /\ IF err = "ok" THEN Moves("triplet", "run") /\ UNCHANGED status
                   ELSE Moves("triplet", "out") /\ status' = 1
  /\ UNCHANGED <<vars, mkdirVars, probeVars>>

(* The faulty main returns what run_bench never sets. *)
RunStatusFault == 0
RunStatus == IF ret > 0 THEN 1 ELSE 0
(* run_bench closes its cache, and with it the descriptor that main closes  *)
(* once more at its end.                                                    *)
RunReturns ==
  /\ parent = "done"
  /\ Moves("run", "out") /\ status' = RunStatus
  /\ fds' = fds - 1
  /\ UNCHANGED <<vars, tree, absolute, hollow, mk, k, gone, cut, made, removed,
                 probeVars>>

-----------------------------------------------------------------------------
(* main of test_inodecache: a delete, a put, a get and a comparison, any of *)
(* which may end it, before it asks and after it has asked.                 *)

CacheReturns ==
  /\ main = "cache"
  /\ \/ /\ at = "idle"
        /\ Moves("cache", "triplet") /\ C!Begin("triplet") /\ UNCHANGED status
     \/ /\ Moves("cache", "out") /\ UNCHANGED probeVars
        /\ status' \in IF at = "idle" THEN {1} ELSE {0, 1}
  /\ UNCHANGED <<vars, mkdirVars>>

AskReturns ==
  /\ program = "test" /\ at = "returned"
  /\ \/ /\ err = "ok" /\ fn = "triplet"
        /\ Moves("triplet", "march") /\ C!Begin("march") /\ UNCHANGED status
     \/ /\ err = "ok" /\ fn = "march" /\ ptr["march"] # "null"
        /\ Moves("march", "cache") /\ UNCHANGED <<status, probeVars>>
     \/ /\ err # "ok" \/ (fn = "march" /\ ptr["march"] = "null")
        /\ Moves(fn, "out") /\ status' = 1 /\ UNCHANGED probeVars
  /\ UNCHANGED <<vars, mkdirVars>>

-----------------------------------------------------------------------------
(* Both free what they were given, and close what they have. *)

Exit ==
  /\ main = "out" /\ main' = "exit"
  /\ freedTwice' = (\E f \in C!Call : ptr[f] = "freed")
  /\ ptr' = [f \in C!Call |-> C!Freed(ptr[f])]
  /\ fds' = IF made = "fd" /\ fds > 0 THEN fds - 1 ELSE fds
  /\ UNCHANGED <<vars, tree, absolute, hollow, mk, k, gone, cut, made, removed,
                 fn, at, err, gcc, todo, pipe, ends, left, program, status>>

Exited == main = "exit" /\ UNCHANGED allVars

MainStep ==
  \/ MkdirReturns \/ TripletReturns \/ RunReturns
  \/ CacheReturns \/ AskReturns \/ Exit

MainNext ==
  \/ Mkdir \/ OthersMkdir \/ Ask \/ GccStep \/ AskFails \/ GccFails
  \/ Running(BenchNext) \/ MainStep \/ Exited

(* The program and the compiler run; only BenchRun and waitpid wait.        *)
MainSpec ==
  /\ MainInit /\ [][MainNext]_allVars
  /\ WF_allVars(Mkdir) /\ WF_allVars(Ask) /\ WF_allVars(GccStep)
  /\ WF_allVars(MainStep)
  /\ WF_allVars(Running(Setup \/ Fork \/ Wait))
  /\ \A p \in Proc : WF_allVars(Running(ChildStep(p)))

-----------------------------------------------------------------------------
(* What the programs must do *)

(* mkdir_p that returns a descriptor has made every directory of the path;  *)
(* one that fails, and not for lack of permission or memory, was given a    *)
(* path with an empty component or found something that is no directory.    *)
(* Others that make the same directories at the same time change nothing:   *)
(* only somebody who removes them does.                                     *)
DirectoryMade ==
  main = "mkdir" /\ mk = "returned" /\ ~removed =>
    /\ made = "fd" => \A j \in 1..Depth : tree[j] = "dir"
    /\ made \in {"exists", "noent", "notdir"} =>
         hollow # 0 \/ \E j \in 1..Depth : tree[j] = "other"

(* Every way out of mkdir_p gives the path its '/' back, and none leaves a  *)
(* directory open: the run, whose children inherit what is open, begins     *)
(* with the cache directory alone, and the program ends with no directory.  *)
(* Of the calls that ask the compiler, only a failed fork (or, before it,   *)
(* asprintf) leaves something open, the pipe's other end, and with it the   *)
(* program is at its end; and only a call that fails after its fork, or     *)
(* that reads no answer, leaves a compiler nobody has waited for.           *)
LeftOnlyByFailures ==
  /\ mk = "returned" => ~cut
  /\ main = "run" => fds = 1 /\ ends = 0
  /\ main = "exit" => fds = 0
  /\ main \in {"out", "exit"} /\ ends > 0 => ends = 1 /\ err = "nofork"
  /\ main \in {"run", "out"} /\ left =>
       \/ err = "errno" \/ ptr["triplet"] = "junk"
       \/ fn = "march" /\ ptr["march"] = "null"

(* A call that returns 0 has the compiler's answer, all of it, from a       *)
(* compiler that did not fail.  The exception is a compiler that says       *)
(* nothing, or nothing to the point: it is not waited for, and when errno   *)
(* happens to be 0 the caller gets a 0 with no answer.                      *)
OnlyAnswers ==
  main \in C!Call /\ at = "returned" /\ err = "ok" =>
    ptr[fn] = "answer" \/ (left /\ ptr[fn] \in {"junk", "null"})

(* What an error has freed is freed again only after get_gcc_triplet: it    *)
(* does not reset the caller's pointer, as get_march_native does.           *)
FreedTwiceOnlyAfterTriplet == freedTwice => fn = "triplet" /\ err # "ok"

(* bench_inodecache exits with 0 only if every child has measured and       *)
(* merged; or if no child was started, because the set-up of the run        *)
(* failed: its error never gets to main.                                    *)
SuccessMeansMeasured ==
  main = "exit" /\ status = 0 /\ program = "bench" =>
    \/ \A p \in Proc : child[p] = "finished"
    \/ \A p \in Proc : child[p] = "unborn"

(* The programs come to their end.  A bench run may lose a child the others *)
(* wait for; a compiler may have more to say, when the code has stopped     *)
(* reading, than the pipe holds.                                            *)
MainEnds ==
  <>(main = "exit" \/ C!Stuck \/ \E p \in Proc : Lost(p))
===============================================================================
