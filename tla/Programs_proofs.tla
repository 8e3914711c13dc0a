---------------------------- MODULE Programs_proofs ----------------------------
(***************************************************************************)
(* What holds of the two programs for any number of children, any depth of *)
(* the path, any pipe and any compiler.  A step of main's callees is a     *)
(* step of one component, which keeps that component's invariant: Path for *)
(* mkdir_p, Probe for the two functions that ask the compiler, BenchIInv   *)
(* for the run.  Main says how they hang together.                         *)
(***************************************************************************)
EXTENDS Programs, BenchRun_proofs, SequenceTheorems

(* mkdir_p has one directory open, or none while it is in the one it        *)
(* started from, and what it has passed is there unless it is gone; if      *)
(* nobody removes directories, it fails for cause.                          *)
Path ==
  /\ fds = IF mk # "returned" THEN M!Dirs ELSE IF made = "fd" THEN 1 ELSE 0
  /\ mk = "start" => k = 1
  /\ ~gone => \A j \in 1..k - 1 : tree[j] = "dir"
  /\ ~removed =>
       /\ ~gone
       /\ mk = "openat" => tree[k] # "none"
       /\ made = "fd" => \A j \in 1..Depth : tree[j] = "dir"
       /\ made \in {"exists", "noent", "notdir"} =>
            hollow # 0 \/ \E j \in 1..Depth : tree[j] = "other"

(* The compiler's lines are an answer or something else, and a triplet's    *)
(* first line is the answer; only one that was killed leaves half a line.   *)
Told(line) == line.says = "answer" \/ gcc = "killed"
Lines ==
  at = "getline" =>
    /\ \A j \in 1..Len(todo) : todo[j].says # "part"
    /\ \A j \in 1..Len(pipe) : pipe[j].says = "part" => gcc = "killed"
    /\ fn = "triplet" =>
         /\ pipe # <<>> => Told(pipe[1])
         /\ pipe = <<>> /\ todo # <<>> => todo[1].says = "answer"

(* What the caller's variable points to, and what is open.                  *)
Answered ==
  ptr[fn] = "answer" \/ ((gcc # "none" \/ left) /\ ptr[fn] \in {"junk", "null"})
Probe ==
  /\ Lines
  /\ at \in {"idle", "setup"} => gcc = "none" /\ ends = 0 /\ ptr[fn] = "null"
  /\ at = "idle" => fn = "triplet"
  /\ at \in {"getline", "waitpid"} => gcc # "none" /\ ends = 1
  /\ at \in {"idle", "setup", "returned"} => gcc = "none" /\ pipe = <<>>
  /\ at = "getline" => ptr[fn] = "null"
  /\ at = "waitpid" =>
       \/ ptr[fn] = "answer" \/ gcc = "killed"
       \/ fn = "march" /\ ptr[fn] = "null"
  /\ at \in {"out", "returned"} /\ err = "ok" => Answered
  /\ at = "out" /\ err = "ok" => ends = 1
  /\ at = "returned" /\ err = "ok" => ends = 0
  /\ ptr["march"] # "freed" /\ (fn = "triplet" => ptr["march"] = "null")
  /\ ptr["triplet"] = "freed" => at = "returned" /\ fn = "triplet" /\ err # "ok"

(* What a call leaves behind.  Both ends of the pipe are open at its out    *)
(* only if the fork failed; a compiler was left, or is about to be, by a    *)
(* call that failed with an errno or read no answer.                        *)
NoAnswer ==
  \/ err = "errno" \/ ptr["triplet"] = "junk"
  \/ fn = "march" /\ at \in {"out", "returned"} /\ ptr["march"] = "null"
Leaves ==
  /\ at \in {"setup", "getline", "waitpid"} => err = "ok"
  /\ at = "out" /\ ends = 2 => err = "nofork"
  /\ at = "returned" /\ ends > 0 => ends = 1 /\ err = "nofork"
  /\ left \/ (at = "out" /\ gcc # "none") => NoAnswer
  /\ fn = "triplet" /\ at \notin {"out", "returned"} => ~left
  /\ fn = "triplet" /\ ptr["triplet"] = "junk" =>
       at \in {"out", "returned"} /\ err \in {"ok", "errno"}

(* Where each program's main is agrees with what its calls have returned.   *)
Main ==
  /\ cut => mk = "openat"
  /\ program = "bench" =>
       /\ main \in {"mkdir", "triplet", "run", "out", "exit"}
       /\ main \in {"triplet", "run"} => made = "fd" /\ fds = 1
       /\ main \in {"out", "exit"} /\ status = 0 => parent = "done" /\ ret = 0
  /\ program = "test" =>
       /\ main \in {"cache", "triplet", "march", "out", "exit"}
       /\ mk = "start" /\ fds = 0
  /\ mk = "start" => made = "none"
  /\ fds \in {0, 1} /\ (main = "out" /\ fds = 1 => made = "fd")
  /\ main = "exit" => fds = 0
  /\ main = "exit" /\ ends > 0 => ends = 1 /\ err = "nofork"
  /\ main # "exit" => ~freedTwice
  /\ main = "mkdir" => at = "idle"
  /\ main \in C!Call => fn = main /\ at # "idle"
  /\ main = "cache" => at = "idle" \/ (at = "returned" /\ err = "ok")
  /\ main = "run" => at = "returned" /\ err = "ok"
  /\ main \in {"out", "exit"} => at \in {"idle", "returned"}

MainIInv ==
  /\ MainTypeOK /\ BenchIInv /\ Main
  /\ main = "mkdir" => Path
  /\ main # "exit" => Probe /\ Leaves
  /\ FreedTwiceOnlyAfterTriplet

-----------------------------------------------------------------------------
(* mkdir_p *)

(* To fail is to put the path in order and to close what is open.           *)
LEMMA FailsKeeps ==
  ASSUME M!TypeOK, Path, mk # "returned",
         NEW why \in {"noent", "notdir", "errno"}, M!Fails(why),
         why \in {"noent", "notdir"} /\ ~removed =>
           hollow # 0 \/ \E j \in 1..Depth : tree[j] = "other"
  PROVE  M!TypeOK' /\ Path' /\ ~cut' /\ mk' = "returned"
<1> USE ProgramsAssumption DEF M!Fails, M!TypeOK, M!input
<1>1. M!Nested'
  BY DEF M!Nested
<1>2. fds' = 0
  BY DEF Path, M!Dirs
<1>3. /\ absolute' \in BOOLEAN /\ hollow' \in 0..Depth /\ k' \in 1..Depth
      /\ gone' \in BOOLEAN /\ cut' \in BOOLEAN /\ removed' \in BOOLEAN
  OBVIOUS
<1>4. /\ tree' \in [1..Depth -> {"none", "dir", "other"}]
      /\ mk' = "returned" /\ fds' \in 0..Depth + 1
      /\ made' \in {"none", "fd", "exists", "noent", "notdir", "errno"}
  BY <1>2
<1>5. M!TypeOK'
  BY <1>1, <1>3, <1>4
<1>6. Path'
  BY <1>2 DEF Path
<1> QED
  BY <1>5, <1>6

(* A step of mkdir_p, or of the others while it runs, keeps what it knows   *)
(* of the path and of its descriptor.                                       *)
LEMMA PathStep ==
  ASSUME M!TypeOK, Path, M!MkdirStep \/ (mk # "returned" /\ M!Others),
         cut => mk = "openat", mk = "start" => made = "none"
  PROVE  /\ M!TypeOK' /\ Path'
         /\ cut' => mk' = "openat"
         /\ mk' = "start" => made' = "none"
<1> USE ProgramsAssumption
<1>1. CASE M!OpenRoot
  <2>1. CASE M!Fails("errno")
    BY <1>1, <2>1, FailsKeeps DEF M!OpenRoot
  <2>2. CASE /\ mk = "start" /\ mk' = "mkdirat"
             /\ fds' = IF absolute THEN 1 ELSE 0
             /\ UNCHANGED <<tree, M!input, k, gone, cut, made, removed>>
    <3> USE <2>2 DEF M!TypeOK, M!input
    <3>1. M!Nested' /\ fds' \in 0..Depth + 1
      BY DEF M!Nested
    <3>2. M!TypeOK'
      BY <3>1
    <3>3. Path'
      BY DEF Path, M!Dirs
    <3> QED
      BY <3>2, <3>3
  <2> QED
    BY <1>1, <2>1, <2>2 DEF M!OpenRoot
<1>2. CASE M!MkdirAt
  <2>1. CASE M!MkdirCode \notin M!Tolerated /\ M!Fails(M!MkdirCode)
    <3>1. M!MkdirCode = "noent" /\ (~removed => hollow # 0)
      BY <2>1 DEF M!MkdirCode, M!Tolerated, Path, M!TypeOK
    <3> QED
      BY <1>2, <2>1, <3>1, FailsKeeps DEF M!MkdirAt
  <2>2. CASE M!Fails("errno")
    BY <1>2, <2>2, FailsKeeps DEF M!MkdirAt
  <2>3. CASE /\ M!MkdirCode \in M!Tolerated
             /\ mk' = "openat" /\ cut' = (k < Depth)
             /\ tree' = [tree EXCEPT ![k] = IF @ = "none" THEN "dir" ELSE @]
             /\ UNCHANGED <<M!input, k, fds, gone, made, removed>>
    <3> USE <1>2, <2>3 DEF M!TypeOK, M!input
    <3>1. /\ tree' \in [1..Depth -> {"none", "dir", "other"}]
          /\ \A j \in 1..Depth : tree[j] # "none" => tree'[j] = tree[j]
          /\ \A j \in 1..Depth : j # k => tree'[j] = tree[j]
          /\ tree'[k] # "none"
      OBVIOUS
    <3>2. tree[k] = "none" => ~gone
      BY DEF M!MkdirCode, M!Tolerated
    <3>3. M!Nested'
      <4> SUFFICES ASSUME NEW j \in 1..Depth - 1, tree'[j] # "dir"
                   PROVE  tree'[j + 1] = "none"
        BY DEF M!Nested
      <4>1. tree[j] # "dir" /\ tree[j + 1] = "none"
        BY <3>1 DEF M!Nested
      <4>2. j + 1 = k => gone
        BY <4>1 DEF Path
      <4> QED
        BY <3>1, <3>2, <4>1, <4>2
    <3>4. M!TypeOK'
      BY <3>1, <3>3
    <3>5. Path'
      BY <3>1 DEF Path, M!Dirs, M!MkdirAt
    <3> QED
      BY <3>4, <3>5
  <2> QED
    BY <1>2, <2>1, <2>2, <2>3 DEF M!MkdirAt
<1>3. CASE M!OpenAt
  <2>1. CASE (tree[k] # "dir" \/ gone) /\ M!Fails("notdir")
    <3>1. ~removed => tree[k] = "other" /\ k \in 1..Depth
      BY <1>3, <2>1 DEF M!OpenAt, M!TypeOK, Path
    <3> QED
      BY <1>3, <2>1, <3>1, FailsKeeps DEF M!OpenAt
  <2>2. CASE M!Fails("errno")
    BY <1>3, <2>2, FailsKeeps DEF M!OpenAt
  <2>3. CASE /\ tree[k] = "dir" /\ ~gone
             /\ fds' = fds + 1 - M!Dirs /\ cut' = FALSE
             /\ IF k < Depth
                  THEN mk' = "mkdirat" /\ k' = k + 1 /\ UNCHANGED made
                  ELSE mk' = "returned" /\ made' = "fd" /\ UNCHANGED k
             /\ UNCHANGED <<tree, M!input, gone, removed>>
    <3> USE <1>3, <2>3 DEF M!TypeOK, M!input
    <3>1. fds' = 1
      BY DEF Path, M!OpenAt, M!Dirs
    <3>2. M!Nested'
      BY DEF M!Nested
    <3>3. M!TypeOK'
      <4>1. /\ absolute' \in BOOLEAN /\ hollow' \in 0..Depth
            /\ gone' \in BOOLEAN /\ cut' \in BOOLEAN /\ removed' \in BOOLEAN
        OBVIOUS
      <4>2. /\ tree' \in [1..Depth -> {"none", "dir", "other"}]
            /\ fds' \in 0..Depth + 1
        BY <3>1
      <4>3. /\ mk' \in {"start", "mkdirat", "openat", "returned"}
            /\ made' \in {"none", "fd", "exists", "noent", "notdir", "errno"}
        OBVIOUS
      <4>4. k' \in 1..Depth
        <5>1. CASE k < Depth
          BY <5>1
        <5>2. CASE ~(k < Depth)
          BY <5>2
        <5> QED
          BY <5>1, <5>2
      <4> QED
        BY <3>2, <4>1, <4>2, <4>3, <4>4
    <3>4. \A j \in 1..k : tree[j] = "dir"
      BY DEF Path
    <3>5. Path'
      BY <3>1, <3>4 DEF Path, M!Dirs, M!OpenAt
    <3> QED
      BY <3>3, <3>5
  <2> QED
    BY <1>3, <2>1, <2>2, <2>3 DEF M!OpenAt
<1>4. CASE mk # "returned" /\ M!Others
  <2> USE DEF M!TypeOK, M!input
  <2>1. PICK j \in 1..Depth : M!OthersMake(j) \/ M!OthersRemove(j)
    BY <1>4 DEF M!Others
  <2>2. CASE M!OthersMake(j)
    <3>1. PICK what \in {"dir", "other"} : tree' = [tree EXCEPT ![j] = what]
      BY <2>2 DEF M!OthersMake
    <3>2. /\ tree' \in [1..Depth -> {"none", "dir", "other"}]
          /\ \A l \in 1..Depth : tree[l] # "none" => tree'[l] = tree[l]
          /\ \A l \in 1..Depth : l # j => tree'[l] = tree[l]
      BY <2>2, <3>1 DEF M!OthersMake
    <3>3. M!Nested'
      BY <2>2, <3>1, <3>2 DEF M!OthersMake, M!Nested
    <3>4. M!TypeOK'
      BY <2>2, <3>2, <3>3 DEF M!OthersMake
    <3>5. Path'
      BY <1>4, <2>2, <3>2 DEF M!OthersMake, Path, M!Dirs
    <3> QED
      BY <2>2, <3>4, <3>5 DEF M!OthersMake
  <2>3. CASE M!OthersRemove(j)
    <3>1. /\ tree' \in [1..Depth -> {"none", "dir", "other"}]
          /\ tree'[j] = "none"
          /\ \A l \in 1..Depth : l # j => tree'[l] = tree[l]
      BY <2>3 DEF M!OthersRemove
    <3>2. M!Nested'
      BY <2>3, <3>1 DEF M!OthersRemove, M!Nested
    <3>3. M!TypeOK'
      BY <2>3, <3>1, <3>2 DEF M!OthersRemove
    <3>4. fds' = IF mk' # "returned" THEN M!Dirs'
                 ELSE IF made' = "fd" THEN 1 ELSE 0
      BY <2>3 DEF M!OthersRemove, Path, M!Dirs
    <3>5. gone' = (gone \/ j < k)
      BY <2>3 DEF M!OthersRemove
    <3>6. ~gone' => ~gone /\ ~(j < k)
      BY <3>5, Zenon
    <3>7. ~gone' => \A l \in 1..k - 1 : tree'[l] = "dir"
      BY <3>1, <3>6 DEF Path
    <3>8. Path'
      BY <2>3, <3>4, <3>7 DEF M!OthersRemove, Path
    <3> QED
      BY <2>3, <3>3, <3>8 DEF M!OthersRemove
  <2> QED
    BY <2>1, <2>2, <2>3
<1> QED
  BY <1>1, <1>2, <1>3, <1>4 DEF M!MkdirStep

-----------------------------------------------------------------------------
(* The two functions that ask the compiler *)

(* What the compiler may print: whole lines, and for a triplet the answer   *)
(* comes first.                                                             *)
LEMMA OutputLines ==
  ASSUME NEW f, NEW s \in C!Output(f)
  PROVE  /\ s \in Seq(C!Line)
         /\ \A j \in 1..Len(s) : s[j].says # "part"
         /\ f = "triplet" /\ s # <<>> => s[1].says = "answer"
<1> DEFINE Good(t) ==
      /\ t \in Seq(C!Line)
      /\ \A j \in 1..Len(t) : t[j].says # "part"
      /\ f = "triplet" /\ t # <<>> => t[1].says = "answer"
<1>1. ASSUME NEW n \in Nat
      PROVE  /\ C!Others(n) \in Seq(C!Line) /\ Len(C!Others(n)) = n
             /\ \A j \in 1..n : C!Others(n)[j].says = "other"
  BY <1>1, SeqDef DEF C!Others, C!Says, C!Line
<1>2. ASSUME NEW t \in C!Answers(f) PROVE Good(t)
  <2>1. CASE t = <<>>
    BY <2>1
  <2>2. CASE t # <<>>
    <3>1. PICK a \in 0..MaxLines - 1,
               b \in IF f = "triplet" THEN {0} ELSE 0..MaxLines - 1 :
            t = C!Others(b) \o <<C!Says("answer")>> \o C!Others(a)
      BY <1>2, <2>2 DEF C!Answers
    <3>2. a \in Nat /\ b \in Nat /\ (f = "triplet" => b = 0)
      BY <3>1, ProgramsAssumption
    <3>3. <<C!Says("answer")>> \in Seq(C!Line)
      BY DEF C!Says, C!Line
    <3> DEFINE u == C!Others(b) \o <<C!Says("answer")>>
               v == C!Others(a)
    <3>4. /\ u \in Seq(C!Line) /\ Len(u) = b + 1
          /\ \A j \in 1..b : u[j] = C!Others(b)[j]
          /\ u[b + 1] = C!Says("answer")
      BY <1>1, <3>2, <3>3
    <3>5. \A j \in 1..Len(u) : u[j].says # "part"
      BY <1>1, <3>2, <3>4 DEF C!Says
    <3>6. f = "triplet" => u[1].says = "answer"
      BY <3>2, <3>4 DEF C!Says
    <3>7. /\ v \in Seq(C!Line) /\ t = u \o v
          /\ \A j \in 1..Len(v) : v[j].says # "part"
      BY <1>1, <3>1, <3>2
    <3> HIDE DEF u, v
    <3>8. /\ t \in Seq(C!Line) /\ Len(t) = Len(u) + Len(v)
          /\ \A j \in 1..Len(t) :
                t[j] = IF j <= Len(u) THEN u[j] ELSE v[j - Len(u)]
      <4>1. /\ u \o v \in Seq(C!Line) /\ Len(u \o v) = Len(u) + Len(v)
            /\ \A j \in 1..Len(u) + Len(v) :
                  (u \o v)[j] = IF j <= Len(u) THEN u[j] ELSE v[j - Len(u)]
        BY <3>4, <3>7, ConcatProperties, Zenon
      <4> QED
        BY <3>7, <4>1
    <3>9. Len(u) \in Nat /\ Len(v) \in Nat /\ Len(u) >= 1
      BY <3>2, <3>4, <3>7
    <3>10. ASSUME NEW j \in 1..Len(t) PROVE t[j].says # "part"
      <4>1. CASE j <= Len(u)
        BY <3>5, <3>8, <3>9, <4>1
      <4>2. CASE ~(j <= Len(u))
        <5>1. j - Len(u) \in 1..Len(v)
          BY <3>8, <3>9, <4>2
        <5> QED
          BY <3>7, <3>8, <4>2, <5>1
      <4> QED
        BY <4>1, <4>2
    <3>11. f = "triplet" => t[1].says = "answer"
      BY <3>6, <3>8, <3>9
    <3> QED
      BY <3>8, <3>10, <3>11
  <2> QED
    BY <2>1, <2>2
<1>3. Good(C!Others(MaxLines)) \/ f # "march"
  BY <1>1, ProgramsAssumption
<1>4. ASSUME NEW t, Good(t), t # <<>> PROVE Good(C!Unended(t))
  <2> DEFINE l == t[Len(t)]
             e == [l EXCEPT !.ends = "eof"]
  <2>1. Len(t) \in 1..Len(t) /\ l \in C!Line
    BY <1>4
  <2>2. e \in C!Line /\ e.says = l.says
    BY <2>1 DEF C!Line
  <2>3. C!Unended(t) = [t EXCEPT ![Len(t)] = e]
    BY DEF C!Unended
  <2> HIDE DEF e
  <2>4. /\ C!Unended(t) \in Seq(C!Line) /\ Len(C!Unended(t)) = Len(t)
        /\ \A j \in 1..Len(t) :
              C!Unended(t)[j] = IF j = Len(t) THEN e ELSE t[j]
    BY <1>4, <2>1, <2>2, <2>3
  <2>5. \A j \in 1..Len(t) : C!Unended(t)[j].says = t[j].says
    BY <2>1, <2>2, <2>4
  <2> QED
    BY <1>4, <2>1, <2>4, <2>5
<1> QED
  BY <1>2, <1>3, <1>4 DEF C!Output

(* The compiler's lines, whatever it does while they are being read.        *)
LEMMA LinesStep ==
  ASSUME C!TypeOK, Lines, gcc = "running", C!GccStep \/ C!GccFails
  PROVE  Lines' /\ C!TypeOK'
<1> USE DEF C!TypeOK
<1>1. /\ todo # <<>> => /\ Head(todo) \in C!Line /\ Head(todo) = todo[1]
                        /\ Tail(todo) \in Seq(C!Line)
                        /\ Len(Tail(todo)) = Len(todo) - 1
                        /\ \A j \in 1..Len(todo) - 1 :
                             Tail(todo)[j] = todo[j + 1]
      /\ Len(todo) \in Nat /\ Len(pipe) \in Nat
      /\ pipe = <<>> <=> Len(pipe) = 0
      /\ todo = <<>> <=> Len(todo) = 0
  OBVIOUS
<1>2. ASSUME NEW line \in C!Line, Len(pipe) < PipeCap,
             pipe' = Append(pipe, line)
      PROVE  /\ pipe' \in Seq(C!Line) /\ Len(pipe') = Len(pipe) + 1
             /\ Len(pipe') <= PipeCap /\ pipe' # <<>>
             /\ \A j \in 1..Len(pipe) : pipe'[j] = pipe[j]
             /\ pipe'[Len(pipe) + 1] = line
  BY <1>1, <1>2, ProgramsAssumption
<1>3. CASE C!GccPrints
  <2>1. C!TypeOK'
    BY <1>1, <1>2, <1>3 DEF C!GccPrints
  <2>2. Lines'
    BY <1>1, <1>2, <1>3 DEF C!GccPrints, Lines, Told
  <2> QED
    BY <2>1, <2>2
<1>4. CASE C!GccExits
  BY <1>4 DEF C!GccExits, Lines, Told
<1>5. CASE C!GccFails
  <2>1. CASE UNCHANGED pipe
    BY <1>5, <2>1 DEF C!GccFails, Lines, Told
  <2>2. CASE pipe' # pipe
    <3> DEFINE line == [says |-> IF Head(todo).says = "answer" THEN "part"
                                                               ELSE "other",
                        ends |-> "eof"]
    <3>1. line \in C!Line
      BY DEF C!Line
    <3>2. /\ gcc' = "killed" /\ Len(pipe) < PipeCap /\ todo' = <<>>
          /\ pipe' = Append(pipe, line)
          /\ UNCHANGED <<fn, at, err, ptr, ends, left>>
      BY <1>5, <2>2 DEF C!GccFails
    <3> HIDE DEF line
    <3>3. /\ pipe' \in Seq(C!Line) /\ Len(pipe') <= PipeCap
      BY <1>2, <3>1, <3>2
    <3> QED
      BY <3>2, <3>3 DEF Lines, Told
  <2> QED
    BY <2>1, <2>2
<1> QED
  BY <1>3, <1>4, <1>5 DEF C!GccStep

(* Whatever the call or its compiler does, the call goes on and keeps what  *)
(* it knows.                                                                *)
LEMMA ProbeStep ==
  ASSUME C!TypeOK, Probe,
         C!CallStep \/ C!CallFails \/ C!GccStep \/ C!GccFails
  PROVE  C!TypeOK' /\ Probe' /\ fn' = fn /\ at' # "idle"
<1> USE DEF C!TypeOK, C!Call
<1>1. CASE C!GccStep \/ C!GccFails
  <2>1. gcc = "running" /\ gcc' # "none" /\ UNCHANGED <<fn, at, err, ptr, ends>>
    BY <1>1 DEF C!GccStep, C!GccPrints, C!GccExits, C!GccFails
  <2>2. C!TypeOK' /\ Lines'
    BY <1>1, <2>1, LinesStep DEF Probe
  <2> QED
    BY <2>1, <2>2 DEF Probe, Answered
<1>2. CASE C!Fork
  <2>1. todo' \in Seq(C!Line) /\ Lines'
    BY <1>2, OutputLines DEF C!Fork, Lines, Probe
  <2> QED
    BY <1>2, <2>1 DEF C!Fork, Probe
<1>3. ASSUME NEW next, C!Gets(next)
      PROVE  /\ Len(pipe) > 0 /\ Head(pipe) \in C!Line /\ Head(pipe) = pipe[1]
             /\ pipe' \in Seq(C!Line) /\ Len(pipe') <= PipeCap
             /\ Len(pipe') = Len(pipe) - 1
             /\ \A j \in 1..Len(pipe') : pipe'[j] = pipe[j + 1]
  BY <1>3, ProgramsAssumption DEF C!Gets
<1>4. CASE C!TripletLine
  <2>1. /\ Told(Head(pipe)) /\ Head(pipe) \in C!Line
        /\ pipe' \in Seq(C!Line) /\ Len(pipe') <= PipeCap
    BY <1>3, <1>4 DEF C!TripletLine, C!Gets, Probe, Lines
  <2>2. Head(pipe).says \in {"answer", "part", "other"}
    BY <2>1 DEF C!Line
  <2>3. ptr' = [ptr EXCEPT !["triplet"] = Head(pipe).says]
    BY <1>4 DEF C!TripletLine
  <2>4. C!TypeOK' /\ ptr'["triplet"] = Head(pipe).says
        /\ ptr'["march"] = ptr["march"]
    BY <1>4, <2>1, <2>2, <2>3 DEF C!TripletLine, C!Gets
  <2> QED
    BY <1>4, <2>1, <2>2, <2>4 DEF C!TripletLine, C!Gets, Probe, Lines, Told
<1>5. CASE C!MarchLine
  <2>1. /\ Head(pipe).says = "part" => gcc = "killed"
        /\ Head(pipe) \in C!Line
        /\ pipe' \in Seq(C!Line) /\ Len(pipe') <= PipeCap
        /\ Lines'
    BY <1>3, <1>5 DEF C!MarchLine, C!Gets, Probe, Lines
  <2>2. Head(pipe).says \in {"answer", "part", "other"}
    BY <2>1 DEF C!Line
  <2>3. /\ ptr'["triplet"] = ptr["triplet"]
        /\ ptr'["march"] = IF Head(pipe).says = "other" THEN ptr["march"]
                                                        ELSE Head(pipe).says
        /\ C!TypeOK'
    BY <1>5, <2>1, <2>2 DEF C!MarchLine, C!Gets
  <2>4. at' = "getline" => Head(pipe).says = "other"
    BY <1>5 DEF C!MarchLine, C!Gets, C!Says
  <2> QED
    BY <1>5, <2>1, <2>2, <2>3, <2>4 DEF C!MarchLine, C!Gets, Probe
<1>6. CASE C!NothingRead
  BY <1>6 DEF C!NothingRead, C!AtEof, C!GccEnded, Probe, Lines, Answered
<1>7. CASE C!Waitpid
  BY <1>7 DEF C!Waitpid, C!StatusCode, C!GccEnded, Probe, Lines, Answered
<1>8. ASSUME NEW value \in {"null", "freed"}, C!Out(value),
             fn = "march" => value = "null"
      PROVE  C!TypeOK' /\ Probe' /\ fn' = fn /\ at' = "returned"
  <2>1. left' \in BOOLEAN /\ (left \/ gcc # "none" => left')
    <3>1. left' = (left \/ gcc # "none")
      BY <1>8 DEF C!Out
    <3> QED
      BY <3>1, Zenon
  <2>2. /\ ptr' \in [C!Call -> {"null", "answer", "part", "other", "junk",
                               "freed"}]
        /\ \A f \in C!Call : f # fn \/ err = "ok" => ptr'[f] = ptr[f]
        /\ err # "ok" => ptr'[fn] = value
    BY <1>8 DEF C!Out
  <2>3. /\ at' = "returned" /\ gcc' = "none" /\ todo' = <<>> /\ pipe' = <<>>
        /\ fn' = fn /\ err' = err
        /\ ends' \in 0..2 /\ (err = "ok" => ends' = 0)
    BY <1>8 DEF C!Out, C!Closed, Probe
  <2>4. C!TypeOK'
    BY <2>1, <2>2, <2>3, ProgramsAssumption
  <2>5. err = "ok" => Answered'
    BY <1>8, <2>1, <2>2, <2>3 DEF C!Out, Probe, Answered
  <2> QED
    BY <1>8, <2>2, <2>3, <2>4, <2>5 DEF C!Out, Probe, Lines
<1>9. CASE C!TripletOut \/ C!MarchOut
  BY <1>8, <1>9 DEF C!TripletOut, C!MarchOut, C!Freed
<1>10. CASE C!SetupFails
  <2>1. left' \in BOOLEAN
    BY <1>10 DEF C!SetupFails
  <2>2. ends = 0 /\ ends' \in {ends, ends + 2, ends + 1}
    BY <1>10 DEF C!SetupFails, Probe
  <2>3. ends' \in 0..2
    BY <2>2
  <2> QED
    BY <1>10, <2>1, <2>3 DEF C!SetupFails, Probe, Lines
<1>11. CASE C!SystemCallFails
  BY <1>11 DEF C!SystemCallFails, Probe, Lines
<1> QED
  BY <1>1, <1>2, <1>4, <1>5, <1>6, <1>7, <1>9, <1>10, <1>11
  DEF C!CallStep, C!CallFails

(* And it leaves behind no more than it says. *)
LEMMA LeavesStep ==
  ASSUME C!TypeOK, Probe, Leaves,
         C!CallStep \/ C!CallFails \/ C!GccStep \/ C!GccFails
  PROVE  Leaves'
<1> USE DEF C!TypeOK, C!Call
<1>1. CASE C!GccStep \/ C!GccFails
  <2>1. gcc = "running" /\ UNCHANGED <<fn, at, err, ptr, ends, left>>
    BY <1>1 DEF C!GccStep, C!GccPrints, C!GccExits, C!GccFails
  <2> QED
    BY <2>1 DEF Leaves, NoAnswer
<1>2. CASE C!Fork
  BY <1>2 DEF C!Fork, Leaves, NoAnswer, Probe
<1>3. CASE C!TripletLine
  <2>1. Head(pipe) \in C!Line
    BY <1>3 DEF C!TripletLine, C!Gets
  <2>2. Head(pipe).says # "junk"
    BY <2>1 DEF C!Line
  <2> QED
    BY <1>3, <2>2 DEF C!TripletLine, C!Gets, Leaves, NoAnswer
<1>4. CASE C!MarchLine
  <2>1. /\ fn = "march" /\ at = "getline" /\ at' \in {"getline", "waitpid"}
        /\ ptr'["triplet"] = ptr["triplet"]
        /\ UNCHANGED <<fn, err, ends, left>>
    BY <1>4 DEF C!MarchLine, C!Gets
  <2> QED
    BY <2>1 DEF Leaves, NoAnswer
<1>5. CASE C!NothingRead
  <2>1. /\ at = "getline" /\ at' = "out" /\ err' \in {"ok", "errno"}
        /\ fn = "triplet" => ptr'["triplet"] = "junk"
        /\ fn = "march" => ptr' = ptr
        /\ UNCHANGED <<fn, gcc, ends, left>>
    BY <1>5 DEF C!NothingRead
  <2>2. ends = 1 /\ ptr[fn] = "null"
    BY <2>1 DEF Probe
  <2> QED
    BY <2>1, <2>2 DEF Leaves, NoAnswer
<1>6. CASE C!Waitpid
  <2>1. /\ at = "waitpid" /\ at' = "out" /\ gcc' = "none" /\ ends = 1
        /\ UNCHANGED <<fn, ptr, ends, left>>
    BY <1>6 DEF C!Waitpid, Probe
  <2> QED
    BY <2>1 DEF Leaves, NoAnswer
<1>7. CASE C!TripletOut \/ C!MarchOut
  <2>1. PICK value \in {"null", "freed"} :
          C!Out(value) /\ (fn = "march" => value = "null")
    BY <1>7 DEF C!TripletOut, C!MarchOut, C!Freed
  <2>2. /\ at = "out" /\ at' = "returned" /\ UNCHANGED <<fn, err>>
        /\ ends' = IF ends > 0 THEN ends - 1 ELSE 0
        /\ \A f \in C!Call : f # fn \/ err = "ok" => ptr'[f] = ptr[f]
        /\ err # "ok" => ptr'[fn] = value
    BY <2>1 DEF C!Out, C!Closed
  <2>3. left' => left \/ gcc # "none"
    BY <2>1, Zenon DEF C!Out
  <2>4. ends' > 0 => ends' = 1 /\ err' = "nofork"
    BY <2>2 DEF Leaves
  <2>5. left' => NoAnswer'
    <3>1. left' => NoAnswer
      BY <2>2, <2>3 DEF Leaves
    <3>2. CASE err = "errno" \/ err = "ok"
      BY <2>2, <3>1, <3>2 DEF NoAnswer
    <3>3. CASE err \notin {"errno", "ok"} /\ fn = "march"
      BY <2>1, <2>2, <3>1, <3>3 DEF NoAnswer
    <3>4. CASE err \notin {"errno", "ok"} /\ fn = "triplet"
      BY <2>2, <3>1, <3>4 DEF NoAnswer, Leaves
    <3> QED
      BY <3>2, <3>3, <3>4
  <2>6. fn = "triplet" /\ ptr'["triplet"] = "junk" => err \in {"ok", "errno"}
    BY <2>1, <2>2 DEF Leaves
  <2> QED
    BY <2>2, <2>4, <2>5, <2>6 DEF Leaves
<1>8. CASE C!SetupFails
  <2>1. /\ at = "setup" /\ at' = "out" /\ gcc = "none" /\ ends = 0
        /\ UNCHANGED <<fn, ptr, gcc>>
        /\ \/ err' = "errno" /\ ends' \in {0, 1}
           \/ err' = "nofork" /\ UNCHANGED left
    BY <1>8 DEF C!SetupFails, Probe
  <2> QED
    BY <2>1 DEF Leaves, NoAnswer
<1>9. CASE C!SystemCallFails
  <2>1. /\ at' = "out" /\ err' = "errno" /\ ends = 1
        /\ UNCHANGED <<fn, ptr, gcc, ends, left>>
    BY <1>9 DEF C!SystemCallFails, Probe
  <2> QED
    BY <2>1 DEF Leaves, NoAnswer
<1> QED
  BY <1>1, <1>2, <1>3, <1>4, <1>5, <1>6, <1>7, <1>8, <1>9
  DEF C!CallStep, C!CallFails

-----------------------------------------------------------------------------
(* The steps of main and of what it calls *)

(* What a step leaves alone stays true.                                     *)
LEMMA RunRests == BenchIInv /\ UNCHANGED vars => BenchIInv'
BY BenchNextInv

LEMMA ProbeRests ==
  ASSUME UNCHANGED probeVars
  PROVE  (C!TypeOK => C!TypeOK') /\ (Probe /\ Leaves => Probe' /\ Leaves')
<1>1. C!TypeOK => C!TypeOK'
  BY DEF probeVars, C!TypeOK
<1>2. Probe => Probe'
  BY DEF probeVars, Probe, Lines, Told, Answered
<1>3. Leaves => Leaves'
  BY DEF probeVars, Leaves, NoAnswer
<1> QED
  BY <1>1, <1>2, <1>3

LEMMA MkdirRests ==
  ASSUME UNCHANGED mkdirVars
  PROVE  (M!TypeOK => M!TypeOK') /\ (Path => Path')
<1> USE DEF mkdirVars
<1>1. M!TypeOK => M!TypeOK'
  BY DEF M!TypeOK, M!Nested
<1>2. Path => Path'
  BY DEF Path, M!Dirs
<1> QED
  BY <1>1, <1>2

LEMMA MainInitInv == MainInit => MainIInv
<1> SUFFICES ASSUME MainInit PROVE MainIInv
  OBVIOUS
<1> USE ProgramsAssumption DEF MainInit
<1>1. BenchIInv /\ BenchTypeOK
  BY BenchInitInv DEF BenchIInv
<1>2. M!TypeOK /\ Path
  <2>1. /\ tree \in [1..Depth -> {"none", "dir", "other"}] /\ M!Nested
        /\ absolute \in BOOLEAN /\ hollow \in 0..Depth
    BY DEF M!Init
  <2>2. /\ mk = "start" /\ k = 1 /\ fds = 0 /\ made = "none"
        /\ gone = FALSE /\ cut = FALSE /\ removed = FALSE
        /\ gone \in BOOLEAN /\ cut \in BOOLEAN /\ removed \in BOOLEAN
    BY DEF M!Init
  <2> HIDE DEF MainInit
  <2>3. M!TypeOK
    BY <2>1, <2>2 DEF M!TypeOK
  <2>4. Path
    BY <2>2 DEF Path, M!Dirs
  <2> QED
    BY <2>3, <2>4
<1>3. C!TypeOK /\ Probe /\ Leaves
  <2>1. /\ pipe \in Seq(C!Line) /\ todo \in Seq(C!Line) /\ Len(pipe) <= PipeCap
        /\ ptr \in [C!Call -> {"null", "answer", "part", "other", "junk",
                              "freed"}]
        /\ ends \in 0..2
    BY DEF C!Init
  <2>2. left \in BOOLEAN
    BY DEF C!Init
  <2>3. fn \in C!Call /\ at = "idle" /\ err = "ok" /\ gcc = "none"
    BY DEF C!Init, C!Call
  <2> HIDE DEF MainInit
  <2>4. C!TypeOK
    BY <2>1, <2>2, <2>3 DEF C!TypeOK
  <2>5. Probe
    BY <2>3 DEF MainInit, C!Init, C!Call, Probe, Lines
  <2>6. Leaves
    BY <2>3 DEF MainInit, C!Init, C!Call, Leaves
  <2> QED
    BY <2>4, <2>5, <2>6
<1>4. Main
  BY DEF M!Init, C!Init, C!Call, Main
<1>5. MainTypeOK
  BY <1>1, <1>2, <1>3 DEF MainTypeOK
<1> QED
  BY <1>1, <1>2, <1>3, <1>4, <1>5 DEF MainIInv, FreedTwiceOnlyAfterTriplet

LEMMA MakingStep ==
  ASSUME MainIInv, Mkdir \/ OthersMkdir PROVE MainIInv'
<1>1. /\ main = "mkdir" /\ UNCHANGED <<vars, probeVars, mainVars>>
      /\ M!MkdirStep \/ (mk # "returned" /\ M!Others)
  BY DEF Mkdir, OthersMkdir, Making
<1>2. BenchIInv' /\ BenchTypeOK'
  BY <1>1, RunRests DEF MainIInv, BenchIInv
<1>3. C!TypeOK' /\ Probe' /\ Leaves'
  BY <1>1, ProbeRests DEF MainIInv, MainTypeOK
<1>4. /\ M!TypeOK' /\ Path'
      /\ cut' => mk' = "openat"
      /\ mk' = "start" => made' = "none"
  BY <1>1, PathStep DEF MainIInv, MainTypeOK, Main
<1>5. Main'
  BY <1>1, <1>4 DEF MainIInv, MainTypeOK, Main, mainVars, probeVars, C!Call,
                    Path, M!Dirs
<1>6. MainTypeOK'
  BY <1>1, <1>2, <1>3, <1>4 DEF MainIInv, MainTypeOK, mainVars
<1>7. FreedTwiceOnlyAfterTriplet'
  BY <1>1 DEF MainIInv, FreedTwiceOnlyAfterTriplet, mainVars, probeVars
<1> QED
  BY <1>2, <1>3, <1>4, <1>5, <1>6, <1>7 DEF MainIInv

LEMMA AskingStep ==
  ASSUME MainIInv, Ask \/ GccStep \/ AskFails \/ GccFails PROVE MainIInv'
<1>1. /\ main \in C!Call /\ UNCHANGED <<vars, mkdirVars, mainVars>>
      /\ C!CallStep \/ C!CallFails \/ C!GccStep \/ C!GccFails
  BY DEF Ask, GccStep, AskFails, GccFails, Asking, C!Call
<1>2. BenchIInv' /\ BenchTypeOK'
  BY <1>1, RunRests DEF MainIInv, BenchIInv
<1>3. M!TypeOK'
  BY <1>1, MkdirRests DEF MainIInv, MainTypeOK
<1>4. C!TypeOK' /\ Probe' /\ Leaves' /\ fn' = fn /\ at' # "idle"
  BY <1>1, ProbeStep, LeavesStep DEF MainIInv, MainTypeOK, C!Call
<1>5. Main'
  BY <1>1, <1>4 DEF MainIInv, MainTypeOK, Main, mainVars, mkdirVars, vars,
                    benchVars, C!Call
<1>6. MainTypeOK'
  BY <1>1, <1>2, <1>3, <1>4 DEF MainIInv, MainTypeOK, mainVars
<1>7. ~freedTwice'
  BY <1>1 DEF MainIInv, Main, mainVars, C!Call
<1> QED
  BY <1>1, <1>2, <1>4, <1>5, <1>6, <1>7
  DEF MainIInv, FreedTwiceOnlyAfterTriplet, mainVars, C!Call

LEMMA RunningStep ==
  ASSUME MainIInv, Running(BenchNext) PROVE MainIInv'
<1>1. /\ main = "run" /\ BenchNext
      /\ UNCHANGED <<mkdirVars, probeVars, mainVars>>
  BY DEF Running
<1>2. BenchIInv' /\ BenchTypeOK'
  BY <1>1, BenchNextInv DEF MainIInv, BenchIInv
<1>3. M!TypeOK' /\ C!TypeOK' /\ Probe' /\ Leaves'
  BY <1>1, MkdirRests, ProbeRests DEF MainIInv, MainTypeOK
<1>4. Main'
  BY <1>1 DEF MainIInv, MainTypeOK, Main, mainVars, mkdirVars, probeVars,
              C!Call
<1>5. MainTypeOK'
  BY <1>1, <1>2, <1>3 DEF MainIInv, MainTypeOK, mainVars
<1> QED
  BY <1>1, <1>2, <1>3, <1>4, <1>5
  DEF MainIInv, FreedTwiceOnlyAfterTriplet, mainVars, probeVars

LEMMA MkdirReturnsStep ==
  ASSUME MainIInv, MkdirReturns PROVE MainIInv'
<1> USE DEF MainIInv, MainTypeOK
<1>1. BenchIInv' /\ BenchTypeOK' /\ program = "bench"
  BY RunRests DEF MkdirReturns, BenchIInv
<1>2. CASE made = "fd"
  <2>1. /\ main = "mkdir" /\ main' = "triplet" /\ C!Begin("triplet")
        /\ M!Forgotten /\ mk = "returned"
        /\ UNCHANGED <<program, status, freedTwice>>
    BY <1>2 DEF MkdirReturns, Moves
  <2>2. M!TypeOK'
    <3>1. tree' = [j \in 1..Depth |-> "none"] /\ k' = 1 /\ hollow' = 0
      BY <2>1 DEF M!Forgotten
    <3>2. M!Nested'
      BY <3>1, ProgramsAssumption DEF M!Nested
    <3>3. absolute' \in BOOLEAN /\ gone' \in BOOLEAN /\ removed' \in BOOLEAN
      BY <2>1 DEF M!Forgotten
    <3>4. UNCHANGED <<mk, fds, cut, made>>
      BY <2>1 DEF M!Forgotten
    <3> QED
      BY <3>1, <3>2, <3>3, <3>4, ProgramsAssumption DEF M!TypeOK
  <2>3. C!TypeOK'
    BY <2>1 DEF C!TypeOK, C!Begin, C!Call
  <2>4. Probe' /\ Leaves'
    BY <2>1 DEF Probe, Lines, Leaves, NoAnswer, C!Begin, Main
  <2>5. Main'
    BY <1>1, <1>2, <2>1 DEF Main, Path, C!Begin, C!Call, M!Forgotten
  <2> QED
    BY <1>1, <2>1, <2>2, <2>3, <2>4, <2>5 DEF FreedTwiceOnlyAfterTriplet, Main
<1>3. CASE made # "fd"
  <2>1. /\ main = "mkdir" /\ main' = "out" /\ status' = 1 /\ mk = "returned"
        /\ UNCHANGED <<program, freedTwice, mkdirVars, probeVars>>
    BY <1>3 DEF MkdirReturns, Moves
  <2>2. M!TypeOK' /\ C!TypeOK' /\ Probe' /\ Leaves'
    BY <2>1, MkdirRests, ProbeRests
  <2>3. Main'
    BY <1>1, <1>3, <2>1 DEF Main, Path, C!Call, mkdirVars, probeVars
  <2> QED
    BY <1>1, <2>1, <2>2, <2>3 DEF FreedTwiceOnlyAfterTriplet, Main
<1> QED
  BY <1>2, <1>3

LEMMA TripletReturnsStep ==
  ASSUME MainIInv, TripletReturns PROVE MainIInv'
<1> USE DEF MainIInv, MainTypeOK
<1>1. /\ main = "triplet" /\ program = "bench" /\ at = "returned"
      /\ main' = IF err = "ok" THEN "run" ELSE "out"
      /\ status' = IF err = "ok" THEN status ELSE 1
      /\ UNCHANGED <<program, freedTwice, vars, mkdirVars, probeVars>>
  BY DEF TripletReturns, Moves
<1>2. BenchIInv' /\ BenchTypeOK'
  BY <1>1, RunRests DEF BenchIInv
<1>3. M!TypeOK' /\ C!TypeOK' /\ Probe' /\ Leaves'
  BY <1>1, MkdirRests, ProbeRests
<1>4. Main'
  BY <1>1 DEF Main, C!Call, mkdirVars, probeVars
<1> QED
  BY <1>1, <1>2, <1>3, <1>4 DEF FreedTwiceOnlyAfterTriplet, Main

LEMMA RunReturnsStep ==
  ASSUME MainIInv, RunReturns PROVE MainIInv'
<1> USE DEF MainIInv, MainTypeOK
<1>1. /\ main = "run" /\ main' = "out" /\ parent = "done"
      /\ status' = RunStatus /\ fds' = fds - 1
      /\ UNCHANGED <<vars, program, freedTwice, tree, absolute, hollow, mk, k,
                    gone, cut, made, removed, probeVars>>
  BY DEF RunReturns, Moves
<1>2. BenchIInv' /\ BenchTypeOK'
  BY <1>1, RunRests DEF BenchIInv
<1>3. program = "bench" /\ fds = 1 /\ fds' = 0
  BY <1>1 DEF Main
<1>4. M!TypeOK'
  BY <1>1, <1>3, ProgramsAssumption DEF M!TypeOK, M!Nested
<1>5. C!TypeOK' /\ Probe' /\ Leaves'
  BY <1>1, ProbeRests
<1>6. status' \in {0, 1} /\ (status' = 0 => parent' = "done" /\ ret' = 0)
  BY <1>1 DEF RunStatus, BenchTypeOK, vars, benchVars
<1>7. Main'
  BY <1>1, <1>3, <1>6 DEF Main, C!Call, probeVars
<1> QED
  BY <1>1, <1>2, <1>4, <1>5, <1>6, <1>7 DEF FreedTwiceOnlyAfterTriplet, Main

LEMMA CacheReturnsStep ==
  ASSUME MainIInv, CacheReturns PROVE MainIInv'
<1> USE DEF MainIInv, MainTypeOK
<1>1. /\ main = "cache" /\ program = "test"
      /\ UNCHANGED <<vars, mkdirVars, program, freedTwice>>
  BY DEF CacheReturns, Moves, Main
<1>2. BenchIInv' /\ BenchTypeOK' /\ M!TypeOK'
  BY <1>1, RunRests, MkdirRests DEF BenchIInv
<1>3. CASE /\ at = "idle" /\ main' = "triplet" /\ C!Begin("triplet")
           /\ UNCHANGED status
  <2>1. C!TypeOK'
    BY <1>3 DEF C!TypeOK, C!Begin, C!Call
  <2>2. Probe' /\ Leaves'
    BY <1>1, <1>3 DEF Probe, Lines, Leaves, NoAnswer, C!Begin, C!TypeOK
  <2>3. Main'
    BY <1>1, <1>3 DEF Main, C!Begin, C!Call, mkdirVars
  <2> QED
    BY <1>1, <1>2, <1>3, <2>1, <2>2, <2>3 DEF FreedTwiceOnlyAfterTriplet, Main
<1>4. CASE main' = "out" /\ status' \in {0, 1} /\ UNCHANGED probeVars
  <2>1. C!TypeOK' /\ Probe' /\ Leaves'
    BY <1>1, <1>4, ProbeRests
  <2>2. Main'
    BY <1>1, <1>4 DEF Main, C!Call, mkdirVars, probeVars
  <2> QED
    BY <1>1, <1>2, <1>4, <2>1, <2>2 DEF FreedTwiceOnlyAfterTriplet, Main
<1> QED
  BY <1>3, <1>4 DEF CacheReturns, Moves

LEMMA AskReturnsStep ==
  ASSUME MainIInv, AskReturns PROVE MainIInv'
<1> USE DEF MainIInv, MainTypeOK
<1>1. /\ program = "test" /\ main = fn /\ fn \in C!Call /\ at = "returned"
      /\ UNCHANGED <<vars, mkdirVars, program, freedTwice>>
  BY DEF AskReturns, Moves, Main, C!TypeOK, C!Call
<1>2. BenchIInv' /\ BenchTypeOK' /\ M!TypeOK'
  BY <1>1, RunRests, MkdirRests DEF BenchIInv
<1>3. CASE /\ err = "ok" /\ fn = "triplet" /\ main' = "march"
           /\ C!Begin("march") /\ UNCHANGED status
  <2>1. C!TypeOK'
    BY <1>3 DEF C!TypeOK, C!Begin, C!Call
  <2>2. Probe' /\ Leaves'
    BY <1>1, <1>3 DEF Probe, Lines, Leaves, NoAnswer, C!Begin, C!Call,
                       C!TypeOK
  <2>3. Main'
    BY <1>1, <1>3 DEF Main, C!Begin, C!Call, mkdirVars
  <2> QED
    BY <1>1, <1>2, <1>3, <2>1, <2>2, <2>3
    DEF FreedTwiceOnlyAfterTriplet, Main, C!Call
<1>4. CASE /\ main' = "cache" /\ err = "ok" /\ UNCHANGED <<status, probeVars>>
  <2>1. C!TypeOK' /\ Probe' /\ Leaves'
    BY <1>1, <1>4, ProbeRests DEF C!Call
  <2>2. Main'
    BY <1>1, <1>4 DEF Main, C!Call, mkdirVars, probeVars
  <2> QED
    BY <1>1, <1>2, <1>4, <2>1, <2>2
    DEF FreedTwiceOnlyAfterTriplet, Main, C!Call
<1>5. CASE main' = "out" /\ status' = 1 /\ UNCHANGED probeVars
  <2>1. C!TypeOK' /\ Probe' /\ Leaves'
    BY <1>1, <1>5, ProbeRests DEF C!Call
  <2>2. Main'
    BY <1>1, <1>5 DEF Main, C!Call, mkdirVars, probeVars
  <2> QED
    BY <1>1, <1>2, <1>5, <2>1, <2>2
    DEF FreedTwiceOnlyAfterTriplet, Main, C!Call
<1> QED
  BY <1>3, <1>4, <1>5 DEF AskReturns, Moves

(* What is freed twice was freed by get_gcc_triplet's error path.           *)
LEMMA ExitStep ==
  ASSUME MainIInv, Exit PROVE MainIInv'
<1> USE DEF MainIInv, MainTypeOK
<1>1. /\ main = "out" /\ main' = "exit"
      /\ UNCHANGED <<vars, tree, absolute, hollow, mk, k, gone, cut, made,
                    removed, fn, at, err, gcc, todo, pipe, ends, left, program,
                    status>>
  BY DEF Exit
<1>2. BenchIInv' /\ BenchTypeOK'
  BY <1>1, RunRests DEF BenchIInv
<1>3. fds' = 0
  BY <1>1 DEF Exit, Main
<1>4. M!TypeOK'
  BY <1>1, <1>3, ProgramsAssumption DEF M!TypeOK, M!Nested
<1>5. C!TypeOK'
  <2>1. ptr' \in [C!Call -> {"null", "answer", "part", "other", "junk",
                            "freed"}]
    BY DEF Exit, C!Freed
  <2> QED
    BY <1>1, <2>1 DEF C!TypeOK
<1>6. freedTwice' \in BOOLEAN
  BY Zenon DEF Exit
<1>7. Main'
  BY <1>1, <1>3 DEF Main, C!Call, C!TypeOK, Probe, Leaves, vars, benchVars
<1>8. FreedTwiceOnlyAfterTriplet'
  <2>1. freedTwice' => ptr["triplet"] = "freed" \/ ptr["march"] = "freed"
    <3>1. freedTwice' = (\E f \in C!Call : ptr[f] = "freed")
      BY DEF Exit
    <3> QED
      BY <3>1, Zenon DEF C!Call
  <2> QED
    BY <1>1, <2>1 DEF Probe, FreedTwiceOnlyAfterTriplet
<1> QED
  BY <1>1, <1>2, <1>4, <1>5, <1>6, <1>7, <1>8

LEMMA MainNextInv == MainIInv /\ [MainNext]_allVars => MainIInv'
<1> SUFFICES ASSUME MainIInv, [MainNext]_allVars PROVE MainIInv'
  OBVIOUS
<1>1. CASE UNCHANGED allVars
  <2>1. UNCHANGED <<vars, mkdirVars, probeVars, mainVars>>
    BY <1>1 DEF allVars
  <2>2. BenchIInv' /\ BenchTypeOK'
    BY <2>1, RunRests DEF MainIInv, BenchIInv
  <2>3. /\ M!TypeOK' /\ C!TypeOK' /\ (Path => Path')
        /\ (Probe /\ Leaves => Probe' /\ Leaves')
    BY <2>1, MkdirRests, ProbeRests DEF MainIInv, MainTypeOK
  <2>4. Main'
    BY <2>1 DEF MainIInv, Main, vars, benchVars, mkdirVars, probeVars,
                mainVars, C!Call
  <2>5. MainTypeOK' /\ FreedTwiceOnlyAfterTriplet'
    BY <2>1, <2>2, <2>3 DEF MainIInv, MainTypeOK, mainVars, probeVars,
                            FreedTwiceOnlyAfterTriplet
  <2> QED
    BY <2>1, <2>2, <2>3, <2>4, <2>5 DEF MainIInv, mainVars
<1> QED
  BY <1>1, MakingStep, AskingStep, RunningStep, MkdirReturnsStep,
     TripletReturnsStep, RunReturnsStep, CacheReturnsStep, AskReturnsStep,
     ExitStep DEF MainNext, MainStep, Exited

(* What the parts of the invariant add up to.                               *)
LEMMA MainIInvMeans ==
  ASSUME MainIInv
  PROVE  /\ DirectoryMade /\ LeftOnlyByFailures /\ OnlyAnswers
         /\ SuccessMeansMeasured
<1> USE DEF MainIInv
<1>1. DirectoryMade
  BY DEF DirectoryMade, Path
<1>2. LeftOnlyByFailures
  BY DEF LeftOnlyByFailures, Main, Probe, Leaves, NoAnswer, MainTypeOK,
         C!TypeOK
<1>3. OnlyAnswers
  BY DEF OnlyAnswers, Probe, Answered, C!Call
<1>4. SuccessMeansMeasured
  <2> SUFFICES ASSUME parent = "done", ret = 0,
                      ~\A p \in Proc : child[p] = "unborn"
               PROVE  \A p \in Proc : child[p] = "finished"
    BY DEF SuccessMeansMeasured, Main
  <2>1. Missing(child, N) <= 0 /\ Missing(child, N) \in Nat
    BY Slots, MissingNumber DEF BenchIInv, Loops
  <2>2. IsFiniteSet({p \in 1..N : child[p] # "finished"})
    BY Slots, SomeSlots
  <2>3. {p \in 1..N : child[p] # "finished"} = {}
    BY <2>1, <2>2, FS_EmptySet DEF Missing
  <2> QED
    BY <2>3, Slots
<1> QED
  BY <1>1, <1>2, <1>3, <1>4

-----------------------------------------------------------------------------
(* MainIInv holds of both programs, whatever the children, the compiler and *)
(* those who use the same path do.                                          *)
THEOREM MainInvariance == MainSpec => []MainIInv
BY MainInitInv, MainNextInv, PTL DEF MainSpec

(* All the parts keep their types. *)
THEOREM MainTypeCorrect == MainSpec => []MainTypeOK
<1>1. MainIInv => MainTypeOK
  BY DEF MainIInv
<1> QED
  BY <1>1, MainInvariance, PTL

(* What is proved of a run holds of the run that main does.                 *)
THEOREM MainRunsTheBench ==
  MainSpec => [](PhasesApart /\ NoMergeLost /\ FailuresCounted)
<1>1. MainIInv => PhasesApart /\ NoMergeLost /\ FailuresCounted
  BY BenchIInvMeans DEF MainIInv
<1> QED
  BY <1>1, MainInvariance, PTL

(* mkdir_p has made what it gives a descriptor of, and fails for cause,     *)
(* unless somebody removes directories of the path.                         *)
THEOREM DirectoriesAreMade == MainSpec => []DirectoryMade
BY MainIInvMeans, MainInvariance, PTL

(* mkdir_p gives the path its '/' back, the run begins with one descriptor, *)
(* and the programs end with no directory open.  Of get_gcc_triplet and     *)
(* get_march_native, only a failed fork (or asprintf) leaves an end of the  *)
(* pipe open, and only a failure after the fork, or no answer, a compiler   *)
(* that nobody has waited for.                                              *)
THEOREM FailuresAloneLeave == MainSpec => []LeftOnlyByFailures
BY MainIInvMeans, MainInvariance, PTL

(* get_gcc_triplet and get_march_native return 0 with the compiler's whole  *)
(* answer, or with none from a compiler that nobody has waited for.         *)
THEOREM AnswersAreWhole == MainSpec => []OnlyAnswers
BY MainIInvMeans, MainInvariance, PTL

(* Only an error of get_gcc_triplet leaves the caller a pointer that it     *)
(* frees again.                                                             *)
THEOREM DoubleFreeIsTriplets == MainSpec => []FreedTwiceOnlyAfterTriplet
<1>1. MainIInv => FreedTwiceOnlyAfterTriplet
  BY DEF MainIInv
<1> QED
  BY <1>1, MainInvariance, PTL

(* bench_inodecache exits with 0 only if all children have measured and     *)
(* merged, or none was started: run_bench, when its set-up fails, returns 0 *)
(* all the same.                                                            *)
THEOREM SuccessIsMeasured == MainSpec => []SuccessMeansMeasured
BY MainIInvMeans, MainInvariance, PTL
===============================================================================
