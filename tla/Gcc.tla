--------------------------------- MODULE Gcc ---------------------------------
(***************************************************************************)
(* The compiler, as far as it matters to the wrapper: which file it reads, *)
(* in which language, and what it leaves in its output.                    *)
(***************************************************************************)
EXTENDS GccWrapper, FiniteSets

TakesOperand ==
  {F("-o"), F("-x"), F("-D"), F("-I"), F("-Xpreprocessor"), F("-MT"), F("-MF"),
   F("-MQ"), F("-include"), F("-imacros"), F("-iquote"), F("-isystem")}
Flags ==
  {F("-c"), F("-S"), F("-E"), F("-M"), F("-MD"), F("-MMD"), F("-MP"),
   F("-nostdinc")}
    \cup Native \cup Resolved \cup Joined \cup Other \cup TakesOperand

(* What a file is: kind, the source it comes from, the languages it was     *)
(* preprocessed and compiled in, the instructions it needs and the CPU it   *)
(* is tuned for: a host's own, what goes by the client's "CPU", or "any".   *)
Content(kind, of, pre, as, arch, tune) ==
  [kind |-> kind, of |-> of, pre |-> pre, as |-> as,
   arch |-> arch, tune |-> tune]
Text(kind, of, pre) == Content(kind, of, pre, "none", "none", "none")
Source(name) == Text("source", name, "none")
NoFile == Text("none", <<>>, "none")

FileAt(files, name) == IF name \in DOMAIN files THEN files[name] ELSE NoFile

-----------------------------------------------------------------------------
Plain(cmd)  == 1..Len(cmd) \ Operands(cmd, TakesOperand)
Given(cmd, flags) == \E j \in Plain(cmd) : cmd[j] \in flags
Inputs(cmd) == {j \in Plain(cmd) : cmd[j] \notin Flags}

(* g++ takes a C source for C++.  A -x holds for what comes after it.       *)
ByExtension(cxx, name) ==
  LET e == Last(name) IN
  IF e \in {"c", "i"} THEN IF cxx THEN "c++" ELSE "c"
  ELSE IF e \in {"C", "cpp", "cxx", "cc", "ii"} THEN "c++"
  ELSE "asm"
Lang(cxx, cmd, j) ==
  LET xs == {x \in Plain(cmd) : x < j /\ cmd[x] = F("-x")} IN
  IF xs = {} THEN ByExtension(cxx, cmd[j])
             ELSE cmd[1 + CHOOSE x \in xs : \A y \in xs : y <= x][1]
SaidPreprocessed(cmd, j) ==
  Last(cmd[j]) \in {"i", "ii"} /\ ~Given(cmd, {F("-x")})

Stage(cmd) ==
  IF Given(cmd, {F("-E"), F("-M")}) THEN "preprocess"
  ELSE IF Given(cmd, {F("-S")}) THEN "asm" ELSE "object"

OutputFile(cmd) == cmd[1 + Max({j \in Plain(cmd) : cmd[j] = F("-o")})]

(* Files that -include and -imacros name.                                   *)
Included(cmd) ==
  {cmd[j] : j \in Operands(cmd, {F("-include"), F("-imacros")})}

(* -mcpu, where it is known, is another name of -mtune; an -march is for    *)
(* tuning too, where nothing else is said.                                  *)
ArchFor(cmd, host) ==
  IF Given(cmd, {F("-march=native")}) THEN host
  ELSE IF Given(cmd, {ArchCPU}) THEN "CPU" ELSE "any"
TuneFor(cmd, host) ==
  IF Given(cmd, {F("-mcpu=native"), F("-mtune=native")}) THEN host
  ELSE IF Given(cmd, {TuneCPU}) THEN "CPU" ELSE ArchFor(cmd, host)

(* What it makes of a file: nothing of one that it takes for preprocessed   *)
(* already, an error of one that is neither source nor preprocessed.        *)
Made(cxx, cmd, j, files, host) ==
  LET in   == FileAt(files, cmd[j])
      lang == Lang(cxx, cmd, j)
      pre  == IF in.kind = "source" THEN lang ELSE in.pre
  IN  IF Stage(cmd) # "preprocess"
        THEN Content(Stage(cmd), in.of, pre, lang,
                     ArchFor(cmd, host), TuneFor(cmd, host))
      ELSE IF SaidPreprocessed(cmd, j) THEN FileAt(files, OutputFile(cmd))
      ELSE Text(IF Given(cmd, {F("-M")}) THEN "rules" ELSE "doti", in.of, pre)

(* Options about dependencies need one that asks for them.                  *)
NoDependencies(cmd) ==
  /\ Given(cmd, {F("-MT"), F("-MF"), F("-MQ"), F("-MP")})
  /\ ~Given(cmd, {F("-M"), F("-MD"), F("-MMD")})

(* The outcomes of a command with a -o, on a host with these files: whether *)
(* it succeeds, and its output then.  An option at the end lacks its        *)
(* operand.  What was preprocessed in one language may or may not be good   *)
(* for another.                                                             *)
Failure == [ok |-> FALSE, out |-> NoFile]
Run(cxx, cmd, files, host) ==
  IF \/ Cardinality(Inputs(cmd)) # 1
     \/ Len(cmd) \in Plain(cmd) /\ cmd[Len(cmd)] \in TakesOperand
     \/ NoDependencies(cmd)
     \/ \E j \in Inputs(cmd) : cmd[j] = OutputFile(cmd)
     \/ \E j \in Inputs(cmd) :
          FileAt(files, cmd[j]).kind \notin {"source", "doti"}
     \/ \E f \in Included(cmd) : f \notin DOMAIN files
  THEN {Failure}
  ELSE LET j    == CHOOSE j \in Inputs(cmd) : TRUE
           made == Made(cxx, cmd, j, files, host)
           good == [ok |-> TRUE, out |-> made]
       IN  IF made.as \in {"none", made.pre} THEN {good} ELSE {good, Failure}

-----------------------------------------------------------------------------
(* A command that gcc reads in one way too, and the wrapper's host and its  *)
(* server alike: none of gcc's options is an operand, no source of -imacros *)
(* or -MQ either, and an object has a name that nothing else in the command,*)
(* or in what is sent for it, has: no .i, no language, and no .o of a -D.   *)
ReadAlike(args) ==
  \A j \in 1..Len(args) - 1 :
    LET next == args[j + 1] IN
    /\ args[j] \in Paired \cup TakesOperand =>
         next \notin Options \cup Flags
    /\ args[j] \in {F("-imacros"), F("-MQ")} => ~IsSourceFile(next)
    /\ args[j] \in {F("-o"), F("-x")} => Last(next) \notin {"i", "ii"}
    /\ args[j] = F("-o") =>
         /\ next \notin Languages
         /\ \A k \in 1..Len(args) - 1 : args[k] = F("-x") => args[k + 1] # next
         /\ \A e \in {"i", "ii"} :
              Append(Front(next), e) \notin Joined \cup Other
===============================================================================
