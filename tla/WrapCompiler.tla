----------------------------- MODULE WrapCompiler -----------------------------
(***************************************************************************)
(* compiler.wrap_compiler: where a command is run, how a client makes of   *)
(* it a preprocessed file and a command for the server, and what the       *)
(* server, which parses that command once more, makes of both.  Clients    *)
(* work in the same directory.  CompileSession has the session between     *)
(* client and server in detail; here it is a step.                         *)
(***************************************************************************)
EXTENDS Gcc

CONSTANTS
  Client,
  Commands,      \* Commands[c]: what client c may be asked to run
  InitialFiles   \* files of the directory, in the beginning

(* A command is anything but one that takes an option for a file's name, as *)
(* in -o -MD, on which the parsers need not agree, or a name for another.   *)
ASSUME CommandsAssumption ==
  \A c \in Client : \A args \in Commands[c] :
    args \in Seq(Arg) /\ Unambiguous(args) /\ ReadAlike(args)

VARIABLES
  compiler, \* compiler[c]: gcc, g++, or one that pdistcc does not know
  cmd,      \* cmd[c]: the command's arguments
  args,     \* args[c]: the wrapper's own (_args)
  pc,       \* pc[c]: what the client does next
  sent,     \* sent[c]: the arguments and the file it sends
  end,      \* end[c]: how it ended
  got,      \* got[c]: the object it got from the server
  files     \* files of the directory

vars == <<compiler, cmd, args, pc, sent, end, got, files>>

Nothing == [args |-> <<>>, doti |-> NoFile]
Ends == {"none", "unknown", "local", "unresolved", "unset", "preprocessor",
         "no file", "session", "refused", "compiler", "object"}

(* Each variable's values: what is sent is a file, and an object is what a  *)
(* server's compiler has made.                                              *)
TypeOK ==
  /\ compiler \in [Client -> {"gcc", "g++", "cc"}]
  /\ \A c \in Client : pc[c] # "idle" => cmd[c] \in Commands[c]
  /\ \A c \in Client : Len(args[c]) = Len(cmd[c])
  /\ pc \in [Client -> {"idle", "route", "local", "rewrite", "preprocess",
                        "send", "serve", "done"}]
  /\ \A c \in Client : sent[c] # Nothing => sent[c].doti # NoFile
  /\ end \in [Client -> Ends]
  /\ \A c \in Client : end[c] = "object" <=> got[c].kind \in {"object", "asm"}
  /\ DOMAIN InitialFiles \subseteq DOMAIN files

Init ==
  /\ compiler = [c \in Client |-> "gcc"]
  /\ cmd = [c \in Client |-> <<>>]
  /\ args = cmd
  /\ pc = [c \in Client |-> "idle"]
  /\ sent = [c \in Client |-> Nothing]
  /\ end = [c \in Client |-> "none"]
  /\ got = [c \in Client |-> NoFile]
  /\ files = InitialFiles

-----------------------------------------------------------------------------
(* The client *)

At(c, here, there) ==
  pc[c] = here /\ pc' = [pc EXCEPT ![c] = there] /\ UNCHANGED <<compiler, cmd>>
Ending(c, here, how) ==
  At(c, here, "done") /\ end' = [end EXCEPT ![c] = how]

Writes(name, content) ==
  files' = [n \in DOMAIN files \cup {name} |->
              IF n = name THEN content ELSE files[n]]

Start(c) ==
  /\ pc[c] = "idle" /\ pc' = [pc EXCEPT ![c] = "route"]
  /\ \E x \in Commands[c], y \in {"gcc", "g++", "cc"} :
       /\ cmd' = [cmd EXCEPT ![c] = x] /\ args' = [args EXCEPT ![c] = x]
       /\ compiler' = [compiler EXCEPT ![c] = y]
  /\ UNCHANGED <<sent, end, got, files>>

(* The server that was picked is localhost; or the wrapper is to preprocess *)
(* only, or does not understand the command, and it is run as it is.        *)
cxx == [c \in Client |-> compiler[c] = "g++"]
Known(c) == compiler[c] # "cc"
Understood(c) == ~CalledForPreprocessing(cmd[c]) /\ CanHandle(cmd[c])
RunHere(c) ==
  At(c, "route", "local") /\ UNCHANGED <<args, sent, end, got, files>>

(* find_compiler_wrapper knows no wrapper, and that is not caught.          *)
UnknownCompiler(c) ==
  /\ ~Known(c) /\ Ending(c, "route", "unknown")
  /\ UNCHANGED <<args, sent, got, files>>
Offload(c) ==
  /\ At(c, "route", "rewrite")
  /\ Known(c) /\ Understood(c)
  /\ UNCHANGED <<args, sent, end, got, files>>

RunLocally(c) ==
  /\ pc[c] = "local" /\ Ending(c, "local", "local")
  /\ IF Objects(cmd[c]) = {} THEN UNCHANGED files
     ELSE \E r \in Run(cxx[c], cmd[c], files, "client") :
            IF r.ok THEN Writes(OutputFile(cmd[c]), r.out) ELSE UNCHANGED files
  /\ UNCHANGED <<args, sent, got>>

Rewrite(c) ==
  /\ At(c, "rewrite", "preprocess")
  /\ args' = [args EXCEPT ![c] = RewriteLocalArgs(@)]
  /\ UNCHANGED <<sent, end, got, files>>

(* gcc_march_native, for a CPU that is not in the cache: gcc leaves it blank *)
(* (UnsupportedCompilationMode, and the command is run as it is), or fails, *)
(* or has no line for -march, which leaves `cpuname` unset.                 *)
Unresolved(c) ==
  /\ Has(cmd[c], Native)
  /\ \/ At(c, "rewrite", "local") /\ UNCHANGED end
     \/ Ending(c, "rewrite", "unresolved")
     \/ Ending(c, "rewrite", "unset")
  /\ UNCHANGED <<args, sent, got, files>>

DotiFile(c) == PreprocessedFilename(SourceFile(cmd[c]), ObjectFile(cmd[c]))

Preprocess(c) ==
  LET command == PreprocessorCmd(args[c]) IN
  pc[c] = "preprocess" /\ \E r \in Run(cxx[c], command, files, "client") :
    /\ \/ r.ok /\ At(c, "preprocess", "send") /\ UNCHANGED end
       \/ ~r.ok /\ Ending(c, "preprocess", "preprocessor")
    /\ IF r.ok THEN Writes(OutputFile(command), r.out) ELSE UNCHANGED files
    /\ UNCHANGED <<args, sent, got>>

(* The session begins; a preprocessed file that is not there ends it.       *)
Send(c) ==
  /\ pc[c] = "send"
  /\ \/ /\ FileAt(files, DotiFile(c)) # NoFile
        /\ At(c, "send", "serve")
        /\ sent' = [sent EXCEPT ![c] =
             [args |-> CompilerCmd(args[c], DotiFile(c)),
              doti |-> files[DotiFile(c)]]]
        /\ UNCHANGED end
     \/ /\ FileAt(files, DotiFile(c)) = NoFile
        /\ Ending(c, "send", "no file") /\ UNCHANGED sent
  /\ UNCHANGED <<args, got, files>>

(* No server, a lost connection, anything that CompileSession is about.     *)
SessionFails(c) ==
  /\ Ending(c, "send", "session") \/ Ending(c, "serve", "session")
  /\ UNCHANGED <<args, sent, got, files>>

-----------------------------------------------------------------------------
(* The server parses what it was sent, puts names of its own for the files, *)
(* and runs the compiler; the client writes the object it gets.             *)

TempDoti == <<"tmp", "ii">>
TempObject == <<"tmp", "o">>
ASSUME TempAssumption == {TempDoti, TempObject} \cap (Joined \cup Other) = {}

ServerCmd(received) ==
  CompilerCmd(SetObjectFile(received, TempObject), TempDoti)
ServerFiles(doti) == [name \in {TempDoti} |-> doti]

Refuse(c) ==
  /\ pc[c] = "serve" /\ ~CanHandle(sent[c].args)
  /\ Ending(c, "serve", "refused")
  /\ UNCHANGED <<args, sent, got, files>>

Compile(c) ==
  /\ pc[c] = "serve" /\ CanHandle(sent[c].args)
  /\ \E r \in Run(cxx[c], ServerCmd(sent[c].args), ServerFiles(sent[c].doti),
                  "server") :
       \/ /\ r.ok /\ Ending(c, "serve", "object")
          /\ got' = [got EXCEPT ![c] = r.out]
          /\ Writes(ObjectFile(args[c]), r.out)
       \/ /\ ~r.ok /\ Ending(c, "serve", "compiler")
          /\ UNCHANGED <<got, files>>
  /\ UNCHANGED <<args, sent>>

Step(c) ==
  \/ Start(c) \/ RunHere(c) \/ UnknownCompiler(c) \/ Offload(c)
  \/ RunLocally(c)
  \/ Rewrite(c) \/ Unresolved(c) \/ Preprocess(c) \/ Send(c) \/ SessionFails(c)
  \/ Refuse(c) \/ Compile(c)

Done == (\A c \in Client : pc[c] = "done") /\ UNCHANGED vars

Next == (\E c \in Client : Step(c)) \/ Done
Spec == Init /\ [][Next]_vars

-----------------------------------------------------------------------------
(* What gcc does and the wrapper does not expect *)

Source1(c) == CHOOSE j \in Sources(cmd[c]) : TRUE

(* The source counted is a flag such as -DX=a.c, not a file.                *)
NoSource(c) == Source1(c) \in Dropped(cmd[c])

(* What is sent has one input too many, the macro of a -D that is dropped   *)
(* without it, or the source beside an option that was counted for it; or   *)
(* an option about dependencies, without the -MD or -M that asks for them.  *)
Astray(c) ==
  \/ Has(cmd[c], {F("-D")})
  \/ SourceFile(cmd[c]) \in Other
  \/ Has(cmd[c], {F("-MQ"), F("-MP")}) /\ ~Has(cmd[c], {F("-MMD")})

(* The server is told another language than gcc would have taken: a.C, a .c *)
(* for g++, and a -x too late to say anything.                              *)
Misread(c) ==
  IF Has(cmd[c], {F("-x")})
    THEN \E j \in Source1(c)..Len(cmd[c]) : cmd[c][j] = F("-x")
    ELSE LET src == SourceFile(cmd[c]) IN
         WrapperLang(src) # ByExtension(cxx[c], src)

(* gcc -E writes nothing for a source that is preprocessed already; what is *)
(* sent is the source itself, or what was in the file before.               *)
AlreadyPreprocessed(c) == Last(SourceFile(cmd[c])) \in {"i", "ii"}

(* Another client, with an object of the same stem for one, writes a file   *)
(* that this one reads: the source, the preprocessed file, or a header.     *)
Outputs(c) ==
  (IF Objects(cmd[c]) = {} THEN {} ELSE {ObjectFile(cmd[c])})
    \cup (IF Known(c) /\ Understood(c) THEN {DotiFile(c)} ELSE {})
ReadFiles(c) == {SourceFile(cmd[c]), DotiFile(c)} \cup Included(cmd[c])
Shared(c) == \E d \in Client \ {c} : Outputs(d) \cap ReadFiles(c) # {}

(* What the compiler would have done here.                                  *)
Local(c) == Run(cxx[c], cmd[c], InitialFiles, "client")

-----------------------------------------------------------------------------
(* What the wrapper must do *)

(* The client's CPU by its name: less than what -march=native finds out, as *)
(* a CPU may lack, or have, what others of its name do not.  Of -mcpu=native*)
(* an -march is made, and the object needs that CPU.                        *)
ByName(v) == IF v = "client" THEN "CPU" ELSE v
NamedCPU(line, out) ==
  Content(out.kind, out.of, out.pre, out.as,
          IF Has(line, {F("-mcpu=native")}) THEN "CPU" ELSE ByName(out.arch),
          ByName(out.tune))

(* An object that comes from a server is the one the compiler would have    *)
(* left here, had it been told the CPU by name: of that source, in that     *)
(* language, and for this CPU.                                              *)
AsLocal(c) ==
  end[c] = "object" =>
    \/ \E r \in Local(c) : r.ok /\ got[c] = NamedCPU(cmd[c], r.out)
    \/ Misread(c) \/ AlreadyPreprocessed(c) \/ Shared(c)
ObjectIsLocal == \A c \in Client : AsLocal(c)

(* The commands of compilers it knows, whose CPU it can tell, are done as   *)
(* the compiler would have done them here; or fail with it, or over the     *)
(* session, or over one of these: a source that is none, what is sent of a  *)
(* -D, -MQ or -MP, -S without -c, which is not made a -E, -M, whose rules   *)
(* are sent for a source, and -imacros, whose file the server lacks         *)
(* ("-imacro" is what the code drops).                                      *)
FailsOnlyIf ==
  \A c \in Client :
    end[c] \in {"preprocessor", "no file", "refused", "compiler"} =>
      \/ Failure \in Local(c)
      \/ NoSource(c) \/ Astray(c) \/ ~Has(cmd[c], {F("-c")})
      \/ Has(cmd[c], {F("-M"), F("-imacros")})
      \/ Misread(c) \/ AlreadyPreprocessed(c) \/ Shared(c)

(* Client and server take the command they each parse for the same: the     *)
(* server finds the preprocessed file for its source and the client's       *)
(* object for its own, and refuses only a command whose source is none.     *)
ServerAgrees ==
  \A c \in Client : sent[c] # Nothing =>
    IF CanHandle(sent[c].args)
      THEN /\ SourceFile(sent[c].args) = DotiFile(c)
           /\ ObjectFile(sent[c].args) = ObjectFile(cmd[c])
      ELSE NoSource(c)
===============================================================================
