------------------------------ MODULE GccWrapper ------------------------------
(***************************************************************************)
(* compiler/gcc.py: what GCCWrapper makes of a compiler command.  The      *)
(* command is a sequence of arguments, without the compiler; an argument   *)
(* is what its split('.') gives, so that "a.c" is <<"a", "c">>.            *)
(***************************************************************************)
EXTENDS Integers, SequencesExt

CONSTANTS
  Joined,  \* arguments that begin with -D, -I or -Wp, and go on
  Other    \* options that the wrapper knows nothing of, as -O2

Arg == Seq(STRING) \ {<<>>}
F(name) == <<name>>   \* a flag, or whatever has no dot

(* Positions that follow, as its operand, one of the flags.                 *)
Operands(args, flags) ==
  LET op[j \in 0..Len(args)] == j > 1 /\ args[j - 1] \in flags /\ ~op[j - 1]
  IN  {j \in 1..Len(args) : op[j]}

Has(args, flags) == \E j \in 1..Len(args) : args[j] \in flags

-----------------------------------------------------------------------------
(* Files *)

SourceExtensions == {"cpp", "cxx", "cc", "c", "i", "ii"}

(* The extension in lower case: "a.C" has that of "a.c".                    *)
Extension(arg) == IF Last(arg) = "C" THEN "c" ELSE Last(arg)
IsSourceFile(arg) == Extension(arg) \in SourceExtensions

WrapperLang(src) == IF Extension(src) = "c" THEN "c" ELSE "c++"
PreprocessedFilename(src, obj) ==
  Append(Front(obj), IF WrapperLang(src) = "c++" THEN "ii" ELSE "i")

-----------------------------------------------------------------------------
(* can_handle_command: one source, a -c or -S, and an object               *)

LookedFault(args) == 1..Len(args) \ Operands(args, {F("-o")})
Looked(args) == 1..Len(args) \ Operands(args, {F("-x"), F("-o")})
Sources(args) == {j \in Looked(args) : IsSourceFile(args[j])}
Objects(args) ==
  {j + 1 : j \in {k \in Looked(args) \ {Len(args)} : args[k] = F("-o")}}

CanHandle(args) ==
  /\ \E j \in Sources(args) : Sources(args) = {j}
  /\ \E j \in Looked(args) : args[j] \in {F("-c"), F("-S")}
  /\ Objects(args) # {}

SourceFile(args) == args[CHOOSE j \in Sources(args) : TRUE]
ObjectFile(args) == args[Max(Objects(args))]

CalledForPreprocessing(args) == Has(args, {F("-E")})

-----------------------------------------------------------------------------
(* Commands *)

Native == {F("-march=native"), F("-mcpu=native"), F("-mtune=native")}
ArchCPU == F("-march=CPU")   \* CPU is the name gcc has for the client's
TuneCPU == F("-mtune=CPU")
Resolved == {ArchCPU, TuneCPU}

(* _replace_march_native, and its callers' choice of a flag.                *)
Renamed(arg) ==
  IF arg \in {F("-march=native"), F("-mcpu=native")} THEN ArchCPU
  ELSE IF arg = F("-mtune=native") THEN TuneCPU ELSE arg

(* rewrite_local_args; the faulty one drops what it ought to rewrite.       *)
RewriteLocalArgsFault(args) == SelectSeq(args, LAMBDA a : a \notin Native)
RewriteLocalArgs(args) == [j \in 1..Len(args) |-> Renamed(args[j])]

(* Every -c becomes a -E, and the operand of -o the preprocessed file.      *)
PreprocessorCmd(args) ==
  [j \in 1..Len(args) |->
     IF args[j] = F("-c") THEN F("-E")
     ELSE IF j \in Operands(args, {F("-o")})
       THEN PreprocessedFilename(SourceFile(args), args[j])
     ELSE args[j]]

(* is_preprocessor_flag: what it drops alone, a -D whose macro is apart     *)
(* included, and what it drops with the argument after it.                  *)
Alone  == {F("-D"), F("-MD"), F("-M"), F("-nostdinc")} \cup Joined
Paired == {F("-I"), F("-Xpreprocessor"), F("-MT"), F("-MF"), F("-include"),
           F("-imacro"), F("-iquote"), F("-isystem")}

(* Every option that the wrapper or its compiler treats by its name.        *)
Named ==
  Paired \cup Native \cup Resolved \cup
    {F("-D"), F("-MD"), F("-M"), F("-nostdinc"), F("-o"), F("-x"), F("-c"),
     F("-S"), F("-E"), F("-imacros"), F("-MMD"), F("-MQ"), F("-MP")}
Languages == {F("c"), F("c++")}
ASSUME JoinedAssumption == Joined \cap (Named \cup Other \cup Languages) = {}
ASSUME OtherAssumption  == Other \cap (Named \cup Languages) = {}

DroppedFault(args) ==
  {j \in 1..Len(args) : args[j] \in Alone \cup Paired}
Dropped(args) ==
  {j \in 1..Len(args) : args[j] \in Alone \cup Paired}
    \cup Operands(args, Paired)

(* compiler_cmd: without what concerns the preprocessor alone, and with the *)
(* preprocessed file, whose language is named unless the command names one. *)
ExplicitLang(args, lang) ==
  IF Has(args, {F("-x")}) THEN <<>> ELSE <<F("-x"), F(lang)>>
CompilerCmd(args, doti) ==
  LET src == SourceFile(args)
      For(j) ==
        IF j \in Dropped(args) THEN <<>>
        ELSE IF args[j] = src
          THEN ExplicitLang(args, WrapperLang(src)) \o <<doti>>
        ELSE <<args[j]>>
  IN  FlattenSeq([j \in 1..Len(args) |-> For(j)])

SetObjectFile(args, obj) ==
  [j \in 1..Len(args) |-> IF args[j] = ObjectFile(args) THEN obj ELSE args[j]]

-----------------------------------------------------------------------------
(* A command that can be read in one way only: no option is the operand of  *)
(* another, nor is the source's name that of -o, or of -x if it is sent     *)
(* (for such a name gcc refuses the command).                               *)
Options == Paired \cup Alone \cup Native
             \cup {F("-o"), F("-x"), F("-c"), F("-S")}
Follows(args, j, flags) == j > 1 /\ args[j - 1] \in flags
Unambiguous(args) ==
  \A j \in 1..Len(args) - 1 :
    /\ args[j] \in Paired \cup {F("-o"), F("-x")} => args[j + 1] \notin Options
    /\ \A s \in 1..Len(args) :
         /\ args[j + 1] = args[s] /\ IsSourceFile(args[s])
         /\ ~Follows(args, s, {F("-o"), F("-x")})
         => /\ args[j] # F("-o")
            /\ args[j] = F("-x") =>
                 args[s] \in Alone \/ Follows(args, s, Paired)
===============================================================================
