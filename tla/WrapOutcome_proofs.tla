-------------------------- MODULE WrapOutcome_proofs --------------------------
(***************************************************************************)
(* An object that comes from a server is the one the compiler would have   *)
(* left here, and a command fails there only if it may fail here.          *)
(*                                                                         *)
(* The proof follows one command, line, through the wrapper.  The first    *)
(* sections are about arguments as gcc reads them: what carries over from  *)
(* a command to one with other options, or none, in between (Alike,        *)
(* Carries).  Then come what the preprocessor makes of the command (Prec), *)
(* what the server runs (ServerCmd(Sent(line)), Serves), and the outcomes  *)
(* of the three, which agree (PrecOutcome, ServerOutcome).  The last       *)
(* sections have clients that work in one directory: an invariant (DirInv) *)
(* says whose the files are, and with it the outcomes that agree on the    *)
(* files of the beginning are those of the clients.                        *)
(***************************************************************************)
EXTENDS WrapCompiler_proofs, FiniteSetTheorems

(* What gcc takes for an option or makes take an operand, and the wrapper;  *)
(* and the options with an operand that are sent to the server.             *)
AllOptions ==
  Options \cup TakesOperand \cup {F("-E"), F("-MMD"), F("-MP")}
    \cup Resolved \cup Other
Takers == Paired \cup TakesOperand
SentTakers == {F("-o"), F("-x"), F("-imacros"), F("-MQ")}

LEMMA OptionSets ==
  /\ AllOptions = Flags \cup {F("-imacro")} /\ AllOptions = Options \cup Flags
  /\ Takers \subseteq AllOptions /\ Options \subseteq AllOptions
  /\ Flags \subseteq AllOptions
  /\ SentTakers \subseteq TakesOperand /\ Naming \subseteq SentTakers
  /\ TakesOperand \subseteq Paired \cup SentTakers \cup {F("-D")}
  /\ Alone \cup Paired \subseteq AllOptions
<1>1. AllOptions = Flags \cup {F("-imacro")} /\ AllOptions = Options \cup Flags
  BY DEF AllOptions, Flags, Options, Paired, Alone, TakesOperand
<1>2. Takers \subseteq AllOptions /\ Options \subseteq AllOptions
  BY DEF AllOptions, Takers, Options
<1>3. SentTakers \subseteq TakesOperand /\ Naming \subseteq SentTakers
  BY DEF SentTakers, TakesOperand, Naming
<1>4. TakesOperand \subseteq Paired \cup SentTakers \cup {F("-D")}
  BY DEF SentTakers, TakesOperand, Paired
<1>5. Alone \cup Paired \subseteq AllOptions
  BY DEF AllOptions, Options
<1> QED
  BY <1>1, <1>2, <1>3, <1>4, <1>5

LEMMA SentTakersDiffer ==
  /\ SentTakers \cap (Alone \cup Paired) = {}
  /\ F("-imacro") \notin TakesOperand /\ F("-imacro") \in Takers
  /\ F("-imacro") \notin Flags /\ F("-D") \in Takers
  /\ F("c") \notin AllOptions /\ F("c++") \notin AllOptions
<1>1. SentTakers \cap (Alone \cup Paired) = {}
  BY JoinedAssumption, SMT DEF SentTakers, Alone, Paired, F, Named
<1>2. /\ F("-imacro") \notin TakesOperand /\ F("-imacro") \in Takers
      /\ F("-D") \in Takers
  BY SMT DEF TakesOperand, Takers, Paired, F
<1>3. F("-imacro") \notin Flags
  <2>1. F("-imacro") \notin Joined \cup Other
    BY JoinedAssumption, OtherAssumption DEF Named, Paired
  <2>2. F("-imacro") \notin Native \cup Resolved
    BY SMT DEF Native, Resolved, ArchCPU, TuneCPU, F
  <2>3. F("-imacro") \notin {F("-c"), F("-S"), F("-E"), F("-M"), F("-MD"),
                             F("-MMD"), F("-MP"), F("-nostdinc")}
    BY SMT DEF F
  <2> QED
    BY <1>2, <2>1, <2>2, <2>3 DEF Flags
<1>4. ASSUME NEW lang \in Languages PROVE lang \notin AllOptions
  <2>1. lang \notin Joined \cup Other
    BY <1>4, JoinedAssumption, OtherAssumption
  <2>2. lang = F("c") \/ lang = F("c++")
    BY <1>4 DEF Languages
  <2>3. lang \notin Native \cup Resolved
    BY <2>2, SMT DEF Native, Resolved, ArchCPU, TuneCPU, F
  <2>4. lang \notin Paired \cup TakesOperand
    BY <2>2, SMT DEF Paired, TakesOperand, F
  <2>5. lang \notin {F("-D"), F("-c"), F("-S"), F("-E"), F("-M"), F("-MD"),
                     F("-MMD"), F("-MP"), F("-nostdinc"), F("-o"), F("-x")}
    BY <2>2, SMT DEF F
  <2> QED
    BY <2>1, <2>3, <2>4, <2>5 DEF AllOptions, Options, Alone
<1> QED
  BY <1>1, <1>2, <1>3, <1>4 DEF Languages

(* An option is no source, nor a preprocessed file, but for a -D and such,  *)
(* and for one that the wrapper does not know.                              *)
LEMMA NoOptionIsSource ==
  ASSUME NEW x \in AllOptions, x \notin Joined \cup Other
  PROVE  ~IsSourceFile(x)
<1>1. \A name : Last(F(name)) = name
  BY DEF Last, F
<1> DEFINE names == {"-o", "-x", "-c", "-S", "-E", "-M", "-MD", "-nostdinc",
                     "-march=CPU", "-mtune=CPU", "-march=native",
                     "-mcpu=native", "-mtune=native", "-D", "-I",
                     "-Xpreprocessor", "-MT", "-MF", "-MQ", "-MMD", "-MP",
                     "-include", "-imacro", "-imacros", "-iquote", "-isystem"}
<1>2. PICK name \in names : x = F(name)
  BY DEF AllOptions, Options, Paired, Alone, Native, TakesOperand, Resolved,
         ArchCPU, TuneCPU
<1>3. Last(x) \in names
  BY <1>1, <1>2
<1>4. names \cap (SourceExtensions \cup {"C"}) = {}
  BY DEF SourceExtensions
<1> HIDE DEF names
<1> QED
  BY <1>3, <1>4 DEF IsSourceFile, Extension

-----------------------------------------------------------------------------
(* A command that gcc reads as the wrapper does                             *)

(* a compiles the one file at s, and everything else is an option, that it  *)
(* knows, or its operand; nothing else has the file's name, nor one of a    *)
(* preprocessed file.  No -D is apart from its macro.                       *)
GccApart(a) ==
  \A j \in 1..Len(a) - 1 : a[j] \in Takers => a[j + 1] \notin AllOptions
Clear(a, s) ==
  /\ a \in Seq(Words) /\ s \in 1..Len(a)
  /\ GccApart(a)
  /\ a[s] \notin AllOptions /\ IsSourceFile(a[s]) /\ s \notin After(a, Takers)
  /\ \A j \in 1..Len(a) : j # s =>
       /\ a[j] # a[s]
       /\ Last(a[j]) \notin {"i", "ii"}
       /\ IsSourceFile(a[j]) => j \in After(a, Naming)
       /\ a[j] \in AllOptions \/ j \in After(a, TakesOperand)
       /\ a[j] \notin {F("-imacro"), F("-D")}
  /\ a[Len(a)] \notin TakesOperand

(* What is apart for gcc is apart for the wrapper.                          *)
LEMMA GccApartIs ==
  ASSUME NEW a, GccApart(a)
  PROVE  OptionsApart(a)
<1>1. Paired \cup {F("-o"), F("-x")} \subseteq Takers
  BY DEF Takers, TakesOperand
<1> QED
  BY <1>1, OptionSets DEF GccApart, OptionsApart

(* No operand takes an operand, so that what follows a flag is its operand. *)
LEMMA GccOperands ==
  ASSUME NEW a \in Seq(Words), GccApart(a),
         NEW flags, flags \subseteq Takers
  PROVE  Operands(a, flags) = After(a, flags)
<1>1. ASSUME NEW j \in 1..Len(a) - 1, a[j] \in flags
      PROVE  a[j + 1] \notin flags
  BY <1>1, OptionSets DEF GccApart
<1>2. \A j \in 1..Len(a) :
        j \in Operands(a, flags) <=> j > 1 /\ a[j - 1] \in flags
  BY <1>1, PlainOperands, Zenon
<1>3. Operands(a, flags) \subseteq 1..Len(a)
  BY DEF Operands
<1> QED
  BY <1>2, <1>3, Zenon DEF After

(* An option is no operand.                                                 *)
LEMMA OptionIsPlain ==
  ASSUME NEW a \in Seq(Words), GccApart(a), NEW j \in 1..Len(a),
         a[j] \in AllOptions
  PROVE  j \notin After(a, Takers)
<1>1. Len(a) \in Nat
  OBVIOUS
<1>2. SUFFICES ASSUME j > 1, a[j - 1] \in Takers PROVE FALSE
  BY DEF After
<1>3. j - 1 \in 1..Len(a) - 1 /\ (j - 1) + 1 = j
  BY <1>1, <1>2
<1> QED
  BY <1>2, <1>3 DEF GccApart

LEMMA AfterGrows ==
  ASSUME NEW a, NEW X, NEW Y, X \subseteq Y
  PROVE  After(a, X) \subseteq After(a, Y)
BY DEF After

(* How the compiler reads such a command.                                   *)
LEMMA GccReads ==
  ASSUME NEW a \in Seq(Words), GccApart(a)
  PROVE  /\ Plain(a) = 1..Len(a) \ After(a, TakesOperand)
         /\ \A X : X \subseteq AllOptions => (Given(a, X) <=> Has(a, X))
         /\ Included(a) = {a[j] : j \in After(a, {F("-include"),
                                                  F("-imacros")})}
<1>1. Plain(a) = 1..Len(a) \ After(a, TakesOperand)
  <2>1. TakesOperand \subseteq Takers
    BY DEF Takers
  <2> QED
    BY <2>1, GccOperands, Zenon DEF Plain
<1>2. ASSUME NEW X, X \subseteq AllOptions
      PROVE  Given(a, X) <=> Has(a, X)
  <2>1. ASSUME NEW j \in 1..Len(a), a[j] \in X PROVE j \in Plain(a)
    <3>1. j \notin After(a, Takers)
      BY <1>2, <2>1, OptionIsPlain
    <3>2. After(a, TakesOperand) \subseteq After(a, Takers)
      BY AfterGrows DEF Takers
    <3> QED
      BY <1>1, <3>1, <3>2
  <2>2. Plain(a) \subseteq 1..Len(a)
    BY <1>1
  <2> QED
    BY <2>1, <2>2, Zenon DEF Given, Has
<1>3. Included(a) = {a[j] : j \in After(a, {F("-include"), F("-imacros")})}
  <2>1. {F("-include"), F("-imacros")} \subseteq Takers
    BY DEF Takers, TakesOperand
  <2> QED
    BY <2>1, GccOperands, Zenon DEF Included
<1> QED
  BY <1>1, <1>2, <1>3, Zenon

(* And the wrapper.                                                         *)
LEMMA ClearReads ==
  ASSUME NEW a, NEW s, Clear(a, s)
  PROVE  /\ Inputs(a) = {s}
         /\ Sources(a) = {s} /\ SourceFile(a) = a[s]
         /\ Dropped(a) = {j \in 1..Len(a) : a[j] \in Alone \cup Paired}
                           \cup After(a, Paired)
         /\ s \notin Dropped(a)
<1>1. a \in Seq(Words) /\ GccApart(a) /\ OptionsApart(a) /\ s \in 1..Len(a)
  BY GccApartIs DEF Clear
<1>2. Plain(a) = 1..Len(a) \ After(a, TakesOperand)
  BY <1>1, GccReads, Zenon
<1>3. /\ After(a, TakesOperand) \subseteq After(a, Takers)
      /\ After(a, Naming) \subseteq After(a, Takers)
      /\ After(a, Paired) \subseteq After(a, Takers)
  <2>1. TakesOperand \subseteq Takers /\ Paired \subseteq Takers
        /\ Naming \subseteq Takers
    BY DEF Takers, TakesOperand, Naming
  <2> QED
    BY <2>1, AfterGrows, Zenon
<1>4. Inputs(a) = {s}
  <2>1. s \in Inputs(a)
    BY <1>1, <1>2, <1>3, OptionSets DEF Inputs, Clear
  <2>2. ASSUME NEW j \in Inputs(a), j # s PROVE FALSE
    <3>1. /\ j \in 1..Len(a) /\ j \notin After(a, TakesOperand)
          /\ a[j] \notin Flags
      BY <1>2 DEF Inputs
    <3>2. a[j] \in AllOptions /\ a[j] \notin {F("-imacro"), F("-D")}
      BY <2>2, <3>1 DEF Clear
    <3> QED
      BY <3>1, <3>2, OptionSets
  <2> QED
    BY <2>1, <2>2
<1>5. Sources(a) = {s}
  <2>1. Sources(a) = {j \in 1..Len(a) :
                        j \notin After(a, Naming) /\ IsSourceFile(a[j])}
    BY <1>1, ReadApart, Zenon
  <2>2. s \in Sources(a)
    BY <1>1, <1>3, <2>1 DEF Clear
  <2>3. ASSUME NEW j \in Sources(a), j # s PROVE FALSE
    BY <2>1, <2>3 DEF Clear
  <2> QED
    BY <2>2, <2>3
<1>6. SourceFile(a) = a[s]
  BY <1>5 DEF SourceFile
<1>7. Dropped(a) = {j \in 1..Len(a) : a[j] \in Alone \cup Paired}
                     \cup After(a, Paired)
  BY <1>1, ReadApart, Zenon
<1>8. s \notin Dropped(a)
  BY <1>3, <1>7, OptionSets DEF Clear
<1> QED
  BY <1>4, <1>5, <1>6, <1>7, <1>8, Zenon

-----------------------------------------------------------------------------
(* What is sent of such a command                                           *)

(* pl[j] is where argument j of a is in what is sent, or doti for the       *)
(* source; a language that is not named in the command is before it.        *)
Kept(a) == 1..Len(a) \ Dropped(a)
Carried(a, s, doti, out, pl) ==
  /\ out \in Seq(Words)
  /\ \A j \in Kept(a) : pl[j] \in 1..Len(out)
  /\ \A i, j \in Kept(a) : i < j => pl[i] < pl[j]
  /\ \A j \in Kept(a) \ {s} : out[pl[j]] = a[j]
  /\ out[pl[s]] = doti
  /\ \A j \in Kept(a) : j + 1 \in Kept(a) \ {s} => pl[j + 1] = pl[j] + 1
  /\ \A p \in 1..Len(out) :
       \/ \E j \in Kept(a) : p = pl[j]
       \/ ~Has(a, {F("-x")}) /\ p \in {pl[s] - 2, pl[s] - 1}
  /\ ~Has(a, {F("-x")}) =>
       /\ pl[s] > 2
       /\ out[pl[s] - 2] = F("-x")
       /\ out[pl[s] - 1] = F(WrapperLang(a[s]))
       /\ \A j \in Kept(a) : pl[j] \notin {pl[s] - 2, pl[s] - 1}

(* The source is sent, among words.                                         *)
LEMMA SourceIsKept ==
  ASSUME NEW a, NEW s, Clear(a, s)
  PROVE  s \in Kept(a) /\ Len(a) \in Nat
<1>1. s \in 1..Len(a) /\ a \in Seq(Words)
  BY Zenon DEF Clear
<1>2. s \notin Dropped(a)
  BY ClearReads, Zenon
<1>3. Len(a) \in Nat
  BY <1>1
<1> QED
  BY <1>1, <1>2, <1>3 DEF Kept

LEMMA CarriedAreWords ==
  ASSUME NEW a, NEW s, NEW doti, NEW out, NEW pl, Carried(a, s, doti, out, pl)
  PROVE  out \in Seq(Words) /\ Len(out) \in Nat
<1>1. out \in Seq(Words)
  BY Zenon DEF Carried
<1> QED
  BY <1>1

(* The wrapper names the language beside the file.                          *)
LEMMA LanguageOfSource ==
  ASSUME NEW argv, NEW doti \in Words, NEW j,
         j \notin Dropped(argv), argv[j] = SourceFile(argv),
         ~Has(argv, {F("-x")})
  PROVE  Block(argv, doti, j)[2] = F(WrapperLang(argv[j]))
<1> DEFINE lang == F(WrapperLang(argv[j]))
           two  == <<F("-x"), lang>>
           one  == <<doti>>
<1>1. Block(argv, doti, j) = two \o one
  BY BlockOfSource, Zenon
<1>2. lang \in Words /\ F("-x") \in Words
  BY LanguagesAreWords, Zenon
<1> HIDE DEF lang
<1>3. /\ two \in Seq(Words) /\ 2 \in 1..Len(two) /\ two[2] = lang
      /\ one \in Seq(Words)
  BY <1>2
<1> HIDE DEF two, one
<1>4. \A i \in 1..Len(two) : (two \o one)[i] = two[i]
  <2>1. two \in Seq(Words) /\ one \in Seq(Words)
    BY <1>3
  <2> QED
    BY <2>1, JoinedLeft, Zenon
<1> QED
  BY <1>1, <1>3, <1>4 DEF lang

(* Each argument gives nothing, itself, or the preprocessed file.           *)
LEMMA SentBlocks ==
  ASSUME NEW a, NEW s, Clear(a, s), NEW doti \in Words
  PROVE  /\ \A j \in Dropped(a) : Block(a, doti, j) = <<>>
         /\ \A j \in Kept(a) \ {s} : Single(Block(a, doti, j), a[j])
         /\ Has(a, {F("-x")}) => Single(Block(a, doti, s), doti)
         /\ ~Has(a, {F("-x")}) =>
              /\ Triple(Block(a, doti, s), doti)
              /\ Block(a, doti, s)[2] = F(WrapperLang(a[s]))
<1>1. SourceFile(a) = a[s] /\ s \notin Dropped(a)
  BY ClearReads, Zenon
<1>2. ASSUME NEW j \in Kept(a) \ {s}
      PROVE  Single(Block(a, doti, j), a[j])
  <2>1. j \notin Dropped(a) /\ a[j] # SourceFile(a)
    BY <1>1 DEF Kept, Clear
  <2> QED
    BY <2>1, OneOfArgument, Zenon
<1>3. ASSUME Has(a, {F("-x")}) PROVE Single(Block(a, doti, s), doti)
  BY <1>1, <1>3, OneOfFile, Zenon
<1>4. ASSUME ~Has(a, {F("-x")})
      PROVE  Triple(Block(a, doti, s), doti)
  BY <1>1, <1>4, ThreeOfSource, Zenon
<1>5. ASSUME ~Has(a, {F("-x")})
      PROVE  Block(a, doti, s)[2] = F(WrapperLang(a[s]))
  BY <1>1, <1>5, LanguageOfSource, Zenon
<1>6. \A j \in Dropped(a) : Block(a, doti, j) = <<>>
  BY BlockOfDropped, Zenon
<1> QED
  BY <1>2, <1>3, <1>4, <1>5, <1>6, Zenon

(* Every command that is sent has its arguments at such places.             *)
LEMMA CarriedExists ==
  ASSUME NEW a, NEW s, Clear(a, s), NEW doti \in Words
  PROVE  \E pl : Carried(a, s, doti, CompilerCmd(a, doti), pl)
<1> DEFINE n   == Len(a)
           out == CompilerCmd(a, doti)
           B   == Blocks(a, doti)
<1>1. a \in Seq(Words) /\ s \in 1..n /\ n \in Nat
  BY DEF Clear
<1>2. PICK st : Layout(a, doti, st)
  BY <1>1, LayoutExists, Zenon
<1> DEFINE pl == [j \in 1..n |-> st[j] + Len(B[j])]
<1>0. \A j \in 1..n : B[j] = Block(a, doti, j)
  BY <1>1 DEF Blocks
<1> HIDE DEF B, out, n
<1>4. Kept(a) \subseteq 1..n /\ s \in Kept(a)
  BY <1>1, ClearReads, Zenon DEF Kept, n
<1>a. ASSUME NEW j \in Kept(a) \ {s} PROVE Len(B[j]) = 1 /\ B[j][1] = a[j]
  <2>1. Single(Block(a, doti, j), a[j])
    BY SentBlocks, Zenon
  <2>2. B[j] = Block(a, doti, j)
    BY <1>0, <1>4
  <2> QED
    BY <2>1, <2>2, Zenon DEF Single
<1>b. ASSUME Has(a, {F("-x")}) PROVE Len(B[s]) = 1 /\ B[s][1] = doti
  <2>1. Single(Block(a, doti, s), doti)
    BY <1>b, SentBlocks, Zenon
  <2>2. B[s] = Block(a, doti, s)
    BY <1>0, <1>4
  <2> QED
    BY <2>1, <2>2, Zenon DEF Single
<1>c. ASSUME ~Has(a, {F("-x")})
      PROVE  /\ Len(B[s]) = 3 /\ B[s][1] = F("-x") /\ B[s][3] = doti
             /\ B[s][2] = F(WrapperLang(a[s]))
  <2>1. Triple(Block(a, doti, s), doti)
    BY <1>c, SentBlocks, Zenon
  <2>2. Block(a, doti, s)[2] = F(WrapperLang(a[s]))
    BY <1>c, SentBlocks, Zenon
  <2>3. B[s] = Block(a, doti, s)
    BY <1>0, <1>4
  <2> QED
    BY <2>1, <2>2, <2>3, Zenon DEF Triple
<1>d. ASSUME NEW j \in 1..n, j \in Dropped(a) PROVE Len(B[j]) = 0
  <2>1. Block(a, doti, j) = <<>>
    BY <1>d, SentBlocks, Zenon
  <2>2. B[j] = <<>>
    BY <1>0, <2>1
  <2> QED
    BY <2>2
<1>3. /\ \A j \in Kept(a) \ {s} : Len(B[j]) = 1 /\ B[j][1] = a[j]
      /\ Has(a, {F("-x")}) => Len(B[s]) = 1 /\ B[s][1] = doti
      /\ ~Has(a, {F("-x")}) =>
            /\ Len(B[s]) = 3 /\ B[s][1] = F("-x") /\ B[s][3] = doti
            /\ B[s][2] = F(WrapperLang(a[s]))
      /\ \A j \in 1..n : j \in Dropped(a) => Len(B[j]) = 0
  BY <1>a, <1>b, <1>c, <1>d, Zenon
<1>5. /\ out \in Seq(Words) /\ Len(out) \in Nat
      /\ \A j \in 1..n : /\ st[j] \in Nat
                         /\ st[j + 1] = st[j] + Len(B[j])
      /\ \A i, j \in 1..n : i <= j => st[i] <= st[j]
      /\ \A j \in 1..n : \A k \in 1..Len(B[j]) :
           st[j] + k \in 1..Len(out) /\ out[st[j] + k] = B[j][k]
      /\ \A p \in 1..Len(out) : \E j \in 1..n : \E k \in 1..Len(B[j]) :
           p = st[j] + k
      /\ \A i, j \in 1..n : \A k \in 1..Len(B[i]), l \in 1..Len(B[j]) :
           st[i] + k = st[j] + l => i = j /\ k = l
  <2>1. out \in Seq(Words)
    BY <1>2, Zenon DEF Layout, out
  <2>2. Len(out) \in Nat
    BY <2>1
  <2>3. \A j \in 1..n : /\ st[j] \in Nat
                        /\ st[j + 1] = st[j] + Len(B[j])
    <3>1. \A j \in 1..n : /\ st[j] \in Nat
                          /\ st[j + 1] = st[j] + Len(Block(a, doti, j))
      BY <1>2, Zenon DEF Layout, n
    <3> QED
      BY <1>0, <3>1, Zenon
  <2>4. \A i, j \in 1..n : i <= j => st[i] <= st[j]
    BY <1>2, Zenon DEF Layout, n
  <2>5. \A j \in 1..n : \A k \in 1..Len(B[j]) :
          st[j] + k \in 1..Len(out) /\ out[st[j] + k] = B[j][k]
    <3>1. \A j \in 1..n : \A k \in 1..Len(Block(a, doti, j)) :
            st[j] + k \in 1..Len(out) /\ out[st[j] + k] = Block(a, doti, j)[k]
      BY <1>2, Zenon DEF Layout, n, out
    <3> QED
      BY <1>0, <3>1, Zenon
  <2>6. \A p \in 1..Len(out) : \E j \in 1..n : \E k \in 1..Len(B[j]) :
          p = st[j] + k
    <3>1. ASSUME NEW p \in 1..Len(out)
          PROVE  \E j \in 1..n : \E k \in 1..Len(B[j]) : p = st[j] + k
      <4>1. \E j \in 1..n : \E k \in 1..Len(Block(a, doti, j)) : p = st[j] + k
        BY <1>2, Zenon DEF Layout, n, out
      <4> QED
        BY <1>0, <4>1, Zenon
    <3> QED
      BY <3>1
  <2>7. \A i, j \in 1..n : \A k \in 1..Len(B[i]), l \in 1..Len(B[j]) :
          st[i] + k = st[j] + l => i = j /\ k = l
    <3> SUFFICES ASSUME NEW i \in 1..n, NEW j \in 1..n,
                        NEW k \in 1..Len(B[i]), NEW l \in 1..Len(B[j]),
                        st[i] + k = st[j] + l
                 PROVE  i = j /\ k = l
      OBVIOUS
    <3>1. k \in 1..Len(Block(a, doti, i)) /\ l \in 1..Len(Block(a, doti, j))
      BY <1>0
    <3>2. \A g, h \in 1..n :
            \A x \in 1..Len(Block(a, doti, g)),
               y \in 1..Len(Block(a, doti, h)) :
              st[g] + x = st[h] + y => g = h /\ x = y
      BY <1>2, Zenon DEF Layout, n
    <3> QED
      BY <3>1, <3>2
  <2> QED
    BY <2>1, <2>2, <2>3, <2>4, <2>5, <2>6, <2>7, Zenon
<1>6. ASSUME NEW j \in Kept(a)
      PROVE  Len(B[j]) \in {1, 3} /\ Len(B[j]) \in 1..Len(B[j])
  <2>1. Len(B[j]) = 1 \/ Len(B[j]) = 3
    BY <1>3, Zenon
  <2> QED
    BY <2>1
<1>7. ASSUME NEW j \in Kept(a)
      PROVE  pl[j] \in 1..Len(out) /\ out[pl[j]] = B[j][Len(B[j])]
             /\ pl[j] = st[j] + Len(B[j]) /\ pl[j] = st[j + 1]
             /\ st[j] \in Nat /\ pl[j] \in Nat
  <2>1. j \in 1..n /\ Len(B[j]) \in 1..Len(B[j])
    BY <1>4, <1>6
  <2>2. pl[j] = st[j] + Len(B[j])
    BY <2>1
  <2> HIDE DEF pl
  <2>3. pl[j] \in 1..Len(out) /\ out[pl[j]] = B[j][Len(B[j])]
    <3>1. /\ st[j] + Len(B[j]) \in 1..Len(out)
          /\ out[st[j] + Len(B[j])] = B[j][Len(B[j])]
      BY <1>5, <2>1, Zenon
    <3> QED
      BY <2>2, <3>1, Zenon
  <2>4. st[j] \in Nat /\ pl[j] = st[j + 1]
    BY <1>5, <2>1, <2>2, Zenon
  <2> QED
    BY <1>5, <2>2, <2>3, <2>4
<1> HIDE DEF pl
<1>8. ASSUME NEW i \in Kept(a), NEW j \in Kept(a), i < j
      PROVE  pl[i] < pl[j]
  <2>1. i + 1 <= j /\ i + 1 \in 1..n /\ j \in 1..n
    BY <1>1, <1>4, <1>8
  <2>2. st[i + 1] <= st[j]
    BY <1>5, <2>1, Zenon
  <2> QED
    BY <1>6, <1>7, <2>2
<1>9. \A j \in Kept(a) \ {s} : out[pl[j]] = a[j]
  BY <1>3, <1>7
<1>10. out[pl[s]] = doti
  BY <1>3, <1>4, <1>7
<1>11. ASSUME NEW j \in Kept(a), j + 1 \in Kept(a) \ {s}
       PROVE  pl[j + 1] = pl[j] + 1
  BY <1>3, <1>7, <1>11
<1>12. ASSUME ~Has(a, {F("-x")})
       PROVE  /\ pl[s] = st[s] + 3 /\ st[s] \in Nat
              /\ out[st[s] + 1] = F("-x")
              /\ out[st[s] + 2] = F(WrapperLang(a[s]))
              /\ st[s] + 1 = pl[s] - 2 /\ st[s] + 2 = pl[s] - 1
  <2>1. 1 \in 1..Len(B[s]) /\ 2 \in 1..Len(B[s]) /\ s \in 1..n
    BY <1>3, <1>4, <1>12
  <2>2. out[st[s] + 1] = B[s][1] /\ out[st[s] + 2] = B[s][2]
    BY <1>5, <2>1, Zenon
  <2>3. Len(B[s]) = 3
    BY <1>3, <1>12, Zenon
  <2>4. pl[s] = st[s] + Len(B[s]) /\ st[s] \in Nat
    BY <1>4, <1>7, Zenon
  <2>5. out[st[s] + 1] = F("-x") /\ out[st[s] + 2] = F(WrapperLang(a[s]))
    BY <1>3, <1>12, <2>2, Zenon
  <2> QED
    BY <2>3, <2>4, <2>5
<1>13. ASSUME NEW p \in 1..Len(out)
       PROVE  \/ \E j \in Kept(a) : p = pl[j]
              \/ ~Has(a, {F("-x")}) /\ p \in {pl[s] - 2, pl[s] - 1}
  <2>1. PICK j \in 1..n : \E k \in 1..Len(B[j]) : p = st[j] + k
    BY <1>5, Zenon
  <2>2. PICK k \in 1..Len(B[j]) : p = st[j] + k
    BY <2>1
  <2>3. j \in Kept(a)
    <3>1. SUFFICES ASSUME j \in Dropped(a) PROVE FALSE
      BY DEF Kept, n
    <3> QED
      BY <1>3, <2>2, <3>1
  <2>4. CASE j # s \/ Has(a, {F("-x")})
    <3>1. Len(B[j]) = 1
      BY <1>3, <2>3, <2>4
    <3>2. k = 1
      BY <3>1
    <3>3. pl[j] = st[j] + Len(B[j])
      BY <1>7, <2>3, Zenon
    <3>4. p = pl[j]
      BY <2>2, <3>1, <3>2, <3>3, Zenon
    <3> QED
      BY <2>3, <3>4
  <2>5. CASE j = s /\ ~Has(a, {F("-x")})
    <3>0. Len(B[j]) = 3
      BY <1>3, <2>5, Zenon
    <3>1. k = 1 \/ k = 2 \/ k = 3
      BY <3>0
    <3> QED
      BY <1>12, <2>2, <2>3, <2>5, <3>1
  <2> QED
    BY <2>4, <2>5
<1>14. ASSUME ~Has(a, {F("-x")}), NEW j \in Kept(a),
              pl[j] \in {pl[s] - 2, pl[s] - 1}
       PROVE  FALSE
  <2>0. Len(B[s]) = 3 /\ s \in 1..n
    BY <1>3, <1>4, <1>14, Zenon
  <2>1. 1 \in 1..Len(B[s]) /\ 2 \in 1..Len(B[s])
    BY <2>0
  <2>2. j \in 1..n /\ Len(B[j]) \in 1..Len(B[j]) /\ pl[j] = st[j] + Len(B[j])
    BY <1>4, <1>6, <1>7
  <2>3. pl[j] = st[s] + 1 \/ pl[j] = st[s] + 2
    BY <1>12, <1>14
  <2>4. j = s
    <3>1. \A k \in 1..Len(B[j]), l \in 1..Len(B[s]) :
            st[j] + k = st[s] + l => j = s /\ k = l
      BY <1>5, <2>0, <2>2, Zenon
    <3> QED
      BY <2>1, <2>2, <2>3, <3>1, Zenon
  <2> QED
    BY <1>12, <1>14, <2>3, <2>4
<1>15. pl[s] \in Nat /\ (~Has(a, {F("-x")}) => pl[s] > 2)
  BY <1>4, <1>7, <1>12
<1>16. ~Has(a, {F("-x")}) =>
         /\ pl[s] > 2
         /\ out[pl[s] - 2] = F("-x")
         /\ out[pl[s] - 1] = F(WrapperLang(a[s]))
         /\ \A j \in Kept(a) : pl[j] \notin {pl[s] - 2, pl[s] - 1}
  BY <1>12, <1>14, <1>15, Zenon
<1>17. Carried(a, s, doti, out, pl)
  BY <1>5, <1>7, <1>8, <1>9, <1>10, <1>11, <1>13, <1>16, Zenon DEF Carried
<1> QED
  BY <1>17 DEF out

-----------------------------------------------------------------------------
(* Commands that are read alike                                             *)

(* The same options with an operand at the same places, and options where   *)
(* the other has options.                                                   *)
Alike(a, b) ==
  /\ b \in Seq(Words) /\ Len(b) = Len(a)
  /\ \A j \in 1..Len(a) :
       /\ a[j] \in Takers \/ b[j] \in Takers => b[j] = a[j]
       /\ a[j] \in AllOptions <=> b[j] \in AllOptions

(* Commands that are alike are read alike.                                  *)
LEMMA AlikeReads ==
  ASSUME NEW a \in Seq(Words), GccApart(a), NEW b, Alike(a, b)
  PROVE  /\ GccApart(b)
         /\ \A X : X \subseteq Takers => After(b, X) = After(a, X)
         /\ Plain(b) = Plain(a)
         /\ Inputs(b) = Inputs(a)
<1>1. b \in Seq(Words) /\ Len(b) = Len(a) /\ Len(a) \in Nat
  BY DEF Alike
<1>2. \A j \in 1..Len(a) :
        /\ a[j] \in Takers \/ b[j] \in Takers => b[j] = a[j]
        /\ a[j] \in AllOptions <=> b[j] \in AllOptions
  BY DEF Alike
<1>3. GccApart(b)
  <2> SUFFICES ASSUME NEW j \in 1..Len(b) - 1, b[j] \in Takers
               PROVE  b[j + 1] \notin AllOptions
    BY DEF GccApart
  <2>1. j \in 1..Len(a) - 1 /\ j \in 1..Len(a) /\ j + 1 \in 1..Len(a)
    BY <1>1
  <2>2. a[j] \in Takers
    BY <1>2, <2>1
  <2>3. a[j + 1] \notin AllOptions
    BY <2>1, <2>2 DEF GccApart
  <2> QED
    BY <1>2, <2>1, <2>3
<1>4. ASSUME NEW X, X \subseteq Takers PROVE After(b, X) = After(a, X)
  <2>1. ASSUME NEW j \in 1..Len(a), j > 1
        PROVE  b[j - 1] \in X <=> a[j - 1] \in X
    <3>1. j - 1 \in 1..Len(a)
      BY <1>1, <2>1
    <3> QED
      BY <1>2, <1>4, <3>1
  <2> QED
    BY <1>1, <2>1 DEF After
<1>5. Plain(b) = Plain(a)
  <2>1. TakesOperand \subseteq Takers
    BY DEF Takers
  <2>2. After(b, TakesOperand) = After(a, TakesOperand)
    BY <1>4, <2>1
  <2>3. Plain(b) = 1..Len(b) \ After(b, TakesOperand)
    BY <1>1, <1>3, GccReads, Zenon
  <2>4. Plain(a) = 1..Len(a) \ After(a, TakesOperand)
    BY GccReads, Zenon
  <2> QED
    BY <1>1, <2>2, <2>3, <2>4
<1>6. ASSUME NEW j \in 1..Len(a) PROVE a[j] \in Flags <=> b[j] \in Flags
  <2>1. F("-imacro") \in Takers
    BY SentTakersDiffer
  <2>2. F("-imacro") \notin Flags
    BY SentTakersDiffer
  <2>3. a[j] = F("-imacro") <=> b[j] = F("-imacro")
    BY <1>2, <2>1
  <2> QED
    BY <1>2, <2>2, <2>3, OptionSets
<1>7. Plain(a) \subseteq 1..Len(a)
  BY DEF Plain
<1>8. Inputs(b) = Inputs(a)
  BY <1>5, <1>6, <1>7 DEF Inputs
<1> QED
  BY <1>3, <1>4, <1>5, <1>8, Zenon

LEMMA AlikeHas ==
  ASSUME NEW a \in Seq(Words), NEW b, Alike(a, b), NEW X,
         \A j \in 1..Len(a) : a[j] \in X <=> b[j] \in X
  PROVE  Has(a, X) <=> Has(b, X)
BY DEF Alike, Has

LEMMA AlikeClear ==
  ASSUME NEW a, NEW s, Clear(a, s), NEW b, Alike(a, b), b[s] = a[s],
         \A j \in 1..Len(a) : b[j] = a[j] \/ ~IsSourceFile(b[j])
  PROVE  Clear(b, s)
<1>1. a \in Seq(Words) /\ GccApart(a) /\ Len(a) \in Nat /\ s \in 1..Len(a)
  BY DEF Clear
<1>2. b \in Seq(Words) /\ Len(b) = Len(a)
  BY DEF Alike
<1>3. GccApart(b) /\ \A X : X \subseteq Takers => After(b, X) = After(a, X)
  BY <1>1, AlikeReads, Zenon
<1>4. \A j \in 1..Len(a) :
        /\ a[j] \in Takers \/ b[j] \in Takers => b[j] = a[j]
        /\ a[j] \in AllOptions <=> b[j] \in AllOptions
  BY DEF Alike
<1>5. Takers \subseteq Takers /\ TakesOperand \subseteq Takers
      /\ Naming \subseteq Takers
      /\ F("-imacro") \in Takers /\ F("-D") \in Takers
  BY SentTakersDiffer DEF Takers, TakesOperand, Naming
<1>6. /\ After(b, Takers) = After(a, Takers)
      /\ After(b, TakesOperand) = After(a, TakesOperand)
      /\ After(b, Naming) = After(a, Naming)
  BY <1>3, <1>5, Zenon
<1>7. /\ b[s] \notin AllOptions /\ IsSourceFile(b[s])
      /\ s \notin After(b, Takers)
  BY <1>1, <1>6, Zenon DEF Clear
<1>8. ASSUME NEW j \in 1..Len(b), j # s
      PROVE  /\ b[j] # b[s]
             /\ Last(b[j]) \notin {"i", "ii"}
             /\ IsSourceFile(b[j]) => j \in After(b, Naming)
             /\ b[j] \in AllOptions \/ j \in After(b, TakesOperand)
             /\ b[j] \notin {F("-imacro"), F("-D")}
  <2>0. j \in 1..Len(a)
    BY <1>2
  <2>1. /\ a[j] # a[s]
        /\ Last(a[j]) \notin {"i", "ii"}
        /\ IsSourceFile(a[j]) => j \in After(a, Naming)
        /\ a[j] \in AllOptions \/ j \in After(a, TakesOperand)
        /\ a[j] \notin {F("-imacro"), F("-D")}
    BY <1>8, <2>0, Zenon DEF Clear
  <2>2. b[j] \in AllOptions \/ j \in After(b, TakesOperand)
    BY <1>4, <1>6, <2>0, <2>1
  <2>3. b[j] \notin {F("-imacro"), F("-D")}
    BY <1>4, <1>5, <2>0, <2>1
  <2>4. CASE b[j] = a[j]
    BY <1>6, <2>1, <2>2, <2>3, <2>4
  <2>5. CASE ~IsSourceFile(b[j])
    <3>1. Last(b[j]) \notin {"i", "ii"}
      BY <2>5 DEF IsSourceFile, Extension, SourceExtensions
    <3> QED
      BY <1>7, <2>2, <2>3, <2>5, <3>1
  <2> QED
    BY <2>0, <2>4, <2>5
<1>9. b[Len(b)] \notin TakesOperand
  <2>1. Len(a) \in 1..Len(a)
    BY <1>1
  <2>2. a[Len(a)] \notin TakesOperand
    BY DEF Clear
  <2> QED
    BY <1>2, <1>4, <1>5, <2>1, <2>2
<1> QED
  BY <1>1, <1>2, <1>3, <1>7, <1>8, <1>9 DEF Clear

-----------------------------------------------------------------------------
(* What is sent is as clear                                                 *)

(* What of the options with an operand is sent, its operand is.             *)
LEMMA NextKept ==
  ASSUME NEW a, NEW s, Clear(a, s), NEW j \in 1..Len(a), a[j] \in SentTakers
  PROVE  /\ j \in Kept(a) \ {s}
         /\ j + 1 \in Kept(a) \ {s}
         /\ a[j + 1] \notin AllOptions
<1>1. a \in Seq(Words) /\ GccApart(a) /\ Len(a) \in Nat /\ s \in 1..Len(a)
      /\ a[Len(a)] \notin TakesOperand /\ a[s] \notin AllOptions
      /\ s \notin After(a, Takers)
  BY DEF Clear
<1>2. a[j] \in TakesOperand /\ a[j] \in Takers /\ a[j] \in AllOptions
      /\ a[j] \notin Alone \cup Paired
  BY OptionSets, SentTakersDiffer DEF Takers
<1>3. Dropped(a) = {i \in 1..Len(a) : a[i] \in Alone \cup Paired}
                     \cup After(a, Paired)
  BY ClearReads, Zenon
<1>4. After(a, Paired) \subseteq After(a, Takers)
  BY AfterGrows DEF Takers
<1>5. j \in Kept(a) \ {s}
  <2>1. j \notin After(a, Takers)
    BY <1>1, <1>2, OptionIsPlain
  <2> QED
    BY <1>1, <1>2, <1>3, <1>4, <2>1 DEF Kept
<1>6. j \in 1..Len(a) - 1 /\ j + 1 \in 1..Len(a) /\ (j + 1) - 1 = j /\ j + 1 > 1
  BY <1>1, <1>2
<1>7. a[j + 1] \notin AllOptions
  BY <1>1, <1>2, <1>6 DEF GccApart
<1>8. j + 1 \notin After(a, Paired)
  BY <1>2, <1>6 DEF After
<1>9. j + 1 \in After(a, Takers)
  BY <1>2, <1>6 DEF After
<1>10. j + 1 \in Kept(a) \ {s}
  BY <1>1, <1>3, <1>6, <1>7, <1>8, <1>9, OptionSets DEF Kept
<1> QED
  BY <1>5, <1>7, <1>10, Zenon

(* What is kept is no preprocessor option, nor the operand of one.          *)
LEMMA KeptTakers ==
  ASSUME NEW a, NEW s, Clear(a, s), NEW j \in Kept(a)
  PROVE  /\ j \in 1..Len(a) /\ a[j] \notin Alone \cup Paired
         /\ a[j] \in Takers => a[j] \in SentTakers
         /\ j > 1 /\ a[j - 1] \in Takers => a[j - 1] \in SentTakers
<1>1. Dropped(a) = {i \in 1..Len(a) : a[i] \in Alone \cup Paired}
                     \cup After(a, Paired)
  BY ClearReads, Zenon
<1>2. j \in 1..Len(a) /\ j \notin Dropped(a)
  BY DEF Kept
<1>3. a[j] \notin Alone \cup Paired
  BY <1>1, <1>2
<1>4. \A x \in Takers : x \notin Paired \cup {F("-D")} => x \in SentTakers
  BY OptionSets DEF Takers
<1>5. j > 1 => a[j - 1] \notin Paired
  BY <1>1, <1>2 DEF After
<1>6. F("-D") \in Alone
  BY DEF Alone
<1>7. j > 1 => a[j - 1] # F("-D")
  <2>1. SUFFICES ASSUME j > 1, a[j - 1] = F("-D") PROVE FALSE
    OBVIOUS
  <2>2. j - 1 \in 1..Len(a)
    BY <1>2, <2>1
  <2>3. j - 1 # s
    BY <1>6, <2>1, OptionSets DEF Clear
  <2> QED
    BY <2>1, <2>2, <2>3 DEF Clear
<1> QED
  BY <1>2, <1>3, <1>4, <1>5, <1>6, <1>7

(* What may be sent for a source.                                           *)
Preprocessed(doti) ==
  /\ doti \in Words /\ doti \notin AllOptions
  /\ IsSourceFile(doti) /\ Last(doti) \in {"i", "ii"}

(* An option with an operand in what is sent is one of the command, with    *)
(* its operand, or the -x that was put there.                               *)
TakerOf(a, s, out, pl, p) ==
  \E j \in Kept(a) \ {s} :
    /\ p = pl[j] /\ a[j] \in SentTakers /\ out[p] = a[j]
    /\ j + 1 \in Kept(a) \ {s}
    /\ pl[j + 1] = p + 1 /\ out[p + 1] = a[j + 1]
    /\ a[j + 1] \notin AllOptions
TakerPut(a, s, out, pl, p) ==
  /\ ~Has(a, {F("-x")})
  /\ p = pl[s] - 2 /\ p + 1 = pl[s] - 1
  /\ out[p] = F("-x") /\ out[p + 1] = F(WrapperLang(a[s]))

LEMMA SentTaker ==
  ASSUME NEW a, NEW s, Clear(a, s), NEW doti, Preprocessed(doti),
         NEW out, NEW pl, Carried(a, s, doti, out, pl),
         NEW p \in 1..Len(out), out[p] \in Takers
  PROVE  /\ p + 1 \in 1..Len(out)
         /\ TakerOf(a, s, out, pl, p) \/ TakerPut(a, s, out, pl, p)
<1>1. s \in Kept(a)
  BY SourceIsKept, Zenon
<1>2. \A j \in Kept(a) : pl[j] \in 1..Len(out)
  BY DEF Carried
<1>3. Len(out) \in Nat
  BY DEF Carried
<1>4. Takers \subseteq AllOptions
  BY OptionSets
<1>5. CASE \E j \in Kept(a) : p = pl[j]
  <2>1. PICK j \in Kept(a) : p = pl[j]
    BY <1>5
  <2>2. j # s
    BY <1>4, <2>1 DEF Carried, Preprocessed
  <2>3. out[p] = a[j]
    BY <2>1, <2>2 DEF Carried
  <2>4. a[j] \in SentTakers
    BY <2>3, KeptTakers
  <2>5. j \in 1..Len(a)
    BY DEF Kept
  <2>6. j + 1 \in Kept(a) \ {s} /\ a[j + 1] \notin AllOptions
    BY <2>4, <2>5, NextKept
  <2>7. pl[j + 1] = p + 1
    BY <2>1, <2>6 DEF Carried
  <2>8. out[p + 1] = a[j + 1]
    BY <2>6, <2>7 DEF Carried
  <2>9. p + 1 \in 1..Len(out)
    BY <1>2, <2>6, <2>7
  <2> QED
    BY <2>1, <2>2, <2>3, <2>4, <2>6, <2>7, <2>8, <2>9 DEF TakerOf
<1>6. CASE ~Has(a, {F("-x")}) /\ p \in {pl[s] - 2, pl[s] - 1}
  <2>1. /\ pl[s] > 2 /\ out[pl[s] - 2] = F("-x")
        /\ out[pl[s] - 1] = F(WrapperLang(a[s]))
    BY <1>6 DEF Carried
  <2>2. F(WrapperLang(a[s])) \notin AllOptions
    BY LanguagesAreWords, SentTakersDiffer
  <2>3. p # pl[s] - 1
    BY <1>4, <2>1, <2>2
  <2>4. pl[s] \in 1..Len(out)
    BY <1>1, <1>2
  <2>5. p = pl[s] - 2 /\ p + 1 = pl[s] - 1 /\ p + 1 \in 1..Len(out)
    BY <1>3, <1>6, <2>3, <2>4
  <2> QED
    BY <1>6, <2>1, <2>5 DEF TakerPut
<1> QED
  BY <1>5, <1>6 DEF Carried

(* Places of what is sent are in the order of the command.                  *)
LEMMA SamePlace ==
  ASSUME NEW a, NEW s, NEW doti, NEW out, NEW pl, Carried(a, s, doti, out, pl),
         NEW i \in Kept(a), NEW j \in Kept(a), pl[i] = pl[j]
  PROVE  i = j
<1>1. i \in Int /\ j \in Int
  BY DEF Kept
<1>2. \A g, h \in Kept(a) : g < h => pl[g] < pl[h]
  BY DEF Carried
<1>3. pl[i] \in Int /\ pl[j] \in Int
  BY DEF Carried
<1>4. ~(i < j) /\ ~(j < i)
  BY <1>2, <1>3
<1> QED
  BY <1>1, <1>4

(* Operands are sent as operands, and nothing else is.                      *)
LEMMA SentOperands ==
  ASSUME NEW a, NEW s, Clear(a, s), NEW doti, Preprocessed(doti),
         NEW out, NEW pl, Carried(a, s, doti, out, pl),
         NEW Y, Y \subseteq Takers, NEW j \in Kept(a) \ {s}
  PROVE  pl[j] \in After(out, Y) <=> j \in After(a, Y)
<1>1. /\ j \in 1..Len(a) /\ Len(a) \in Nat /\ Len(out) \in Nat
      /\ s \in Kept(a)
  <2>1. s \in Kept(a) /\ Len(a) \in Nat
    BY SourceIsKept, Zenon
  <2>2. Len(out) \in Nat
    BY CarriedAreWords, Zenon
  <2>3. j \in 1..Len(a)
    BY DEF Kept
  <2> QED
    BY <2>1, <2>2, <2>3
<1>2. pl[j] \in 1..Len(out) /\ pl[s] \in 1..Len(out)
  BY <1>1 DEF Carried
<1>3. ASSUME j \in After(a, Y) PROVE pl[j] \in After(out, Y)
  <2>1. j > 1 /\ a[j - 1] \in Y /\ j - 1 \in 1..Len(a) /\ (j - 1) + 1 = j
    BY <1>1, <1>3 DEF After
  <2>2. a[j - 1] \in SentTakers
    BY <2>1, KeptTakers
  <2>3. j - 1 \in Kept(a) \ {s}
    BY <2>1, <2>2, NextKept, Zenon
  <2>4. pl[j] = pl[j - 1] + 1
    BY <2>1, <2>3 DEF Carried
  <2>5. pl[j - 1] \in 1..Len(out) /\ out[pl[j - 1]] = a[j - 1]
    BY <2>3 DEF Carried
  <2>6. pl[j] > 1 /\ pl[j] - 1 = pl[j - 1]
    BY <2>4, <2>5
  <2> QED
    BY <1>2, <2>1, <2>5, <2>6 DEF After
<1>4. ASSUME pl[j] \in After(out, Y) PROVE j \in After(a, Y)
  <2> DEFINE p == pl[j] - 1
  <2>1. p \in 1..Len(out) /\ out[p] \in Y /\ p + 1 = pl[j]
    BY <1>1, <1>2, <1>4 DEF After
  <2> HIDE DEF p
  <2>2. out[p] \in Takers
    BY <2>1
  <2>3. TakerOf(a, s, out, pl, p) \/ TakerPut(a, s, out, pl, p)
    BY <2>1, <2>2, SentTaker, Zenon
  <2>4. CASE TakerOf(a, s, out, pl, p)
    <3>1. PICK i \in Kept(a) \ {s} :
               /\ p = pl[i] /\ a[i] \in SentTakers /\ out[p] = a[i]
               /\ i + 1 \in Kept(a) \ {s}
               /\ pl[i + 1] = p + 1
      BY <2>4, Zenon DEF TakerOf
    <3>2. i + 1 = j
      BY <2>1, <3>1, SamePlace
    <3>3. i \in 1..Len(a)
      BY DEF Kept
    <3>4. j > 1 /\ j - 1 = i
      BY <3>2, <3>3
    <3> QED
      BY <1>1, <2>1, <3>1, <3>4 DEF After
  <2>5. CASE TakerPut(a, s, out, pl, p)
    BY <2>1, <2>5 DEF Carried, TakerPut
  <2> QED
    BY <2>3, <2>4, <2>5
<1> QED
  BY <1>3, <1>4

(* The preprocessed file is the operand of nothing.                         *)
LEMMA SentFileIsPlain ==
  ASSUME NEW a, NEW s, Clear(a, s), NEW doti, Preprocessed(doti),
         NEW out, NEW pl, Carried(a, s, doti, out, pl)
  PROVE  pl[s] \notin After(out, Takers)
<1>1. s \in Kept(a) /\ Len(out) \in Nat
  BY SourceIsKept, CarriedAreWords, Zenon
<1>2. pl[s] \in 1..Len(out)
  BY <1>1 DEF Carried
<1> SUFFICES ASSUME pl[s] \in After(out, Takers) PROVE FALSE
  OBVIOUS
<1> DEFINE p == pl[s] - 1
<1>3. pl[s] > 1 /\ out[p] \in Takers
  BY DEF After
<1>4. p \in 1..Len(out) /\ p + 1 = pl[s] /\ p # pl[s] - 2
  BY <1>1, <1>2, <1>3
<1> HIDE DEF p
<1>5. TakerOf(a, s, out, pl, p) \/ TakerPut(a, s, out, pl, p)
  BY <1>3, <1>4, SentTaker, Zenon
<1>6. PICK j \in Kept(a) \ {s} :
        j + 1 \in Kept(a) \ {s} /\ pl[j + 1] = p + 1
  BY <1>4, <1>5, Zenon DEF TakerOf, TakerPut
<1>7. j + 1 = s
  BY <1>1, <1>4, <1>6, SamePlace
<1> QED
  BY <1>6, <1>7

LEMMA SentIsClear ==
  ASSUME NEW a, NEW s, Clear(a, s), NEW doti, Preprocessed(doti),
         NEW out, NEW pl, Carried(a, s, doti, out, pl)
  PROVE  Clear(out, pl[s])
<1> DEFINE q == pl[s]
<1>1. s \in Kept(a) /\ Len(out) \in Nat /\ out \in Seq(Words)
  BY SourceIsKept, CarriedAreWords, Zenon
<1>2. q \in 1..Len(out) /\ out[q] = doti
  BY <1>1 DEF Carried
<1>3. q \notin After(out, Takers)
  BY SentFileIsPlain, Zenon
<1>4. /\ doti \notin AllOptions /\ IsSourceFile(doti)
      /\ Last(doti) \in {"i", "ii"}
  BY DEF Preprocessed
<1> HIDE DEF q
<1>5. GccApart(out)
  <2> SUFFICES ASSUME NEW p \in 1..Len(out) - 1, out[p] \in Takers
               PROVE  out[p + 1] \notin AllOptions
    BY DEF GccApart
  <2>1. p \in 1..Len(out)
    BY <1>1
  <2>2. out[p + 1] \notin AllOptions \/ out[p + 1] = F(WrapperLang(a[s]))
    BY <2>1, SentTaker DEF TakerOf, TakerPut
  <2>3. F(WrapperLang(a[s])) \notin AllOptions
    BY LanguagesAreWords, SentTakersDiffer
  <2> QED
    BY <2>2, <2>3
<1>6. ASSUME NEW p \in 1..Len(out), p # q
      PROVE  /\ out[p] # out[q]
             /\ Last(out[p]) \notin {"i", "ii"}
             /\ IsSourceFile(out[p]) => p \in After(out, Naming)
             /\ out[p] \in AllOptions \/ p \in After(out, TakesOperand)
             /\ out[p] \notin {F("-imacro"), F("-D")}
  <2>1. CASE \E j \in Kept(a) : p = pl[j]
    <3>1. PICK j \in Kept(a) : p = pl[j]
      BY <2>1
    <3>2. j # s
      BY <1>6, <3>1 DEF q
    <3>3. out[p] = a[j]
      BY <3>1, <3>2 DEF Carried
    <3>4. /\ Last(a[j]) \notin {"i", "ii"}
          /\ IsSourceFile(a[j]) => j \in After(a, Naming)
          /\ a[j] \in AllOptions \/ j \in After(a, TakesOperand)
          /\ a[j] \notin {F("-imacro"), F("-D")}
      BY <3>2, Zenon DEF Clear, Kept
    <3>5. Naming \subseteq Takers /\ TakesOperand \subseteq Takers
      BY DEF Naming, Takers, TakesOperand
    <3>6. p \in After(out, Naming) <=> j \in After(a, Naming)
      BY <3>1, <3>2, <3>5, SentOperands
    <3>7. p \in After(out, TakesOperand) <=> j \in After(a, TakesOperand)
      BY <3>1, <3>2, <3>5, SentOperands
    <3> QED
      BY <1>2, <1>4, <3>3, <3>4, <3>6, <3>7
  <2>2. CASE ~Has(a, {F("-x")}) /\ p \in {pl[s] - 2, pl[s] - 1}
    <3>1. /\ pl[s] > 2 /\ out[pl[s] - 2] = F("-x")
          /\ out[pl[s] - 1] = F(WrapperLang(a[s]))
      BY <2>2 DEF Carried
    <3>2. \A name : Last(F(name)) = name
      BY DEF Last, F
    <3>3. F("-x") \in Naming /\ F("-x") \in TakesOperand
          /\ F("-x") \in AllOptions
          /\ F("-x") \notin {F("-imacro"), F("-D")}
      BY SMT DEF Naming, TakesOperand, AllOptions, F
    <3>4. CASE p = pl[s] - 2
      <4>1. out[p] = F("-x")
        BY <3>1, <3>4
      <4>2. Last(out[p]) = "-x"
        BY <3>2, <4>1
      <4>3. ~IsSourceFile(out[p]) /\ Last(out[p]) \notin {"i", "ii"}
        BY <4>2 DEF IsSourceFile, Extension, SourceExtensions
      <4> QED
        BY <1>2, <1>4, <3>3, <4>1, <4>3
    <3>5. CASE p = pl[s] - 1
      <4>1. out[p] \in {F("c"), F("c++")}
        BY <3>1, <3>5, LanguagesAreWords
      <4>2. Last(out[p]) \in {"c", "c++"}
        BY <3>2, <4>1
      <4>3. Last(out[p]) \notin {"i", "ii"}
        BY <4>2
      <4>4. p > 1 /\ p - 1 = pl[s] - 2
        BY <1>2, <3>1, <3>5 DEF q
      <4>5. p \in After(out, Naming) /\ p \in After(out, TakesOperand)
        BY <3>1, <3>3, <4>4 DEF After
      <4>6. {F("c"), F("c++")} \cap {F("-imacro"), F("-D")} = {}
        BY SMT DEF F
      <4> QED
        BY <1>2, <1>4, <4>1, <4>3, <4>5, <4>6
    <3> QED
      BY <2>2, <3>4, <3>5
  <2> QED
    BY <2>1, <2>2 DEF Carried
<1>7. out[Len(out)] \notin TakesOperand
  <2>1. Len(out) \in 1..Len(out) /\ Len(out) + 1 \notin 1..Len(out)
    BY <1>1, <1>2
  <2>2. out[Len(out)] \notin Takers
    BY <2>1, SentTaker, Zenon
  <2> QED
    BY <2>2 DEF Takers
<1>8. Clear(out, q)
  BY <1>1, <1>2, <1>3, <1>4, <1>5, <1>6, <1>7 DEF Clear
<1> QED
  BY <1>8 DEF q

(* The options that are sent, and those that are not.                       *)
LEMMA SentOptions ==
  ASSUME NEW a, NEW s, Clear(a, s), NEW doti, Preprocessed(doti),
         NEW out, NEW pl, Carried(a, s, doti, out, pl)
  PROVE  /\ ~Has(out, Alone \cup Paired)
         /\ Has(out, {F("-x")})
         /\ \A X : /\ X \subseteq AllOptions
                   /\ X \cap (Alone \cup Paired \cup {F("-x")}) = {}
                   => (Has(out, X) <=> Has(a, X))
<1>1. s \in Kept(a) /\ Len(out) \in Nat /\ out \in Seq(Words)
  BY SourceIsKept, CarriedAreWords, Zenon
<1>2. \A p \in 1..Len(out) :
        \/ \E j \in Kept(a) \ {s} : p = pl[j] /\ out[p] = a[j]
        \/ out[p] \in {doti, F("-x"), F(WrapperLang(a[s]))}
  BY DEF Carried
<1>3. doti \notin AllOptions /\ F(WrapperLang(a[s])) \notin AllOptions
      /\ F("-x") \notin Alone \cup Paired
      /\ Alone \cup Paired \subseteq AllOptions
  BY LanguagesAreWords, SentTakersDiffer, OptionSets
  DEF Preprocessed, SentTakers
<1>4. ~Has(out, Alone \cup Paired)
  <2> SUFFICES ASSUME NEW p \in 1..Len(out), out[p] \in Alone \cup Paired
               PROVE  FALSE
    BY DEF Has
  <2>1. PICK j \in Kept(a) \ {s} : out[p] = a[j]
    BY <1>2, <1>3
  <2> QED
    BY <2>1, KeptTakers
<1>5. ASSUME NEW X, X \subseteq AllOptions,
             X \cap (Alone \cup Paired \cup {F("-x")}) = {}
      PROVE  Has(out, X) <=> Has(a, X)
  <2>1. ASSUME NEW p \in 1..Len(out), out[p] \in X PROVE Has(a, X)
    <3>1. PICK j \in Kept(a) \ {s} : out[p] = a[j]
      BY <1>2, <1>3, <1>5, <2>1
    <3> QED
      BY <2>1, <3>1 DEF Has, Kept
  <2>2. ASSUME NEW j \in 1..Len(a), a[j] \in X PROVE Has(out, X)
    <3>1. j \notin After(a, Takers)
      BY <1>5, <2>2, OptionIsPlain DEF Clear
    <3>2. After(a, Paired) \subseteq After(a, Takers)
      BY AfterGrows DEF Takers
    <3>3. j \in Kept(a)
      BY <1>5, <2>2, <3>1, <3>2, ClearReads DEF Kept
    <3>4. j # s
      BY <1>5, <2>2 DEF Clear
    <3>5. pl[j] \in 1..Len(out) /\ out[pl[j]] = a[j]
      BY <3>3, <3>4 DEF Carried
    <3> QED
      BY <2>2, <3>5 DEF Has
  <2> QED
    BY <2>1, <2>2 DEF Has
<1>6. Has(out, {F("-x")})
  <2>1. CASE Has(a, {F("-x")})
    <3>1. PICK j \in 1..Len(a) : a[j] = F("-x")
      BY <2>1 DEF Has
    <3>2. j \in Kept(a) \ {s}
      BY <3>1, NextKept DEF SentTakers
    <3>3. pl[j] \in 1..Len(out) /\ out[pl[j]] = a[j]
      BY <3>2 DEF Carried
    <3> QED
      BY <3>1, <3>3 DEF Has
  <2>2. CASE ~Has(a, {F("-x")})
    <3>1. pl[s] > 2 /\ out[pl[s] - 2] = F("-x") /\ pl[s] \in 1..Len(out)
      BY <1>1, <2>2 DEF Carried
    <3>2. pl[s] - 2 \in 1..Len(out)
      BY <1>1, <3>1
    <3> QED
      BY <3>1, <3>2 DEF Has
  <2> QED
    BY <2>1, <2>2
<1> QED
  BY <1>4, <1>5, <1>6

(* The language the compiler takes for the file at s, if a -x names one.    *)
LangAt(a, s, w) ==
  \E x \in 1..Len(a) :
    /\ a[x] = F("-x") /\ x < s /\ a[x + 1] = w
    /\ \A y \in 1..Len(a) : a[y] = F("-x") => y <= x

(* That -x is the last before the file, and settles its language.           *)
LEMMA LangIs ==
  ASSUME NEW a, NEW s, Clear(a, s), NEW isCxx
  PROVE  /\ \A w : LangAt(a, s, w) => Lang(isCxx, a, s) = w[1]
         /\ ~Has(a, {F("-x")}) =>
              Lang(isCxx, a, s) = ByExtension(isCxx, a[s])
<1> DEFINE xs == {x \in Plain(a) : x < s /\ a[x] = F("-x")}
<1>1. a \in Seq(Words) /\ GccApart(a) /\ Len(a) \in Nat /\ s \in 1..Len(a)
  BY DEF Clear
<1>2. Plain(a) \subseteq 1..Len(a)
  BY DEF Plain
<1>3. ASSUME NEW x \in 1..Len(a), a[x] = F("-x") PROVE x \in Plain(a)
  <2>1. F("-x") \in AllOptions
    BY DEF AllOptions, Options
  <2>2. x \notin After(a, Takers)
    BY <1>1, <1>3, <2>1, OptionIsPlain
  <2>3. After(a, TakesOperand) \subseteq After(a, Takers)
    BY AfterGrows DEF Takers
  <2>4. Plain(a) = 1..Len(a) \ After(a, TakesOperand)
    BY <1>1, GccReads, Zenon
  <2> QED
    BY <2>2, <2>3, <2>4
<1>4. ASSUME NEW w, LangAt(a, s, w) PROVE Lang(isCxx, a, s) = w[1]
  <2>1. PICK x \in 1..Len(a) :
          /\ a[x] = F("-x") /\ x < s /\ a[x + 1] = w
          /\ \A y \in 1..Len(a) : a[y] = F("-x") => y <= x
    BY <1>4 DEF LangAt
  <2>2. x \in xs /\ xs # {}
    BY <1>3, <2>1
  <2>3. \A y \in xs : y <= x
    BY <1>2, <2>1
  <2>4. \A y \in xs : y \in Int
    BY <1>2
  <2> DEFINE m == CHOOSE z \in xs : \A y \in xs : y <= z
  <2> HIDE DEF xs
  <2>5. m \in xs /\ \A y \in xs : y <= m
    BY <2>2, <2>3, Zenon
  <2>6. m = x
    <3>1. m <= x /\ x <= m /\ m \in Int /\ x \in Int
      BY <2>2, <2>3, <2>4, <2>5
    <3> HIDE DEF m
    <3> QED
      BY <3>1
  <2>7. Lang(isCxx, a, s) = a[1 + m][1]
    BY <2>2, Zenon DEF Lang, xs
  <2> HIDE DEF m
  <2>8. 1 + m = x + 1
    BY <2>6
  <2> QED
    BY <2>1, <2>7, <2>8
<1>5. ASSUME ~Has(a, {F("-x")})
      PROVE  Lang(isCxx, a, s) = ByExtension(isCxx, a[s])
  <2>1. xs = {}
    BY <1>2, <1>5 DEF Has
  <2> QED
    BY <2>1, Zenon DEF Lang
<1> QED
  BY <1>4, <1>5

(* And such a -x is sent; or the one the wrapper puts there.                *)
LEMMA SentLang ==
  ASSUME NEW a, NEW s, Clear(a, s), NEW doti, Preprocessed(doti),
         NEW out, NEW pl, Carried(a, s, doti, out, pl)
  PROVE  /\ \A w : LangAt(a, s, w) => LangAt(out, pl[s], w)
         /\ ~Has(a, {F("-x")}) => LangAt(out, pl[s], F(WrapperLang(a[s])))
<1>1. s \in Kept(a) /\ Len(out) \in Nat /\ out \in Seq(Words)
      /\ pl[s] \in 1..Len(out)
  <2>1. s \in Kept(a) /\ Len(out) \in Nat /\ out \in Seq(Words)
    BY SourceIsKept, CarriedAreWords, Zenon
  <2>2. pl[s] \in 1..Len(out)
    BY <2>1, Zenon DEF Carried
  <2> QED
    BY <2>1, <2>2
<1>0. F("-x") \in SentTakers /\ F("-x") \in Takers
  BY OptionSets DEF SentTakers, Takers, TakesOperand
<1>2. ASSUME NEW w, LangAt(a, s, w) PROVE LangAt(out, pl[s], w)
  <2>1. PICK x \in 1..Len(a) :
          /\ a[x] = F("-x") /\ x < s /\ a[x + 1] = w
          /\ \A y \in 1..Len(a) : a[y] = F("-x") => y <= x
    BY <1>2 DEF LangAt
  <2>2. x \in Kept(a) \ {s} /\ x + 1 \in Kept(a) \ {s}
    BY <1>0, <2>1, NextKept, Zenon
  <2>3. pl[x] \in 1..Len(out) /\ pl[x + 1] = pl[x] + 1 /\ pl[x] < pl[s]
        /\ out[pl[x]] = F("-x") /\ out[pl[x + 1]] = w
    BY <1>1, <2>1, <2>2 DEF Carried
  <2>4. Has(a, {F("-x")})
    BY <2>1 DEF Has
  <2>5. ASSUME NEW p \in 1..Len(out), out[p] = F("-x") PROVE p <= pl[x]
    <3>0. TakerOf(a, s, out, pl, p) \/ TakerPut(a, s, out, pl, p)
      BY <1>0, <2>5, SentTaker, Zenon
    <3>1. PICK j \in Kept(a) \ {s} : p = pl[j] /\ out[p] = a[j]
      BY <2>4, <3>0, Zenon DEF TakerOf, TakerPut
    <3>2. j \in 1..Len(a)
      BY DEF Kept
    <3>3. j <= x
      BY <2>1, <2>5, <3>1, <3>2
    <3>4. j = x \/ j < x
      BY <3>2, <3>3
    <3>5. j < x => pl[j] < pl[x]
      BY <2>2 DEF Carried
    <3>6. pl[j] \in Int /\ pl[x] \in Int
      BY <2>3, <3>1
    <3> QED
      BY <3>1, <3>4, <3>5, <3>6
  <2>6. out[pl[x] + 1] = w
    BY <2>3
  <2> QED
    BY <2>3, <2>5, <2>6 DEF LangAt
<1>3. ASSUME ~Has(a, {F("-x")})
      PROVE  LangAt(out, pl[s], F(WrapperLang(a[s])))
  <2> DEFINE x == pl[s] - 2
  <2>1. /\ pl[s] > 2 /\ out[pl[s] - 2] = F("-x")
        /\ out[pl[s] - 1] = F(WrapperLang(a[s]))
    BY <1>3 DEF Carried
  <2>2. x \in 1..Len(out) /\ x < pl[s] /\ x + 1 = pl[s] - 1
    BY <1>1, <2>1
  <2>3. ASSUME NEW p \in 1..Len(out), out[p] = F("-x") PROVE p <= x
    <3>1. \A j \in 1..Len(a) : a[j] # F("-x")
      BY <1>3 DEF Has
    <3>2. p = x
      <4>1. TakerOf(a, s, out, pl, p) \/ TakerPut(a, s, out, pl, p)
        BY <1>0, <2>3, SentTaker, Zenon
      <4> QED
        BY <2>3, <3>1, <4>1 DEF TakerOf, TakerPut, Kept
    <3> QED
      BY <3>2
  <2>4. out[x] = F("-x") /\ out[x + 1] = F(WrapperLang(a[s]))
    BY <2>1, <2>2
  <2> HIDE DEF x
  <2> QED
    BY <2>2, <2>3, <2>4 DEF LangAt
<1> QED
  BY <1>2, <1>3

(* All of it: out, with the file doti at q, is what CompilerCmd makes of a. *)
Carries(a, s, doti, out, q) ==
  /\ Clear(out, q) /\ out[q] = doti
  /\ ~Has(out, Alone \cup Paired) /\ Has(out, {F("-x")})
  /\ \A X : /\ X \subseteq AllOptions
            /\ X \cap (Alone \cup Paired \cup {F("-x")}) = {}
            => (Has(out, X) <=> Has(a, X))
  /\ \A w : LangAt(a, s, w) => LangAt(out, q, w)
  /\ ~Has(a, {F("-x")}) => LangAt(out, q, F(WrapperLang(a[s])))

(* CompilerCmd carries it over.                                             *)
LEMMA CommandCarries ==
  ASSUME NEW a, NEW s, Clear(a, s), NEW doti, Preprocessed(doti)
  PROVE  \E q : Carries(a, s, doti, CompilerCmd(a, doti), q)
<1> DEFINE out == CompilerCmd(a, doti)
<1>1. doti \in Words
  BY DEF Preprocessed
<1>2. PICK pl : Carried(a, s, doti, out, pl)
  BY <1>1, CarriedExists, Zenon
<1> HIDE DEF out
<1>3. Clear(out, pl[s])
  BY <1>2, SentIsClear, Zenon
<1>4. out[pl[s]] = doti
  BY <1>2, Zenon DEF Carried
<1>5. /\ ~Has(out, Alone \cup Paired) /\ Has(out, {F("-x")})
      /\ \A X : /\ X \subseteq AllOptions
                /\ X \cap (Alone \cup Paired \cup {F("-x")}) = {}
                => (Has(out, X) <=> Has(a, X))
  BY <1>2, SentOptions, Zenon
<1>6. /\ \A w : LangAt(a, s, w) => LangAt(out, pl[s], w)
      /\ ~Has(a, {F("-x")}) => LangAt(out, pl[s], F(WrapperLang(a[s])))
  BY <1>2, SentLang, Zenon
<1>7. Carries(a, s, doti, out, pl[s])
  BY <1>3, <1>4, <1>5, <1>6, Zenon DEF Carries
<1> QED
  BY <1>7 DEF out

-----------------------------------------------------------------------------
(* The object, for gcc and the wrapper                                      *)

(* The last -o is the one that counts, for both.                            *)
LEMMA OutputIsObject ==
  ASSUME NEW a \in Seq(Words), GccApart(a), a[Len(a)] \notin TakesOperand,
         Has(a, {F("-o")})
  PROVE  /\ ObjectAt(a) \in 1..Len(a) /\ ObjectAt(a) > 1
         /\ a[ObjectAt(a) - 1] = F("-o")
         /\ OutputFile(a) = a[ObjectAt(a)]
         /\ ObjectFile(a) = a[ObjectAt(a)]
<1> DEFINE P == {j \in Plain(a) : a[j] = F("-o")}
<1>1. Len(a) \in Nat /\ OptionsApart(a)
  BY GccApartIs
<1>2. Objects(a) = {j \in 1..Len(a) : j > 1 /\ a[j - 1] = F("-o")}
  BY <1>1, ReadApart, Zenon
<1>3. F("-o") \in AllOptions /\ F("-o") \in TakesOperand
  BY DEF AllOptions, Options, TakesOperand
<1>4. P = {j \in 1..Len(a) : a[j] = F("-o")}
  <2>1. ASSUME NEW j \in 1..Len(a), a[j] = F("-o") PROVE j \in Plain(a)
    <3>1. j \notin After(a, Takers)
      BY <1>3, <2>1, OptionIsPlain
    <3>2. After(a, TakesOperand) \subseteq After(a, Takers)
      BY AfterGrows DEF Takers
    <3>3. Plain(a) = 1..Len(a) \ After(a, TakesOperand)
      BY GccReads, Zenon
    <3> QED
      BY <3>1, <3>2, <3>3
  <2>2. Plain(a) \subseteq 1..Len(a)
    BY DEF Plain
  <2> QED
    BY <2>1, <2>2
<1> DEFINE M == Max(P)
           N == Max(Objects(a))
<1>5. P # {} /\ P \subseteq 0..Len(a)
  BY <1>1, <1>4 DEF Has
<1> HIDE DEF P
<1>6. M \in P /\ \A y \in P : y <= M
  BY <1>1, <1>5, Largest, Zenon
<1>7. M \in 1..Len(a) /\ a[M] = F("-o")
  BY <1>4, <1>6
<1>8. M + 1 \in Objects(a)
  <2> HIDE DEF M
  <2>1. M # Len(a)
    BY <1>3, <1>7
  <2>2. M + 1 \in 1..Len(a) /\ M + 1 > 1 /\ (M + 1) - 1 = M
    BY <1>1, <1>7, <2>1
  <2> QED
    BY <1>2, <1>7, <2>2
<1>9. N \in Objects(a) /\ \A y \in Objects(a) : y <= N
  <2>1. Objects(a) # {} /\ Objects(a) \subseteq 0..Len(a)
    BY <1>1, <1>2, <1>8
  <2> QED
    BY <1>1, <2>1, Largest, Zenon
<1>10. N \in 1..Len(a) /\ N > 1 /\ a[N - 1] = F("-o")
  BY <1>2, <1>9
<1>11. N - 1 \in P
  <2> HIDE DEF N
  <2>1. N - 1 \in 1..Len(a)
    BY <1>1, <1>10
  <2> QED
    BY <1>4, <1>10, <2>1
<1>12. M + 1 <= N /\ N - 1 <= M
  BY <1>6, <1>8, <1>9, <1>11
<1>13. OutputFile(a) = a[1 + M]
  BY Zenon DEF OutputFile, P
<1>14. N = ObjectAt(a) /\ ObjectFile(a) = a[N]
  BY DEF ObjectAt, ObjectFile
<1> HIDE DEF M, N
<1>15. 1 + M = N
  BY <1>1, <1>7, <1>10, <1>12
<1> QED
  BY <1>10, <1>13, <1>14, <1>15

(* And what it names is not the source.                                     *)
LEMMA OutputIsOperand ==
  ASSUME NEW a, NEW s, Clear(a, s), Has(a, {F("-o")})
  PROVE  OutputFile(a) # a[s] /\ ObjectFile(a) # a[s]
         /\ OutputFile(a) \notin AllOptions
<1>1. a \in Seq(Words) /\ GccApart(a) /\ a[Len(a)] \notin TakesOperand
      /\ Len(a) \in Nat
  BY DEF Clear
<1> DEFINE m == ObjectAt(a)
<1>2. /\ m \in 1..Len(a) /\ m > 1
      /\ a[m - 1] = F("-o")
      /\ OutputFile(a) = a[m] /\ ObjectFile(a) = a[m]
  BY <1>1, OutputIsObject, Zenon
<1> HIDE DEF m
<1>3. F("-o") \in Takers
  BY DEF Takers, TakesOperand
<1>4. m \in After(a, Takers)
  BY <1>2, <1>3 DEF After
<1>5. m # s
  BY <1>4 DEF Clear
<1>6. a[m] # a[s]
  BY <1>2, <1>5 DEF Clear
<1>7. a[m] \notin AllOptions
  <2>1. m - 1 \in 1..Len(a) - 1 /\ (m - 1) + 1 = m
    BY <1>1, <1>2
  <2> QED
    BY <1>1, <1>2, <1>3, <2>1 DEF GccApart
<1> QED
  BY <1>2, <1>6, <1>7

(* The server's name for the object.                                        *)
LEMMA TempNames ==
  /\ TempObject \in Words /\ TempObject \notin AllOptions
  /\ ~IsSourceFile(TempObject)
  /\ Preprocessed(TempDoti)
<1>1. TempObject \in Words /\ TempDoti \in Words
  <2>1. "tmp" \in Word /\ "o" \in Word /\ "ii" \in Word
    BY DEF Word
  <2> QED
    BY <2>1 DEF TempObject, TempDoti, Words
<1>2. ASSUME NEW name PROVE Len(F(name)) = 1
  BY DEF F
<1>3. Len(TempObject) = 2 /\ Len(TempDoti) = 2
  BY DEF TempObject, TempDoti
<1>4. ASSUME NEW x \in AllOptions, x \notin Joined \cup Other
      PROVE  Len(x) = 1
  BY <1>2, <1>4, Zenon
  DEF AllOptions, Options, Paired, Alone, Native, TakesOperand, Resolved,
      ArchCPU, TuneCPU
<1>5. TempObject \notin AllOptions /\ TempDoti \notin AllOptions
  BY <1>3, <1>4, TempAssumption
<1>6. Last(TempObject) = "o" /\ Last(TempDoti) = "ii"
  BY DEF TempObject, TempDoti, Last
<1>7. ~IsSourceFile(TempObject) /\ IsSourceFile(TempDoti)
  BY <1>6 DEF IsSourceFile, Extension, SourceExtensions
<1> QED
  BY <1>1, <1>5, <1>6, <1>7 DEF Preprocessed

(* It changes nothing but the name, if that is not a language.              *)
LEMMA ObjectSet ==
  ASSUME NEW a, NEW s, Clear(a, s), Has(a, {F("-o")})
  PROVE  LET b == SetObjectFile(a, TempObject) IN
         /\ Clear(b, s) /\ b[s] = a[s]
         /\ \A X : X \subseteq AllOptions => (Has(b, X) <=> Has(a, X))
         /\ \A w : w # ObjectFile(a) /\ LangAt(a, s, w) => LangAt(b, s, w)
<1> DEFINE b == SetObjectFile(a, TempObject)
<1>1. a \in Seq(Words) /\ GccApart(a) /\ Len(a) \in Nat /\ s \in 1..Len(a)
      /\ a[Len(a)] \notin TakesOperand
  BY DEF Clear
<1>2. OutputFile(a) = ObjectFile(a)
  BY <1>1, OutputIsObject, Zenon
<1>3. ObjectFile(a) # a[s] /\ ObjectFile(a) \notin AllOptions
  BY <1>2, OutputIsOperand
<1>4. /\ b \in Seq(Words) /\ Len(b) = Len(a)
      /\ \A j \in 1..Len(a) :
           b[j] = IF a[j] = ObjectFile(a) THEN TempObject ELSE a[j]
  <2>1. \A j \in 1..Len(a) : a[j] \in Words
    BY <1>1
  <2> QED
    BY <1>1, <2>1, TempNames DEF SetObjectFile
<1> HIDE DEF b
<1>5. Takers \subseteq AllOptions
  BY OptionSets
<1>6. \A j \in 1..Len(a) : a[j] \in AllOptions \/ b[j] \in AllOptions
                             => b[j] = a[j]
  BY <1>3, <1>4, TempNames
<1>7. Alike(a, b)
  <2>1. \A j \in 1..Len(a) :
          /\ a[j] \in Takers \/ b[j] \in Takers => b[j] = a[j]
          /\ a[j] \in AllOptions <=> b[j] \in AllOptions
    BY <1>5, <1>6
  <2> QED
    BY <1>4, <2>1 DEF Alike
<1>8. b[s] = a[s]
  BY <1>1, <1>3, <1>4
<1>9. \A j \in 1..Len(a) : b[j] = a[j] \/ ~IsSourceFile(b[j])
  BY <1>4, TempNames
<1>10. Clear(b, s)
  BY <1>7, <1>8, <1>9, AlikeClear, Zenon
<1>11. ASSUME NEW X, X \subseteq AllOptions PROVE Has(b, X) <=> Has(a, X)
  <2>1. \A j \in 1..Len(a) : a[j] \in X <=> b[j] \in X
    BY <1>6, <1>11
  <2> QED
    BY <1>4, <2>1 DEF Has
<1>12. ASSUME NEW w, w # ObjectFile(a), LangAt(a, s, w)
       PROVE  LangAt(b, s, w)
  <2>1. PICK x \in 1..Len(a) :
          /\ a[x] = F("-x") /\ x < s /\ a[x + 1] = w
          /\ \A y \in 1..Len(a) : a[y] = F("-x") => y <= x
    BY <1>12 DEF LangAt
  <2>2. F("-x") \in AllOptions
    BY DEF AllOptions, Options
  <2>3. b[x] = F("-x") /\ \A y \in 1..Len(a) : b[y] = F("-x") => y <= x
    BY <1>6, <2>1, <2>2
  <2>4. x + 1 \in 1..Len(a)
    BY <1>1, <2>1
  <2>5. b[x + 1] = w
    BY <1>4, <1>12, <2>1, <2>4
  <2> QED
    BY <1>4, <2>1, <2>3, <2>5 DEF LangAt
<1> QED
  BY <1>8, <1>10, <1>11, <1>12 DEF b

-----------------------------------------------------------------------------
(* What the compiler does with such a command                               *)

Bad(a, s, fs) ==
  \/ NoDependencies(a)
  \/ FileAt(fs, a[s]).kind \notin {"source", "doti"}
  \/ \E f \in Included(a) : f \notin DOMAIN fs
Outcomes(made) ==
  IF made.as \in {"none", made.pre} THEN {[ok |-> TRUE, out |-> made]}
  ELSE {[ok |-> TRUE, out |-> made], Failure}

(* The outcomes for a single source.                                        *)
LEMMA RunOfOne ==
  ASSUME NEW a, NEW s, Inputs(a) = {s},
         Len(a) \in Plain(a) => a[Len(a)] \notin TakesOperand,
         a[s] # OutputFile(a), NEW x, NEW fs, NEW cpu
  PROVE  Run(x, a, fs, cpu)
           = IF Bad(a, s, fs) THEN {Failure}
             ELSE Outcomes(Made(x, a, s, fs, cpu))
<1>1. Cardinality(Inputs(a)) = 1
  BY FS_Singleton
<1> DEFINE fails == \/ Cardinality(Inputs(a)) # 1
                    \/ Len(a) \in Plain(a) /\ a[Len(a)] \in TakesOperand
                    \/ NoDependencies(a)
                    \/ \E j \in Inputs(a) : a[j] = OutputFile(a)
                    \/ \E j \in Inputs(a) :
                         FileAt(fs, a[j]).kind \notin {"source", "doti"}
                    \/ \E f \in Included(a) : f \notin DOMAIN fs
           j    == CHOOSE k \in Inputs(a) : TRUE
<1>2. fails <=> Bad(a, s, fs)
  BY <1>1 DEF Bad
<1>3. j = s
  OBVIOUS
<1>4. CASE fails
  BY <1>2, <1>4, Zenon DEF Run
<1>5. CASE ~fails
  <2>1. Run(x, a, fs, cpu) = Outcomes(Made(x, a, j, fs, cpu))
    BY <1>5, Zenon DEF Run, Outcomes
  <2> QED
    BY <1>2, <1>3, <1>5, <2>1
<1> QED
  BY <1>4, <1>5

LEMMA ClearRun ==
  ASSUME NEW a, NEW s, Clear(a, s), Has(a, {F("-o")}),
         NEW x, NEW fs, NEW cpu
  PROVE  Run(x, a, fs, cpu)
           = IF Bad(a, s, fs) THEN {Failure}
             ELSE Outcomes(Made(x, a, s, fs, cpu))
<1>1. Inputs(a) = {s}
  BY ClearReads, Zenon
<1>2. a[Len(a)] \notin TakesOperand
  BY DEF Clear
<1>3. a[s] # OutputFile(a)
  BY OutputIsOperand
<1>4. Len(a) \in Plain(a) => a[Len(a)] \notin TakesOperand
  BY <1>2
<1> QED
  BY <1>1, <1>3, <1>4, RunOfOne

-----------------------------------------------------------------------------
(* The command, and what the client makes of it                             *)

Handled(line) ==
  Taken(line) /\ ReadAlike(line) /\ ~CalledForPreprocessing(line)

(* Its flags and operands are apart, and there is a -o.                     *)
LEMMA HandledApart ==
  ASSUME NEW line, Handled(line)
  PROVE  /\ line \in Seq(Words) /\ Taken(line)
         /\ GccApart(line) /\ OptionsApart(line)
         /\ Has(line, {F("-o")})
<1>1. line \in Seq(Words) /\ OptionsApart(line) /\ Taken(line)
  BY TakenApart DEF Handled
<1>2. GccApart(line)
  BY OptionSets DEF Handled, ReadAlike, GccApart, Takers
<1>3. Has(line, {F("-o")})
  <2>1. ObjectAt(line) \in 1..Len(line) /\ ObjectAt(line) > 1
        /\ line[ObjectAt(line) - 1] = F("-o")
    BY <1>1, TakenObject, Zenon
  <2>2. ObjectAt(line) - 1 \in 1..Len(line)
    BY <2>1
  <2> QED
    BY <2>1, <2>2 DEF Has
<1> QED
  BY <1>1, <1>2, <1>3

(* The source is a file, and no -D is apart from its macro.                 *)
Sound(line) ==
  /\ SourceAt(line) \notin Dropped(line)
  /\ line[SourceAt(line)] \notin Other
  /\ ~Has(line, {F("-D")})

(* Nothing else has the name of the source, or of a preprocessed file.      *)
LEMMA HandledSource ==
  ASSUME NEW line, Handled(line), Sound(line)
  PROVE  LET s == SourceAt(line) IN
         /\ s \in 1..Len(line) /\ line[s] \notin AllOptions
         /\ SourceFile(line) = line[s] /\ IsSourceFile(line[s])
         /\ s \notin After(line, Takers) /\ s \in Inputs(line)
         /\ \A j \in 1..Len(line) : j # s =>
              /\ line[j] # line[s] /\ Last(line[j]) \notin {"i", "ii"}
              /\ IsSourceFile(line[j]) => j \in After(line, Naming)
<1> DEFINE s == SourceAt(line)
<1>1. /\ line \in Seq(Words) /\ Taken(line) /\ Len(line) \in Nat
      /\ GccApart(line) /\ OptionsApart(line)
  BY HandledApart
<1>2. /\ s \in 1..Len(line) /\ Sources(line) = {s}
      /\ SourceFile(line) = line[s] /\ IsSourceFile(line[s])
      /\ s \notin After(line, Naming)
      /\ \A j \in 1..Len(line) :
           IsSourceFile(line[j]) /\ j # s => j \in After(line, Naming)
  BY <1>1, TakenSource
<1>3. Dropped(line) = {j \in 1..Len(line) : line[j] \in Alone \cup Paired}
                        \cup After(line, Paired)
  BY <1>1, ReadApart, Zenon
<1>4. /\ s \notin Dropped(line) /\ s \in Sources(line)
      /\ line[s] \notin Other /\ ~Has(line, {F("-D")})
  BY <1>2 DEF Sound
<1> HIDE DEF s
<1>5. line[s] \notin AllOptions
  <2>1. line[s] \notin Joined \cup Other
    BY <1>2, <1>3, <1>4 DEF Alone
  <2> QED
    BY <1>2, <2>1, NoOptionIsSource
<1>6. s \notin After(line, Takers)
  <2> SUFFICES ASSUME s > 1, line[s - 1] \in Takers PROVE FALSE
    BY DEF After
  <2>1. line[s - 1] \notin Paired
    BY <1>2, <1>3, <1>4 DEF After
  <2>2. line[s - 1] \in SentTakers
    <3>1. s - 1 \in 1..Len(line)
      BY <1>1, <1>2
    <3>2. line[s - 1] # F("-D")
      BY <1>4, <3>1 DEF Has
    <3> QED
      BY <2>1, <3>2, OptionSets DEF Takers
  <2>3. line[s - 1] \notin Naming
    BY <1>2 DEF After
  <2>4. line[s - 1] \in {F("-imacros"), F("-MQ")}
    BY <2>2, <2>3 DEF SentTakers, Naming
  <2>5. s - 1 \in 1..Len(line) - 1 /\ (s - 1) + 1 = s
    BY <1>1, <1>2
  <2> QED
    BY <1>2, <2>4, <2>5 DEF Handled, ReadAlike
<1>7. s \in Inputs(line)
  <2>1. Plain(line) = 1..Len(line) \ After(line, TakesOperand)
    BY <1>1, GccReads, Zenon
  <2>2. After(line, TakesOperand) \subseteq After(line, Takers)
    BY AfterGrows DEF Takers
  <2> QED
    BY <1>2, <1>5, <1>6, <2>1, <2>2, OptionSets DEF Inputs
<1>8. ASSUME NEW j \in 1..Len(line), j # s, IsSourceFile(line[j])
      PROVE  /\ j > 1 /\ j - 1 \in 1..Len(line) - 1 /\ (j - 1) + 1 = j
             /\ line[j - 1] \in {F("-o"), F("-x")}
  <2>1. j \in After(line, Naming)
    BY <1>2, <1>8
  <2> QED
    BY <1>1, <2>1 DEF After, Naming
<1>9. ASSUME NEW j \in 1..Len(line), j # s, line[j] = line[s] PROVE FALSE
  <2>1. /\ j - 1 \in 1..Len(line) - 1 /\ (j - 1) + 1 = j
        /\ line[j - 1] \in {F("-o"), F("-x")}
    BY <1>2, <1>8, <1>9
  <2>2. Unambiguous(line)
    BY <1>1 DEF Taken
  <2>3. NamesApart(line)
    BY <1>1, <2>2, OneReading
  <2> QED
    BY <1>4, <1>9, <2>1, <2>3 DEF NamesApart
<1>10. ASSUME NEW j \in 1..Len(line), j # s, Last(line[j]) \in {"i", "ii"}
       PROVE  FALSE
  <2>1. IsSourceFile(line[j])
    BY <1>10 DEF IsSourceFile, Extension, SourceExtensions
  <2>2. /\ j - 1 \in 1..Len(line) - 1 /\ (j - 1) + 1 = j
        /\ line[j - 1] \in {F("-o"), F("-x")}
    BY <1>8, <1>10, <2>1
  <2> QED
    BY <1>10, <2>2 DEF Handled, ReadAlike
<1>11. \A j \in 1..Len(line) : j # s =>
         /\ line[j] # line[s] /\ Last(line[j]) \notin {"i", "ii"}
         /\ IsSourceFile(line[j]) => j \in After(line, Naming)
  BY <1>2, <1>9, <1>10
<1> QED
  BY <1>2, <1>5, <1>6, <1>7, <1>11 DEF s

(* rewrite_local_args replaces options by options.                          *)
LEMMA NativeOptions ==
  /\ Native \cup Resolved \subseteq AllOptions
  /\ (Native \cup Resolved) \cap Takers = {}
  /\ Native \cap Resolved = {}
<1>1. (Native \cup Resolved) \cap Paired = {}
  BY OptionsDiffer
<1>2. (Native \cup Resolved) \cap TakesOperand = {}
  BY SMT DEF Native, Resolved, ArchCPU, TuneCPU, TakesOperand, F
<1>3. Native \cap Resolved = {}
  BY SMT DEF Native, Resolved, ArchCPU, TuneCPU, F
<1> QED
  BY <1>1, <1>2, <1>3 DEF AllOptions, Options, Takers

LEMMA NativeAlike ==
  ASSUME NEW a \in Seq(Words)
  PROVE  LET b == RewriteLocalArgs(a) IN
         /\ Alike(a, b)
         /\ \A j \in 1..Len(a) : b[j] = Renamed(a[j])
<1> DEFINE b == RewriteLocalArgs(a)
<1>1. \A j \in 1..Len(a) : a[j] \in Words
  OBVIOUS
<1>2. \A j \in 1..Len(a) : Renamed(a[j]) \in Words
  BY <1>1, RenamedIs
<1>3. b \in Seq(Words) /\ Len(b) = Len(a)
      /\ \A j \in 1..Len(a) : b[j] = Renamed(a[j])
  BY <1>2 DEF RewriteLocalArgs
<1> HIDE DEF b
<1>4. ASSUME NEW j \in 1..Len(a)
      PROVE  /\ a[j] \in Takers \/ b[j] \in Takers => b[j] = a[j]
             /\ a[j] \in AllOptions <=> b[j] \in AllOptions
  <2>1. CASE a[j] \notin Native
    <3>1. b[j] = a[j]
      BY <1>3, <2>1, RenamedIs
    <3> QED
      BY <3>1
  <2>2. CASE a[j] \in Native
    <3>1. b[j] \in Resolved
      BY <1>3, <2>2, RenamedIs
    <3> QED
      BY <2>2, <3>1, NativeOptions
  <2> QED
    BY <2>1, <2>2
<1> QED
  BY <1>3, <1>4 DEF Alike, b

(* A file that is named after the object.                                   *)
LEMMA OperandOfO ==
  ASSUME NEW line, Handled(line), NEW j \in After(line, {F("-o")})
  PROVE  /\ j \in 1..Len(line) /\ line[j] \notin AllOptions
         /\ Preprocessed(PreprocessedFilename(SourceFile(line), line[j]))
<1> DEFINE n == Len(line)
           d == PreprocessedFilename(SourceFile(line), line[j])
<1>1. line \in Seq(Words) /\ GccApart(line) /\ n \in Nat
  BY HandledApart
<1>2. j \in 1..n /\ j > 1 /\ line[j - 1] = F("-o")
  BY DEF After
<1>3. j - 1 \in 1..n - 1 /\ (j - 1) + 1 = j
  BY <1>1, <1>2
<1>4. line[j] \notin AllOptions
  BY <1>1, <1>2, <1>3 DEF GccApart, Takers, TakesOperand
<1>5. line[j] \in Words
  BY <1>1, <1>2
<1>6. d \in Words /\ IsSourceFile(d) /\ Last(d) \in {"i", "ii"}
  BY <1>5, PreprocessedIsSource
<1>7. \A e \in {"i", "ii"} : Append(Front(line[j]), e) \notin Joined \cup Other
  <2>1. \A e \in {"i", "ii"} :
          Append(Front(line[(j - 1) + 1]), e) \notin Joined \cup Other
    BY <1>2, <1>3, Zenon DEF Handled, ReadAlike
  <2> QED
    BY <1>3, <2>1
<1>8. d \notin Joined \cup Other
  BY <1>7 DEF PreprocessedFilename
<1>9. d \notin AllOptions
  BY <1>6, <1>8, NoOptionIsSource
<1> QED
  BY <1>2, <1>4, <1>6, <1>9 DEF Preprocessed

(* The preprocessed file has a name that says so.                           *)
LEMMA DotiIsPreprocessed ==
  ASSUME NEW line, Handled(line)
  PROVE  Preprocessed(DotiOf(line))
<1> DEFINE m == ObjectAt(line)
<1>1. Taken(line)
  BY DEF Handled
<1>2. /\ m \in 1..Len(line) /\ m > 1 /\ line[m - 1] = F("-o")
      /\ ObjectFile(line) = line[m]
  BY <1>1, TakenObject, Zenon
<1> HIDE DEF m
<1>3. m \in After(line, {F("-o")})
  BY <1>2 DEF After
<1> QED
  BY <1>2, <1>3, OperandOfO DEF DotiOf

(* The arguments, all but the operands of -o as the compiler gets them.     *)
Prec(line) == PreprocessorCmd(RewriteLocalArgs(line))

LEMMA PrecIs ==
  ASSUME NEW line, Handled(line)
  PROVE  /\ Alike(line, Prec(line))
         /\ \A j \in 1..Len(line) :
              Prec(line)[j] =
                IF line[j] = F("-c") THEN F("-E")
                ELSE IF j \in After(line, {F("-o")})
                  THEN PreprocessedFilename(SourceFile(line), line[j])
                ELSE Renamed(line[j])
<1> DEFINE a == RewriteLocalArgs(line)
           b == PreprocessorCmd(a)
           n == Len(line)
<1>1. /\ line \in Seq(Words) /\ Taken(line) /\ n \in Nat
      /\ GccApart(line) /\ OptionsApart(line)
  BY HandledApart
<1>2. /\ Alike(line, a)
      /\ \A j \in 1..n : a[j] = Renamed(line[j])
  BY <1>1, NativeAlike, Zenon
<1>3. a \in Seq(Words) /\ Len(a) = n /\ GccApart(a)
      /\ \A X : X \subseteq Takers => After(a, X) = After(line, X)
  BY <1>1, <1>2, AlikeReads, Zenon DEF Alike
<1>4. {F("-o")} \subseteq Takers /\ F("-o") \in Takers
  BY DEF Takers, TakesOperand
<1>5. Operands(a, {F("-o")}) = After(line, {F("-o")})
  BY <1>3, <1>4, GccOperands
<1>6. SourceFile(a) = SourceFile(line)
  <2>1. Taken(a) /\ Sources(a) = Sources(line)
    BY <1>1, RewriteReads
  <2>2. SourceAt(a) = SourceAt(line)
    BY <2>1, Zenon DEF SourceAt
  <2>3. /\ SourceFile(a) = a[SourceAt(line)]
        /\ SourceFile(line) = line[SourceAt(line)]
        /\ SourceAt(line) \in 1..n /\ IsSourceFile(line[SourceAt(line)])
    BY <1>1, <2>1, <2>2, TakenSource
  <2>4. line[SourceAt(line)] \notin Native
    BY <2>3, OptionsAreNoSources
  <2>5. Renamed(line[SourceAt(line)]) = line[SourceAt(line)]
    BY <2>4, RenamedIs
  <2> QED
    BY <1>2, <2>3, <2>5
<1>7. \A x : /\ Renamed(x) = F("-c") <=> x = F("-c")
             /\ x \notin AllOptions => Renamed(x) = x
  <2>1. F("-c") \notin Native \cup Resolved
    BY SMT DEF Resolved, Native, ArchCPU, TuneCPU, F
  <2> QED
    BY <2>1, RenamedIs, NativeOptions
<1>8. \A j \in After(line, {F("-o")}) :
        /\ j \in 1..n /\ line[j] \notin AllOptions
        /\ PreprocessedFilename(SourceFile(line), line[j]) \in Words
        /\ PreprocessedFilename(SourceFile(line), line[j]) \notin AllOptions
  BY OperandOfO DEF Preprocessed
<1> HIDE DEF a
<1>9. /\ Len(b) = n
      /\ \A j \in 1..n :
           b[j] = IF a[j] = F("-c") THEN F("-E")
                  ELSE IF j \in After(line, {F("-o")})
                    THEN PreprocessedFilename(SourceFile(line), a[j])
                  ELSE a[j]
  BY <1>1, <1>3, <1>5, <1>6 DEF PreprocessorCmd
<1>10. F("-c") \in AllOptions /\ F("-E") \in AllOptions
       /\ Takers \subseteq AllOptions
  BY OptionSets DEF AllOptions, Options
<1>11. ASSUME NEW j \in 1..n
       PROVE  b[j] = IF line[j] = F("-c") THEN F("-E")
                     ELSE IF j \in After(line, {F("-o")})
                       THEN PreprocessedFilename(SourceFile(line), line[j])
                     ELSE Renamed(line[j])
  <2> HIDE DEF b
  <2>1. a[j] = Renamed(line[j])
    BY <1>2
  <2>2. a[j] = F("-c") <=> line[j] = F("-c")
    BY <1>7, <2>1, Zenon
  <2>3. j \in After(line, {F("-o")}) => a[j] = line[j]
    BY <1>7, <1>8, <2>1
  <2> QED
    BY <1>9, <2>1, <2>2, <2>3
<1>12. F("-c") \notin Takers /\ F("-E") \notin Takers
  <2>1. F("-c") \notin TakesOperand /\ F("-E") \notin TakesOperand
    BY SMT DEF TakesOperand, F
  <2>2. F("-c") \notin Paired /\ F("-E") \notin Paired
    BY SMT DEF Paired, F
  <2> QED
    BY <2>1, <2>2 DEF Takers
<1>13. F("-E") \in Words
  <2>1. "-E" \in Word
    BY DEF Word
  <2> QED
    BY <2>1 DEF F, Words
<1> HIDE DEF b
<1>14. \A j \in 1..n : b[j] \in Words
  <2>1. \A j \in 1..n : Renamed(line[j]) \in Words
    BY <1>1, RenamedIs
  <2> QED
    BY <1>8, <1>11, <1>13, <2>1, Zenon
<1>15. ASSUME NEW j \in 1..n
       PROVE  /\ line[j] \in Takers \/ b[j] \in Takers => b[j] = line[j]
              /\ line[j] \in AllOptions <=> b[j] \in AllOptions
  <2>1. CASE line[j] = F("-c") \/ j \in After(line, {F("-o")})
    BY <1>8, <1>10, <1>11, <1>12, <2>1
  <2>2. CASE line[j] # F("-c") /\ j \notin After(line, {F("-o")})
    <3>1. b[j] = Renamed(line[j])
      BY <1>11, <2>2
    <3> QED
      BY <3>1, RenamedIs, NativeOptions
  <2> QED
    BY <2>1, <2>2
<1>16. b \in Seq(Words)
  <2>1. b = [j \in 1..n |-> b[j]]
    BY <1>3 DEF PreprocessorCmd, b
  <2> QED
    BY <1>1, <1>14, <2>1
<1>17. Alike(line, b)
  BY <1>9, <1>15, <1>16 DEF Alike
<1>18. b = Prec(line)
  BY DEF b, a, Prec
<1> QED
  BY <1>11, <1>17, <1>18

LEMMA PrecPlace ==
  ASSUME NEW line, Handled(line), NEW j \in 1..Len(line),
         line[j] \notin AllOptions, j \notin After(line, {F("-o")})
  PROVE  Prec(line)[j] = line[j]
<1>1. line[j] \notin Native /\ line[j] # F("-c")
  BY DEF AllOptions, Options
<1>2. Prec(line)[j] =
        IF line[j] = F("-c") THEN F("-E")
        ELSE IF j \in After(line, {F("-o")})
          THEN PreprocessedFilename(SourceFile(line), line[j])
        ELSE Renamed(line[j])
  BY PrecIs, Zenon
<1>3. Renamed(line[j]) = line[j]
  BY <1>1, RenamedIs
<1> QED
  BY <1>1, <1>2, <1>3

LEMMA PrecOperand ==
  ASSUME NEW line, Handled(line), NEW j \in After(line, Takers),
         line[j - 1] # F("-o")
  PROVE  j \in 1..Len(line) /\ Prec(line)[j] = line[j]
<1>1. line \in Seq(Words) /\ GccApart(line) /\ Len(line) \in Nat
  BY HandledApart
<1>2. j \in 1..Len(line) /\ j > 1 /\ line[j - 1] \in Takers
  BY DEF After
<1>3. j - 1 \in 1..Len(line) - 1 /\ (j - 1) + 1 = j
  BY <1>1, <1>2
<1>4. line[j] \notin AllOptions
  BY <1>1, <1>2, <1>3 DEF GccApart
<1>5. j \notin After(line, {F("-o")})
  BY DEF After
<1> QED
  BY <1>2, <1>4, <1>5, PrecPlace, Zenon

(* gcc finds the same sources and operands in it.                           *)
LEMMA PrecReads ==
  ASSUME NEW line, Handled(line)
  PROVE  /\ Prec(line) \in Seq(Words) /\ Len(Prec(line)) = Len(line)
         /\ GccApart(Prec(line))
         /\ Inputs(Prec(line)) = Inputs(line)
         /\ Plain(Prec(line)) = Plain(line)
         /\ \A j \in 1..Len(line) :
              Prec(line)[j] \in TakesOperand <=> line[j] \in TakesOperand
         /\ \A X : X \subseteq Takers => After(Prec(line), X) = After(line, X)
<1>1. line \in Seq(Words) /\ GccApart(line)
  BY HandledApart
<1>2. Alike(line, Prec(line))
  BY PrecIs
<1>3. /\ GccApart(Prec(line))
      /\ \A X : X \subseteq Takers => After(Prec(line), X) = After(line, X)
      /\ Inputs(Prec(line)) = Inputs(line)
      /\ Plain(Prec(line)) = Plain(line)
  BY <1>1, <1>2, AlikeReads, Zenon
<1>4. Prec(line) \in Seq(Words) /\ Len(Prec(line)) = Len(line)
  BY <1>2 DEF Alike
<1>5. \A j \in 1..Len(line) :
        Prec(line)[j] \in TakesOperand <=> line[j] \in TakesOperand
  BY <1>2 DEF Alike, Takers
<1> QED
  BY <1>3, <1>4, <1>5

(* It includes the same files.                                              *)
LEMMA PrecIncluded ==
  ASSUME NEW line, Handled(line)
  PROVE  Included(Prec(line)) = Included(line)
<1> DEFINE I == {F("-include"), F("-imacros")}
           A == After(line, I)
<1>1. line \in Seq(Words) /\ GccApart(line)
  BY HandledApart
<1>2. I \subseteq Takers /\ F("-o") \notin I
  BY SMT DEF Takers, TakesOperand, F
<1>3. Included(line) = {line[j] : j \in A}
  BY <1>1, GccReads, Zenon
<1>4. Included(Prec(line)) = {Prec(line)[j] : j \in After(Prec(line), I)}
  BY PrecReads, GccReads, Zenon
<1> HIDE DEF I
<1>5. After(Prec(line), I) = A
  BY <1>2, PrecReads, Zenon
<1>6. ASSUME NEW j \in A PROVE Prec(line)[j] = line[j]
  <2>1. j \in After(line, Takers)
    BY <1>2 DEF After
  <2>2. line[j - 1] # F("-o")
    BY <1>2 DEF After
  <2> QED
    BY <2>1, <2>2, PrecOperand, Zenon
<1> HIDE DEF A
<1> QED
  BY <1>3, <1>4, <1>5, <1>6

(* It has the same options, but for those of this CPU and a -E for a -c.    *)
LEMMA PrecOption ==
  ASSUME NEW line, Handled(line), NEW j \in 1..Len(line), NEW x \in AllOptions,
         x \notin Native \cup Resolved
  PROVE  /\ x \notin {F("-c"), F("-E")} => (Prec(line)[j] = x <=> line[j] = x)
         /\ Prec(line)[j] = F("-E") <=> line[j] = F("-c")
<1> DEFINE b == Prec(line)
<1>1. /\ line \in Seq(Words) /\ GccApart(line) /\ Len(line) \in Nat
  BY HandledApart
<1>2. ~Has(line, {F("-E")})
  BY Zenon DEF Handled, CalledForPreprocessing
<1>3. b[j] = IF line[j] = F("-c") THEN F("-E")
             ELSE IF j \in After(line, {F("-o")})
               THEN PreprocessedFilename(SourceFile(line), line[j])
             ELSE Renamed(line[j])
  BY PrecIs, Zenon
<1>4. b[j] \in AllOptions <=> line[j] \in AllOptions
  BY PrecIs, Zenon DEF Alike
<1> HIDE DEF b
<1>5. j \in After(line, {F("-o")}) => line[j] \notin AllOptions
  <2>1. SUFFICES ASSUME j \in After(line, {F("-o")})
                 PROVE  line[j] \notin AllOptions
    OBVIOUS
  <2>2. line[j - 1] \in Takers /\ j - 1 \in 1..Len(line) - 1
        /\ (j - 1) + 1 = j
    BY <1>1, <2>1 DEF After, Takers, TakesOperand
  <2> QED
    BY <1>1, <2>2 DEF GccApart
<1>6. F("-E") \in AllOptions /\ F("-c") \in AllOptions
      /\ F("-E") # F("-c") /\ F("-E") \notin Native \cup Resolved
  BY SMT DEF AllOptions, Options, Native, Resolved, ArchCPU, TuneCPU, F
<1>7. line[j] # F("-E")
  BY <1>2 DEF Has
<1>8. CASE j \in After(line, {F("-o")})
  BY <1>4, <1>5, <1>6, <1>8 DEF b
<1>9. CASE j \notin After(line, {F("-o")}) /\ line[j] = F("-c")
  BY <1>3, <1>6, <1>9 DEF b
<1>10. CASE j \notin After(line, {F("-o")}) /\ line[j] # F("-c")
  <2>1. b[j] = Renamed(line[j])
    BY <1>3, <1>10
  <2>2. \A y \in AllOptions :
          y \notin Native \cup Resolved =>
            (Renamed(line[j]) = y <=> line[j] = y)
    BY RenamedIs, NativeOptions
  <2> QED
    BY <1>6, <1>7, <1>10, <2>1, <2>2 DEF b
<1> QED
  BY <1>8, <1>9, <1>10

LEMMA PrecGiven ==
  ASSUME NEW line, Handled(line), NEW X, X \subseteq AllOptions,
         X \cap (Native \cup Resolved \cup {F("-c"), F("-E")}) = {}
  PROVE  Given(Prec(line), X) <=> Has(line, X)
<1> DEFINE b == Prec(line)
<1>1. b \in Seq(Words) /\ GccApart(b) /\ Len(b) = Len(line)
  BY PrecReads
<1>2. Given(b, X) <=> Has(b, X)
  BY <1>1, GccReads, Zenon
<1>3. \A j \in 1..Len(line) : \A x \in X : b[j] = x <=> line[j] = x
  BY PrecOption
<1> HIDE DEF b
<1>4. Has(b, X) <=> Has(line, X)
  BY <1>1, <1>3 DEF Has
<1> QED
  BY <1>2, <1>4 DEF b

(* It is preprocessed if there is a -c, or a -M.                            *)
LEMMA PrecStage ==
  ASSUME NEW line, Handled(line)
  PROVE  /\ Given(Prec(line), {F("-M")}) <=> Has(line, {F("-M")})
         /\ Given(Prec(line), {F("-E"), F("-M")})
              <=> Has(line, {F("-c"), F("-M")})
<1> DEFINE b == Prec(line)
<1>1. b \in Seq(Words) /\ GccApart(b) /\ Len(b) = Len(line)
  BY PrecReads
<1>2. {F("-M")} \subseteq AllOptions /\ {F("-E"), F("-M")} \subseteq AllOptions
  BY DEF AllOptions, Options, Alone
<1>3. F("-M") \notin Native \cup Resolved \cup {F("-c"), F("-E")}
  BY SMT DEF Native, Resolved, ArchCPU, TuneCPU, F
<1>4. Given(b, {F("-E"), F("-M")}) <=> Has(b, {F("-E"), F("-M")})
  BY <1>1, <1>2, GccReads
<1>5. \A j \in 1..Len(line) : /\ b[j] = F("-M") <=> line[j] = F("-M")
                              /\ b[j] = F("-E") <=> line[j] = F("-c")
  BY <1>2, <1>3, PrecOption
<1>6. Given(b, {F("-M")}) <=> Has(line, {F("-M")})
  <2>1. {F("-M")} \cap (Native \cup Resolved \cup {F("-c"), F("-E")}) = {}
    BY <1>3
  <2> QED
    BY <1>2, <2>1, PrecGiven, Zenon
<1> HIDE DEF b
<1>7. Has(b, {F("-E"), F("-M")}) <=> Has(line, {F("-c"), F("-M")})
  BY <1>1, <1>5 DEF Has
<1> QED
  BY <1>4, <1>6, <1>7 DEF b

(* Its options about dependencies are those of the command.                 *)
LEMMA PrecDependencies ==
  ASSUME NEW line, Handled(line)
  PROVE  NoDependencies(Prec(line)) <=> NoDependencies(line)
<1> DEFINE X == {F("-MT"), F("-MF"), F("-MQ"), F("-MP")}
           Y == {F("-M"), F("-MD"), F("-MMD")}
<1>1. line \in Seq(Words) /\ GccApart(line)
  BY HandledApart
<1>2. X \subseteq AllOptions /\ Y \subseteq AllOptions
  BY DEF AllOptions, Options, Alone, TakesOperand
<1>3. /\ X \cap (Native \cup Resolved \cup {F("-c"), F("-E")}) = {}
      /\ Y \cap (Native \cup Resolved \cup {F("-c"), F("-E")}) = {}
  BY SMT DEF Native, Resolved, ArchCPU, TuneCPU, F
<1> HIDE DEF X, Y
<1>4. Given(Prec(line), X) <=> Given(line, X)
  BY <1>1, <1>2, <1>3, GccReads, PrecGiven, Zenon
<1>5. Given(Prec(line), Y) <=> Given(line, Y)
  BY <1>1, <1>2, <1>3, GccReads, PrecGiven, Zenon
<1> QED
  BY <1>4, <1>5 DEF NoDependencies, X, Y

(* It goes to the file that the wrapper expects.                            *)
LEMMA PrecOutput ==
  ASSUME NEW line, Handled(line), line[Len(line)] \notin TakesOperand
  PROVE  /\ OutputFile(Prec(line)) = DotiOf(line)
         /\ OutputFile(line) = ObjectFile(line)
<1> DEFINE b == Prec(line)
           m == ObjectAt(line)
<1>1. /\ line \in Seq(Words) /\ GccApart(line) /\ OptionsApart(line)
      /\ Has(line, {F("-o")}) /\ Len(line) \in Nat
  <2>1. /\ line \in Seq(Words) /\ GccApart(line) /\ OptionsApart(line)
        /\ Has(line, {F("-o")})
    BY HandledApart, Zenon
  <2> QED
    BY <2>1
<1>2. /\ m \in 1..Len(line) /\ m > 1 /\ line[m - 1] = F("-o")
      /\ OutputFile(line) = line[m] /\ ObjectFile(line) = line[m]
  BY <1>1, OutputIsObject, Zenon
<1>3. /\ b \in Seq(Words) /\ GccApart(b) /\ Len(b) = Len(line)
      /\ \A j \in 1..Len(line) :
           b[j] \in TakesOperand <=> line[j] \in TakesOperand
      /\ \A X : X \subseteq Takers => After(b, X) = After(line, X)
  BY PrecReads
<1>4. \A j \in 1..Len(line) :
        b[j] = IF line[j] = F("-c") THEN F("-E")
               ELSE IF j \in After(line, {F("-o")})
                 THEN PreprocessedFilename(SourceFile(line), line[j])
               ELSE Renamed(line[j])
  BY PrecIs, Zenon
<1>5. {F("-o")} \subseteq Takers
  BY DEF Takers, TakesOperand
<1>6. After(b, {F("-o")}) = After(line, {F("-o")})
  BY <1>3, <1>5, Zenon
<1> HIDE DEF b
<1>7. OptionsApart(b)
  BY <1>3, GccApartIs
<1>8. Objects(b) = Objects(line)
  <2>1. Objects(b) = After(b, {F("-o")})
    <3>1. Objects(b) = {j \in 1..Len(b) : j > 1 /\ b[j - 1] = F("-o")}
      BY <1>3, <1>7, ReadApart, Zenon
    <3> QED
      BY <3>1 DEF After
  <2>2. Objects(line) = After(line, {F("-o")})
    <3>1. Objects(line)
            = {j \in 1..Len(line) : j > 1 /\ line[j - 1] = F("-o")}
      BY <1>1, ReadApart, Zenon
    <3> QED
      BY <3>1 DEF After
  <2> QED
    BY <1>6, <2>1, <2>2
<1>9. ObjectAt(b) = m
  BY <1>8 DEF ObjectAt
<1>10. Has(b, {F("-o")})
  <2>1. m \in After(b, {F("-o")})
    BY <1>2, <1>6 DEF After
  <2>2. m - 1 \in 1..Len(b) /\ b[m - 1] = F("-o")
    BY <1>2, <1>3, <2>1 DEF After
  <2> QED
    BY <2>2 DEF Has
<1>11. OutputFile(b) = b[m]
  <2>1. b[Len(b)] \notin TakesOperand
    <3>1. Len(line) \in 1..Len(line)
      BY <1>1, <1>2
    <3> QED
      BY <1>3, <3>1
  <2> QED
    BY <1>3, <1>9, <1>10, <2>1, OutputIsObject, Zenon
<1> HIDE DEF m
<1>12. m \in After(line, {F("-o")}) /\ line[m] \notin AllOptions
  <2>1. m - 1 \in 1..Len(line) - 1 /\ (m - 1) + 1 = m
        /\ line[m - 1] \in Takers
    BY <1>1, <1>2, <1>5
  <2> QED
    BY <1>1, <1>2, <2>1 DEF After, GccApart
<1>13. line[m] # F("-c")
  BY <1>12 DEF AllOptions, Options
<1>14. b[m] = PreprocessedFilename(SourceFile(line), line[m])
  BY <1>2, <1>4, <1>12, <1>13
<1> QED
  BY <1>2, <1>11, <1>14 DEF DotiOf, b

(* The source is read in the same language.                                 *)
LEMMA PrecLang ==
  ASSUME NEW line, Handled(line), Sound(line), NEW x
  PROVE  /\ Prec(line)[SourceAt(line)] = line[SourceAt(line)]
         /\ Lang(x, Prec(line), SourceAt(line))
              = Lang(x, line, SourceAt(line))
<1> DEFINE b == Prec(line)
           s == SourceAt(line)
           xb == {k \in Plain(b) : k < s /\ b[k] = F("-x")}
           xl == {k \in Plain(line) : k < s /\ line[k] = F("-x")}
<1>1. /\ line \in Seq(Words) /\ GccApart(line) /\ Len(line) \in Nat
  BY HandledApart
<1>2. s \in 1..Len(line) /\ line[s] \notin AllOptions
      /\ s \notin After(line, Takers)
  BY HandledSource
<1>3. Plain(b) = Plain(line) /\ Plain(line) \subseteq 1..Len(line)
  BY PrecReads DEF Plain
<1>4. F("-x") \in Takers /\ F("-o") \in Takers /\ F("-x") # F("-o")
  BY OptionsDiffer DEF Takers, TakesOperand
<1>5. \A k \in 1..Len(line) : b[k] = F("-x") <=> line[k] = F("-x")
  BY <1>4, PrecIs, Zenon DEF Alike
<1> HIDE DEF s
<1>6. b[s] = line[s]
  <2>1. s \notin After(line, {F("-o")})
    BY <1>2, <1>4 DEF After
  <2> QED
    BY <1>2, <2>1, PrecPlace, Zenon
<1> HIDE DEF b
<1>7. xb = xl
  BY <1>3, <1>5
<1>8. CASE xl = {}
  <2>1. Lang(x, b, s) = ByExtension(x, b[s])
    BY <1>7, <1>8, Zenon DEF Lang
  <2>2. Lang(x, line, s) = ByExtension(x, line[s])
    BY <1>8, Zenon DEF Lang
  <2> QED
    BY <1>6, <2>1, <2>2 DEF b, s
<1>9. CASE xl # {}
  <2> DEFINE m == CHOOSE z \in xl : \A y \in xl : y <= z
  <2>1. xl \subseteq 0..Len(line)
    BY <1>1, <1>3
  <2>2. Lang(x, b, s) = b[1 + m][1]
    <3>1. Lang(x, b, s)
            = b[1 + CHOOSE z \in xb : \A y \in xb : y <= z][1]
      BY <1>7, <1>9, Zenon DEF Lang
    <3> HIDE DEF xb, xl
    <3> QED
      BY <1>7, <3>1
  <2>3. Lang(x, line, s) = line[1 + m][1]
    BY <1>9, Zenon DEF Lang
  <2>4. m \in xl
    <3> HIDE DEF xl
    <3>1. \E z \in xl : \A y \in xl : y <= z
      BY <1>1, <1>9, <2>1, Largest, Zenon
    <3> QED
      BY <3>1, Zenon
  <2> HIDE DEF m
  <2>5. m \in 1..Len(line) /\ m < s /\ line[m] = F("-x")
    BY <1>3, <2>4
  <2>6. 1 + m \in 1..Len(line) /\ 1 + m > 1 /\ (1 + m) - 1 = m
    BY <1>1, <1>2, <2>5
  <2>7. 1 + m \in After(line, Takers)
    BY <1>4, <2>5, <2>6 DEF After
  <2>8. b[1 + m] = line[1 + m]
    BY <1>4, <2>5, <2>6, <2>7, PrecOperand DEF b
  <2> QED
    BY <1>6, <2>2, <2>3, <2>8 DEF b, s
<1> QED
  BY <1>8, <1>9

-----------------------------------------------------------------------------
(* Both run the command, or neither                                         *)

(* When gcc has nothing against it, it is as clear as the rest asks for.    *)
LEMMA HandledClear ==
  ASSUME NEW line, Handled(line), Sound(line)
  PROVE  Clear(line, SourceAt(line))
           <=> /\ Inputs(line) = {SourceAt(line)}
               /\ line[Len(line)] \notin TakesOperand
<1> DEFINE s == SourceAt(line)
<1>1. Clear(line, s)
        => Inputs(line) = {s} /\ line[Len(line)] \notin TakesOperand
  BY ClearReads, Zenon DEF Clear
<1>2. ASSUME Inputs(line) = {s}, line[Len(line)] \notin TakesOperand
      PROVE  Clear(line, s)
  <2>1. line \in Seq(Words) /\ GccApart(line)
    BY HandledApart, Zenon
  <2>2. /\ s \in 1..Len(line) /\ line[s] \notin AllOptions
        /\ IsSourceFile(line[s]) /\ s \notin After(line, Takers)
        /\ \A j \in 1..Len(line) : j # s =>
              /\ line[j] # line[s] /\ Last(line[j]) \notin {"i", "ii"}
              /\ IsSourceFile(line[j]) => j \in After(line, Naming)
    BY HandledSource, Zenon
  <2>3. Plain(line) = 1..Len(line) \ After(line, TakesOperand)
    BY <2>1, GccReads, Zenon
  <2> HIDE DEF s
  <2>4. ASSUME NEW j \in 1..Len(line), j # s
        PROVE  /\ line[j] \in AllOptions \/ j \in After(line, TakesOperand)
               /\ line[j] \notin {F("-imacro"), F("-D")}
    <3>1. j \notin Inputs(line)
      BY <1>2, <2>4
    <3>2. j \in After(line, TakesOperand) \/ line[j] \in Flags
      BY <2>3, <3>1 DEF Inputs
    <3>3. ASSUME line[j] = F("-imacro") PROVE FALSE
      <4>1. F("-imacro") \in AllOptions
        BY OptionSets
      <4>2. j \notin After(line, Takers)
        BY <2>1, <3>3, <4>1, OptionIsPlain
      <4>3. j \notin After(line, TakesOperand)
        BY <4>2, AfterGrows DEF Takers
      <4>4. F("-imacro") \notin Flags
        BY SentTakersDiffer
      <4> QED
        BY <3>2, <3>3, <4>3, <4>4
    <3>4. line[j] # F("-D")
      BY DEF Sound, Has
    <3> QED
      BY <3>2, <3>3, <3>4, OptionSets
  <2> QED
    BY <1>2, <2>1, <2>2, <2>4 DEF Clear
<1> QED
  BY <1>1, <1>2

(* A second source, or an option without its operand, is an error.          *)
LEMMA BadCommandFails ==
  ASSUME NEW a \in Seq(Words), GccApart(a), NEW s \in Inputs(a),
         Inputs(a) # {s} \/ a[Len(a)] \in TakesOperand,
         NEW x, NEW fs, NEW cpu
  PROVE  Run(x, a, fs, cpu) = {Failure}
<1>1. Len(a) \in Nat /\ s \in 1..Len(a) /\ Inputs(a) \subseteq 1..Len(a)
  BY DEF Inputs, Plain
<1>2. CASE Inputs(a) # {s}
  <2>1. IsFiniteSet(1..Len(a))
    BY <1>1, FS_Interval
  <2>2. IsFiniteSet(Inputs(a))
    BY <1>1, <2>1, FS_Subset
  <2>3. Cardinality(Inputs(a)) # 1
    <3>1. SUFFICES ASSUME Cardinality(Inputs(a)) = 1 PROVE FALSE
      OBVIOUS
    <3>2. PICK y : Inputs(a) = {y}
      BY <2>2, <3>1, FS_Singleton
    <3> QED
      BY <1>2, <3>2
  <2> QED
    BY <2>3, Zenon DEF Run
<1>3. CASE a[Len(a)] \in TakesOperand
  <2>1. Len(a) \in 1..Len(a) /\ a[Len(a)] \in AllOptions
    BY <1>1, <1>3, OptionSets DEF Takers
  <2>2. Len(a) \notin After(a, Takers)
    BY <2>1, OptionIsPlain
  <2>3. Len(a) \notin After(a, TakesOperand)
    BY <2>2, AfterGrows DEF Takers
  <2>4. Plain(a) = 1..Len(a) \ After(a, TakesOperand)
    BY GccReads, Zenon
  <2>5. Len(a) \in Plain(a)
    BY <2>1, <2>3, <2>4
  <2> QED
    BY <1>3, <2>5, Zenon DEF Run
<1> QED
  BY <1>2, <1>3

(* The outcomes of the command, where it was given.                         *)
LEMMA LineRun ==
  ASSUME NEW line, Handled(line), Sound(line),
         NEW x, NEW fs, NEW cpu
  PROVE  LET s == SourceAt(line) IN
         Run(x, line, fs, cpu)
           = IF ~Clear(line, s) \/ Bad(line, s, fs) THEN {Failure}
             ELSE Outcomes(Made(x, line, s, fs, cpu))
<1> DEFINE s == SourceAt(line)
<1>1. line \in Seq(Words) /\ GccApart(line) /\ Has(line, {F("-o")})
  BY HandledApart, Zenon
<1>2. s \in Inputs(line)
  BY HandledSource, Zenon
<1>3. CASE Clear(line, s)
  <2>1. Run(x, line, fs, cpu) = IF Bad(line, s, fs) THEN {Failure}
                                ELSE Outcomes(Made(x, line, s, fs, cpu))
    BY <1>1, <1>3, ClearRun, Zenon
  <2> QED
    BY <1>3, <2>1, Zenon
<1>4. CASE ~Clear(line, s)
  <2>1. Inputs(line) # {s} \/ line[Len(line)] \in TakesOperand
    BY <1>4, HandledClear, Zenon
  <2>2. Run(x, line, fs, cpu) = {Failure}
    BY <1>1, <1>2, <2>1, BadCommandFails, Zenon
  <2> QED
    BY <1>4, <2>2, Zenon
<1> QED
  BY <1>3, <1>4

(* And those of the preprocessor, for a source that is one.                 *)
LEMMA PrecRun ==
  ASSUME NEW line, Handled(line), Sound(line),
         Last(line[SourceAt(line)]) \notin {"i", "ii"},
         NEW x, NEW fs, NEW cpu
  PROVE  LET s == SourceAt(line) IN
         Run(x, Prec(line), fs, cpu)
           = IF ~Clear(line, s) \/ Bad(line, s, fs) THEN {Failure}
             ELSE Outcomes(Made(x, Prec(line), s, fs, cpu))
<1> DEFINE s == SourceAt(line)
           b == Prec(line)
<1>1. line \in Seq(Words) /\ Len(line) \in Nat
  BY HandledApart
<1>2. s \in Inputs(line) /\ s \in 1..Len(line)
  BY HandledSource, Zenon
<1>3. /\ b \in Seq(Words) /\ Len(b) = Len(line)
      /\ GccApart(b) /\ Inputs(b) = Inputs(line)
      /\ \A j \in 1..Len(line) :
           b[j] \in TakesOperand <=> line[j] \in TakesOperand
  BY PrecReads, Zenon
<1>4. b[s] = line[s]
  BY PrecLang, Zenon
<1>5. b[Len(b)] \in TakesOperand <=> line[Len(line)] \in TakesOperand
  <2>1. Len(line) \in 1..Len(line)
    BY <1>1, <1>2
  <2> QED
    BY <1>3, <2>1
<1>6. Bad(b, s, fs) <=> Bad(line, s, fs)
  <2>1. Included(b) = Included(line)
    BY PrecIncluded, Zenon
  <2>2. NoDependencies(b) <=> NoDependencies(line)
    BY PrecDependencies, Zenon
  <2> QED
    BY <1>4, <2>1, <2>2, Zenon DEF Bad
<1>7. CASE Clear(line, s)
  <2>1. Inputs(b) = {s} /\ b[Len(b)] \notin TakesOperand
    BY <1>3, <1>5, <1>7, HandledClear, Zenon
  <2>2. OutputFile(b) = DotiOf(line)
    BY <1>7, PrecOutput, HandledClear, Zenon
  <2>3. b[s] # OutputFile(b)
    BY <1>4, <2>2, DotiIsPreprocessed DEF Preprocessed
  <2>4. Len(b) \in Plain(b) => b[Len(b)] \notin TakesOperand
    BY <2>1
  <2> HIDE DEF b, s
  <2>5. Run(x, b, fs, cpu) = IF Bad(b, s, fs) THEN {Failure}
                             ELSE Outcomes(Made(x, b, s, fs, cpu))
    BY <2>1, <2>3, <2>4, RunOfOne
  <2> QED
    BY <1>6, <1>7, <2>5, Zenon DEF b, s
<1>8. CASE ~Clear(line, s)
  <2>1. Inputs(b) # {s} \/ b[Len(b)] \in TakesOperand
    BY <1>3, <1>5, <1>8, HandledClear, Zenon
  <2>2. Run(x, b, fs, cpu) = {Failure}
    BY <1>2, <1>3, <2>1, BadCommandFails, Zenon
  <2> QED
    BY <1>8, <2>2, Zenon
<1> QED
  BY <1>7, <1>8

(* What the preprocessor makes of the source.                               *)
LEMMA PrecMade ==
  ASSUME NEW line, Handled(line), Sound(line),
         Last(line[SourceAt(line)]) \notin {"i", "ii"},
         NEW x, NEW fs, NEW cpu
  PROVE  LET s    == SourceAt(line)
             in   == FileAt(fs, line[s])
             made == Made(x, Prec(line), s, fs, cpu)
         IN  /\ Has(line, {F("-c"), F("-M")}) =>
                  made = Text(IF Has(line, {F("-M")}) THEN "rules" ELSE "doti",
                              in.of,
                              IF in.kind = "source" THEN Lang(x, line, s)
                                                    ELSE in.pre)
             /\ ~Has(line, {F("-c"), F("-M")}) =>
                  made.kind \in {"asm", "object"}
<1> DEFINE s    == SourceAt(line)
           b    == Prec(line)
           in   == FileAt(fs, line[s])
           lang == Lang(x, line, s)
           pre  == IF in.kind = "source" THEN lang ELSE in.pre
           arch == ArchFor(b, cpu)
           tune == TuneFor(b, cpu)
           made == Made(x, b, s, fs, cpu)
<1>1. b[s] = line[s] /\ Lang(x, b, s) = lang
  BY PrecLang, Zenon
<1>2. /\ Given(b, {F("-M")}) <=> Has(line, {F("-M")})
      /\ Given(b, {F("-E"), F("-M")}) <=> Has(line, {F("-c"), F("-M")})
  BY PrecStage, Zenon
<1>3. ~SaidPreprocessed(b, s)
  BY <1>1 DEF SaidPreprocessed
<1> HIDE DEF b, s
<1>4. made = IF Stage(b) # "preprocess"
               THEN Content(Stage(b), in.of, pre, lang, arch, tune)
             ELSE IF SaidPreprocessed(b, s) THEN FileAt(fs, OutputFile(b))
             ELSE Text(IF Given(b, {F("-M")}) THEN "rules" ELSE "doti",
                       in.of, pre)
  BY <1>1, Zenon DEF Made
<1> HIDE DEF made, in, pre, lang, arch, tune
<1>5. CASE Has(line, {F("-c"), F("-M")})
  <2>1. Stage(b) = "preprocess"
    BY <1>2, <1>5 DEF Stage
  <2>2. made = Text(IF Has(line, {F("-M")}) THEN "rules" ELSE "doti",
                    in.of, pre)
    BY <1>2, <1>3, <1>4, <2>1, Zenon
  <2> QED
    BY <1>5, <2>2, Zenon DEF made, in, pre, lang, b, s
<1>6. CASE ~Has(line, {F("-c"), F("-M")})
  <2>1. Stage(b) \in {"asm", "object"} /\ Stage(b) # "preprocess"
    BY <1>2, <1>6 DEF Stage
  <2>2. made = Content(Stage(b), in.of, pre, lang, arch, tune)
    BY <1>4, <2>1
  <2>3. made.kind \in {"asm", "object"}
    BY <2>1, <2>2 DEF Content
  <2> QED
    BY <1>6, <2>3, Zenon DEF made, in, pre, lang, b, s
<1> QED
  BY <1>5, <1>6, Zenon

-----------------------------------------------------------------------------
(* What the server runs                                                     *)

(* What of the options about this CPU names one for the server.             *)
ForArch == {F("-march=native"), F("-mcpu=native"), ArchCPU}
ForTune == {F("-mtune=native"), TuneCPU}

LEMMA RenamedCPU ==
  ASSUME NEW x
  PROVE  /\ Renamed(x) = ArchCPU <=> x \in ForArch
         /\ Renamed(x) = TuneCPU <=> x \in ForTune
         /\ Renamed(x) \notin Native
<1>1. /\ F("-march=native") # F("-mtune=native")
      /\ F("-mcpu=native") # F("-mtune=native") /\ ArchCPU # TuneCPU
  BY SMT DEF F, ArchCPU, TuneCPU
<1>2. /\ ArchCPU # F("-mtune=native") /\ TuneCPU \notin ForArch
      /\ ArchCPU \notin Native /\ TuneCPU \notin Native
  BY SMT DEF F, ArchCPU, TuneCPU, ForArch, Native
<1>3. CASE x \in {F("-march=native"), F("-mcpu=native")}
  BY <1>1, <1>2, <1>3 DEF Renamed, ForArch, ForTune
<1>4. CASE x = F("-mtune=native")
  BY <1>1, <1>2, <1>4 DEF Renamed, ForArch, ForTune
<1>5. CASE x \notin Native
  <2>1. Renamed(x) = x
    BY <1>5, RenamedIs
  <2> QED
    BY <1>5, <2>1 DEF ForArch, ForTune, Native
<1> QED
  BY <1>3, <1>4, <1>5 DEF Native

(* The client's arguments, and the name of its object.                      *)
LEMMA ArgvReads ==
  ASSUME NEW line, Handled(line), NEW s, Clear(line, s)
  PROVE  LET a == RewriteLocalArgs(line) IN
         /\ Clear(a, s) /\ a[s] = line[s]
         /\ \A X : X \cap (Native \cup Resolved) = {}
                     => (Has(a, X) <=> Has(line, X))
         /\ ~Has(a, Native)
         /\ Has(a, {ArchCPU}) <=> Has(line, ForArch)
         /\ Has(a, {TuneCPU}) <=> Has(line, ForTune)
         /\ \A w : LangAt(line, s, w) => LangAt(a, s, w)
<1> DEFINE a == RewriteLocalArgs(line)
           n == Len(line)
<1>1. line \in Seq(Words) /\ n \in Nat /\ s \in 1..n /\ GccApart(line)
  BY DEF Clear
<1>2. /\ Alike(line, a)
      /\ \A j \in 1..n : a[j] = Renamed(line[j])
  BY <1>1, NativeAlike, Zenon
<1>3. Len(a) = n
  BY <1>2 DEF Alike
<1> HIDE DEF a
<1>4. /\ F("-x") \in Takers
      /\ \A j \in 1..n : line[j] \notin AllOptions => a[j] = line[j]
  BY <1>2, RenamedIs, NativeOptions DEF Takers, TakesOperand
<1>5. a[s] = line[s]
  BY <1>1, <1>4 DEF Clear
<1>6. \A j \in 1..n : a[j] = line[j] \/ ~IsSourceFile(a[j])
  BY <1>2, RenamedIs, OptionsAreNoSources
<1>7. Clear(a, s)
  BY <1>2, <1>5, <1>6, AlikeClear, Zenon
<1>8. ASSUME NEW X, X \cap (Native \cup Resolved) = {}
      PROVE  Has(a, X) <=> Has(line, X)
  <2>1. \A x : Renamed(x) \in X <=> x \in X
    BY <1>8, RenamedIs
  <2> QED
    BY <1>2, <1>3, <2>1 DEF Has
<1>9. ~Has(a, Native)
  BY <1>2, <1>3, RenamedCPU DEF Has
<1>10. /\ Has(a, {ArchCPU}) <=> Has(line, ForArch)
       /\ Has(a, {TuneCPU}) <=> Has(line, ForTune)
  BY <1>2, <1>3, RenamedCPU DEF Has
<1>11. ASSUME NEW w, LangAt(line, s, w) PROVE LangAt(a, s, w)
  <2>1. PICK k \in 1..n :
          /\ line[k] = F("-x") /\ k < s /\ line[k + 1] = w
          /\ \A y \in 1..n : line[y] = F("-x") => y <= k
    BY <1>11 DEF LangAt
  <2>2. \A j \in 1..n : a[j] = F("-x") <=> line[j] = F("-x")
    BY <1>2, <1>4 DEF Alike
  <2>3. k \in 1..n - 1 /\ k + 1 \in 1..n
    BY <1>1, <2>1
  <2>4. line[k + 1] \notin AllOptions
    BY <1>1, <1>4, <2>1, <2>3 DEF GccApart
  <2>5. a[k + 1] = w
    BY <1>4, <2>1, <2>3, <2>4
  <2> QED
    BY <1>3, <2>1, <2>2, <2>5 DEF LangAt
<1> QED
  BY <1>5, <1>7, <1>8, <1>9, <1>10, <1>11 DEF a

(* The object has another name than any language.                           *)
LEMMA ObjectIsNoLang ==
  ASSUME NEW line, Handled(line)
  PROVE  /\ \A s, w : LangAt(line, s, w) /\ s \in 1..Len(line)
                        => w # ObjectFile(line)
         /\ ObjectFile(line) \notin {F("c"), F("c++")}
<1> DEFINE m == ObjectAt(line)
           n == Len(line)
<1>1. line \in Seq(Words) /\ n \in Nat /\ Taken(line)
  BY HandledApart
<1>2. /\ m \in 1..n /\ m > 1 /\ line[m - 1] = F("-o")
      /\ ObjectFile(line) = line[m]
  BY <1>1, TakenObject, Zenon
<1> HIDE DEF m
<1>3. m - 1 \in 1..n - 1 /\ (m - 1) + 1 = m
  BY <1>1, <1>2
<1>4. /\ line[m] \notin {F("c"), F("c++")}
      /\ \A k \in 1..n - 1 : line[k] = F("-x") => line[k + 1] # line[m]
  <2>1. ReadAlike(line)
    BY DEF Handled
  <2>2. line[(m - 1) + 1] \notin Languages
    BY <1>2, <1>3, <2>1, Zenon DEF ReadAlike
  <2>3. \A k \in 1..n - 1 :
          line[k] = F("-x") => line[k + 1] # line[(m - 1) + 1]
    BY <1>2, <1>3, <2>1, Zenon DEF ReadAlike
  <2> QED
    BY <1>3, <2>2, <2>3 DEF Languages
<1>5. ASSUME NEW s \in 1..n, NEW w, LangAt(line, s, w)
      PROVE  w # ObjectFile(line)
  <2>1. PICK k \in 1..n : line[k] = F("-x") /\ k < s /\ line[k + 1] = w
    BY <1>5 DEF LangAt
  <2>2. k \in 1..n - 1
    BY <1>1, <2>1
  <2> QED
    BY <1>2, <1>4, <2>1, <2>2
<1> QED
  BY <1>2, <1>4, <1>5

Sent(line) == CompilerCmd(RewriteLocalArgs(line), DotiOf(line))

(* Options that are sent as they are.                                       *)
AsGiven == {F("-o"), F("-S"), F("-E"), F("-imacros"), F("-MQ"), F("-MP"),
            F("-MMD")}
Passed == AsGiven \cup Native \cup Resolved

LEMMA PassedAreSent ==
  /\ Passed \subseteq AllOptions
  /\ Passed \cap (Alone \cup Paired \cup {F("-x")}) = {}
<1>1. Passed \subseteq AllOptions
  BY DEF Passed, AsGiven, AllOptions, Options, TakesOperand
<1>2. Passed \cap Joined = {}
  BY JoinedAssumption DEF Passed, AsGiven, Named
<1>3. Passed \cap ({F("-D"), F("-MD"), F("-M"), F("-nostdinc")} \cup Paired
                     \cup {F("-x")}) = {}
  BY SMT DEF Passed, AsGiven, Paired, Native, Resolved, ArchCPU, TuneCPU, F
<1> QED
  BY <1>1, <1>2, <1>3 DEF Alone

(* It compiles one file, to another, in the language of the command.        *)
Serves(line, s, srv, q) ==
  /\ Clear(srv, q) /\ srv[q] = TempDoti /\ Has(srv, {F("-o")})
  /\ ~Has(srv, Alone \cup Paired) /\ ~Has(srv, {F("-E")})
  /\ ~Has(srv, Native)
  /\ Has(srv, {ArchCPU}) <=> Has(line, ForArch)
  /\ Has(srv, {TuneCPU}) <=> Has(line, ForTune)
  /\ Has(srv, {F("-MQ"), F("-MP")}) <=> Has(line, {F("-MQ"), F("-MP")})
  /\ Has(srv, {F("-MMD")}) <=> Has(line, {F("-MMD")})
  /\ Has(srv, {F("-S")}) <=> Has(line, {F("-S")})
  /\ Has(srv, {F("-imacros")}) <=> Has(line, {F("-imacros")})
  /\ Has(srv, {F("-x")})
  /\ \A w : LangAt(line, s, w) => LangAt(srv, q, w)
  /\ ~Has(line, {F("-x")}) => LangAt(srv, q, F(WrapperLang(line[s])))

(* That is what the server makes of what it was sent.                       *)
LEMMA ServerCommand ==
  ASSUME NEW line, Handled(line), NEW s, Clear(line, s)
  PROVE  \E q : Serves(line, s, ServerCmd(Sent(line)), q)
<1> DEFINE a   == RewriteLocalArgs(line)
           d   == DotiOf(line)
           out == CompilerCmd(a, d)
           set == SetObjectFile(out, TempObject)
           srv == CompilerCmd(set, TempDoti)
<1>1. line \in Seq(Words) /\ Has(line, {F("-o")}) /\ Taken(line)
  BY HandledApart, Zenon
<1>2. s \in 1..Len(line)
  BY DEF Clear
<1>3. /\ Clear(a, s) /\ a[s] = line[s]
      /\ \A X : X \cap (Native \cup Resolved) = {}
                     => (Has(a, X) <=> Has(line, X))
      /\ ~Has(a, Native)
      /\ Has(a, {ArchCPU}) <=> Has(line, ForArch)
      /\ Has(a, {TuneCPU}) <=> Has(line, ForTune)
      /\ \A w : LangAt(line, s, w) => LangAt(a, s, w)
  BY ArgvReads, Zenon
<1>4. Preprocessed(d)
  BY DotiIsPreprocessed
<1>5. ObjectFile(out) = ObjectFile(line)
  <2>1. Taken(a) /\ ObjectFile(a) = ObjectFile(line) /\ Sources(a) = {s}
    BY <1>1, <1>3, RewriteReads, ClearReads
  <2>2. SourceAt(a) \notin Dropped(a)
    BY <1>3, <2>1, ClearReads DEF SourceAt
  <2>3. Sending(a, d)
    <3>1. ~IsSourceFile(F("-o")) /\ ~IsSourceFile(F("-x"))
          /\ ~IsSourceFile(F("-c")) /\ ~IsSourceFile(F("-S"))
      BY OptionsAreNoSources DEF Naming, Compilation
    <3> QED
      BY <1>4, <2>1, <3>1 DEF Sending, Preprocessed, Naming, Compilation
  <2> HIDE DEF a, d
  <2>4. ObjectFile(out) = ObjectFile(a)
    BY <2>2, <2>3, SentReads
  <2> QED
    BY <2>1, <2>4
<1>6. PICK q1 : Carries(a, s, d, out, q1)
  BY <1>3, <1>4, CommandCarries, Zenon
<1> HIDE DEF out, d, a
<1>7. \A X : X \subseteq Passed => (Has(out, X) <=> Has(a, X))
  <2>1. ASSUME NEW X, X \subseteq Passed
        PROVE  X \subseteq AllOptions
               /\ X \cap (Alone \cup Paired \cup {F("-x")}) = {}
    BY <2>1, PassedAreSent
  <2> QED
    BY <1>6, <2>1, Zenon DEF Carries
<1>8. Has(out, {F("-o")})
  <2>1. {F("-o")} \subseteq Passed
    BY DEF Passed, AsGiven
  <2>2. {F("-o")} \cap (Native \cup Resolved) = {}
    BY SMT DEF Native, Resolved, ArchCPU, TuneCPU, F
  <2> QED
    BY <1>1, <1>3, <1>7, <2>1, <2>2, Zenon
<1>9. Clear(out, q1)
  BY <1>6, Zenon DEF Carries
<1>10. /\ Clear(set, q1) /\ set[q1] = out[q1]
       /\ \A X : X \subseteq AllOptions => (Has(set, X) <=> Has(out, X))
       /\ \A w : w # ObjectFile(out) /\ LangAt(out, q1, w)
                   => LangAt(set, q1, w)
  BY <1>8, <1>9, ObjectSet, Zenon
<1> HIDE DEF set
<1>11. PICK q : Carries(set, q1, TempDoti, srv, q)
  BY <1>10, TempNames, CommandCarries, Zenon
<1> HIDE DEF srv
<1>12. ASSUME NEW X, X \subseteq Passed PROVE Has(srv, X) <=> Has(a, X)
  <2>1. X \subseteq AllOptions
        /\ X \cap (Alone \cup Paired \cup {F("-x")}) = {}
    BY <1>12, PassedAreSent
  <2>2. Has(srv, X) <=> Has(set, X)
    BY <1>11, <2>1, Zenon DEF Carries
  <2> QED
    BY <1>7, <1>10, <1>12, <2>1, <2>2, Zenon
<1>13. ASSUME NEW X, X \subseteq Passed, X \cap (Native \cup Resolved) = {}
       PROVE  Has(srv, X) <=> Has(line, X)
  BY <1>3, <1>12, <1>13, Zenon
<1>14. ASSUME NEW X, X \subseteq AsGiven
       PROVE  Has(srv, X) <=> Has(line, X)
  <2>1. X \subseteq Passed
    BY <1>14 DEF Passed
  <2>2. AsGiven \cap (Native \cup Resolved) = {}
    BY SMT DEF AsGiven, Native, Resolved, ArchCPU, TuneCPU, F
  <2> QED
    BY <1>13, <1>14, <2>1, <2>2
<1>15. Clear(srv, q) /\ srv[q] = TempDoti
       /\ ~Has(srv, Alone \cup Paired) /\ Has(srv, {F("-x")})
  BY <1>11, Zenon DEF Carries
<1>16. Has(srv, {F("-o")}) /\ ~Has(srv, {F("-E")})
  <2>1. ~Has(line, {F("-E")})
    BY DEF Handled, CalledForPreprocessing
  <2>2. {F("-o")} \subseteq AsGiven /\ {F("-E")} \subseteq AsGiven
    BY DEF AsGiven
  <2> QED
    BY <1>1, <1>14, <2>1, <2>2
<1>17. /\ Has(srv, {F("-S")}) <=> Has(line, {F("-S")})
       /\ Has(srv, {F("-imacros")}) <=> Has(line, {F("-imacros")})
       /\ Has(srv, {F("-MQ"), F("-MP")}) <=> Has(line, {F("-MQ"), F("-MP")})
       /\ Has(srv, {F("-MMD")}) <=> Has(line, {F("-MMD")})
  <2>1. /\ {F("-S")} \subseteq AsGiven /\ {F("-imacros")} \subseteq AsGiven
        /\ {F("-MQ"), F("-MP")} \subseteq AsGiven
        /\ {F("-MMD")} \subseteq AsGiven
    BY DEF AsGiven
  <2> QED
    BY <1>14, <2>1
<1>18. ~Has(srv, Native)
       /\ (Has(srv, {ArchCPU}) <=> Has(line, ForArch))
       /\ (Has(srv, {TuneCPU}) <=> Has(line, ForTune))
  <2>1. Native \subseteq Passed /\ {ArchCPU} \subseteq Passed
        /\ {TuneCPU} \subseteq Passed
    BY DEF Passed, Resolved
  <2> QED
    BY <1>3, <1>12, <2>1
<1>19. ASSUME NEW w, LangAt(out, q1, w), w # ObjectFile(line)
       PROVE  LangAt(srv, q, w)
  <2>1. LangAt(set, q1, w)
    BY <1>5, <1>10, <1>19, Zenon
  <2> QED
    BY <1>11, <2>1, Zenon DEF Carries
<1>20. ASSUME NEW w, LangAt(line, s, w) PROVE LangAt(srv, q, w)
  <2>1. LangAt(out, q1, w)
    BY <1>3, <1>6, <1>20, Zenon DEF Carries
  <2>2. w # ObjectFile(line)
    BY <1>2, <1>20, ObjectIsNoLang, Zenon
  <2> QED
    BY <1>19, <2>1, <2>2, Zenon
<1>21. ASSUME ~Has(line, {F("-x")})
       PROVE  LangAt(srv, q, F(WrapperLang(line[s])))
  <2>1. ~Has(a, {F("-x")})
    <3>1. {F("-x")} \cap (Native \cup Resolved) = {}
      BY SMT DEF Native, Resolved, ArchCPU, TuneCPU, F
    <3> QED
      BY <1>3, <1>21, <3>1, Zenon
  <2>2. LangAt(out, q1, F(WrapperLang(line[s])))
    BY <1>3, <1>6, <2>1, Zenon DEF Carries
  <2>3. F(WrapperLang(line[s])) # ObjectFile(line)
    BY LanguagesAreWords, ObjectIsNoLang
  <2> QED
    BY <1>19, <2>2, <2>3, Zenon
<1>22. Serves(line, s, srv, q)
  BY <1>15, <1>16, <1>17, <1>18, <1>20, <1>21, Zenon DEF Serves
<1>23. srv = ServerCmd(Sent(line))
  BY DEF srv, set, out, a, d, ServerCmd, Sent
<1> QED
  BY <1>22, <1>23, Zenon

-----------------------------------------------------------------------------
(* The same object                                                          *)

(* The wrapper and gcc take the source for the same language.               *)
SameLang(x, line) ==
  LET s == SourceAt(line) IN
  IF Has(line, {F("-x")})
    THEN \A j \in s..Len(line) : line[j] # F("-x")
    ELSE WrapperLang(line[s]) = ByExtension(x, line[s])

(* The server compiles in the language of the command.                      *)
LEMMA ServerLang ==
  ASSUME NEW line, Clear(line, SourceAt(line)), NEW x, SameLang(x, line),
         NEW srv, NEW q, Serves(line, SourceAt(line), srv, q)
  PROVE  Lang(x, srv, q) = Lang(x, line, SourceAt(line))
<1> DEFINE s == SourceAt(line)
           n == Len(line)
<1>1. Clear(srv, q)
  BY DEF Serves
<1>2. ASSUME NEW w, LangAt(srv, q, w) PROVE Lang(x, srv, q) = w[1]
  BY <1>1, <1>2, LangIs
<1>3. CASE Has(line, {F("-x")})
  <2> DEFINE xs == {j \in 1..n : line[j] = F("-x")}
             k  == Max(xs)
  <2>1. n \in Nat /\ s \in 1..n /\ line \in Seq(Words)
    BY DEF Clear
  <2>2. xs \subseteq 0..n /\ xs # {}
    BY <1>3, <2>1 DEF Has
  <2> HIDE DEF xs
  <2>3. k \in xs /\ \A y \in xs : y <= k
    BY <2>1, <2>2, Largest, Zenon
  <2> HIDE DEF k
  <2>4. k \in 1..n /\ line[k] = F("-x")
        /\ \A y \in 1..n : line[y] = F("-x") => y <= k
    BY <2>3 DEF xs
  <2>5. k < s
    <3>1. k \notin s..n
      BY <1>3, <2>4 DEF SameLang
    <3> QED
      BY <2>1, <2>4, <3>1
  <2>6. LangAt(line, s, line[k + 1])
    BY <2>4, <2>5 DEF LangAt
  <2>7. LangAt(srv, q, line[k + 1])
    BY <2>6, Zenon DEF Serves
  <2>8. Lang(x, line, s) = line[k + 1][1]
    BY <2>6, LangIs
  <2> QED
    BY <1>2, <2>7, <2>8
<1>4. CASE ~Has(line, {F("-x")})
  <2>1. LangAt(srv, q, F(WrapperLang(line[s])))
    BY <1>4, Zenon DEF Serves
  <2>2. Lang(x, srv, q) = F(WrapperLang(line[s]))[1]
    BY <1>2, <2>1
  <2>3. Lang(x, line, s) = ByExtension(x, line[s])
    BY <1>4, LangIs
  <2>4. WrapperLang(line[s]) = ByExtension(x, line[s])
    BY <1>4 DEF SameLang
  <2>5. \A name : F(name)[1] = name
    BY DEF F
  <2> QED
    BY <2>2, <2>3, <2>4, <2>5
<1> QED
  BY <1>3, <1>4

LEMMA OneFile ==
  ASSUME NEW content
  PROVE  FileAt(ServerFiles(content), TempDoti) = content
BY DEF FileAt, ServerFiles

(* What the compiler makes of a file that it compiles.                      *)
LEMMA LineStage ==
  ASSUME NEW a, NEW s, Clear(a, s), ~Has(a, {F("-E"), F("-M")}),
         NEW x, NEW fs, NEW cpu
  PROVE  LET in == FileAt(fs, a[s]) IN
         Made(x, a, s, fs, cpu)
           = Content(IF Has(a, {F("-S")}) THEN "asm" ELSE "object",
                     in.of,
                     IF in.kind = "source" THEN Lang(x, a, s) ELSE in.pre,
                     Lang(x, a, s), ArchFor(a, cpu), TuneFor(a, cpu))
<1> DEFINE in   == FileAt(fs, a[s])
           lang == Lang(x, a, s)
           pre  == IF in.kind = "source" THEN lang ELSE in.pre
<1>1. /\ {F("-E"), F("-M")} \subseteq AllOptions
      /\ {F("-S")} \subseteq AllOptions
  BY DEF AllOptions, Options, Alone
<1>2. \A X : X \subseteq AllOptions => (Given(a, X) <=> Has(a, X))
  BY GccReads DEF Clear
<1>3. Stage(a) = IF Has(a, {F("-S")}) THEN "asm" ELSE "object"
  BY <1>1, <1>2, Zenon DEF Stage
<1>4. Stage(a) # "preprocess"
  BY <1>3
<1>5. Made(x, a, s, fs, cpu)
        = Content(Stage(a), in.of, pre, lang, ArchFor(a, cpu), TuneFor(a, cpu))
  BY <1>4, Zenon DEF Made
<1> QED
  BY <1>3, <1>5, Zenon

(* The CPU it is for, by what the command has.                              *)
LEMMA CPUs ==
  ASSUME NEW a, NEW s, Clear(a, s), NEW host
  PROVE  /\ ArchFor(a, host) = IF Has(a, {F("-march=native")}) THEN host
                               ELSE IF Has(a, {ArchCPU}) THEN "CPU" ELSE "any"
         /\ TuneFor(a, host)
              = IF Has(a, {F("-mcpu=native"), F("-mtune=native")}) THEN host
                ELSE IF Has(a, {TuneCPU}) THEN "CPU" ELSE ArchFor(a, host)
<1>1. /\ {F("-march=native")} \subseteq AllOptions
      /\ {F("-mcpu=native"), F("-mtune=native")} \subseteq AllOptions
      /\ {ArchCPU} \subseteq AllOptions /\ {TuneCPU} \subseteq AllOptions
  BY NativeOptions DEF Native, Resolved
<1>2. \A X : X \subseteq AllOptions => (Given(a, X) <=> Has(a, X))
  BY GccReads DEF Clear
<1>3. ArchFor(a, host) = IF Has(a, {F("-march=native")}) THEN host
                         ELSE IF Has(a, {ArchCPU}) THEN "CPU" ELSE "any"
  BY <1>1, <1>2, Zenon DEF ArchFor
<1>4. TuneFor(a, host)
        = IF Has(a, {F("-mcpu=native"), F("-mtune=native")}) THEN host
          ELSE IF Has(a, {TuneCPU}) THEN "CPU" ELSE ArchFor(a, host)
  BY <1>1, <1>2, Zenon DEF TuneFor
<1> QED
  BY <1>3, <1>4

(* The server compiles for the client's CPU, by its name.                   *)
LEMMA ServerCPU ==
  ASSUME NEW line, Clear(line, SourceAt(line)),
         NEW srv, NEW q, Serves(line, SourceAt(line), srv, q)
  PROVE  /\ ArchFor(srv, "server")
              = IF Has(line, {F("-mcpu=native")}) THEN "CPU"
                ELSE ByName(ArchFor(line, "client"))
         /\ TuneFor(srv, "server") = ByName(TuneFor(line, "client"))
<1> DEFINE march  == Has(line, {F("-march=native")})
           mcpu   == Has(line, {F("-mcpu=native")})
           native == Has(line, {F("-mcpu=native"), F("-mtune=native")})
           mtune  == Has(line, {F("-mtune=native")})
           arch   == Has(line, {ArchCPU})
           tune   == Has(line, {TuneCPU})
<1>1. /\ Clear(srv, q) /\ ~Has(srv, Native)
      /\ (Has(srv, {ArchCPU}) <=> Has(line, ForArch))
      /\ (Has(srv, {TuneCPU}) <=> Has(line, ForTune))
  BY DEF Serves
<1>2. /\ ~Has(srv, {F("-march=native")})
      /\ ~Has(srv, {F("-mcpu=native"), F("-mtune=native")})
  BY <1>1 DEF Has, Native
<1>3. /\ (Has(line, ForArch) <=> march \/ mcpu \/ arch)
      /\ (Has(line, ForTune) <=> mtune \/ tune)
      /\ (native <=> mcpu \/ mtune)
  BY DEF Has, ForArch, ForTune
<1>4. /\ ArchFor(srv, "server")
           = IF Has(srv, {F("-march=native")}) THEN "server"
             ELSE IF Has(srv, {ArchCPU}) THEN "CPU" ELSE "any"
      /\ TuneFor(srv, "server")
           = IF Has(srv, {F("-mcpu=native"), F("-mtune=native")}) THEN "server"
             ELSE IF Has(srv, {TuneCPU}) THEN "CPU" ELSE ArchFor(srv, "server")
  BY <1>1, CPUs, Zenon
<1>5. /\ ArchFor(line, "client")
           = IF march THEN "client" ELSE IF arch THEN "CPU" ELSE "any"
      /\ TuneFor(line, "client")
           = IF native THEN "client"
             ELSE IF tune THEN "CPU" ELSE ArchFor(line, "client")
  BY CPUs, Zenon
<1> HIDE DEF march, mcpu, native, mtune, arch, tune
<1>6. ArchFor(srv, "server")
        = IF march \/ mcpu \/ arch THEN "CPU" ELSE "any"
  BY <1>1, <1>2, <1>3, <1>4
<1>7. TuneFor(srv, "server")
        = IF mtune \/ tune \/ march \/ mcpu \/ arch THEN "CPU" ELSE "any"
  BY <1>1, <1>2, <1>3, <1>4, <1>6
<1>8. ByName("client") = "CPU" /\ ByName("CPU") = "CPU" /\ ByName("any") = "any"
  BY DEF ByName
<1>9. ArchFor(srv, "server")
        = IF mcpu THEN "CPU" ELSE ByName(ArchFor(line, "client"))
  BY <1>5, <1>6, <1>8
<1>10. TuneFor(srv, "server") = ByName(TuneFor(line, "client"))
  BY <1>3, <1>5, <1>7, <1>8
<1> QED
  BY <1>9, <1>10 DEF mcpu

LEMMA NamedContent ==
  ASSUME NEW line, NEW kind, NEW of, NEW pre, NEW as, NEW arch, NEW tune,
         NEW out, out = Content(kind, of, pre, as, arch, tune)
  PROVE  NamedCPU(line, out)
           = Content(kind, of, pre, as,
                     IF Has(line, {F("-mcpu=native")}) THEN "CPU"
                                                       ELSE ByName(arch),
                     ByName(tune))
<1>1. /\ out.kind = kind /\ out.of = of /\ out.pre = pre /\ out.as = as
      /\ out.arch = arch /\ out.tune = tune
  BY DEF Content
<1> QED
  BY <1>1, Zenon DEF NamedCPU

(* What gcc leaves of the source, preprocessed.                             *)
PrecFile(x, line, fs) ==
  LET s  == SourceAt(line)
      in == FileAt(fs, line[s])
  IN  Text("doti", in.of,
           IF in.kind = "source" THEN Lang(x, line, s) ELSE in.pre)

(* From the preprocessed file the server makes what would be made here.     *)
LEMMA ServerMade ==
  ASSUME NEW line, Handled(line), Clear(line, SourceAt(line)),
         NEW x, SameLang(x, line), ~Has(line, {F("-M")}),
         NEW srv, NEW q, Serves(line, SourceAt(line), srv, q),
         NEW fs, NEW doti, doti = PrecFile(x, line, fs)
  PROVE  Made(x, srv, q, ServerFiles(doti), "server")
           = NamedCPU(line, Made(x, line, SourceAt(line), fs, "client"))
<1> DEFINE s    == SourceAt(line)
           in   == FileAt(fs, line[s])
           lang == Lang(x, line, s)
           pre  == IF in.kind = "source" THEN lang ELSE in.pre
           kind == IF Has(line, {F("-S")}) THEN "asm" ELSE "object"
           arch == ArchFor(line, "client")
           tune == TuneFor(line, "client")
           tmp  == FileAt(ServerFiles(doti), srv[q])
<1>1. /\ Clear(srv, q) /\ srv[q] = TempDoti
      /\ ~Has(srv, Alone \cup Paired) /\ ~Has(srv, {F("-E")})
      /\ (Has(srv, {F("-S")}) <=> Has(line, {F("-S")}))
  BY DEF Serves
<1>2. Lang(x, srv, q) = lang
  BY ServerLang, Zenon
<1>3. ~Has(srv, {F("-E"), F("-M")})
  BY <1>1 DEF Has, Alone
<1>4. ~Has(line, {F("-E"), F("-M")})
  BY DEF Has, Handled, CalledForPreprocessing
<1>5. tmp = doti
  BY <1>1, OneFile
<1>6. doti.kind = "doti" /\ doti.of = in.of /\ doti.pre = pre
  BY DEF Content, Text, PrecFile
<1>a. /\ ArchFor(srv, "server")
           = IF Has(line, {F("-mcpu=native")}) THEN "CPU" ELSE ByName(arch)
      /\ TuneFor(srv, "server") = ByName(tune)
  BY ServerCPU, Zenon
<1> HIDE DEF s, in, tmp, arch, tune
<1>7. Made(x, srv, q, ServerFiles(doti), "server")
        = Content(IF Has(srv, {F("-S")}) THEN "asm" ELSE "object",
                  tmp.of,
                  IF tmp.kind = "source" THEN Lang(x, srv, q) ELSE tmp.pre,
                  Lang(x, srv, q), ArchFor(srv, "server"),
                  TuneFor(srv, "server"))
  BY <1>1, <1>3, LineStage, Zenon DEF tmp
<1>8. Made(x, line, s, fs, "client")
        = Content(kind, in.of, pre, lang, arch, tune)
  BY <1>4, LineStage, Zenon DEF in, s, arch, tune
<1>11. (IF Has(srv, {F("-S")}) THEN "asm" ELSE "object") = kind
  BY <1>1
<1>12. tmp.of = in.of /\ tmp.kind # "source" /\ tmp.pre = pre
  BY <1>5, <1>6
<1>13. (IF tmp.kind = "source" THEN Lang(x, srv, q) ELSE tmp.pre) = pre
  BY <1>12
<1> HIDE DEF kind, pre, lang
<1>14. Made(x, srv, q, ServerFiles(doti), "server")
         = Content(kind, in.of, pre, lang,
                   IF Has(line, {F("-mcpu=native")}) THEN "CPU"
                                                     ELSE ByName(arch),
                   ByName(tune))
  BY <1>2, <1>7, <1>11, <1>12, <1>13, <1>a
<1>15. PICK o : o = in.of
  OBVIOUS
<1>16. NamedCPU(line, Made(x, line, s, fs, "client"))
         = Content(kind, o, pre, lang,
                   IF Has(line, {F("-mcpu=native")}) THEN "CPU"
                                                     ELSE ByName(arch),
                   ByName(tune))
  BY <1>8, <1>15, NamedContent
<1> QED
  BY <1>14, <1>15, <1>16 DEF s

(* A command of one source, which gcc has still to preprocess.              *)
Plainly(line) ==
  /\ Handled(line) /\ Sound(line)
  /\ Last(line[SourceAt(line)]) \notin {"i", "ii"}

LEMMA OutcomesAre ==
  ASSUME NEW made, NEW r \in Outcomes(made)
  PROVE  /\ r.ok => r = [ok |-> TRUE, out |-> made] /\ r.out = made
         /\ ~r.ok => r = Failure /\ made.as \notin {"none", made.pre}
<1> DEFINE good == [ok |-> TRUE, out |-> made]
<1>1. good.ok = TRUE /\ good.out = made /\ Failure.ok = FALSE
  BY DEF Failure
<1> HIDE DEF good
<1>2. r = good \/ (r = Failure /\ made.as \notin {"none", made.pre})
  BY DEF Outcomes, good
<1> QED
  BY <1>1, <1>2 DEF good

LEMMA FailureFails == ~Failure.ok
BY DEF Failure

(* What the client sends, and when there is something to send.              *)
LEMMA PrecOutcome ==
  ASSUME NEW line, Plainly(line), NEW x, NEW fs,
         NEW r \in Run(x, Prec(line), fs, "client")
  PROVE  LET s == SourceAt(line) IN
         /\ r.ok => /\ Clear(line, s) /\ ~Bad(line, s, fs)
                    /\ r.out = Made(x, Prec(line), s, fs, "client")
                    /\ OutputFile(Prec(line)) = DotiOf(line)
         /\ ~r.ok /\ Has(line, {F("-c")})
              => Run(x, line, fs, "client") = {Failure}
<1> DEFINE s    == SourceAt(line)
           made == Made(x, Prec(line), s, fs, "client")
<1>1. Run(x, Prec(line), fs, "client")
        = IF ~Clear(line, s) \/ Bad(line, s, fs) THEN {Failure}
          ELSE Outcomes(made)
  BY PrecRun, Zenon DEF Plainly
<1>2. Run(x, line, fs, "client")
        = IF ~Clear(line, s) \/ Bad(line, s, fs) THEN {Failure}
          ELSE Outcomes(Made(x, line, s, fs, "client"))
  BY LineRun, Zenon DEF Plainly
<1>3. Clear(line, s) => line[Len(line)] \notin TakesOperand
  BY Zenon DEF Clear
<1>4. Clear(line, s) => OutputFile(Prec(line)) = DotiOf(line)
  BY <1>3, PrecOutput, Zenon DEF Plainly
<1>5. Has(line, {F("-c")}) => made.as = "none"
  <2>1. Has(line, {F("-c")}) => Has(line, {F("-c"), F("-M")})
    BY DEF Has
  <2> DEFINE in   == FileAt(fs, line[s])
             kind == IF Has(line, {F("-M")}) THEN "rules" ELSE "doti"
             pre  == IF in.kind = "source" THEN Lang(x, line, s) ELSE in.pre
  <2>2. Has(line, {F("-c"), F("-M")})
          => made = Text(kind, in.of, pre)
    BY PrecMade, Zenon DEF Plainly
  <2> HIDE DEF made, in, kind, pre
  <2> QED
    BY <2>1, <2>2 DEF Content, Text
<1> HIDE DEF made, s
<1>6. CASE ~Clear(line, s) \/ Bad(line, s, fs)
  <2>1. r = Failure
    BY <1>1, <1>6
  <2> QED
    BY <1>2, <1>6, <2>1, FailureFails DEF s
<1>7. CASE Clear(line, s) /\ ~Bad(line, s, fs)
  <2>1. r \in Outcomes(made)
    BY <1>1, <1>7
  <2>2. /\ r.ok => r.out = made
        /\ ~r.ok => made.as # "none"
    BY <2>1, OutcomesAre
  <2> QED
    BY <1>4, <1>5, <1>7, <2>2 DEF s, made
<1> QED
  BY <1>6, <1>7

(* What is sent is a file.                                                  *)
LEMMA PrecKind ==
  ASSUME NEW line, Plainly(line), NEW x, NEW fs,
         NEW r \in Run(x, Prec(line), fs, "client"), r.ok
  PROVE  r.out # NoFile
<1> DEFINE s    == SourceAt(line)
           made == Made(x, Prec(line), s, fs, "client")
           in   == FileAt(fs, line[s])
           kind == IF Has(line, {F("-M")}) THEN "rules" ELSE "doti"
           pre  == IF in.kind = "source" THEN Lang(x, line, s) ELSE in.pre
<1>1. r.out = made
  BY PrecOutcome
<1>2. /\ Has(line, {F("-c"), F("-M")})
           => made = Text(kind, in.of, pre)
      /\ ~Has(line, {F("-c"), F("-M")}) => made.kind \in {"asm", "object"}
  BY PrecMade, Zenon DEF Plainly
<1>3. kind # "none"
  OBVIOUS
<1> HIDE DEF made, in, kind, pre
<1>4. made.kind # "none"
  BY <1>2, <1>3 DEF Content, Text
<1>5. NoFile.kind = "none"
  BY DEF NoFile, Text, Content
<1> QED
  BY <1>1, <1>4, <1>5

(* What of the other files matters to the preprocessor.                     *)
LEMMA SameOutcome ==
  ASSUME NEW line, Plainly(line), NEW x, NEW fs, NEW gs,
         FileAt(fs, SourceFile(line)) = FileAt(gs, SourceFile(line)),
         \A f \in Included(line) : f \in DOMAIN fs <=> f \in DOMAIN gs
  PROVE  Run(x, Prec(line), fs, "client") = Run(x, Prec(line), gs, "client")
<1> DEFINE s == SourceAt(line)
           b == Prec(line)
<1>1. SourceFile(line) = line[s]
  BY HandledSource, Zenon DEF Plainly
<1>2. FileAt(fs, line[s]) = FileAt(gs, line[s])
  BY <1>1
<1>3. Bad(line, s, fs) <=> Bad(line, s, gs)
  BY <1>2 DEF Bad
<1>4. b[s] = line[s]
  BY PrecLang, Zenon DEF Plainly
<1>5. ~SaidPreprocessed(b, s)
  BY <1>4, Zenon DEF SaidPreprocessed, Plainly
<1>6. /\ Run(x, b, fs, "client")
           = IF ~Clear(line, s) \/ Bad(line, s, fs) THEN {Failure}
             ELSE Outcomes(Made(x, b, s, fs, "client"))
      /\ Run(x, b, gs, "client")
           = IF ~Clear(line, s) \/ Bad(line, s, gs) THEN {Failure}
             ELSE Outcomes(Made(x, b, s, gs, "client"))
  BY PrecRun, Zenon DEF Plainly
<1> HIDE DEF b, s
<1>7. Made(x, b, s, fs, "client") = Made(x, b, s, gs, "client")
  <2>1. FileAt(fs, b[s]) = FileAt(gs, b[s])
    BY <1>2, <1>4
  <2> QED
    BY <1>5, <2>1 DEF Made
<1> QED
  BY <1>3, <1>6, <1>7 DEF b

(* A command without -include and -imacros includes nothing.                *)
LEMMA NothingIncluded ==
  ASSUME NEW a, NEW s, Clear(a, s), ~Has(a, Alone \cup Paired),
         ~Has(a, {F("-imacros")})
  PROVE  Included(a) = {}
<1>1. a \in Seq(Words) /\ GccApart(a) /\ Len(a) \in Nat
  BY DEF Clear
<1>2. Included(a) = {a[j] : j \in After(a, {F("-include"), F("-imacros")})}
  BY <1>1, GccReads, Zenon
<1>3. ASSUME NEW j \in After(a, {F("-include"), F("-imacros")}) PROVE FALSE
  <2>1. j - 1 \in 1..Len(a) /\ a[j - 1] \in {F("-include"), F("-imacros")}
    BY <1>1 DEF After
  <2> QED
    BY <2>1 DEF Has, Paired
<1> QED
  BY <1>2, <1>3

(* Nor does it ask for anything about dependencies, but what is sent.       *)
LEMMA ServerDependencies ==
  ASSUME NEW a, NEW s, Clear(a, s), ~Has(a, Alone \cup Paired),
         Has(a, {F("-MQ"), F("-MP")}) => Has(a, {F("-MMD")})
  PROVE  ~NoDependencies(a)
<1>1. \A X : X \subseteq AllOptions => (Given(a, X) <=> Has(a, X))
  BY GccReads DEF Clear
<1>2. /\ {F("-MT"), F("-MF"), F("-MQ"), F("-MP")} \subseteq AllOptions
      /\ {F("-M"), F("-MD"), F("-MMD")} \subseteq AllOptions
  BY DEF AllOptions, Options, Alone, TakesOperand
<1>3. SUFFICES ASSUME Has(a, {F("-MT"), F("-MF"), F("-MQ"), F("-MP")})
               PROVE  Has(a, {F("-M"), F("-MD"), F("-MMD")})
  BY <1>1, <1>2, Zenon DEF NoDependencies
<1>4. Has(a, {F("-MQ"), F("-MP")})
  BY <1>3 DEF Has, Paired
<1> QED
  BY <1>4 DEF Has

(* What the server makes of it.                                             *)
LEMMA ServerOutcome ==
  ASSUME NEW line, Plainly(line), NEW x, SameLang(x, line), NEW fs,
         NEW p \in Run(x, Prec(line), fs, "client"), p.ok,
         NEW r \in Run(x, ServerCmd(Sent(line)), ServerFiles(p.out), "server")
  PROVE  /\ r.ok => \E l \in Run(x, line, fs, "client") :
                       l.ok /\ r.out = NamedCPU(line, l.out)
         /\ /\ ~r.ok /\ Has(line, {F("-c")})
            /\ ~Has(line, {F("-M"), F("-imacros")})
            /\ Has(line, {F("-MQ"), F("-MP")}) => Has(line, {F("-MMD")})
            => Failure \in Run(x, line, fs, "client")
<1> DEFINE s    == SourceAt(line)
           srv  == ServerCmd(Sent(line))
           in   == FileAt(fs, line[s])
           kind == IF Has(line, {F("-M")}) THEN "rules" ELSE "doti"
           pre  == IF in.kind = "source" THEN Lang(x, line, s) ELSE in.pre
           made == Made(x, line, s, fs, "client")
<1>1. Handled(line) /\ Sound(line)
  BY DEF Plainly
<1>2. /\ Clear(line, s) /\ ~Bad(line, s, fs)
      /\ p.out = Made(x, Prec(line), s, fs, "client")
  BY PrecOutcome
<1>3. /\ Has(line, {F("-c"), F("-M")})
           => p.out = Text(kind, in.of, pre)
      /\ ~Has(line, {F("-c"), F("-M")}) => p.out.kind \in {"asm", "object"}
  BY <1>2, PrecMade, Zenon DEF Plainly
<1>4. Run(x, line, fs, "client") = Outcomes(made)
  BY <1>1, <1>2, LineRun, Zenon
<1>5. PICK q : Serves(line, s, srv, q)
  BY <1>1, <1>2, ServerCommand, Zenon
<1>6. Clear(srv, q) /\ srv[q] = TempDoti /\ Has(srv, {F("-o")})
      /\ ~Has(srv, Alone \cup Paired)
      /\ (Has(srv, {F("-imacros")}) <=> Has(line, {F("-imacros")}))
      /\ (Has(srv, {F("-MQ"), F("-MP")}) <=> Has(line, {F("-MQ"), F("-MP")}))
      /\ (Has(srv, {F("-MMD")}) <=> Has(line, {F("-MMD")}))
  BY <1>5, Zenon DEF Serves
<1>7. Run(x, srv, ServerFiles(p.out), "server")
        = IF Bad(srv, q, ServerFiles(p.out)) THEN {Failure}
          ELSE Outcomes(Made(x, srv, q, ServerFiles(p.out), "server"))
  BY <1>6, ClearRun, Zenon
<1>8. FileAt(ServerFiles(p.out), srv[q]) = p.out
  BY <1>6, OneFile
<1> HIDE DEF srv
<1>9. CASE Has(line, {F("-c"), F("-M")}) /\ ~Has(line, {F("-M")})
  <2>1. p.out = Text("doti", in.of, pre)
    <3>1. kind = "doti"
      BY <1>9
    <3> HIDE DEF kind
    <3> QED
      BY <1>3, <1>9, <3>1, Zenon
  <2>2. p.out = PrecFile(x, line, fs)
    BY <2>1 DEF PrecFile, in, pre
  <2>3. Made(x, srv, q, ServerFiles(p.out), "server") = NamedCPU(line, made)
    <3>1. Handled(line) /\ Clear(line, SourceAt(line))
      BY <1>1, <1>2
    <3>2. Serves(line, SourceAt(line), srv, q)
      BY <1>5
    <3>3. ~Has(line, {F("-M")})
      BY <1>9
    <3>4. PICK doti : doti = p.out
      OBVIOUS
    <3>5. Made(x, srv, q, ServerFiles(doti), "server")
            = NamedCPU(line, Made(x, line, SourceAt(line), fs, "client"))
      BY <2>2, <3>1, <3>2, <3>3, <3>4, ServerMade
    <3> QED
      BY <3>4, <3>5
  <2>4. p.out.kind = "doti"
    BY <2>1 DEF Content, Text
  <2>5. /\ ~Has(line, {F("-imacros")})
        /\ Has(line, {F("-MQ"), F("-MP")}) => Has(line, {F("-MMD")})
        => ~Bad(srv, q, ServerFiles(p.out))
    <3>1. ~Has(line, {F("-imacros")}) => Included(srv) = {}
      BY <1>6, NothingIncluded
    <3>2. (Has(line, {F("-MQ"), F("-MP")}) => Has(line, {F("-MMD")}))
            => ~NoDependencies(srv)
      BY <1>6, ServerDependencies
    <3> QED
      BY <1>8, <2>4, <3>1, <3>2 DEF Bad
  <2>6. Has(line, {F("-imacros")}) => Has(line, {F("-M"), F("-imacros")})
    BY DEF Has
  <2> HIDE DEF made
  <2>7. CASE Bad(srv, q, ServerFiles(p.out))
    <3>1. r = Failure
      BY <1>7, <2>7 DEF srv
    <3> QED
      BY <2>5, <2>6, <2>7, <3>1, FailureFails
  <2>8. CASE ~Bad(srv, q, ServerFiles(p.out))
    <3> DEFINE named == NamedCPU(line, made)
    <3>1. r \in Outcomes(named)
      BY <1>7, <2>3, <2>8 DEF srv
    <3>2. named.as = made.as /\ named.pre = made.pre
      BY DEF NamedCPU, Content
    <3> HIDE DEF named
    <3>3. r.ok => r.out = named
      BY <3>1, OutcomesAre
    <3>4. ~r.ok => made.as \notin {"none", made.pre}
      BY <3>1, <3>2, OutcomesAre
    <3>5. [ok |-> TRUE, out |-> made] \in Outcomes(made)
          /\ (made.as \notin {"none", made.pre} => Failure \in Outcomes(made))
      BY DEF Outcomes
    <3>6. PICK l \in Outcomes(made) : l.ok /\ l.out = made
      BY <3>5
    <3> QED
      BY <1>4, <3>3, <3>4, <3>5, <3>6 DEF named
  <2> QED
    BY <2>7, <2>8
<1>10. CASE ~Has(line, {F("-c"), F("-M")}) \/ Has(line, {F("-M")})
  <2>1. p.out.kind \notin {"source", "doti"}
    <3>1. CASE ~Has(line, {F("-c"), F("-M")})
      BY <1>3, <3>1
    <3>2. CASE Has(line, {F("-M")})
      <4>1. Has(line, {F("-c"), F("-M")}) /\ kind = "rules"
        BY <3>2 DEF Has
      <4> HIDE DEF kind, in, pre
      <4>2. p.out.kind = "rules"
        BY <1>3, <4>1 DEF Content, Text
      <4> QED
        BY <4>2
    <3> QED
      BY <1>10, <3>1, <3>2
  <2>2. Bad(srv, q, ServerFiles(p.out))
    BY <1>8, <2>1 DEF Bad
  <2>3. r = Failure
    BY <1>7, <2>2 DEF srv
  <2>4. Has(line, {F("-c")}) => Has(line, {F("-c"), F("-M")})
    BY DEF Has
  <2>5. Has(line, {F("-M")}) => Has(line, {F("-M"), F("-imacros")})
    BY DEF Has
  <2> QED
    BY <1>10, <2>3, <2>4, <2>5, FailureFails
<1> QED
  BY <1>9, <1>10

-----------------------------------------------------------------------------
(* The directory                                                            *)

(* A command that succeeds has no option at its end that lacks an operand.  *)
LEMMA RunEnds ==
  ASSUME NEW a \in Seq(Words), GccApart(a), NEW x, NEW fs, NEW cpu,
         NEW r \in Run(x, a, fs, cpu), r.ok
  PROVE  a[Len(a)] \notin TakesOperand
<1>1. Cardinality(Inputs(a)) = 1
  <2>1. CASE Cardinality(Inputs(a)) # 1
    <3>1. Run(x, a, fs, cpu) = {Failure}
      BY <2>1, Zenon DEF Run
    <3> QED
      BY <3>1, FailureFails
  <2> QED
    BY <2>1
<1>2. PICK s : s \in Inputs(a)
  <2>1. Inputs(a) # {}
    <3>1. Cardinality({}) = 0
      BY FS_EmptySet, Zenon
    <3>2. 0 # 1
      OBVIOUS
    <3> QED
      BY <1>1, <3>1, <3>2, Zenon
  <2> QED
    BY <2>1
<1> QED
  BY <1>2, BadCommandFails, FailureFails

LEMMA ReadingIsHandled ==
  ASSUME NEW c \in Client, NEW line \in Commands[c], Reading(line)
  PROVE  Handled(line)
BY CommandIsTaken, CommandsAssumption DEF Handled, Reading

(* What the compiler writes here is what the wrapper takes for the object.  *)
LEMMA LocalWrites ==
  ASSUME NEW c \in Client, NEW line \in Commands[c], Objects(line) # {},
         NEW x, NEW fs, NEW r \in Run(x, line, fs, "client"), r.ok
  PROVE  OutputFile(line) = ObjectFile(line)
<1>1. line \in Seq(Words) /\ ReadAlike(line)
  BY CommandsAssumption, ArgumentsAreWords
<1>2. GccApart(line)
  BY <1>1, OptionSets DEF ReadAlike, GccApart, Takers
<1>3. line[Len(line)] \notin TakesOperand
  BY <1>1, <1>2, RunEnds
<1>4. Has(line, {F("-o")})
  BY DEF Objects, Has, Looked
<1> QED
  BY <1>1, <1>2, <1>3, <1>4, OutputIsObject

(* And what the preprocessor writes is the file that the wrapper sends.     *)
LEMMA PrecWrites ==
  ASSUME NEW line, Handled(line), NEW x, NEW fs,
         NEW r \in Run(x, Prec(line), fs, "client"), r.ok
  PROVE  OutputFile(Prec(line)) = DotiOf(line)
<1> DEFINE a == Prec(line)
           n == Len(line)
<1>1. /\ a \in Seq(Words) /\ Len(a) = n /\ GccApart(a)
      /\ \A j \in 1..n : a[j] \in TakesOperand <=> line[j] \in TakesOperand
  BY PrecReads, Zenon
<1> HIDE DEF a
<1>2. a[n] \notin TakesOperand
  BY <1>1, RunEnds DEF a
<1>3. n \in 1..n
  <2>1. line \in Seq(Words) /\ Has(line, {F("-o")})
    BY HandledApart
  <2> QED
    BY <2>1 DEF Has
<1>4. line[n] \notin TakesOperand
  BY <1>1, <1>2, <1>3
<1> QED
  BY <1>4, PrecOutput

-----------------------------------------------------------------------------
(* Clients in one directory                                                 *)

(* Only what a client may write differs from what was there in the          *)
(* beginning, and only once it may have.                                    *)
Written == {"send", "serve", "done"}
FilesInv ==
  \A n \in DOMAIN files :
    \/ n \in DOMAIN InitialFiles /\ files[n] = InitialFiles[n]
    \/ \E d \in Client : pc[d] \in Written /\ n \in Outputs(d)

(* What the preprocessor makes of the client's command.                     *)
Prepared(c) ==
  {p.out : p \in {q \in Run(cxx[c], Prec(cmd[c]), InitialFiles, "client") :
                   q.ok}}

(* What is sent has one input too many.                                     *)
Strays(c) == Has(cmd[c], {F("-D")}) \/ SourceFile(cmd[c]) \in Other

Excepted(c) ==
  NoSource(c) \/ Strays(c) \/ AlreadyPreprocessed(c) \/ Shared(c)
LikeLocal(c, obj) ==
  \/ \E r \in Local(c) : r.ok /\ obj = NamedCPU(cmd[c], r.out)
  \/ Misread(c) \/ AlreadyPreprocessed(c) \/ Shared(c) \/ Strays(c)
Excused(c) ==
  \/ Failure \in Local(c)
  \/ NoSource(c) \/ Astray(c) \/ ~Has(cmd[c], {F("-c")})
  \/ Has(cmd[c], {F("-M"), F("-imacros")})
  \/ Misread(c) \/ AlreadyPreprocessed(c) \/ Shared(c)
Failing == {"preprocessor", "no file", "refused", "compiler"}

Course(c) ==
  /\ pc[c] = "idle" => cmd[c] = <<>>
  /\ pc[c] \in {"rewrite", "preprocess", "send", "serve"} => Known(c)
  /\ pc[c] = "send" => Excepted(c) \/ FileAt(files, DotiFile(c)) \in Prepared(c)
  /\ sent[c] # Nothing => Excepted(c) \/ sent[c].doti \in Prepared(c)
  /\ end[c] = "object" => LikeLocal(c, got[c])
  /\ end[c] \in Failing => Excused(c)

DirInv == WrapInv /\ FilesInv /\ \A c \in Client : Course(c)

(* A client with no command writes nothing.                                 *)
LEMMA IdleWritesNothing ==
  ASSUME NEW c \in Client, cmd[c] = <<>>
  PROVE  Outputs(c) = {}
<1>1. Len(cmd[c]) = 0
  OBVIOUS
<1>2. Objects(cmd[c]) = {}
  BY <1>1 DEF Objects, Looked
<1>3. ~Understood(c)
  BY <1>2 DEF Understood, CanHandle
<1> QED
  BY <1>2, <1>3 DEF Outputs

LEMMA ExceptOne ==
  ASSUME NEW f, IsFunction(f), NEW g, NEW c \in Client,
         g = f \/ \E w : g = [f EXCEPT ![c] = w]
  PROVE  \A d \in Client : d # c => g[d] = f[d]
BY DEF IsFunction

(* One client moves.                                                        *)
OneMoves(c) ==
  /\ Others(c) /\ \A d \in Client : d # c => compiler'[d] = compiler[d]
  /\ pc[c] # "idle" => cmd' = cmd /\ compiler' = compiler
  /\ pc'[c] # "idle" /\ (pc[c] = "idle" => pc'[c] = "route")
  /\ pc[c] \in Written => pc'[c] \in Written

(* Nothing of the others changes, and who has written stays one who has.    *)
LEMMA StepMoves ==
  ASSUME WrapInv, NEW c \in Client, Step(c)
  PROVE  OneMoves(c)
<1> DEFINE One(f, g) == g = f \/ \E w : g = [f EXCEPT ![c] = w]
           Only(f, g) == \A d \in Client : d # c => g[d] = f[d]
<1>1. Functions /\ Ranges
  BY DEF WrapInv
<1>2. pc[c] \in ClientPlace /\ pc \in [Client -> ClientPlace]
  BY <1>1 DEF Ranges
<1>3. CASE Start(c)
  <2>1. PICK x, y : /\ cmd' = [cmd EXCEPT ![c] = x]
                    /\ args' = [args EXCEPT ![c] = x]
                    /\ compiler' = [compiler EXCEPT ![c] = y]
    BY <1>3 DEF Start
  <2>2. /\ pc[c] = "idle" /\ pc' = [pc EXCEPT ![c] = "route"]
        /\ UNCHANGED <<sent, end, got>>
    BY <1>3 DEF Start
  <2>3. /\ Only(compiler, compiler') /\ Only(cmd, cmd') /\ Only(args, args')
        /\ Only(pc, pc') /\ Only(sent, sent') /\ Only(end, end')
        /\ Only(got, got')
    BY <1>1, <2>1, <2>2 DEF Functions, IsFunction
  <2>4. pc'[c] = "route"
    BY <1>2, <2>2
  <2> QED
    BY <2>2, <2>3, <2>4 DEF OneMoves, Others, Written
<1>4. CASE ~Start(c)
  <2> DEFINE Goes(here, there) ==
               /\ At(c, here, there)
               /\ here \in ClientPlace \ {"idle"}
               /\ there \in ClientPlace \ {"idle"}
               /\ here \in Written => there \in Written
             Moves == \E here, there : Goes(here, there)
  <2>1. Moves
    <3>1. CASE RunHere(c)
      <4>1. Goes("route", "local")
        BY <3>1 DEF RunHere, ClientPlace, Written
      <4> QED
        BY <4>1
    <3>2. CASE UnknownCompiler(c)
      <4>1. Goes("route", "done")
        BY <3>2 DEF UnknownCompiler, Ending, ClientPlace, Written
      <4> QED
        BY <4>1
    <3>3. CASE Offload(c)
      <4>1. Goes("route", "rewrite")
        BY <3>3 DEF Offload, ClientPlace, Written
      <4> QED
        BY <4>1
    <3>4. CASE RunLocally(c)
      <4>1. Goes("local", "done")
        BY <3>4 DEF RunLocally, Ending, ClientPlace, Written
      <4> QED
        BY <4>1
    <3>5. CASE Rewrite(c)
      <4>1. Goes("rewrite", "preprocess")
        BY <3>5 DEF Rewrite, ClientPlace, Written
      <4> QED
        BY <4>1
    <3>6. CASE Unresolved(c)
      <4>1. Goes("rewrite", "local") \/ Goes("rewrite", "done")
        BY <3>6 DEF Unresolved, Ending, ClientPlace, Written
      <4> QED
        BY <4>1
    <3>7. CASE Preprocess(c)
      <4>1. Goes("preprocess", "send") \/ Goes("preprocess", "done")
        BY <3>7 DEF Preprocess, Ending, ClientPlace, Written
      <4> QED
        BY <4>1
    <3>8. CASE Send(c)
      <4>1. Goes("send", "serve") \/ Goes("send", "done")
        BY <3>8 DEF Send, Ending, ClientPlace, Written
      <4> QED
        BY <4>1
    <3>9. CASE SessionFails(c)
      <4>1. Goes("send", "done") \/ Goes("serve", "done")
        BY <3>9 DEF SessionFails, Ending, ClientPlace, Written
      <4> QED
        BY <4>1
    <3>10. CASE Refuse(c)
      <4>1. Goes("serve", "done")
        BY <3>10 DEF Refuse, Ending, ClientPlace, Written
      <4> QED
        BY <4>1
    <3>11. CASE Compile(c)
      <4>1. Goes("serve", "done")
        BY <3>11 DEF Compile, Ending, ClientPlace, Written
      <4> QED
        BY <4>1
    <3> HIDE DEF Moves
    <3> QED
      BY <1>4, <3>1, <3>2, <3>3, <3>4, <3>5, <3>6, <3>7, <3>8, <3>9, <3>10,
         <3>11 DEF Step
  <2>2. args' = args \/ \E w : args' = [args EXCEPT ![c] = w]
    BY <1>4
       DEF Step, RunHere, UnknownCompiler, Offload, RunLocally, Rewrite,
           Unresolved, Preprocess, Send, SessionFails, Refuse, Compile
  <2>3. sent' = sent \/ \E w : sent' = [sent EXCEPT ![c] = w]
    BY <1>4
       DEF Step, RunHere, UnknownCompiler, Offload, RunLocally, Rewrite,
           Unresolved, Preprocess, Send, SessionFails, Refuse, Compile
  <2>4. end' = end \/ \E w : end' = [end EXCEPT ![c] = w]
    BY <1>4
       DEF Step, RunHere, UnknownCompiler, Offload, RunLocally, Rewrite,
           Unresolved, Preprocess, Send, SessionFails, Refuse, Compile, Ending
  <2>5. got' = got \/ \E w : got' = [got EXCEPT ![c] = w]
    BY <1>4
       DEF Step, RunHere, UnknownCompiler, Offload, RunLocally, Rewrite,
           Unresolved, Preprocess, Send, SessionFails, Refuse, Compile
  <2>6. PICK here, there : Goes(here, there)
    BY <2>1
  <2>7. /\ pc[c] = here /\ pc' = [pc EXCEPT ![c] = there]
        /\ cmd' = cmd /\ compiler' = compiler
    BY <2>6 DEF At
  <2>8. pc'[c] = there
    BY <1>2, <2>7
  <2> HIDE DEF Moves
  <2>9. Only(pc, pc')
    BY <1>1, <2>7, ExceptOne DEF Functions
  <2>10. Only(args, args')
    BY <1>1, <2>2, ExceptOne DEF Functions
  <2>11. Only(sent, sent')
    BY <1>1, <2>3, ExceptOne DEF Functions
  <2>12. Only(end, end')
    BY <1>1, <2>4, ExceptOne DEF Functions
  <2>13. Only(got, got')
    BY <1>1, <2>5, ExceptOne DEF Functions
  <2>14. Others(c)
    BY <2>7, <2>9, <2>10, <2>11, <2>12, <2>13 DEF Others
  <2>15. /\ there # "idle" /\ here # "idle"
         /\ here \in Written => there \in Written
    BY <2>6
  <2> HIDE DEF Goes
  <2> QED
    BY <2>7, <2>8, <2>14, <2>15 DEF OneMoves
<1> QED
  BY <1>3, <1>4

(* What a client may write is settled by its command.                       *)
LEMMA OutputsStay ==
  ASSUME NEW c \in Client, cmd'[c] = cmd[c], compiler'[c] = compiler[c]
  PROVE  /\ Outputs(c)' = Outputs(c) /\ ReadFiles(c)' = ReadFiles(c)
         /\ DotiFile(c)' = DotiFile(c) /\ Local(c)' = Local(c)
         /\ (NoSource(c)' <=> NoSource(c)) /\ (Misread(c)' <=> Misread(c))
         /\ (AlreadyPreprocessed(c)' <=> AlreadyPreprocessed(c))
         /\ (Astray(c)' <=> Astray(c)) /\ (Strays(c)' <=> Strays(c))
         /\ Prepared(c)' = Prepared(c)
<1>1. DotiFile(c)' = DotiFile(c)
  BY DEF DotiFile
<1>2. (Known(c)' <=> Known(c)) /\ (Understood(c)' <=> Understood(c))
  BY DEF Known, Understood
<1>3. Outputs(c)' = Outputs(c)
  BY <1>1, <1>2 DEF Outputs
<1>4. ReadFiles(c)' = ReadFiles(c)
  BY <1>1 DEF ReadFiles
<1>5. cxx'[c] = cxx[c]
  BY DEF cxx
<1>6. Local(c)' = Local(c)
  BY <1>5 DEF Local
<1>7. Source1(c)' = Source1(c)
  BY DEF Source1
<1>8. (NoSource(c)' <=> NoSource(c)) /\ (Misread(c)' <=> Misread(c))
  BY <1>5, <1>7 DEF NoSource, Misread
<1>9. AlreadyPreprocessed(c)' <=> AlreadyPreprocessed(c)
  BY DEF AlreadyPreprocessed
<1>10. Prepared(c)' = Prepared(c)
  BY <1>5 DEF Prepared
<1>11. (Astray(c)' <=> Astray(c)) /\ (Strays(c)' <=> Strays(c))
  BY DEF Astray, Strays
<1> QED
  BY <1>1, <1>3, <1>4, <1>6, <1>8, <1>9, <1>10, <1>11

(* A file that two clients share they share for good.                       *)
LEMMA SharedStays ==
  ASSUME NEW c \in Client, OneMoves(c), Course(c),
         NEW d \in Client, pc[d] # "idle", Shared(d)
  PROVE  Shared(d)'
<1>1. cmd'[d] = cmd[d] /\ compiler'[d] = compiler[d]
  BY DEF OneMoves, Others
<1>2. ReadFiles(d)' = ReadFiles(d)
  BY <1>1, OutputsStay
<1>3. PICK e \in Client \ {d} : Outputs(e) \cap ReadFiles(d) # {}
  BY DEF Shared
<1>4. Outputs(e)' = Outputs(e)
  <2>1. CASE e # c \/ pc[c] # "idle"
    <3>1. cmd'[e] = cmd[e] /\ compiler'[e] = compiler[e]
      BY <2>1 DEF OneMoves, Others
    <3> QED
      BY <3>1, OutputsStay
  <2>2. CASE e = c /\ pc[c] = "idle"
    BY <1>3, <2>2, IdleWritesNothing DEF Course
  <2> QED
    BY <2>1, <2>2
<1> QED
  BY <1>2, <1>3, <1>4 DEF Shared

(* A step leaves this file as it is.                                        *)
Untouched(n) ==
  /\ n \in DOMAIN files' <=> n \in DOMAIN files
  /\ FileAt(files', n) = FileAt(files, n)

(* A file is written, and the others are left.                              *)
LEMMA WritesOne ==
  ASSUME NEW name, NEW content, Writes(name, content)
  PROVE  FileAt(files', name) = content /\ \A n : n # name => Untouched(n)
BY DEF Writes, FileAt, Untouched

(* A client whose command the wrapper has taken.                            *)
LEMMA TakenByWrapper ==
  ASSUME WrapInv, NEW c \in Client, Course(c),
         pc[c] \in {"rewrite", "preprocess", "send", "serve"}
  PROVE  /\ cmd[c] \in Commands[c] /\ Reading(cmd[c]) /\ Handled(cmd[c])
         /\ DotiFile(c) = DotiOf(cmd[c])
         /\ DotiFile(c) \in Outputs(c) /\ ObjectFile(cmd[c]) \in Outputs(c)
<1>1. IsOK(c)
  BY DEF WrapInv
<1>2. cmd[c] \in Commands[c] /\ Reading(cmd[c])
  BY <1>1, Zenon DEF IsOK, ClientOK
<1>3. Handled(cmd[c])
  BY <1>2, ReadingIsHandled
<1>4. Known(c) /\ Understood(c)
  BY <1>2 DEF Course, Understood, Reading
<1>5. Objects(cmd[c]) # {}
  BY <1>2 DEF Reading, CanHandle
<1> QED
  BY <1>2, <1>3, <1>4, <1>5 DEF Outputs, DotiFile, DotiOf

(* What a client writes is its object, or its preprocessed file.            *)
LEMMA StepWrites ==
  ASSUME WrapInv, NEW c \in Client, Course(c), Step(c)
  PROVE  \/ files' = files
         \/ /\ pc[c] # "idle" /\ pc'[c] \in Written
            /\ \E name \in Outputs(c) : \E content : Writes(name, content)
<1>1. IsOK(c) /\ Ranges
  BY DEF WrapInv
<1>2. ASSUME NEW here, NEW there, At(c, here, there)
      PROVE  pc[c] = here /\ pc'[c] = there
  BY <1>1, <1>2 DEF Ranges, At
<1>3. CASE RunLocally(c)
  <2>1. pc[c] = "local" /\ pc'[c] = "done"
    <3>1. At(c, "local", "done")
      BY <1>3 DEF RunLocally, Ending
    <3> QED
      BY <1>2, <3>1
  <2>2. cmd[c] \in Commands[c]
    BY <1>1, <2>1, Zenon DEF IsOK, ClientOK
  <2>3. CASE Objects(cmd[c]) # {}
    <3>1. PICK r \in Run(cxx[c], cmd[c], files, "client") :
            IF r.ok THEN Writes(OutputFile(cmd[c]), r.out) ELSE UNCHANGED files
      BY <1>3, <2>3 DEF RunLocally
    <3>2. CASE r.ok
      <4>1. OutputFile(cmd[c]) = ObjectFile(cmd[c])
        BY <2>2, <2>3, <3>2, LocalWrites
      <4>2. ObjectFile(cmd[c]) \in Outputs(c)
        BY <2>3 DEF Outputs
      <4> QED
        BY <2>1, <3>1, <3>2, <4>1, <4>2 DEF Written
    <3> QED
      BY <3>1, <3>2
  <2> QED
    BY <1>3, <2>3 DEF RunLocally
<1>4. CASE Preprocess(c)
  <2>1. pc[c] = "preprocess"
    BY <1>4 DEF Preprocess
  <2>2. args[c] = RewriteLocalArgs(cmd[c])
    BY <1>1, <2>1, Zenon DEF IsOK, ClientOK
  <2>3. PICK r \in Run(cxx[c], Prec(cmd[c]), files, "client") :
          /\ \/ r.ok /\ At(c, "preprocess", "send")
             \/ ~r.ok
          /\ IF r.ok THEN Writes(OutputFile(Prec(cmd[c])), r.out)
                     ELSE UNCHANGED files
    BY <1>4, <2>2 DEF Preprocess, Prec
  <2>4. CASE r.ok
    <3>1. pc'[c] = "send"
      BY <1>2, <2>3, <2>4
    <3>2. /\ Handled(cmd[c]) /\ DotiFile(c) = DotiOf(cmd[c])
          /\ DotiFile(c) \in Outputs(c)
      BY <2>1, TakenByWrapper
    <3>3. OutputFile(Prec(cmd[c])) = DotiFile(c)
      BY <2>4, <3>2, PrecWrites
    <3> QED
      BY <2>1, <2>3, <2>4, <3>1, <3>2, <3>3 DEF Written
  <2> QED
    BY <2>3, <2>4
<1>5. CASE Compile(c)
  <2>1. pc[c] = "serve" /\ pc'[c] = "done"
    <3>1. At(c, "serve", "done")
      BY <1>5 DEF Compile, Ending
    <3> QED
      BY <1>2, <3>1
  <2>2. args[c] = RewriteLocalArgs(cmd[c])
    BY <1>1, <2>1, Zenon DEF IsOK, ClientOK
  <2>3. Taken(cmd[c]) /\ ObjectFile(cmd[c]) \in Outputs(c)
    BY <2>1, TakenByWrapper, HandledApart
  <2>4. ObjectFile(args[c]) = ObjectFile(cmd[c])
    BY <2>2, <2>3, RewriteReads
  <2>5. \/ files' = files
        \/ \E content : Writes(ObjectFile(args[c]), content)
    BY <1>5 DEF Compile
  <2> QED
    BY <2>1, <2>3, <2>4, <2>5 DEF Written
<1>6. CASE ~RunLocally(c) /\ ~Preprocess(c) /\ ~Compile(c)
  BY <1>6 DEF Step, Start, RunHere, UnknownCompiler, Offload, Rewrite,
              Unresolved, Send, SessionFails, Refuse
<1> QED
  BY <1>3, <1>4, <1>5, <1>6

(* What differs from the beginning is due to one that has written.          *)
LEMMA FilesKept ==
  ASSUME DirInv, NEW c \in Client, Step(c)
  PROVE  FilesInv'
<1>1. OneMoves(c)
  BY StepMoves DEF DirInv
<1>2. WrapInv /\ FilesInv /\ Course(c)
  BY DEF DirInv
<1>3. ASSUME NEW d \in Client, pc[d] \in Written
      PROVE  pc'[d] \in Written /\ Outputs(d)' = Outputs(d)
  <2>1. pc[d] # "idle"
    BY <1>3 DEF Written
  <2>2. /\ pc'[d] \in Written
        /\ cmd'[d] = cmd[d] /\ compiler'[d] = compiler[d]
    BY <1>1, <1>3, <2>1 DEF OneMoves, Others
  <2> QED
    BY <2>2, OutputsStay
<1>4. ASSUME NEW n \in DOMAIN files, files'[n] = files[n]
      PROVE  \/ n \in DOMAIN InitialFiles /\ files'[n] = InitialFiles[n]
             \/ \E d \in Client : pc'[d] \in Written /\ n \in Outputs(d)'
  BY <1>2, <1>3, <1>4 DEF FilesInv
<1>5. CASE files' = files
  BY <1>4, <1>5 DEF FilesInv
<1>6. CASE /\ pc[c] # "idle" /\ pc'[c] \in Written
           /\ \E name \in Outputs(c) : \E content : Writes(name, content)
  <2>0. PICK name \in Outputs(c) : \E content : Writes(name, content)
    BY <1>6
  <2>1. PICK content : Writes(name, content)
    BY <2>0
  <2>2. Outputs(c)' = Outputs(c)
    <3>1. cmd'[c] = cmd[c] /\ compiler'[c] = compiler[c]
      BY <1>1, <1>6 DEF OneMoves
    <3> QED
      BY <3>1, OutputsStay
  <2>3. ASSUME NEW n \in DOMAIN files'
        PROVE  \/ n \in DOMAIN InitialFiles /\ files'[n] = InitialFiles[n]
               \/ \E d \in Client : pc'[d] \in Written /\ n \in Outputs(d)'
    <3>1. CASE n = name
      BY <1>6, <2>1, <2>2, <3>1
    <3>2. CASE n # name
      <4>1. n \in DOMAIN files /\ files'[n] = files[n]
        BY <2>1, <3>2 DEF Writes
      <4> QED
        BY <1>4, <4>1
    <3> QED
      BY <3>1, <3>2
  <2> QED
    BY <2>3 DEF FilesInv
<1> QED
  BY <1>2, <1>5, <1>6, StepWrites

(* What a client reads is as it was, but for what it shares or has written. *)
LEMMA ReadsInitial ==
  ASSUME DirInv, NEW c \in Client, pc[c] \notin Written, ~Shared(c),
         NEW n \in ReadFiles(c)
  PROVE  /\ n \in DOMAIN files <=> n \in DOMAIN InitialFiles
         /\ FileAt(files, n) = FileAt(InitialFiles, n)
<1>1. FilesInv /\ DOMAIN InitialFiles \subseteq DOMAIN files
  BY DEF DirInv, WrapInv, Ranges
<1>2. CASE n \in DOMAIN files
  <2>1. ~ \E d \in Client : pc[d] \in Written /\ n \in Outputs(d)
    BY DEF Shared
  <2>2. n \in DOMAIN InitialFiles /\ files[n] = InitialFiles[n]
    BY <1>1, <1>2, <2>1 DEF FilesInv
  <2> QED
    BY <1>2, <2>2 DEF FileAt
<1>3. CASE n \notin DOMAIN files
  BY <1>1, <1>3 DEF FileAt
<1> QED
  BY <1>2, <1>3

(* An exception is one for good.                                            *)
LEMMA ExceptedStays ==
  ASSUME NEW c \in Client, OneMoves(c), Course(c),
         NEW d \in Client, pc[d] # "idle"
  PROVE  /\ Excepted(d) => Excepted(d)'
         /\ Excused(d) => Excused(d)'
         /\ \A obj : LikeLocal(d, obj) => LikeLocal(d, obj)'
<1>1. cmd'[d] = cmd[d] /\ compiler'[d] = compiler[d]
  BY DEF OneMoves, Others
<1>2. Shared(d) => Shared(d)'
  BY SharedStays
<1>3. /\ Local(d)' = Local(d)
      /\ (NoSource(d)' <=> NoSource(d)) /\ (Misread(d)' <=> Misread(d))
      /\ (AlreadyPreprocessed(d)' <=> AlreadyPreprocessed(d))
      /\ (Astray(d)' <=> Astray(d)) /\ (Strays(d)' <=> Strays(d))
  BY <1>1, OutputsStay
<1>4. Excepted(d) => Excepted(d)'
  BY <1>2, <1>3 DEF Excepted
<1>5. Excused(d) => Excused(d)'
  BY <1>1, <1>2, <1>3 DEF Excused
<1>6. \A obj : LikeLocal(d, obj) => LikeLocal(d, obj)'
  BY <1>1, <1>2, <1>3 DEF LikeLocal
<1> QED
  BY <1>4, <1>5, <1>6

(* The others' files are theirs, unless they are shared.                    *)
LEMMA OthersCourse ==
  ASSUME DirInv, NEW c \in Client, Step(c), NEW d \in Client, d # c
  PROVE  Course(d)'
<1>1. WrapInv /\ Course(c) /\ Course(d) /\ IsOK(d)
  BY DEF DirInv, WrapInv
<1>2. OneMoves(c)
  BY <1>1, StepMoves
<1>3. /\ pc'[d] = pc[d] /\ cmd'[d] = cmd[d] /\ compiler'[d] = compiler[d]
      /\ sent'[d] = sent[d] /\ end'[d] = end[d] /\ got'[d] = got[d]
  BY <1>2 DEF OneMoves, Others
<1>4. Known(d)' <=> Known(d)
  BY <1>3 DEF Known
<1>5. CASE pc[d] = "idle"
  <2>1. sent[d] = Nothing /\ end[d] = "none"
    BY <1>1, <1>5, Zenon DEF IsOK, ClientOK
  <2> QED
    BY <1>1, <1>3, <1>5, <2>1 DEF Course, Failing
<1>6. CASE pc[d] # "idle"
  <2>1. /\ Excepted(d) => Excepted(d)'
        /\ Excused(d) => Excused(d)'
        /\ \A obj : LikeLocal(d, obj) => LikeLocal(d, obj)'
    BY <1>1, <1>2, <1>6, ExceptedStays
  <2>2. /\ DotiFile(d)' = DotiFile(d) /\ ReadFiles(d)' = ReadFiles(d)
        /\ Prepared(d)' = Prepared(d)
    BY <1>3, OutputsStay
  <2>3. CASE ~Shared(d)'
    <3>1. FileAt(files', DotiFile(d)) = FileAt(files, DotiFile(d))
      <4>1. CASE files' = files
        BY <4>1
      <4>2. CASE /\ pc[c] # "idle"
                 /\ \E name \in Outputs(c) : \E content : Writes(name, content)
        <5>0. PICK name \in Outputs(c) : \E content : Writes(name, content)
          BY <4>2
        <5>1. PICK content : Writes(name, content)
          BY <5>0
        <5>2. Outputs(c)' = Outputs(c)
          <6>1. cmd'[c] = cmd[c] /\ compiler'[c] = compiler[c]
            BY <1>2, <4>2 DEF OneMoves
          <6> QED
            BY <6>1, OutputsStay
        <5>3. name # DotiFile(d)
          BY <2>2, <2>3, <5>1, <5>2 DEF Shared, ReadFiles
        <5> QED
          BY <5>1, <5>3, WritesOne DEF Untouched
      <4> QED
        BY <1>1, <4>1, <4>2, StepWrites
    <3>2. pc'[d] = "send" => \/ Excepted(d)'
                             \/ (FileAt(files, DotiFile(d)) \in Prepared(d))'
      BY <1>1, <1>3, <2>1, <2>2, <3>1 DEF Course
    <3>3. /\ pc'[d] \in {"rewrite", "preprocess", "send", "serve"}
               => Known(d)'
          /\ sent'[d] # Nothing
               => Excepted(d)' \/ (sent[d].doti \in Prepared(d))'
          /\ end'[d] = "object" => LikeLocal(d, got[d])'
          /\ end'[d] \in Failing => Excused(d)'
      BY <1>1, <1>3, <1>4, <2>1, <2>2 DEF Course, LikeLocal
    <3> QED
      BY <1>3, <1>6, <3>2, <3>3 DEF Course
  <2>4. CASE Shared(d)'
    <3>1. Excepted(d)' /\ Excused(d)' /\ LikeLocal(d, got[d])'
      BY <2>4 DEF Excepted, Excused, LikeLocal
    <3> QED
      BY <1>1, <1>3, <1>4, <1>6, <2>4, <3>1 DEF Course, LikeLocal
  <2> QED
    BY <2>3, <2>4
<1> QED
  BY <1>5, <1>6

(* And for the client that moves.                                           *)
LEMMA OwnCourse ==
  ASSUME DirInv, NEW c \in Client, Step(c), pc[c] # "idle",
         pc'[c] \in {"rewrite", "preprocess", "send", "serve"} => Known(c),
         pc'[c] = "send" => \/ Excepted(c)
                            \/ FileAt(files', DotiFile(c)) \in Prepared(c),
         sent'[c] # Nothing => Excepted(c) \/ sent'[c].doti \in Prepared(c),
         end'[c] = "object" => LikeLocal(c, got'[c]),
         end'[c] \in Failing => Excused(c)
  PROVE  Course(c)'
<1>1. OneMoves(c) /\ Course(c)
  BY StepMoves DEF DirInv
<1>2. /\ pc'[c] # "idle" /\ cmd'[c] = cmd[c] /\ compiler'[c] = compiler[c]
  BY <1>1 DEF OneMoves
<1>3. Known(c)' <=> Known(c)
  BY <1>2 DEF Known
<1>4. /\ Excepted(c) => Excepted(c)'
      /\ Excused(c) => Excused(c)'
      /\ \A obj : LikeLocal(c, obj) => LikeLocal(c, obj)'
  BY <1>1, ExceptedStays
<1>5. /\ DotiFile(c)' = DotiFile(c)
      /\ Prepared(c)' = Prepared(c)
  BY <1>2, OutputsStay
<1>6. pc'[c] = "send" => \/ Excepted(c)'
                         \/ (FileAt(files, DotiFile(c)) \in Prepared(c))'
  BY <1>4, <1>5
<1>7. sent'[c] # Nothing => Excepted(c)' \/ (sent[c].doti \in Prepared(c))'
  BY <1>4, <1>5
<1>8. end'[c] = "object" => LikeLocal(c, got[c])'
  BY <1>4, <1>5 DEF LikeLocal
<1> QED
  BY <1>2, <1>3, <1>4, <1>6, <1>7, <1>8 DEF Course

(* What an unexceptional command is.                                        *)
LEMMA Unexcepted ==
  ASSUME DirInv, NEW c \in Client,
         pc[c] \in {"rewrite", "preprocess", "send", "serve"}
  PROVE  /\ ~NoSource(c) /\ ~Strays(c) /\ ~AlreadyPreprocessed(c)
              => Plainly(cmd[c])
         /\ ~Misread(c) => SameLang(cxx[c], cmd[c])
<1>1. Handled(cmd[c])
  BY TakenByWrapper DEF DirInv
<1>2. Source1(c) = SourceAt(cmd[c])
  BY DEF Source1, SourceAt
<1>3. SourceFile(cmd[c]) = cmd[c][SourceAt(cmd[c])]
  BY DEF SourceFile, SourceAt
<1>4. ~NoSource(c) /\ ~Strays(c) => Sound(cmd[c])
  BY <1>2, <1>3 DEF NoSource, Strays, Sound
<1>5. ~NoSource(c) /\ ~Strays(c) /\ ~AlreadyPreprocessed(c)
        => Plainly(cmd[c])
  BY <1>1, <1>3, <1>4 DEF AlreadyPreprocessed, Plainly
<1>6. ~Misread(c) => SameLang(cxx[c], cmd[c])
  BY <1>2, <1>3, Zenon DEF Misread, SameLang
<1> QED
  BY <1>5, <1>6

LEMMA StraysAreAstray ==
  ASSUME NEW c \in Client, Strays(c)
  PROVE  Astray(c)
BY DEF Strays, Astray

(* The preprocessor finds what it would have found in the beginning.        *)
LEMMA PreprocessesAsFirst ==
  ASSUME DirInv, NEW c \in Client, pc[c] = "preprocess", ~Excepted(c)
  PROVE  Run(cxx[c], Prec(cmd[c]), files, "client")
           = Run(cxx[c], Prec(cmd[c]), InitialFiles, "client")
<1>1. Plainly(cmd[c])
  BY Unexcepted DEF Excepted
<1>2. pc[c] \notin Written /\ ~Shared(c)
  BY DEF Written, Excepted
<1>3. SourceFile(cmd[c]) \in ReadFiles(c)
      /\ Included(cmd[c]) \subseteq ReadFiles(c)
  BY DEF ReadFiles
<1>4. /\ FileAt(files, SourceFile(cmd[c]))
           = FileAt(InitialFiles, SourceFile(cmd[c]))
      /\ \A f \in Included(cmd[c]) :
           f \in DOMAIN files <=> f \in DOMAIN InitialFiles
  BY <1>2, <1>3, ReadsInitial
<1> QED
  BY <1>1, <1>4, SameOutcome

(* The preprocessor writes what is to be sent, or fails as it would here.   *)
LEMMA PreprocessCourse ==
  ASSUME DirInv, NEW c \in Client, Preprocess(c)
  PROVE  Course(c)'
<1> DEFINE line == cmd[c]
<1>1. pc[c] = "preprocess"
  BY DEF Preprocess
<1>2. WrapInv /\ IsOK(c) /\ Course(c) /\ Ranges /\ Functions
  BY DEF DirInv, WrapInv
<1>3. args[c] = RewriteLocalArgs(line) /\ sent[c] = Nothing
  BY <1>1, <1>2, Zenon DEF IsOK, ClientOK
<1>4. PICK r \in Run(cxx[c], Prec(line), files, "client") :
        /\ \/ r.ok /\ At(c, "preprocess", "send") /\ UNCHANGED end
           \/ ~r.ok /\ Ending(c, "preprocess", "preprocessor")
        /\ IF r.ok THEN Writes(OutputFile(Prec(line)), r.out)
                   ELSE UNCHANGED files
        /\ UNCHANGED <<args, sent, got>>
  BY <1>3 DEF Preprocess, Prec
<1>5. /\ Handled(line) /\ DotiFile(c) = DotiOf(line) /\ Known(c)
  BY <1>1, <1>2, TakenByWrapper DEF Course
<1>6. end[c] = "none"
  BY <1>1, <1>2, Zenon DEF IsOK, ClientOK
<1>7. ~Excepted(c) => /\ Plainly(line)
                      /\ r \in Run(cxx[c], Prec(line), InitialFiles, "client")
  BY <1>1, <1>4, PreprocessesAsFirst, Unexcepted DEF Excepted
<1>8. CASE r.ok
  <2>1. pc'[c] = "send" /\ end'[c] = "none" /\ sent'[c] = Nothing
    BY <1>2, <1>3, <1>4, <1>6, <1>8 DEF At, Ranges
  <2>2. OutputFile(Prec(line)) = DotiFile(c)
    BY <1>5, <1>8, PrecWrites
  <2>3. FileAt(files', DotiFile(c)) = r.out
    BY <1>4, <1>8, <2>2, WritesOne
  <2>4. ~Excepted(c) => r.out \in Prepared(c)
    BY <1>7, <1>8 DEF Prepared
  <2> QED
    BY <1>1, <1>5, <2>1, <2>3, <2>4, OwnCourse DEF Step, Failing
<1>9. CASE ~r.ok
  <2>1. pc'[c] = "done" /\ end'[c] = "preprocessor" /\ sent'[c] = Nothing
    BY <1>2, <1>3, <1>4, <1>9 DEF At, Ending, Ranges
  <2>2. Excused(c)
    <3>1. CASE ~Excepted(c) /\ Has(line, {F("-c")})
      <4>1. Run(cxx[c], line, InitialFiles, "client") = {Failure}
        BY <1>7, <1>9, <3>1, PrecOutcome
      <4> QED
        BY <4>1 DEF Excused, Local
    <3> QED
      BY <3>1, StraysAreAstray DEF Excused, Excepted
  <2> QED
    BY <1>1, <2>1, <2>2, OwnCourse DEF Step
<1> QED
  BY <1>8, <1>9

(* What is sent is what the preprocessor wrote, and it did write something. *)
LEMMA SendCourse ==
  ASSUME DirInv, NEW c \in Client, Send(c)
  PROVE  Course(c)'
<1>1. pc[c] = "send"
  BY DEF Send
<1>2. WrapInv /\ IsOK(c) /\ Course(c) /\ Ranges /\ Functions
  BY DEF DirInv, WrapInv
<1>3. sent[c] = Nothing /\ end[c] = "none"
  BY <1>1, <1>2, Zenon DEF IsOK, ClientOK
<1>4. Excepted(c) \/ FileAt(files, DotiFile(c)) \in Prepared(c)
  BY <1>1, <1>2 DEF Course
<1>5. CASE /\ FileAt(files, DotiFile(c)) # NoFile
           /\ At(c, "send", "serve")
           /\ sent' = [sent EXCEPT ![c] =
                [args |-> CompilerCmd(args[c], DotiFile(c)),
                 doti |-> files[DotiFile(c)]]]
           /\ UNCHANGED end
  <2>1. pc'[c] = "serve" /\ end'[c] = "none"
    BY <1>2, <1>3, <1>5 DEF At, Ranges
  <2>2. sent'[c].doti = FileAt(files, DotiFile(c))
    <3>1. IsFunction(sent)
      BY <1>2 DEF Functions
    <3> DEFINE m == [args |-> CompilerCmd(args[c], DotiFile(c)),
                     doti |-> files[DotiFile(c)]]
    <3>2. m.doti = FileAt(files, DotiFile(c))
      BY <1>5 DEF FileAt
    <3>3. sent' = [sent EXCEPT ![c] = m]
      BY <1>5
    <3> HIDE DEF m
    <3>4. sent'[c] = m
      BY <3>1, <3>3 DEF IsFunction
    <3> QED
      BY <3>2, <3>4
  <2>3. Known(c)
    BY <1>1, <1>2 DEF Course
  <2> QED
    BY <1>1, <1>4, <2>1, <2>2, <2>3, OwnCourse DEF Step, Failing
<1>6. CASE /\ FileAt(files, DotiFile(c)) = NoFile
           /\ Ending(c, "send", "no file") /\ UNCHANGED sent
  <2>1. pc'[c] = "done" /\ end'[c] = "no file" /\ sent'[c] = Nothing
    BY <1>2, <1>3, <1>6 DEF At, Ending, Ranges
  <2>2. Excepted(c)
    <3>1. CASE ~Excepted(c)
      <4>1. PICK p \in Run(cxx[c], Prec(cmd[c]), InitialFiles, "client") :
              p.ok /\ p.out = NoFile
        BY <1>4, <1>6, <3>1 DEF Prepared
      <4>2. Plainly(cmd[c])
        BY <1>1, <3>1, Unexcepted DEF Excepted
      <4> QED
        BY <4>1, <4>2, PrecKind
    <3> QED
      BY <3>1
  <2>3. Excused(c)
    BY <2>2, StraysAreAstray DEF Excused, Excepted
  <2> QED
    BY <1>1, <2>1, <2>3, OwnCourse DEF Step
<1> QED
  BY <1>5, <1>6 DEF Send

(* What the server was sent, and whether it takes it.                       *)
LEMMA ServerTakes ==
  ASSUME DirInv, NEW c \in Client, pc[c] = "serve"
  PROVE  /\ sent[c].args = Sent(cmd[c])
         /\ CanHandle(sent[c].args) <=> ~NoSource(c)
         /\ Excepted(c) \/ sent[c].doti \in Prepared(c)
<1> DEFINE line == cmd[c]
           argv == RewriteLocalArgs(line)
<1>1. IsOK(c) /\ Course(c) /\ WrapInv
  BY DEF DirInv, WrapInv
<1>2. sent[c] # Nothing
  BY <1>1, Zenon DEF IsOK, ClientOK
<1>3. /\ line \in Commands[c] /\ Reading(line)
      /\ sent[c].args = CompilerCmd(argv, DotiOf(line))
  BY <1>1, <1>2, Zenon DEF IsOK, ClientOK
<1>4. Taken(line) /\ Sending(argv, DotiOf(line))
  BY <1>3, CommandIsTaken
<1>5. Sources(argv) = Sources(line) /\ Dropped(argv) = Dropped(line)
  BY <1>4, RewriteReads
<1>6. SourceAt(argv) = Source1(c)
  BY <1>5 DEF SourceAt, Source1
<1>7. CanHandle(sent[c].args) <=> ~NoSource(c)
  BY <1>3, <1>4, <1>5, <1>6, SentReads DEF NoSource
<1>8. Excepted(c) \/ sent[c].doti \in Prepared(c)
  BY <1>1, <1>2 DEF Course
<1> QED
  BY <1>3, <1>7, <1>8 DEF Sent

(* The server makes of it what would be made here.                          *)
LEMMA CompileCourse ==
  ASSUME DirInv, NEW c \in Client, Compile(c)
  PROVE  Course(c)'
<1> DEFINE line == cmd[c]
           x    == cxx[c]
<1>1. pc[c] = "serve" /\ CanHandle(sent[c].args) /\ sent' = sent
  BY DEF Compile
<1>2. WrapInv /\ IsOK(c) /\ Course(c) /\ Ranges /\ Functions
  BY DEF DirInv, WrapInv
<1>3. /\ sent[c].args = Sent(line) /\ ~NoSource(c)
      /\ Excepted(c) \/ sent[c].doti \in Prepared(c)
  BY <1>1, ServerTakes
<1>4. PICK r \in Run(x, ServerCmd(Sent(line)), ServerFiles(sent[c].doti),
                     "server") :
        \/ /\ r.ok /\ Ending(c, "serve", "object")
           /\ got' = [got EXCEPT ![c] = r.out]
        \/ /\ ~r.ok /\ Ending(c, "serve", "compiler")
  BY <1>3 DEF Compile
<1>5. ASSUME ~Misread(c), ~Excepted(c)
      PROVE  /\ r.ok => \E l \in Local(c) :
                           l.ok /\ r.out = NamedCPU(line, l.out)
             /\ /\ ~r.ok /\ Has(line, {F("-c")})
                /\ ~Has(line, {F("-M"), F("-imacros")}) /\ ~Astray(c)
                => Failure \in Local(c)
  <2>1. Plainly(line) /\ SameLang(x, line)
    BY <1>1, <1>5, Unexcepted DEF Excepted
  <2>2. PICK p \in Run(x, Prec(line), InitialFiles, "client") :
          p.ok /\ p.out = sent[c].doti
    BY <1>3, <1>5 DEF Prepared
  <2>3. r \in Run(x, ServerCmd(Sent(line)), ServerFiles(p.out), "server")
    BY <1>4, <2>2
  <2>4. ~Astray(c) =>
          (Has(line, {F("-MQ"), F("-MP")}) => Has(line, {F("-MMD")}))
    BY DEF Astray
  <2>5. Local(c) = Run(x, line, InitialFiles, "client")
    BY DEF Local
  <2> HIDE DEF x, line
  <2>6. r.ok => \E l \in Run(x, line, InitialFiles, "client") :
                  l.ok /\ r.out = NamedCPU(line, l.out)
    BY <2>1, <2>2, <2>3, ServerOutcome
  <2>7. /\ ~r.ok /\ Has(line, {F("-c")})
        /\ ~Has(line, {F("-M"), F("-imacros")})
        /\ Has(line, {F("-MQ"), F("-MP")}) => Has(line, {F("-MMD")})
        => Failure \in Run(x, line, InitialFiles, "client")
    BY <2>1, <2>2, <2>3, ServerOutcome
  <2> QED
    BY <2>4, <2>5, <2>6, <2>7
<1>6. CASE r.ok
  <2>1. pc'[c] = "done" /\ end'[c] = "object" /\ got'[c] = r.out
    BY <1>2, <1>4, <1>6 DEF At, Ending, Ranges, Functions, IsFunction
  <2>2. LikeLocal(c, r.out)
    BY <1>3, <1>5, <1>6 DEF LikeLocal, Excepted
  <2> QED
    BY <1>1, <1>3, <2>1, <2>2, OwnCourse DEF Step, Failing
<1>7. CASE ~r.ok
  <2>1. pc'[c] = "done" /\ end'[c] = "compiler"
    BY <1>2, <1>4, <1>7 DEF At, Ending, Ranges
  <2>2. Excused(c)
    <3>1. Has(line, {F("-M"), F("-imacros")})
            <=> Has(cmd[c], {F("-M"), F("-imacros")})
      OBVIOUS
    <3> QED
      BY <1>3, <1>5, <1>7, StraysAreAstray DEF Excused, Excepted
  <2> QED
    BY <1>1, <1>3, <2>1, <2>2, OwnCourse DEF Step, Failing
<1> QED
  BY <1>6, <1>7

(* Every step of a client keeps what is due to it.                          *)
LEMMA StepCourse ==
  ASSUME DirInv, NEW c \in Client, Step(c)
  PROVE  Course(c)'
<1>1. WrapInv /\ IsOK(c) /\ Course(c) /\ Ranges /\ Functions
  BY DEF DirInv, WrapInv
<1>2. ASSUME NEW here, NEW there, At(c, here, there)
      PROVE  pc[c] = here /\ pc'[c] = there
  BY <1>1, <1>2 DEF Ranges, At
<1>3. ASSUME NEW here, NEW how, Ending(c, here, how)
      PROVE  pc[c] = here /\ pc'[c] = "done" /\ end'[c] = how
  BY <1>1, <1>2, <1>3 DEF Ranges, Ending
<1>4. CASE Start(c)
  <2>1. pc[c] = "idle" /\ pc'[c] = "route"
    BY <1>1, <1>4 DEF Start, Ranges
  <2>2. sent[c] = Nothing /\ end[c] = "none"
    BY <1>1, <2>1, Zenon DEF IsOK, ClientOK
  <2>3. sent'[c] = Nothing /\ end'[c] = "none"
    BY <1>4, <2>2 DEF Start
  <2> QED
    BY <2>1, <2>3 DEF Course, Failing
<1>5. CASE RunHere(c) \/ Offload(c) \/ Rewrite(c)
           \/ (Unresolved(c) /\ At(c, "rewrite", "local") /\ UNCHANGED end)
  <2>1. /\ pc[c] \in {"route", "rewrite"}
        /\ pc'[c] \in {"local", "rewrite", "preprocess"}
        /\ sent' = sent /\ end' = end
    BY <1>2, <1>5 DEF RunHere, Offload, Rewrite, Unresolved
  <2>2. sent[c] = Nothing /\ end[c] = "none"
    BY <1>1, <2>1, Zenon DEF IsOK, ClientOK
  <2>3. pc'[c] # "local" => Known(c)
    BY <1>1, <1>2, <1>5 DEF RunHere, Offload, Rewrite, Unresolved, Course
  <2> QED
    BY <2>1, <2>2, <2>3, OwnCourse DEF Failing
<1>6. CASE \/ UnknownCompiler(c) \/ RunLocally(c) \/ SessionFails(c)
           \/ /\ Unresolved(c)
              /\ \/ Ending(c, "rewrite", "unresolved")
                 \/ Ending(c, "rewrite", "unset")
  <2>1. /\ pc[c] # "idle" /\ pc'[c] = "done" /\ sent' = sent
        /\ end'[c] \in {"unknown", "local", "session", "unresolved", "unset"}
    BY <1>3, <1>6 DEF UnknownCompiler, RunLocally, SessionFails, Unresolved
  <2> QED
    BY <1>1, <2>1, OwnCourse DEF Course, Failing
<1>7. CASE Preprocess(c)
  BY <1>7, PreprocessCourse
<1>8. CASE Send(c)
  BY <1>8, SendCourse
<1>9. CASE Refuse(c)
  <2>1. /\ pc[c] = "serve" /\ ~CanHandle(sent[c].args) /\ sent' = sent
        /\ pc'[c] = "done" /\ end'[c] = "refused"
    BY <1>3, <1>9 DEF Refuse
  <2>2. NoSource(c)
    BY <2>1, ServerTakes
  <2> QED
    BY <1>1, <2>1, <2>2, OwnCourse DEF Course, Excused
<1>10. CASE Compile(c)
  BY <1>10, CompileCourse
<1> QED
  BY <1>4, <1>5, <1>6, <1>7, <1>8, <1>9, <1>10 DEF Step, Unresolved

LEMMA DirInit == Init => DirInv
<1> SUFFICES ASSUME Init PROVE DirInv
  OBVIOUS
<1>1. FilesInv
  BY DEF Init, FilesInv
<1>2. ASSUME NEW c \in Client PROVE Course(c)
  BY DEF Init, Course, Failing
<1> QED
  BY <1>1, <1>2, WrapInit DEF DirInv

(* The invariant of the directory: a file that is not what it was in the    *)
(* beginning is due to a client that has got as far as to write it; and     *)
(* what a client is to send, has sent and has got is what the compiler      *)
(* makes, of the files that were there in the beginning, of its command.    *)
THEOREM DirInvariance == Spec => []DirInv
<1>1. DirInv /\ [Next]_vars => DirInv'
  <2> SUFFICES ASSUME DirInv, [Next]_vars PROVE DirInv'
    OBVIOUS
  <2>1. ASSUME NEW c \in Client, Step(c) PROVE DirInv'
    <3>1. WrapInv' /\ FilesInv'
      BY <2>1, StepKeeps, FilesKept DEF DirInv
    <3>2. ASSUME NEW d \in Client PROVE Course(d)'
      BY <2>1, StepCourse, OthersCourse
    <3> QED
      BY <3>1, <3>2 DEF DirInv
  <2>2. CASE UNCHANGED vars
    <3>1. /\ compiler' = compiler /\ cmd' = cmd /\ args' = args /\ pc' = pc
          /\ sent' = sent /\ end' = end /\ got' = got /\ files' = files
      BY <2>2 DEF vars
    <3>2. WrapInv'
      BY <3>1 DEF DirInv, WrapInv, Functions, Ranges, IsOK
    <3>3. ASSUME NEW c \in Client PROVE Outputs(c)' = Outputs(c)
      BY <3>1, OutputsStay
    <3>4. FilesInv'
      BY <3>1, <3>3 DEF DirInv, FilesInv
    <3>5. ASSUME NEW c \in Client PROVE Course(c)'
      <4>1. Course(c)
        BY DEF DirInv
      <4>2. /\ ReadFiles(c)' = ReadFiles(c) /\ Local(c)' = Local(c)
            /\ DotiFile(c)' = DotiFile(c) /\ Prepared(c)' = Prepared(c)
            /\ (NoSource(c)' <=> NoSource(c)) /\ (Misread(c)' <=> Misread(c))
            /\ (AlreadyPreprocessed(c)' <=> AlreadyPreprocessed(c))
            /\ (Astray(c)' <=> Astray(c)) /\ (Strays(c)' <=> Strays(c))
        BY <3>1, OutputsStay
      <4>3. Shared(c)' <=> Shared(c)
        BY <3>3, <4>2 DEF Shared
      <4>4. Known(c)' <=> Known(c)
        BY <3>1 DEF Known
      <4>5. (Excepted(c)' <=> Excepted(c)) /\ (Excused(c)' <=> Excused(c))
            /\ (LikeLocal(c, got[c])' <=> LikeLocal(c, got[c]))
        BY <3>1, <4>2, <4>3 DEF Excepted, Excused, LikeLocal
      <4> QED
        BY <3>1, <4>1, <4>2, <4>4, <4>5 DEF Course
    <3> QED
      BY <3>2, <3>4, <3>5 DEF DirInv
  <2> QED
    BY <2>1, <2>2 DEF Next, Done
<1> QED
  BY DirInit, <1>1, PTL DEF Spec

(* An object that comes from a server is the one the compiler would have    *)
(* left here, had it been told the CPU by name, whatever the command, the   *)
(* directory and the other clients, unless it was read in another language, *)
(* was preprocessed already, or another client writes what this one reads;  *)
(* and unless what is sent has one input too many, for which no compiler    *)
(* makes an object, as the runs show.                                       *)
THEOREM ObjectAsLocal ==
  Spec => [](\A c \in Client : AsLocal(c) \/ Strays(c))
<1>1. DirInv => \A c \in Client : AsLocal(c) \/ Strays(c)
  BY DEF DirInv, Course, LikeLocal, AsLocal
<1> QED
  BY DirInvariance, <1>1, PTL

(* A command that the wrapper offloads fails in the preprocessor or on the  *)
(* server only if it may fail here, or for one of the reasons named.        *)
THEOREM FailsAsLocal == Spec => []FailsOnlyIf
<1>1. DirInv => FailsOnlyIf
  BY DEF DirInv, Course, Failing, Excused, FailsOnlyIf
<1> QED
  BY DirInvariance, <1>1, PTL

===============================================================================
