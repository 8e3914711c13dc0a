-------------------------- MODULE WrapCompiler_proofs --------------------------
(***************************************************************************)
(* What holds of WrapCompiler for any clients and commands of any length.  *)
(* Most of it is about one command, which two parse: where its parts are   *)
(* in what CompilerCmd makes of it (Layout), which of them the server      *)
(* takes for an option, for an operand and for its source (SentNaming,     *)
(* SentLooked, SentSources), and that it reads what the client has read    *)
(* (SentReads).  The rest says that clients do not touch each other's.     *)
(***************************************************************************)
EXTENDS WrapCompiler, WellFoundedInduction, SequenceTheorems, TLAPS

-----------------------------------------------------------------------------
(* Sequences *)

(* A set of numbers has a smallest one, which is how the proofs below do    *)
(* without a theorem of induction.                                          *)
LEMMA Smallest ==
  ASSUME NEW T, T \subseteq Nat, T # {}
  PROVE  \E x \in T : \A y \in T : x <= y
<1> DEFINE R == {ss \in Nat \X Nat : ss[1] < ss[2]}
<1>1. OpToRel(<, Nat) = R
  BY Zenon DEF OpToRel
<1>2. IsWellFoundedOn(R, Nat)
  BY <1>1, NatLessThanWellFounded, Zenon
<1>3. PICK x \in T : \A y \in T : ~(<<y, x>> \in R)
  BY <1>2, WFMin, Zenon
<1>4. \A y \in T : ~(y < x)
  BY <1>3
<1> QED
  BY <1>4

(* And a largest, when there is a bound.                                    *)
LEMMA Largest ==
  ASSUME NEW n \in Nat, NEW T, T \subseteq 0..n, T # {}
  PROVE  /\ Max(T) \in T
         /\ \A y \in T : y <= Max(T)
<1> DEFINE U == {m \in 0..n : n - m \in T}
<1>1. \A x \in T : n - x \in U
  <2>1. ASSUME NEW x \in T PROVE n - x \in 0..n /\ n - (n - x) = x
    OBVIOUS
  <2> QED
    BY <2>1
<1>2. PICK u \in U : \A v \in U : u <= v
  <2>1. U \subseteq Nat
    OBVIOUS
  <2>2. U # {}
    BY <1>1, Zenon
  <2> HIDE DEF U
  <2> QED
    BY <2>1, <2>2, Smallest
<1>3. PICK x \in T : x = n - u
  OBVIOUS
<1>4. \A y \in T : x >= y
  BY <1>1, <1>2, <1>3
<1> QED
  BY <1>4 DEF Max

(* An operand follows a flag, when no flag follows another. *)
LEMMA PlainOperands ==
  ASSUME NEW S, NEW s \in Seq(S), NEW flags,
         \A j \in 1..Len(s) - 1 : s[j] \in flags => s[j + 1] \notin flags
  PROVE  \A j \in 1..Len(s) :
           j \in Operands(s, flags) <=> j > 1 /\ s[j - 1] \in flags
<1> DEFINE E(f) == f = [j \in 0..Len(s) |->
                          j > 1 /\ s[j - 1] \in flags /\ ~f[j - 1]]
           g == [j \in 0..Len(s) |-> j > 1 /\ s[j - 1] \in flags]
           op == CHOOSE f : E(f)
<1>1. Len(s) \in Nat
  OBVIOUS
<1>2. ASSUME NEW j \in 0..Len(s), j > 1, s[j - 1] \in flags PROVE ~g[j - 1]
  <2>1. j - 1 \in 0..Len(s)
    BY <1>1, <1>2
  <2>2. g[j - 1] = (j - 1 > 1 /\ s[(j - 1) - 1] \in flags)
    BY <2>1, Zenon
  <2>3. ~(j - 1 > 1 /\ s[(j - 1) - 1] \in flags)
    <3>1. SUFFICES ASSUME j - 1 > 1, s[(j - 1) - 1] \in flags PROVE FALSE
      OBVIOUS
    <3>2. j - 2 \in 1..Len(s) - 1 /\ (j - 1) - 1 = j - 2 /\ (j - 2) + 1 = j - 1
      BY <1>1, <1>2, <3>1
    <3> QED
      BY <1>2, <3>1, <3>2
  <2> QED
    BY <2>2, <2>3, Zenon
<1>3. \A j \in 0..Len(s) :
        (j > 1 /\ s[j - 1] \in flags)
          = (j > 1 /\ s[j - 1] \in flags /\ ~g[j - 1])
  BY <1>2, Zenon
<1>4. E(g)
  BY <1>3, Zenon
<1>5. E(op)
  BY <1>4, Zenon
<1> HIDE DEF op
<1>6. ASSUME NEW j \in 1..Len(s), op[j] PROVE j > 1 /\ s[j - 1] \in flags
  <2>1. j \in 0..Len(s)
    BY <1>1
  <2> QED
    BY <1>5, <1>6, <2>1, Zenon
<1>7. ASSUME NEW j \in 1..Len(s), j > 1, s[j - 1] \in flags PROVE op[j]
  <2>1. j \in 0..Len(s) /\ j - 1 \in 1..Len(s) /\ j - 1 > 0
    BY <1>1, <1>7
  <2>2. ~op[j - 1]
    <3>1. SUFFICES ASSUME op[j - 1] PROVE FALSE
      OBVIOUS
    <3>2. j - 1 > 1 /\ s[(j - 1) - 1] \in flags
      BY <1>6, <2>1, <3>1, Zenon
    <3>3. j - 2 \in 1..Len(s) - 1 /\ (j - 1) - 1 = j - 2 /\ (j - 2) + 1 = j - 1
      BY <1>1, <3>2
    <3> QED
      BY <1>7, <3>2, <3>3
  <2>3. op[j] = (j > 1 /\ s[j - 1] \in flags /\ ~op[j - 1])
    BY <1>5, <2>1, Zenon
  <2> QED
    BY <1>7, <2>2, <2>3, Zenon
<1>8. Operands(s, flags) = {j \in 1..Len(s) : op[j]}
  BY DEF Operands, op
<1> QED
  BY <1>6, <1>7, <1>8, Zenon

-----------------------------------------------------------------------------
(* Concatenation *)

(* Where each of the sequences begins (after st[j] elements) and what is at *)
(* each place of their concatenation.                                       *)
Places(ss, st) ==
  LET out == FlattenSeq(ss) IN
  /\ st \in [1..Len(ss) + 1 -> Nat]
  /\ st[1] = 0
  /\ \A j \in 1..Len(ss) : st[j + 1] = st[j] + Len(ss[j])
  /\ \A i, j \in 1..Len(ss) + 1 : i <= j => st[i] <= st[j]
  /\ Len(out) = st[Len(ss) + 1]
  /\ \A j \in 1..Len(ss) : \A k \in 1..Len(ss[j]) : out[st[j] + k] = ss[j][k]
  /\ \A p \in 1..Len(out) :
       \E j \in 1..Len(ss) : \E k \in 1..Len(ss[j]) : p = st[j] + k

(* FlattenSeq's function is the one that its definition asks for.           *)
Flattening(ss, f) ==
  f = [i \in 1..Len(ss) |-> IF i = 1 THEN ss[i] ELSE f[i - 1] \o ss[i]]

LEMMA FlatteningExists ==
  ASSUME NEW S, NEW ss \in Seq(Seq(S))
  PROVE  \E f : Flattening(ss, f)
<1> DEFINE n == Len(ss)
           Upto(m, f) == f = [i \in 1..m |-> IF i = 1 THEN ss[i]
                                              ELSE f[i - 1] \o ss[i]]
           T == {m \in 0..n : ~\E f : Upto(m, f)}
<1>1. n \in Nat
  OBVIOUS
<1>2. SUFFICES ASSUME T # {} PROVE FALSE
  <2>1. n \in 0..n
    BY <1>1
  <2>2. T = {} => \E f : Upto(n, f)
    BY <2>1, Zenon
  <2> QED
    BY <1>2, <2>2, Zenon DEF Flattening
<1>3. T \subseteq Nat
  <2>1. 0..n \subseteq Nat
    BY <1>1
  <2> QED
    BY <2>1, Zenon
<1>4. PICK m \in T : \A y \in T : m <= y
  <2> HIDE DEF T
  <2> QED
    BY <1>2, <1>3, Smallest
<1>5. m \in 0..n /\ m \in Nat
  BY <1>1, <1>4
<1>6. m # 0
  <2>1. SUFFICES ASSUME m = 0 PROVE FALSE
    OBVIOUS
  <2> DEFINE e == [i \in 1..0 |-> IF i = 1 THEN ss[i] ELSE <<>> \o ss[i]]
  <2>2. \A f : [i \in 1..0 |-> IF i = 1 THEN ss[i] ELSE f[i - 1] \o ss[i]] = e
    OBVIOUS
  <2>3. Upto(0, e)
    BY <2>2
  <2> QED
    BY <1>4, <2>1, <2>3
<1>7. m - 1 \in 0..n /\ m - 1 \notin T
  <2>1. m - 1 \in 0..n /\ ~(m <= m - 1)
    BY <1>1, <1>5, <1>6
  <2> QED
    BY <1>4, <2>1, Zenon
<1>8. PICK f : Upto(m - 1, f)
  BY <1>7
<1> DEFINE g == [i \in 1..m |-> IF i = 1 THEN ss[i] ELSE f[i - 1] \o ss[i]]
<1>9. \A i \in 1..m - 1 : g[i] = f[i]
  <2>1. TAKE i \in 1..m - 1
  <2>2. i \in 1..m
    BY <1>5, <1>6
  <2>3. g[i] = IF i = 1 THEN ss[i] ELSE f[i - 1] \o ss[i]
    BY <2>2, Zenon
  <2>4. f[i] = IF i = 1 THEN ss[i] ELSE f[i - 1] \o ss[i]
    BY <1>8, <2>1, Zenon
  <2> QED
    BY <2>3, <2>4, Zenon
<1>10. ASSUME NEW i \in 1..m
       PROVE  (IF i = 1 THEN ss[i] ELSE f[i - 1] \o ss[i])
                = (IF i = 1 THEN ss[i] ELSE g[i - 1] \o ss[i])
  <2>1. CASE i = 1
    BY <2>1, Zenon
  <2>2. CASE i # 1
    <3>1. i - 1 \in 1..m - 1
      BY <1>5, <1>6, <2>2
    <3>2. g[i - 1] = f[i - 1]
      BY <1>9, <3>1, Zenon
    <3> QED
      BY <3>2, Zenon
  <2> QED
    BY <2>1, <2>2
<1>11. Upto(m, g)
  BY <1>10, Zenon
<1> QED
  BY <1>4, <1>11, Zenon

LEMMA JoinedLeft ==
  ASSUME NEW S, NEW s \in Seq(S), NEW t \in Seq(S)
  PROVE  \A k \in 1..Len(s) : (s \o t)[k] = s[k]
  OBVIOUS

LEMMA JoinedRight ==
  ASSUME NEW S, NEW s \in Seq(S), NEW t \in Seq(S), NEW k \in 1..Len(t)
  PROVE  (s \o t)[Len(s) + k] = t[k]
  OBVIOUS

LEMMA Flattened ==
  ASSUME NEW S, NEW ss \in Seq(Seq(S))
  PROVE  /\ FlattenSeq(ss) \in Seq(S)
         /\ \E st : Places(ss, st)
<1> DEFINE n == Len(ss)
           f == CHOOSE g : Flattening(ss, g)
           out == FlattenSeq(ss)
           st == [j \in 1..n + 1 |-> IF j = 1 THEN 0 ELSE Len(f[j - 1])]
<1>1. n \in Nat /\ \A j \in 1..n : ss[j] \in Seq(S) /\ Len(ss[j]) \in Nat
  OBVIOUS
<1>2. Flattening(ss, f)
  BY FlatteningExists
<1>3. CASE n = 0
  <2>1. out = ss /\ ss = <<>>
    BY <1>3 DEF FlattenSeq
  <2> DEFINE z == [j \in 1..1 |-> 0]
  <2>2. Places(ss, z)
    BY <2>1 DEF Places
  <2> QED
    BY <2>1, <2>2
<1>4. CASE n # 0
  <2>1. out = f[n]
    BY <1>4 DEF FlattenSeq, Flattening
  <2> HIDE DEF f, out
  <2>2. f[1] = ss[1]
    BY <1>1, <1>2, <1>4 DEF Flattening
  <2>3. \A i \in 2..n : f[i] = f[i - 1] \o ss[i]
    <3>1. TAKE i \in 2..n
    <3>2. i \in 1..n /\ i # 1
      BY <1>1
    <3> QED
      BY <1>2, <3>2 DEF Flattening
  <2>4. \A i \in 1..n : f[i] \in Seq(S)
    <3> DEFINE T == {i \in 1..n : f[i] \notin Seq(S)}
    <3>1. SUFFICES ASSUME T # {} PROVE FALSE
      OBVIOUS
    <3>2. T \subseteq Nat
      <4>1. n + 1 \in Nat
        BY <1>1
      <4> QED
        BY <1>1, <4>1
    <3>3. PICK m \in T : \A y \in T : m <= y
      <4> HIDE DEF T
      <4> QED
        BY <3>1, <3>2, Smallest
    <3>4. m # 1
      BY <1>1, <2>2, <3>3
    <3>5. m \in 2..n /\ m - 1 \in 1..n /\ m - 1 \notin T
      BY <1>1, <3>3, <3>4
    <3>6. f[m - 1] \in Seq(S) /\ ss[m] \in Seq(S)
      BY <1>1, <3>5
    <3>7. f[m] \in Seq(S)
      BY <2>3, <3>5, <3>6, ConcatProperties, ZenonT(60)
    <3> QED
      BY <3>3, <3>7
  <2>5. st \in [1..n + 1 -> Nat] /\ st[1] = 0
    <3>1. ASSUME NEW j \in 1..n + 1, j # 1 PROVE Len(f[j - 1]) \in Nat
      <4>1. j - 1 \in 1..n
        BY <1>1, <3>1
      <4> QED
        BY <2>4, <4>1
    <3> QED
      BY <1>1, <3>1
  <2>6. \A j \in 1..n : st[j + 1] = Len(f[j])
    BY <1>1
  <2>7. ASSUME NEW j \in 1..n PROVE st[j + 1] = st[j] + Len(ss[j])
    <3>1. CASE j = 1
      BY <1>1, <2>2, <2>5, <2>6, <3>1
    <3>2. CASE j # 1
      <4>1. j \in 2..n /\ j - 1 \in 1..n
        BY <1>1, <3>2
      <4>2. Len(f[j]) = Len(f[j - 1]) + Len(ss[j])
        <5>1. f[j] = f[j - 1] \o ss[j]
          BY <2>3, <4>1, Zenon
        <5>2. f[j - 1] \in Seq(S) /\ ss[j] \in Seq(S)
          BY <1>1, <2>4, <4>1, Zenon
        <5>3. Len(f[j - 1] \o ss[j]) = Len(f[j - 1]) + Len(ss[j])
          BY <5>2, ConcatProperties, Zenon
        <5> QED
          BY <5>1, <5>3, Zenon
      <4>3. st[j] = Len(f[j - 1])
        BY <1>1, <3>2
      <4> QED
        BY <2>6, <4>2, <4>3
    <3> QED
      BY <3>1, <3>2
  <2> HIDE DEF st
  <2>8. ASSUME NEW i \in 1..n + 1, NEW j \in 1..n + 1, i <= j
        PROVE  st[i] <= st[j]
    <3> DEFINE T == {k \in 1..n + 1 : i <= k /\ ~(st[i] <= st[k])}
    <3>1. SUFFICES ASSUME T # {} PROVE FALSE
      BY <2>8
    <3>2. T \subseteq Nat
      <4>1. n + 1 \in Nat
        BY <1>1
      <4> QED
        BY <1>1, <4>1
    <3>3. PICK m \in T : \A y \in T : m <= y
      <4> HIDE DEF T
      <4> QED
        BY <3>1, <3>2, Smallest
    <3>4. m # i
      BY <2>5, <3>3
    <3>5. m - 1 \in 1..n /\ m - 1 \in 1..n + 1 /\ i <= m - 1 /\ m - 1 \notin T
      BY <1>1, <3>3, <3>4
    <3>6. st[i] <= st[m - 1]
      BY <3>5
    <3>7. (m - 1) + 1 = m /\ m \in 1..n + 1 /\ i <= m
      BY <1>1, <3>3
    <3>8. st[m] = st[m - 1] + Len(ss[m - 1])
      BY <2>7, <3>5, <3>7
    <3>9. st[i] \in Nat /\ st[m] \in Nat /\ st[m - 1] \in Nat
          /\ Len(ss[m - 1]) \in Nat
      BY <1>1, <2>5, <3>5, <3>7
    <3>10. st[i] <= st[m]
      BY <3>6, <3>8, <3>9
    <3> QED
      BY <3>3, <3>10
  <2>9. Len(out) = st[n + 1]
    BY <1>1, <1>4, <2>1, <2>6
  <2>10. ASSUME NEW j \in 1..n, NEW k \in 1..Len(ss[j])
         PROVE  out[st[j] + k] = ss[j][k]
    <3> DEFINE T == {i \in 1..n : j <= i /\ f[i][st[j] + k] # ss[j][k]}
    <3>1. SUFFICES ASSUME T # {} PROVE FALSE
      <4>1. n \in 1..n /\ j <= n
        BY <1>1
      <4>2. n \in T \/ f[n][st[j] + k] = ss[j][k]
        BY <4>1, Zenon
      <4> QED
        BY <2>1, <4>2, Zenon
    <3>2. T \subseteq Nat
      <4>1. n + 1 \in Nat
        BY <1>1
      <4> QED
        BY <1>1, <4>1
    <3>3. PICK m \in T : \A y \in T : m <= y
      <4> HIDE DEF T
      <4> QED
        BY <3>1, <3>2, Smallest
    <3>4. /\ st[j] \in Nat /\ Len(ss[j]) \in Nat
          /\ k \in Nat /\ k >= 1 /\ k <= Len(ss[j])
      <4>1. j \in 1..n + 1
        BY <1>1
      <4>2. st[j] \in Nat
        BY <2>5, <4>1
      <4>3. Len(ss[j]) \in Nat
        BY <1>1
      <4>4. k \in Nat /\ k >= 1 /\ k <= Len(ss[j])
        BY <4>3
      <4> QED
        BY <4>2, <4>3, <4>4
    <3>5. CASE m = j
      <4>1. CASE j = 1
        BY <2>2, <2>5, <3>3, <3>4, <3>5, <4>1
      <4>2. CASE j # 1
        <5>1. j \in 2..n /\ j - 1 \in 1..n /\ (j - 1) + 1 = j
          BY <1>1, <4>2
        <5>2. st[j] = Len(f[j - 1])
          BY <2>6, <5>1
        <5>3. f[j] = f[j - 1] \o ss[j] /\ f[j - 1] \in Seq(S)
              /\ ss[j] \in Seq(S)
          BY <1>1, <2>3, <2>4, <5>1
        <5>4. f[j][Len(f[j - 1]) + k] = ss[j][k]
          <6>1. (f[j - 1] \o ss[j])[Len(f[j - 1]) + k] = ss[j][k]
            <7>1. f[j - 1] \in Seq(S) /\ ss[j] \in Seq(S)
              BY <5>3
            <7> HIDE DEF T
            <7> QED
              BY <7>1, JoinedRight, Zenon
          <6> QED
            BY <5>3, <6>1, Zenon
        <5> QED
          BY <3>3, <3>5, <5>2, <5>4
      <4> QED
        BY <4>1, <4>2
    <3>6. CASE m # j
      <4> m \in 1..n /\ j <= m
        BY <3>3, Zenon
      <4> HIDE DEF T
      <4>1. m \in 2..n /\ m - 1 \in 1..n /\ j <= m - 1 /\ ~(m <= m - 1)
        BY <1>1, <3>6
      <4>2. f[m - 1][st[j] + k] = ss[j][k]
        BY <3>3, <4>1, Zenon DEF T
      <4>3. st[j + 1] <= st[(m - 1) + 1] /\ st[(m - 1) + 1] = Len(f[m - 1])
            /\ st[j + 1] = st[j] + Len(ss[j])
        <5>1. (m - 1) + 1 \in 1..n + 1 /\ j + 1 \in 1..n + 1
              /\ j + 1 <= (m - 1) + 1
          BY <1>1, <4>1
        <5> QED
          BY <2>6, <2>7, <2>8, <4>1, <5>1
      <4>4. f[m] = f[m - 1] \o ss[m] /\ f[m - 1] \in Seq(S)
            /\ ss[m] \in Seq(S)
        BY <1>1, <2>3, <2>4, <4>1
      <4>5. st[j] + k \in 1..Len(f[m - 1])
        BY <3>4, <4>3, <4>4, SMTT(30)
      <4>6. f[m][st[j] + k] = f[m - 1][st[j] + k]
        <5>1. (f[m - 1] \o ss[m])[st[j] + k] = f[m - 1][st[j] + k]
          BY <4>4, <4>5, JoinedLeft, Zenon
        <5> QED
          BY <4>4, <5>1, Zenon
      <4> QED
        BY <3>3, <4>2, <4>6, Zenon DEF T
    <3> QED
      BY <3>5, <3>6
  <2>11. ASSUME NEW p \in 1..Len(out)
         PROVE  \E j \in 1..n : \E k \in 1..Len(ss[j]) : p = st[j] + k
    <3> DEFINE T == {i \in 1..n : p <= st[i + 1]}
    <3>1. T # {}
      <4>1. n \in T
        BY <1>1, <1>4, <2>5, <2>9
      <4> QED
        BY <4>1
    <3>2. T \subseteq Nat
      <4>1. n + 1 \in Nat
        BY <1>1
      <4> QED
        BY <1>1, <4>1
    <3>3. PICK m \in T : \A y \in T : m <= y
      <4> HIDE DEF T
      <4> QED
        BY <3>1, <3>2, Smallest
    <3>4. st[m] < p
      <4>1. CASE m = 1
        BY <2>5, <4>1
      <4>2. CASE m # 1
        <5>1. m - 1 \in 1..n /\ ~(m <= m - 1) /\ (m - 1) + 1 = m
              /\ m \in 1..n + 1
          BY <1>1, <3>3, <4>2
        <5>2. ~(p <= st[m])
          BY <3>3, <5>1, Zenon
        <5>3. st[m] \in Nat
          BY <2>5, <5>1
        <5> QED
          BY <5>2, <5>3
      <4> QED
        BY <4>1, <4>2
    <3>5. m \in 1..n /\ m \in 1..n + 1 /\ st[m] \in Nat
          /\ p <= st[m] + Len(ss[m]) /\ Len(ss[m]) \in Nat
      <4>1. m \in 1..n /\ p <= st[m + 1]
        BY <3>3, Zenon
      <4>2. m \in 1..n + 1
        BY <1>1, <4>1
      <4>3. st[m + 1] = st[m] + Len(ss[m])
        BY <2>7, <4>1, Zenon
      <4>4. st[m] \in Nat /\ Len(ss[m]) \in Nat
        BY <1>1, <2>5, <4>1, <4>2
      <4> HIDE DEF st
      <4> QED
        BY <4>1, <4>2, <4>3, <4>4
    <3>6. p - st[m] \in 1..Len(ss[m]) /\ p = st[m] + (p - st[m])
      <4>1. p \in Nat
        <5>1. Len(out) \in Nat
          BY <1>4, <2>1, <2>4
        <5> QED
          BY <5>1
      <4> HIDE DEF st
      <4> QED
        BY <3>4, <3>5, <4>1
    <3> QED
      BY <3>5, <3>6
  <2>12. Places(ss, st)
    BY <2>5, <2>7, <2>8, <2>9, <2>10, <2>11 DEF Places, out
  <2>13. out \in Seq(S)
    BY <1>1, <1>4, <2>1, <2>4
  <2> QED
    BY <2>12, <2>13 DEF out
<1> QED
  BY <1>3, <1>4

-----------------------------------------------------------------------------
(* Arguments *)

(* The last are strings too, which the provers do not know.                 *)
Word  == STRING \cup {"-x", "-E", "-march=CPU", "-mtune=CPU", "c", "c++",
                   "i", "ii", "o", "tmp"}
Words == Seq(Word) \ {<<>>}

LEMMA ArgumentsAreWords ==
  ASSUME NEW argv \in Seq(Arg)
  PROVE  argv \in Seq(Words)
<1>1. ASSUME NEW a \in Arg PROVE a \in Words
  <2>1. a \in Seq(STRING) /\ a # <<>> /\ Len(a) \in Nat
    BY DEF Arg
  <2>2. \A j \in 1..Len(a) : a[j] \in Word
    BY <2>1 DEF Word
  <2> QED
    BY <2>1, <2>2 DEF Words
<1> QED
  BY <1>1

Compilation == {F("-c"), F("-S")}
Naming == {F("-o"), F("-x")}

(* What tells one option from another, and an option from a file.           *)
LEMMA OptionsDiffer ==
  /\ F("-o") # F("-x")
  /\ Naming \cap (Alone \cup Paired \cup Native \cup Compilation
                    \cup Resolved) = {}
  /\ Compilation \cap (Alone \cup Paired \cup Native \cup Resolved) = {}
  /\ (Native \cup Resolved) \cap (Alone \cup Paired) = {}
  /\ F("c") \notin Naming /\ F("c++") \notin Naming
BY JoinedAssumption, SMT
DEF Naming, Compilation, Alone, Paired, Native, Resolved, ArchCPU, TuneCPU, F,
    Named, Languages

LEMMA OptionsAreNoSources ==
  \A x \in Naming \cup Compilation \cup Native \cup Resolved :
    ~IsSourceFile(x)
BY DEF Naming, Compilation, Native, Resolved, ArchCPU, TuneCPU, F,
       IsSourceFile, Extension, Last, SourceExtensions

(* What rewrite_local_args makes of an argument.                            *)
LEMMA RenamedIs ==
  ASSUME NEW a
  PROVE  /\ a \notin Native => Renamed(a) = a
         /\ a \in Native => Renamed(a) \in Resolved
         /\ a \in Words => Renamed(a) \in Words
<1>1. /\ a \notin Native => Renamed(a) = a
      /\ a \in Native => Renamed(a) \in Resolved
  BY DEF Renamed, Native, Resolved
<1>2. Resolved \subseteq Words
  <2>1. "-march=CPU" \in Word /\ "-mtune=CPU" \in Word
    BY DEF Word
  <2> QED
    BY <2>1 DEF Resolved, ArchCPU, TuneCPU, F, Words
<1> QED
  BY <1>1, <1>2

(* A preprocessed file is a source, and no option.                          *)
LEMMA PreprocessedIsSource ==
  ASSUME NEW src, NEW obj \in Words
  PROVE  LET d == PreprocessedFilename(src, obj) IN
         /\ d \in Words /\ IsSourceFile(d) /\ d \notin Naming \cup Compilation
         /\ Last(d) \in {"i", "ii"}
<1> DEFINE d == PreprocessedFilename(src, obj)
           e == IF WrapperLang(src) = "c++" THEN "ii" ELSE "i"
<1>0. e = "i" \/ e = "ii"
  BY Zenon
<1> HIDE DEF e
<1>1. e \in Word /\ e \in {"i", "ii"}
  BY <1>0 DEF Word
<1>2. Front(obj) \in Seq(Word)
  <2>1. obj \in Seq(Word) /\ obj # <<>>
    BY DEF Words
  <2> QED
    BY <2>1 DEF Front
<1>3. d = Append(Front(obj), e)
  BY DEF PreprocessedFilename, e
<1>4. d \in Seq(Word) /\ d # <<>> /\ Last(d) = e
  BY <1>1, <1>2, <1>3 DEF Last
<1>5. IsSourceFile(d)
  BY <1>1, <1>4 DEF IsSourceFile, Extension, SourceExtensions
<1>6. d \notin Naming \cup Compilation
  BY <1>5, OptionsAreNoSources
<1> QED
  BY <1>1, <1>4, <1>5, <1>6 DEF Words

(* A command that the wrapper takes, and that can be read in one way.       *)
Taken(argv) == argv \in Seq(Words) /\ Unambiguous(argv) /\ CanHandle(argv)
After(argv, flags) == {j \in 1..Len(argv) : j > 1 /\ argv[j - 1] \in flags}

(* Half of what Unambiguous says. *)
OptionsApart(argv) ==
  \A j \in 1..Len(argv) - 1 :
    argv[j] \in Paired \cup {F("-o"), F("-x")} => argv[j + 1] \notin Options

LEMMA TakenApart ==
  ASSUME NEW argv, Taken(argv)
  PROVE  argv \in Seq(Words) /\ OptionsApart(argv)
BY Zenon DEF Taken, Unambiguous, OptionsApart

LEMMA TakenOperands ==
  ASSUME NEW argv \in Seq(Words), OptionsApart(argv)
  PROVE  /\ Operands(argv, {F("-o")}) = After(argv, {F("-o")})
         /\ Operands(argv, {F("-x"), F("-o")}) = After(argv, Naming)
         /\ Operands(argv, Paired) = After(argv, Paired)
<1>1. ASSUME NEW flags, flags \subseteq Paired \cup Naming
      PROVE  Operands(argv, flags) = After(argv, flags)
  <2>1. ASSUME NEW j \in 1..Len(argv) - 1, argv[j] \in flags
        PROVE  argv[j + 1] \notin flags
    <3>1. argv[j + 1] \notin Options
      BY <1>1, <2>1 DEF OptionsApart, Naming
    <3> QED
      BY <1>1, <3>1 DEF Options, Naming
  <2>2. \A j \in 1..Len(argv) :
          j \in Operands(argv, flags) <=> j > 1 /\ argv[j - 1] \in flags
    BY <2>1, PlainOperands, Zenon
  <2>3. Operands(argv, flags) \subseteq 1..Len(argv)
    BY DEF Operands
  <2> QED
    BY <2>2, <2>3, Zenon DEF After
<1>2. /\ {F("-o")} \subseteq Paired \cup Naming
      /\ {F("-x"), F("-o")} = Naming /\ Naming \subseteq Paired \cup Naming
      /\ Paired \subseteq Paired \cup Naming
  BY DEF Naming
<1> QED
  BY <1>1, <1>2, Zenon

(* How the wrapper reads a command in which no option is another's operand. *)
LEMMA ReadApart ==
  ASSUME NEW argv \in Seq(Words), OptionsApart(argv)
  PROVE  /\ Sources(argv) = {j \in 1..Len(argv) :
                               j \notin After(argv, Naming)
                                 /\ IsSourceFile(argv[j])}
         /\ Dropped(argv) = {j \in 1..Len(argv) :
                               argv[j] \in Alone \cup Paired}
                              \cup After(argv, Paired)
         /\ Objects(argv) = {j \in 1..Len(argv) :
                               j > 1 /\ argv[j - 1] = F("-o")}
         /\ Looked(argv) = 1..Len(argv) \ After(argv, Naming)
<1>1. Looked(argv) = 1..Len(argv) \ After(argv, Naming)
  BY TakenOperands, Zenon DEF Looked
<1>2. Dropped(argv) = {j \in 1..Len(argv) : argv[j] \in Alone \cup Paired}
                        \cup After(argv, Paired)
  BY TakenOperands, Zenon DEF Dropped
<1>3. Sources(argv) = {j \in 1..Len(argv) :
                         j \notin After(argv, Naming) /\ IsSourceFile(argv[j])}
  BY <1>1, Zenon DEF Sources
<1>4. ASSUME NEW j \in 1..Len(argv), argv[j] = F("-o")
      PROVE  j \in Looked(argv)
  <2>1. SUFFICES ASSUME j > 1, argv[j - 1] \in Naming PROVE FALSE
    BY <1>1 DEF After
  <2>2. j - 1 \in 1..Len(argv) - 1 /\ (j - 1) + 1 = j
    BY <2>1
  <2>3. argv[j] \notin Options
    BY <2>1, <2>2 DEF OptionsApart, Naming
  <2> QED
    BY <1>4, <2>3 DEF Options
<1>5. ASSUME NEW j
      PROVE  j \in Objects(argv)
               <=> j \in 1..Len(argv) /\ j > 1 /\ argv[j - 1] = F("-o")
  <2>1. ASSUME j \in Objects(argv)
        PROVE  j \in 1..Len(argv) /\ j > 1 /\ argv[j - 1] = F("-o")
    <3>1. PICK k \in Looked(argv) \ {Len(argv)} :
                 argv[k] = F("-o") /\ j = k + 1
      BY <2>1 DEF Objects
    <3>2. k \in 1..Len(argv) /\ k # Len(argv)
      BY <1>1, <3>1
    <3>3. j \in 1..Len(argv) /\ j > 1 /\ j - 1 = k
      BY <3>1, <3>2
    <3> QED
      BY <3>1, <3>3
  <2>2. ASSUME j \in 1..Len(argv), j > 1, argv[j - 1] = F("-o")
        PROVE  j \in Objects(argv)
    <3>1. j - 1 \in 1..Len(argv) /\ j - 1 # Len(argv) /\ j = (j - 1) + 1
      BY <2>2
    <3>2. j - 1 \in Looked(argv)
      BY <1>4, <2>2, <3>1
    <3> QED
      BY <2>2, <3>1, <3>2 DEF Objects
  <2> QED
    BY <2>1, <2>2
<1>6. Objects(argv) = {j \in 1..Len(argv) : j > 1 /\ argv[j - 1] = F("-o")}
  BY <1>5
<1> QED
  BY <1>1, <1>2, <1>3, <1>6

(* The other half, in terms of what the wrapper finds.                      *)
NamesApart(argv) ==
  \A j \in 1..Len(argv) - 1 : \A s \in Sources(argv) : argv[j + 1] = argv[s] =>
    argv[j] # F("-o") /\ (argv[j] = F("-x") => s \in Dropped(argv))

LEMMA OneReading ==
  ASSUME NEW argv \in Seq(Words)
  PROVE  Unambiguous(argv) <=> OptionsApart(argv) /\ NamesApart(argv)
<1>1. SUFFICES ASSUME OptionsApart(argv)
               PROVE  Unambiguous(argv) <=> NamesApart(argv)
  BY Zenon DEF Unambiguous, OptionsApart
<1>2. \A s \in 1..Len(argv) :
        s \in Sources(argv) <=> /\ IsSourceFile(argv[s])
                               /\ ~Follows(argv, s, {F("-o"), F("-x")})
  BY <1>1, ReadApart DEF After, Naming, Follows
<1>3. Sources(argv) \subseteq 1..Len(argv)
  BY <1>1, ReadApart
<1>4. ASSUME NEW s \in Sources(argv)
      PROVE  s \in Dropped(argv)
               <=> argv[s] \in Alone \/ Follows(argv, s, Paired)
  <2>1. s \in 1..Len(argv) /\ IsSourceFile(argv[s])
    BY <1>2, <1>3, <1>4
  <2>2. argv[s] \notin Paired
    <3>1. \A name : Last(F(name)) = name
      BY DEF Last, F
    <3>2. \A x \in Paired :
            Last(x) \in {"-I", "-Xpreprocessor", "-MT", "-MF", "-include",
                         "-imacro", "-iquote", "-isystem"}
      BY <3>1 DEF Paired
    <3>3. \A x \in Paired : ~IsSourceFile(x)
      BY <3>2 DEF IsSourceFile, Extension, SourceExtensions
    <3> QED
      BY <2>1, <3>3
  <2> QED
    BY <1>1, <2>1, <2>2, ReadApart DEF After, Follows
<1> QED
  BY <1>1, <1>2, <1>3, <1>4, Zenon DEF Unambiguous, OptionsApart, NamesApart

(* The one source of a command that is taken, and its last object.          *)
SourceAt(argv) == CHOOSE j \in Sources(argv) : TRUE
ObjectAt(argv) == Max(Objects(argv))

LEMMA TakenSource ==
  ASSUME NEW argv, Taken(argv)
  PROVE  /\ SourceAt(argv) \in 1..Len(argv)
         /\ Sources(argv) = {SourceAt(argv)}
         /\ SourceFile(argv) = argv[SourceAt(argv)]
         /\ IsSourceFile(SourceFile(argv))
         /\ SourceAt(argv) \notin After(argv, Naming)
         /\ \A j \in 1..Len(argv) :
              IsSourceFile(argv[j]) /\ j # SourceAt(argv)
                => j \in After(argv, Naming)
<1>1. argv \in Seq(Words) /\ OptionsApart(argv)
  BY TakenApart
<1>2. Sources(argv) = {SourceAt(argv)}
  BY Zenon DEF Taken, CanHandle, SourceAt
<1>3. SourceFile(argv) = argv[SourceAt(argv)]
  BY Zenon DEF SourceFile, SourceAt
<1>4. Sources(argv) = {j \in 1..Len(argv) :
                         j \notin After(argv, Naming) /\ IsSourceFile(argv[j])}
  BY <1>1, ReadApart, Zenon
<1> HIDE DEF SourceAt
<1> QED
  BY <1>2, <1>3, <1>4, Zenon

LEMMA TakenObject ==
  ASSUME NEW argv, Taken(argv)
  PROVE  /\ ObjectAt(argv) \in 1..Len(argv) /\ ObjectAt(argv) > 1
         /\ argv[ObjectAt(argv) - 1] = F("-o")
         /\ ObjectFile(argv) = argv[ObjectAt(argv)]
         /\ \A j \in 1..Len(argv) : j > 1 /\ argv[j - 1] = F("-o")
                                      => j <= ObjectAt(argv)
<1>1. argv \in Seq(Words) /\ OptionsApart(argv)
  BY TakenApart
<1>2. Objects(argv) = {j \in 1..Len(argv) : j > 1 /\ argv[j - 1] = F("-o")}
  BY <1>1, ReadApart, Zenon
<1>3. Objects(argv) # {}
  BY Zenon DEF Taken, CanHandle
<1>4. Len(argv) \in Nat /\ Objects(argv) \subseteq 0..Len(argv)
  BY <1>1, <1>2
<1>5. /\ ObjectAt(argv) \in Objects(argv)
      /\ \A j \in Objects(argv) : j <= ObjectAt(argv)
  BY <1>3, <1>4, Largest, Zenon DEF ObjectAt
<1>6. ObjectFile(argv) = argv[ObjectAt(argv)]
  BY Zenon DEF ObjectFile, ObjectAt
<1> HIDE DEF ObjectAt
<1> QED
  BY <1>2, <1>5, <1>6, Zenon

(* rewrite_local_args leaves the reading of a command as it is.             *)
LEMMA RewriteReads ==
  ASSUME NEW argv, Taken(argv)
  PROVE  LET b == RewriteLocalArgs(argv) IN
         /\ Taken(b)
         /\ Len(b) = Len(argv)
         /\ Sources(b) = Sources(argv) /\ Dropped(b) = Dropped(argv)
         /\ ObjectFile(b) = ObjectFile(argv)
<1> DEFINE b == RewriteLocalArgs(argv)
           n == Len(argv)
<1>1. argv \in Seq(Words) /\ OptionsApart(argv) /\ n \in Nat
  BY TakenApart
<1>2. \A j \in 1..n : argv[j] \in Words
  BY <1>1
<1>3. b \in Seq(Words) /\ Len(b) = n
      /\ \A j \in 1..n : b[j] = Renamed(argv[j])
  <2>1. \A j \in 1..n : Renamed(argv[j]) \in Words
    BY <1>2, RenamedIs
  <2> QED
    BY <1>1, <2>1 DEF RewriteLocalArgs
<1> HIDE DEF b
<1>4. ASSUME NEW X, X \cap (Native \cup Resolved) = {}, NEW j \in 1..n
      PROVE  (b[j] \in X <=> argv[j] \in X) /\ (argv[j] \in X => b[j] = argv[j])
  BY <1>3, <1>4, RenamedIs
<1>5. ASSUME NEW j \in 1..n
      PROVE  /\ IsSourceFile(b[j]) <=> IsSourceFile(argv[j])
             /\ IsSourceFile(argv[j]) => b[j] = argv[j]
  <2>1. CASE argv[j] \in Native
    <3>1. ~IsSourceFile(argv[j])
      BY <2>1, OptionsAreNoSources, Zenon
    <3>2. ~IsSourceFile(b[j])
      BY <1>3, <2>1, RenamedIs, OptionsAreNoSources, Zenon
    <3> QED
      BY <3>1, <3>2, Zenon
  <2>2. CASE argv[j] \notin Native
    <3>1. b[j] = argv[j]
      BY <1>3, <2>2, RenamedIs, Zenon
    <3> QED
      BY <3>1, Zenon
  <2> QED
    BY <2>1, <2>2
<1>6. /\ (Alone \cup Paired) \cap (Native \cup Resolved) = {}
      /\ Paired \cap (Native \cup Resolved) = {}
      /\ Naming \cap (Native \cup Resolved) = {}
      /\ {F("-o")} \cap (Native \cup Resolved) = {}
      /\ {F("-x")} \cap (Native \cup Resolved) = {}
      /\ Compilation \cap (Native \cup Resolved) = {}
      /\ (Paired \cup {F("-o"), F("-x")}) \cap (Native \cup Resolved) = {}
  BY OptionsDiffer DEF Naming
<1>7. ASSUME NEW X, X \cap (Native \cup Resolved) = {}
      PROVE  After(b, X) = After(argv, X)
  <2>1. ASSUME NEW j \in 1..n
        PROVE  (j > 1 /\ b[j - 1] \in X) <=> (j > 1 /\ argv[j - 1] \in X)
    <3>1. j > 1 => j - 1 \in 1..n
      OBVIOUS
    <3> QED
      BY <1>4, <1>7, <3>1, Zenon
  <2> QED
    BY <1>3, <2>1, Zenon DEF After
<1>8. OptionsApart(b)
  <2>1. SUFFICES ASSUME NEW j \in 1..n - 1,
                        b[j] \in Paired \cup {F("-o"), F("-x")}
                 PROVE  b[j + 1] \notin Options
    BY <1>3, Zenon DEF OptionsApart
  <2>2. j \in 1..n /\ j + 1 \in 1..n
    BY <1>1
  <2>3. argv[j] \in Paired \cup {F("-o"), F("-x")}
    BY <1>4, <1>6, <2>1, <2>2, Zenon
  <2>4. argv[j + 1] \notin Options
    BY <1>1, <2>3, Zenon DEF OptionsApart
  <2>5. argv[j + 1] \notin Native
    BY <2>4, Zenon DEF Options
  <2>6. b[j + 1] = argv[j + 1]
    BY <1>3, <2>2, <2>5, RenamedIs, Zenon
  <2> QED
    BY <2>4, <2>6, Zenon
<1>9. Sources(b) = Sources(argv)
  <2>1. Sources(b) = {j \in 1..Len(b) :
                        j \notin After(b, Naming) /\ IsSourceFile(b[j])}
    BY <1>3, <1>8, ReadApart, Zenon
  <2>2. Sources(argv) = {j \in 1..n : j \notin After(argv, Naming)
                                       /\ IsSourceFile(argv[j])}
    BY <1>1, ReadApart, Zenon
  <2>3. Len(b) = n /\ After(b, Naming) = After(argv, Naming)
    BY <1>3, <1>6, <1>7, Zenon
  <2> QED
    BY <1>5, <2>1, <2>2, <2>3, Zenon
<1>10. Dropped(b) = Dropped(argv)
  <2>1. Dropped(b) = {j \in 1..Len(b) : b[j] \in Alone \cup Paired}
                       \cup After(b, Paired)
    BY <1>3, <1>8, ReadApart, Zenon
  <2>2. Dropped(argv) = {j \in 1..n : argv[j] \in Alone \cup Paired}
                          \cup After(argv, Paired)
    BY <1>1, ReadApart, Zenon
  <2>3. Len(b) = n /\ After(b, Paired) = After(argv, Paired)
    BY <1>3, <1>6, <1>7, Zenon
  <2>4. \A j \in 1..n :
          b[j] \in Alone \cup Paired <=> argv[j] \in Alone \cup Paired
    BY <1>4, <1>6, Zenon
  <2> QED
    BY <2>1, <2>2, <2>3, <2>4, Zenon
<1>11. Objects(b) = Objects(argv)
  <2>1. Objects(b) = {j \in 1..Len(b) : j > 1 /\ b[j - 1] = F("-o")}
        /\ Objects(argv) = {j \in 1..n : j > 1 /\ argv[j - 1] = F("-o")}
    BY <1>1, <1>3, <1>8, ReadApart, Zenon
  <2>2. After(b, {F("-o")}) = After(argv, {F("-o")})
    BY <1>6, <1>7, Zenon
  <2> QED
    BY <2>1, <2>2 DEF After
<1>12. Looked(b) = Looked(argv)
  BY <1>1, <1>3, <1>6, <1>7, <1>8, ReadApart, Zenon
<1>13. CanHandle(b)
  <2>1. CanHandle(argv)
    BY DEF Taken
  <2>2. PICK j \in Looked(argv) : argv[j] \in Compilation
    BY <2>1, Zenon DEF CanHandle, Compilation
  <2>3. j \in 1..n
    BY <2>2 DEF Looked
  <2>4. b[j] \in Compilation
    BY <1>4, <1>6, <2>2, <2>3, Zenon
  <2> QED
    BY <1>9, <1>11, <1>12, <2>1, <2>2, <2>4, Zenon DEF CanHandle, Compilation
<1>14. Unambiguous(b)
  <2>1. ASSUME NEW j \in 1..n - 1, NEW s \in Sources(b), b[j + 1] = b[s]
        PROVE  /\ b[j] # F("-o")
               /\ b[j] = F("-x") => s \in Dropped(b)
    <3>1. j \in 1..n /\ j + 1 \in 1..n
      BY <1>1
    <3>2. s \in Sources(argv) /\ s \in 1..n /\ IsSourceFile(argv[s])
      <4>1. s \in Sources(argv)
        BY <1>9, <2>1
      <4> QED
        BY <1>1, <4>1, ReadApart
    <3>3. b[s] = argv[s]
      BY <1>5, <3>2, Zenon
    <3>4. IsSourceFile(b[j + 1])
      BY <2>1, <3>2, <3>3, Zenon
    <3>5. b[j + 1] = argv[j + 1]
      BY <1>5, <3>1, <3>4, Zenon
    <3>6. argv[j + 1] = argv[s]
      BY <2>1, <3>3, <3>5, Zenon
    <3>7. Unambiguous(argv)
      BY DEF Taken
    <3>8. argv[j] # F("-o") /\ (argv[j] = F("-x") => s \in Dropped(argv))
      BY <3>2, <3>6, <3>7, OneReading, TakenApart, Zenon DEF NamesApart
    <3>9. /\ b[j] \in {F("-o")} <=> argv[j] \in {F("-o")}
          /\ b[j] \in {F("-x")} <=> argv[j] \in {F("-x")}
      BY <1>4, <1>6, <3>1, Zenon
    <3> QED
      BY <1>10, <3>8, <3>9
  <2> QED
    BY <1>3, <1>8, <2>1, OneReading, Zenon DEF NamesApart
<1>15. Taken(b)
  BY <1>3, <1>13, <1>14 DEF Taken
<1>16. ObjectFile(b) = ObjectFile(argv)
  <2>1. ObjectAt(b) = ObjectAt(argv)
    BY <1>11 DEF ObjectAt
  <2> DEFINE m == ObjectAt(argv)
  <2>2. m \in 1..n /\ m > 1 /\ argv[m - 1] = F("-o")
        /\ ObjectFile(argv) = argv[m]
    BY TakenObject, Zenon
  <2>3. ObjectFile(b) = b[m]
    BY <1>15, <2>1, TakenObject, Zenon
  <2> HIDE DEF m
  <2>4. m - 1 \in 1..n - 1 /\ (m - 1) + 1 = m
    BY <1>1, <2>2
  <2>5. argv[m] \notin Options
    BY <1>1, <2>2, <2>4 DEF OptionsApart
  <2>6. b[m] = argv[m]
    BY <1>3, <2>2, <2>5, RenamedIs DEF Options
  <2> QED
    BY <2>2, <2>3, <2>6
<1> QED
  BY <1>3, <1>9, <1>10, <1>15, <1>16 DEF b

-----------------------------------------------------------------------------
(* What compiler_cmd sends *)

(* What it makes of each argument.                                          *)
Block(argv, doti, j) ==
  IF j \in Dropped(argv) THEN <<>>
  ELSE IF argv[j] = SourceFile(argv)
    THEN ExplicitLang(argv, WrapperLang(SourceFile(argv))) \o <<doti>>
  ELSE <<argv[j]>>
Blocks(argv, doti) == [j \in 1..Len(argv) |-> Block(argv, doti, j)]

LEMMA CommandIsBlocks ==
  ASSUME NEW argv, NEW doti
  PROVE  CompilerCmd(argv, doti) = FlattenSeq(Blocks(argv, doti))
BY Zenon DEF CompilerCmd, Blocks, Block

LEMMA BlockOfDropped ==
  ASSUME NEW argv, NEW doti, NEW j \in Dropped(argv)
  PROVE  Block(argv, doti, j) = <<>>
BY Zenon DEF Block

LEMMA BlockOfArgument ==
  ASSUME NEW argv, NEW doti, NEW j,
         j \notin Dropped(argv), argv[j] # SourceFile(argv)
  PROVE  Block(argv, doti, j) = <<argv[j]>>
BY Zenon DEF Block

LEMMA BlockOfFile ==
  ASSUME NEW argv, NEW doti \in Words, NEW j,
         j \notin Dropped(argv), argv[j] = SourceFile(argv),
         Has(argv, {F("-x")})
  PROVE  Block(argv, doti, j) = <<doti>>
<1>1. Block(argv, doti, j)
        = ExplicitLang(argv, WrapperLang(SourceFile(argv))) \o <<doti>>
  BY Zenon DEF Block
<1>2. ExplicitLang(argv, WrapperLang(SourceFile(argv))) = <<>>
  BY Zenon DEF ExplicitLang
<1>3. Block(argv, doti, j) = <<>> \o <<doti>>
  BY <1>1, <1>2, Zenon
<1>4. <<>> \o <<doti>> = <<doti>>
  OBVIOUS
<1> QED
  BY <1>3, <1>4, Zenon

LEMMA LanguagesAreWords ==
  ASSUME NEW src
  PROVE  /\ F("-x") \in Words /\ F(WrapperLang(src)) \in Words
         /\ F(WrapperLang(src)) \in {F("c"), F("c++")}
<1>1. WrapperLang(src) = "c" \/ WrapperLang(src) = "c++"
  BY Zenon DEF WrapperLang
<1>2. "-x" \in Word /\ "c" \in Word /\ "c++" \in Word
  BY DEF Word
<1>3. F("-x") \in Words /\ F("c") \in Words /\ F("c++") \in Words
  BY <1>2 DEF F, Words
<1> QED
  BY <1>1, <1>3

LEMMA BlockOfSource ==
  ASSUME NEW argv, NEW doti \in Words, NEW j,
         j \notin Dropped(argv), argv[j] = SourceFile(argv),
         ~Has(argv, {F("-x")})
  PROVE  Block(argv, doti, j)
           = <<F("-x"), F(WrapperLang(argv[j]))>> \o <<doti>>
<1> DEFINE lang == WrapperLang(argv[j])
<1>1. Block(argv, doti, j) = ExplicitLang(argv, lang) \o <<doti>>
  BY Zenon DEF Block
<1>2. ExplicitLang(argv, lang) = <<F("-x"), F(lang)>>
  BY Zenon DEF ExplicitLang
<1> QED
  BY <1>1, <1>2, Zenon

(* Those that are sent, as they are used below.                             *)
Single(block, arg) == Len(block) = 1 /\ block[1] = arg
Triple(block, doti) ==
  /\ Len(block) = 3 /\ block[1] = F("-x")
  /\ block[2] \in {F("c"), F("c++")} /\ block[3] = doti

LEMMA OneOfArgument ==
  ASSUME NEW argv, NEW doti, NEW j,
         j \notin Dropped(argv), argv[j] # SourceFile(argv)
  PROVE  Single(Block(argv, doti, j), argv[j])
<1>1. Block(argv, doti, j) = <<argv[j]>>
  BY BlockOfArgument, Zenon
<1> QED
  BY <1>1 DEF Single

LEMMA OneOfFile ==
  ASSUME NEW argv, NEW doti \in Words, NEW j,
         j \notin Dropped(argv), argv[j] = SourceFile(argv),
         Has(argv, {F("-x")})
  PROVE  Single(Block(argv, doti, j), doti)
<1>1. Block(argv, doti, j) = <<doti>>
  BY BlockOfFile, Zenon
<1> QED
  BY <1>1 DEF Single

LEMMA ThreeOfSource ==
  ASSUME NEW argv, NEW doti \in Words, NEW j,
         j \notin Dropped(argv), argv[j] = SourceFile(argv),
         ~Has(argv, {F("-x")})
  PROVE  Triple(Block(argv, doti, j), doti)
<1> DEFINE lang == F(WrapperLang(argv[j]))
           two  == <<F("-x"), lang>>
           one  == <<doti>>
<1>1. Block(argv, doti, j) = two \o one
  BY BlockOfSource, Zenon
<1>2. lang \in {F("c"), F("c++")} /\ lang \in Words /\ F("-x") \in Words
  BY LanguagesAreWords, Zenon
<1> HIDE DEF lang
<1>3. /\ two \in Seq(Words) /\ Len(two) = 2
      /\ two[1] = F("-x") /\ two[2] = lang
      /\ one \in Seq(Words) /\ Len(one) = 1 /\ one[1] = doti
  BY <1>2
<1> HIDE DEF two, one
<1>4. Len(two \o one) = Len(two) + Len(one)
  BY <1>3, ConcatProperties, Zenon
<1>5. 1 \in 1..Len(two) /\ 2 \in 1..Len(two)
      /\ 1 \in 1..Len(one) /\ Len(two) + 1 = 3
  BY <1>3
<1>6. \A i \in 1..Len(two) : (two \o one)[i] = two[i]
  <2>1. two \in Seq(Words) /\ one \in Seq(Words)
    BY <1>3
  <2> QED
    BY <2>1, JoinedLeft, Zenon
<1>7. (two \o one)[Len(two) + 1] = one[1]
  <2>1. two \in Seq(Words) /\ one \in Seq(Words)
    BY <1>3
  <2>2. \A i \in 1..Len(one) : (two \o one)[Len(two) + i] = one[i]
    BY <2>1, JoinedRight, Zenon
  <2> QED
    BY <1>5, <2>2, Zenon
<1> QED
  BY <1>1, <1>2, <1>3, <1>4, <1>5, <1>6, <1>7 DEF Triple

LEMMA BlockIsWords ==
  ASSUME NEW argv \in Seq(Words), NEW doti \in Words, NEW j \in 1..Len(argv)
  PROVE  Block(argv, doti, j) \in Seq(Words)
<1>1. CASE j \in Dropped(argv)
  <2>1. Block(argv, doti, j) = <<>>
    BY <1>1, BlockOfDropped
  <2> QED
    BY <2>1
<1>2. CASE j \notin Dropped(argv) /\ argv[j] # SourceFile(argv)
  <2>1. Block(argv, doti, j) = <<argv[j]>>
    BY <1>2, BlockOfArgument
  <2> QED
    BY <2>1
<1>3. CASE /\ j \notin Dropped(argv) /\ argv[j] = SourceFile(argv)
           /\ Has(argv, {F("-x")})
  <2>1. Block(argv, doti, j) = <<doti>>
    BY <1>3, BlockOfFile
  <2> QED
    BY <2>1
<1>4. CASE /\ j \notin Dropped(argv) /\ argv[j] = SourceFile(argv)
           /\ ~Has(argv, {F("-x")})
  <2> DEFINE lang == F(WrapperLang(argv[j]))
  <2>1. Block(argv, doti, j) = <<F("-x"), lang>> \o <<doti>>
    BY <1>4, BlockOfSource, Zenon
  <2>2. F("-x") \in Words /\ lang \in Words
    BY LanguagesAreWords, Zenon
  <2> HIDE DEF lang
  <2>3. <<F("-x"), lang>> \in Seq(Words) /\ <<doti>> \in Seq(Words)
    BY <2>2
  <2> QED
    BY <2>1, <2>3, ConcatProperties, Zenon
<1> QED
  BY <1>1, <1>2, <1>3, <1>4

(* An -o and a -x are sent on with what follows them, which is no option.   *)
LEMMA NamingIsKept ==
  ASSUME NEW argv, Taken(argv), NEW doti \in Words,
         IsSourceFile(doti), doti \notin Naming \cup Compilation,
         NEW j \in 1..Len(argv), argv[j] \in Naming
  PROVE  /\ j \notin Dropped(argv) /\ argv[j] # SourceFile(argv)
         /\ j < Len(argv) =>
              /\ j + 1 \notin Dropped(argv)
              /\ Len(Block(argv, doti, j + 1)) = 1
              /\ Block(argv, doti, j + 1)[1] \notin Naming
              /\ argv[j] = F("-o") =>
                   Block(argv, doti, j + 1)[1] = argv[j + 1]
<1> DEFINE n == Len(argv)
<1>1. argv \in Seq(Words) /\ OptionsApart(argv) /\ n \in Nat
  BY TakenApart
<1>2. Dropped(argv) = {i \in 1..n : argv[i] \in Alone \cup Paired}
                        \cup After(argv, Paired)
  BY <1>1, ReadApart, Zenon
<1>3. argv[j] \in Options /\ argv[j] \notin Alone \cup Paired
  BY OptionsDiffer DEF Naming, Options
<1>4. argv[j] # SourceFile(argv)
  BY TakenSource, OptionsAreNoSources, Zenon
<1>5. j \notin Dropped(argv)
  <2>1. ASSUME j > 1, argv[j - 1] \in Paired PROVE FALSE
    <3>1. j - 1 \in 1..n - 1 /\ (j - 1) + 1 = j
      BY <1>1, <2>1
    <3> QED
      BY <1>1, <1>3, <2>1, <3>1 DEF OptionsApart
  <2> QED
    BY <1>2, <1>3, <2>1 DEF After
<1>6. ASSUME j < n
      PROVE  /\ j + 1 \notin Dropped(argv)
             /\ Len(Block(argv, doti, j + 1)) = 1
             /\ Block(argv, doti, j + 1)[1] \notin Naming
             /\ argv[j] = F("-o") =>
                  Block(argv, doti, j + 1)[1] = argv[j + 1]
  <2>1. j \in 1..n - 1 /\ j + 1 \in 1..n /\ (j + 1) - 1 = j
    BY <1>1, <1>6
  <2>2. argv[j + 1] \notin Options
    BY <1>1, <2>1 DEF OptionsApart, Naming
  <2>3. argv[j + 1] \notin Alone \cup Paired \cup Naming
    BY <2>2 DEF Options, Naming
  <2>4. j + 1 \notin Dropped(argv)
    BY <1>2, <1>3, <2>1, <2>3 DEF After
  <2>5. CASE argv[j + 1] # SourceFile(argv)
    <3>1. Len(Block(argv, doti, j + 1)) = 1
          /\ Block(argv, doti, j + 1)[1] = argv[j + 1]
      <4>1. Single(Block(argv, doti, j + 1), argv[j + 1])
        BY <2>4, <2>5, OneOfArgument, Zenon
      <4> QED
        BY <4>1 DEF Single
    <3> QED
      BY <2>3, <2>4, <3>1
  <2>6. CASE argv[j + 1] = SourceFile(argv)
    <3>1. /\ SourceAt(argv) \in Sources(argv)
          /\ argv[j + 1] = argv[SourceAt(argv)]
      BY <2>6, TakenSource
    <3>2. Unambiguous(argv)
      BY DEF Taken
    <3>3. argv[j] # F("-o")
      BY <2>1, <3>1, <3>2, OneReading, TakenApart, Zenon DEF NamesApart
    <3>4. Has(argv, {F("-x")})
      BY <3>3 DEF Has, Naming
    <3>5. Len(Block(argv, doti, j + 1)) = 1
          /\ Block(argv, doti, j + 1)[1] = doti
      <4>1. Single(Block(argv, doti, j + 1), doti)
        BY <1>1, <2>1, <2>4, <2>6, <3>4, OneOfFile, Zenon
      <4> QED
        BY <4>1 DEF Single
    <3> QED
      BY <2>4, <3>3, <3>5
  <2> QED
    BY <2>5, <2>6
<1> QED
  BY <1>4, <1>5, <1>6

LEMMA Beyond ==
  ASSUME NEW a \in Nat, NEW b \in Nat, NEW m \in Nat, NEW k \in Nat,
         NEW l \in Nat, a + m <= b, k <= m, 1 <= l
  PROVE  a + k # b + l
OBVIOUS

(* A place of a concatenation is in one of its parts only.                  *)
LEMMA PlaceOfOne ==
  ASSUME NEW S, NEW ss \in Seq(Seq(S)), NEW st, Places(ss, st),
         NEW i \in 1..Len(ss), NEW j \in 1..Len(ss),
         NEW k \in 1..Len(ss[i]), NEW l \in 1..Len(ss[j]),
         st[i] + k = st[j] + l
  PROVE  i = j /\ k = l
<1>1. Len(ss) \in Nat /\ Len(ss[i]) \in Nat /\ Len(ss[j]) \in Nat
  OBVIOUS
<1>0. i \in Nat /\ j \in Nat /\ k \in Nat /\ l \in Nat
      /\ 1 <= k /\ k <= Len(ss[i]) /\ 1 <= l /\ l <= Len(ss[j])
  BY <1>1
<1>2. i \in 1..Len(ss) + 1 /\ i + 1 \in 1..Len(ss) + 1
      /\ j \in 1..Len(ss) + 1 /\ j + 1 \in 1..Len(ss) + 1
  BY <1>1
<1>3. st[i] \in Nat /\ st[j] \in Nat
  BY <1>2 DEF Places
<1>4. st[i + 1] = st[i] + Len(ss[i]) /\ st[j + 1] = st[j] + Len(ss[j])
  BY DEF Places
<1>5. CASE i < j
  <2>1. st[i + 1] <= st[j]
    <3>1. i + 1 <= j
      BY <1>0, <1>5
    <3> QED
      BY <1>2, <3>1, Zenon DEF Places
  <2> QED
    <3>1. /\ st[i] + Len(ss[i]) <= st[j]
          /\ k \in Nat /\ k <= Len(ss[i]) /\ l \in Nat /\ 1 <= l
      BY <1>0, <1>4, <2>1, Zenon
    <3> QED
      BY <1>1, <1>3, <3>1, Beyond, Zenon
<1>6. CASE j < i
  <2>1. st[j + 1] <= st[i]
    <3>1. j + 1 <= i
      BY <1>0, <1>6
    <3> QED
      BY <1>2, <3>1, Zenon DEF Places
  <2> QED
    <3>1. /\ st[j] + Len(ss[j]) <= st[i]
          /\ l \in Nat /\ l <= Len(ss[j]) /\ k \in Nat /\ 1 <= k
      BY <1>0, <1>4, <2>1, Zenon
    <3> QED
      BY <1>1, <1>3, <3>1, Beyond, Zenon
<1>7. CASE i = j
  BY <1>0, <1>3, <1>7
<1> QED
  BY <1>0, <1>5, <1>6, <1>7

(* A command that is taken, and the file sent with it. *)
Sending(argv, doti) ==
  /\ Taken(argv) /\ doti \in Words
  /\ IsSourceFile(doti) /\ doti \notin Naming \cup Compilation

(* Where the arguments are in what is sent: those of j follow place st[j].  *)
Layout(argv, doti, st) ==
  LET n      == Len(argv)
      out    == CompilerCmd(argv, doti)
      Of(j)  == 1..Len(Block(argv, doti, j))
  IN
  /\ n \in Nat /\ out \in Seq(Words)
  /\ \A j \in 1..n : /\ st[j] \in Nat /\ Block(argv, doti, j) \in Seq(Words)
                     /\ st[j + 1] = st[j] + Len(Block(argv, doti, j))
                     /\ st[j + 1] <= Len(out)
  /\ \A i, j \in 1..n : i <= j => st[i] <= st[j]
  /\ Len(out) = st[n + 1]
  /\ \A j \in 1..n : \A k \in Of(j) :
       st[j] + k \in 1..Len(out) /\ out[st[j] + k] = Block(argv, doti, j)[k]
  /\ \A p \in 1..Len(out) : \E j \in 1..n : \E k \in Of(j) : p = st[j] + k
  /\ \A i, j \in 1..n : \A k \in Of(i), l \in Of(j) :
       st[i] + k = st[j] + l => i = j /\ k = l

LEMMA LayoutExists ==
  ASSUME NEW argv \in Seq(Words), NEW doti \in Words
  PROVE  \E st : Layout(argv, doti, st)
<1> DEFINE n  == Len(argv)
           ss == Blocks(argv, doti)
           out == CompilerCmd(argv, doti)
<1>1. n \in Nat /\ Len(ss) = n /\ ss \in Seq(Seq(Words))
      /\ \A j \in 1..n : /\ ss[j] = Block(argv, doti, j)
                         /\ Block(argv, doti, j) \in Seq(Words)
  <2>1. \A j \in 1..n : Block(argv, doti, j) \in Seq(Words)
    BY BlockIsWords, Zenon
  <2> QED
    BY <2>1 DEF Blocks
<1>2. out = FlattenSeq(ss)
  BY CommandIsBlocks, Zenon
<1> HIDE DEF ss, out
<1>3. PICK st : Places(ss, st)
  BY <1>1, Flattened, Zenon
<1>4. out \in Seq(Words)
  BY <1>1, <1>2, Flattened, Zenon
<1>5. ASSUME NEW j \in 1..n
      PROVE  /\ st[j] \in Nat /\ Block(argv, doti, j) \in Seq(Words)
             /\ Len(Block(argv, doti, j)) \in Nat
             /\ st[j + 1] = st[j] + Len(Block(argv, doti, j))
             /\ st[j + 1] <= Len(out)
  <2>1. j \in 1..n + 1 /\ j + 1 \in 1..n + 1 /\ n + 1 \in 1..n + 1
        /\ j + 1 <= n + 1
    BY <1>1
  <2>2. st[j] \in Nat
    BY <1>1, <1>3, <2>1 DEF Places
  <2>3. st[j + 1] = st[j] + Len(Block(argv, doti, j))
    BY <1>1, <1>3 DEF Places
  <2>4. st[j + 1] <= st[n + 1] /\ st[n + 1] = Len(out)
    BY <1>1, <1>2, <1>3, <2>1, Zenon DEF Places
  <2>5. st[j + 1] <= Len(out)
    BY <2>4
  <2>6. Block(argv, doti, j) \in Seq(Words)
    BY <1>1
  <2> QED
    BY <2>2, <2>3, <2>5, <2>6
<1>6. \A i, j \in 1..n : i <= j => st[i] <= st[j]
  <2>1. \A i \in 1..n : i \in 1..n + 1
    BY <1>1
  <2> QED
    BY <1>1, <1>3, <2>1, Zenon DEF Places
<1>7. Len(out) = st[n + 1]
  BY <1>1, <1>2, <1>3, Zenon DEF Places
<1>8. ASSUME NEW j \in 1..n, NEW k \in 1..Len(Block(argv, doti, j))
      PROVE  /\ st[j] + k \in 1..Len(out)
             /\ out[st[j] + k] = Block(argv, doti, j)[k]
  <2>1. out[st[j] + k] = Block(argv, doti, j)[k]
    <3>1. j \in 1..Len(ss) /\ k \in 1..Len(ss[j])
          /\ ss[j] = Block(argv, doti, j)
      BY <1>1
    <3>2. FlattenSeq(ss)[st[j] + k] = ss[j][k]
      BY <1>3, <3>1, Zenon DEF Places
    <3> QED
      BY <1>2, <3>1, <3>2, Zenon
  <2>2. Len(out) \in Nat
    BY <1>4
  <2>3. st[j] \in Nat /\ Len(Block(argv, doti, j)) \in Nat
        /\ st[j] + Len(Block(argv, doti, j)) <= Len(out)
    BY <1>5
  <2> QED
    BY <2>1, <2>2, <2>3
<1>9. ASSUME NEW p \in 1..Len(out)
      PROVE  \E j \in 1..n : \E k \in 1..Len(Block(argv, doti, j)) :
               p = st[j] + k
  <2>1. p \in 1..Len(FlattenSeq(ss))
    BY <1>2
  <2>2. PICK j \in 1..Len(ss) : \E k \in 1..Len(ss[j]) : p = st[j] + k
    BY <1>3, <2>1, Zenon DEF Places
  <2>3. j \in 1..n /\ ss[j] = Block(argv, doti, j)
    BY <1>1, <2>2
  <2> QED
    BY <2>2, <2>3
<1>10. ASSUME NEW i \in 1..n, NEW j \in 1..n,
              NEW k \in 1..Len(Block(argv, doti, i)),
              NEW l \in 1..Len(Block(argv, doti, j)),
              st[i] + k = st[j] + l
       PROVE  i = j /\ k = l
  <2>1. /\ i \in 1..Len(ss) /\ ss[i] = Block(argv, doti, i)
        /\ j \in 1..Len(ss) /\ ss[j] = Block(argv, doti, j)
    BY <1>1
  <2>2. k \in 1..Len(ss[i]) /\ l \in 1..Len(ss[j])
    BY <2>1
  <2> QED
    BY <1>1, <1>3, <1>10, <2>1, <2>2, PlaceOfOne
<1>11. \A j \in 1..n : /\ st[j] \in Nat /\ Block(argv, doti, j) \in Seq(Words)
                       /\ st[j + 1] = st[j] + Len(Block(argv, doti, j))
                       /\ st[j + 1] <= Len(out)
  BY <1>5, Zenon
<1>12. \A j \in 1..n : \A k \in 1..Len(Block(argv, doti, j)) :
         /\ st[j] + k \in 1..Len(out)
         /\ out[st[j] + k] = Block(argv, doti, j)[k]
  BY <1>8, Zenon
<1>13. \A i, j \in 1..n : \A k \in 1..Len(Block(argv, doti, i)),
                            l \in 1..Len(Block(argv, doti, j)) :
         st[i] + k = st[j] + l => i = j /\ k = l
  BY <1>10, Zenon
<1>14. \A p \in 1..Len(out) :
         \E j \in 1..n : \E k \in 1..Len(Block(argv, doti, j)) : p = st[j] + k
  BY <1>9, Zenon
<1> QED
  BY <1>1, <1>4, <1>6, <1>7, <1>11, <1>12, <1>13, <1>14, ZenonT(60)
  DEF Layout, out

LEMMA LayoutAt ==
  ASSUME NEW argv, NEW doti, NEW st, Layout(argv, doti, st),
         NEW i \in 1..Len(argv), NEW k \in 1..Len(Block(argv, doti, i))
  PROVE  /\ st[i] \in Nat
         /\ st[i + 1] = st[i] + Len(Block(argv, doti, i))
         /\ st[i] + k \in 1..Len(CompilerCmd(argv, doti))
         /\ CompilerCmd(argv, doti)[st[i] + k] = Block(argv, doti, i)[k]
<1>1. st[i] \in Nat /\ st[i + 1] = st[i] + Len(Block(argv, doti, i))
  BY Zenon DEF Layout
<1>2. /\ st[i] + k \in 1..Len(CompilerCmd(argv, doti))
      /\ CompilerCmd(argv, doti)[st[i] + k] = Block(argv, doti, i)[k]
  BY Zenon DEF Layout
<1> QED
  BY <1>1, <1>2

LEMMA LayoutOfOne ==
  ASSUME NEW argv, NEW doti, NEW st, Layout(argv, doti, st),
         NEW i \in 1..Len(argv), Len(Block(argv, doti, i)) = 1
  PROVE  /\ st[i] \in Nat /\ st[i + 1] = st[i] + 1
         /\ st[i] + 1 \in 1..Len(CompilerCmd(argv, doti))
         /\ CompilerCmd(argv, doti)[st[i] + 1] = Block(argv, doti, i)[1]
<1>1. st[i] \in Nat /\ st[i + 1] = st[i] + Len(Block(argv, doti, i))
  BY Zenon DEF Layout
<1>2. \A k \in 1..Len(Block(argv, doti, i)) :
        /\ st[i] + k \in 1..Len(CompilerCmd(argv, doti))
        /\ CompilerCmd(argv, doti)[st[i] + k] = Block(argv, doti, i)[k]
  BY Zenon DEF Layout
<1>3. 1 \in 1..Len(Block(argv, doti, i))
  OBVIOUS
<1>4. /\ st[i] + 1 \in 1..Len(CompilerCmd(argv, doti))
      /\ CompilerCmd(argv, doti)[st[i] + 1] = Block(argv, doti, i)[1]
  BY <1>2, <1>3, Zenon
<1> QED
  BY <1>1, <1>4

LEMMA LayoutOfThree ==
  ASSUME NEW argv, NEW doti, NEW st, Layout(argv, doti, st),
         NEW i \in 1..Len(argv), Len(Block(argv, doti, i)) = 3
  PROVE  /\ st[i] \in Nat
         /\ \A k \in {1, 2, 3} :
              /\ st[i] + k \in 1..Len(CompilerCmd(argv, doti))
              /\ CompilerCmd(argv, doti)[st[i] + k]
                   = Block(argv, doti, i)[k]
<1>1. st[i] \in Nat
  BY Zenon DEF Layout
<1>2. \A k \in 1..Len(Block(argv, doti, i)) :
        /\ st[i] + k \in 1..Len(CompilerCmd(argv, doti))
        /\ CompilerCmd(argv, doti)[st[i] + k] = Block(argv, doti, i)[k]
  BY Zenon DEF Layout
<1>3. \A k \in {1, 2, 3} : k \in 1..Len(Block(argv, doti, i))
  OBVIOUS
<1> QED
  BY <1>1, <1>2, <1>3, Zenon

LEMMA LayoutOne ==
  ASSUME NEW argv, NEW doti, NEW st, Layout(argv, doti, st),
         NEW i \in 1..Len(argv), NEW k \in 1..Len(Block(argv, doti, i)),
         NEW j \in 1..Len(argv), NEW l \in 1..Len(Block(argv, doti, j)),
         st[i] + k = st[j] + l
  PROVE  i = j /\ k = l
<1>1. \A g, h \in 1..Len(argv) :
        \A m \in 1..Len(Block(argv, doti, g)),
           o \in 1..Len(Block(argv, doti, h)) :
          st[g] + m = st[h] + o => g = h /\ m = o
  BY Zenon DEF Layout
<1> QED
  BY <1>1

(* An -o or a -x that is sent is one of the command, or the -x that was put *)
(* before the file.                                                         *)
LEMMA SentNaming ==
  ASSUME NEW argv, NEW doti, NEW st,
         Sending(argv, doti), Layout(argv, doti, st),
         NEW p \in 1..Len(CompilerCmd(argv, doti)),
         CompilerCmd(argv, doti)[p] \in Naming
  PROVE  \E j \in 1..Len(argv) :
           /\ p = st[j] + 1 /\ j \notin Dropped(argv)
           /\ \/ /\ argv[j] \in Naming /\ st[j + 1] = st[j] + 1
                 /\ CompilerCmd(argv, doti)[p] = argv[j]
              \/ /\ Len(Block(argv, doti, j)) = 3
                 /\ Block(argv, doti, j)[2] \in {F("c"), F("c++")}
                 /\ CompilerCmd(argv, doti)[p] = F("-x")
<1> DEFINE n == Len(argv)
           out == CompilerCmd(argv, doti)
<1>1. argv \in Seq(Words) /\ doti \in Words /\ doti \notin Naming
  BY TakenApart DEF Sending
<1>2. PICK j \in 1..n : \E k \in 1..Len(Block(argv, doti, j)) : p = st[j] + k
  BY Zenon DEF Layout
<1>3. PICK k \in 1..Len(Block(argv, doti, j)) : p = st[j] + k
  BY <1>2
<1>4. /\ out[p] = Block(argv, doti, j)[k]
      /\ st[j + 1] = st[j] + Len(Block(argv, doti, j))
  BY <1>3, Zenon DEF Layout
<1> HIDE DEF out
<1>5. j \notin Dropped(argv)
  <2>1. SUFFICES ASSUME j \in Dropped(argv) PROVE FALSE
    OBVIOUS
  <2>2. Block(argv, doti, j) = <<>>
    BY <1>1, <2>1, BlockOfDropped, Zenon
  <2> QED
    BY <1>3, <2>2
<1>6. CASE argv[j] # SourceFile(argv)
  <2>1. Len(Block(argv, doti, j)) = 1 /\ Block(argv, doti, j)[1] = argv[j]
    <3>1. Single(Block(argv, doti, j), argv[j])
      BY <1>1, <1>5, <1>6, OneOfArgument, Zenon
    <3> QED
      BY <3>1 DEF Single
  <2>2. k = 1
    BY <1>3, <2>1
  <2> QED
    BY <1>3, <1>4, <1>5, <2>1, <2>2 DEF out
<1>7. CASE argv[j] = SourceFile(argv)
  <2>1. CASE Has(argv, {F("-x")})
    <3>1. Len(Block(argv, doti, j)) = 1 /\ Block(argv, doti, j)[1] = doti
      <4>1. Single(Block(argv, doti, j), doti)
        BY <1>1, <1>5, <1>7, <2>1, OneOfFile, Zenon
      <4> QED
        BY <4>1 DEF Single
    <3> QED
      BY <1>1, <1>3, <1>4, <3>1 DEF out
  <2>2. CASE ~Has(argv, {F("-x")})
    <3>1. /\ Len(Block(argv, doti, j)) = 3
          /\ Block(argv, doti, j)[1] = F("-x")
          /\ Block(argv, doti, j)[2] \in {F("c"), F("c++")}
          /\ Block(argv, doti, j)[3] = doti
      <4>1. Triple(Block(argv, doti, j), doti)
        BY <1>1, <1>5, <1>7, <2>2, ThreeOfSource, Zenon
      <4> QED
        BY <4>1 DEF Triple
    <3>2. k = 1 \/ k = 2 \/ k = 3
      BY <1>3, <3>1
    <3>3. k = 1
      BY <1>1, <1>4, <3>1, <3>2, OptionsDiffer DEF out
    <3> QED
      BY <1>3, <1>4, <1>5, <3>1, <3>3 DEF out
  <2> QED
    BY <2>1, <2>2
<1> QED
  BY <1>6, <1>7

(* None of them follows another. *)
LEMMA SentApart ==
  ASSUME NEW argv, NEW doti, NEW st, Sending(argv, doti), Layout(argv, doti, st)
  PROVE  LET out == CompilerCmd(argv, doti) IN
         \A p \in 1..Len(out) - 1 :
           out[p] \in Naming => out[p + 1] \notin Naming
<1> DEFINE n == Len(argv)
           out == CompilerCmd(argv, doti)
<1>1. n \in Nat /\ out \in Seq(Words) /\ Len(out) \in Nat
  BY DEF Layout
<1> SUFFICES ASSUME NEW p \in 1..Len(out) - 1, out[p] \in Naming
             PROVE  out[p + 1] \notin Naming
  BY Zenon
<1>2. p \in 1..Len(out) /\ p + 1 \in 1..Len(out)
  BY <1>1
<1>3. PICK j \in 1..n :
        /\ p = st[j] + 1 /\ j \notin Dropped(argv)
        /\ \/ /\ argv[j] \in Naming /\ st[j + 1] = st[j] + 1
              /\ out[p] = argv[j]
           \/ /\ Len(Block(argv, doti, j)) = 3
              /\ Block(argv, doti, j)[2] \in {F("c"), F("c++")}
              /\ out[p] = F("-x")
  BY <1>2, SentNaming
<1> HIDE DEF out
<1>4. CASE argv[j] \in Naming /\ st[j + 1] = st[j] + 1
  <2>1. j # n
    <3>1. SUFFICES ASSUME j = n PROVE FALSE
      OBVIOUS
    <3>2. Len(out) = st[j + 1]
      BY <3>1, Zenon DEF Layout, out
    <3> QED
      BY <1>1, <1>3, <1>4, <3>2
  <2>2. j < n /\ j + 1 \in 1..n
    BY <1>1, <2>1
  <2>3. Len(Block(argv, doti, j + 1)) = 1
        /\ Block(argv, doti, j + 1)[1] \notin Naming
    BY <1>4, <2>2, NamingIsKept, Zenon DEF Sending
  <2>4. 1 \in 1..Len(Block(argv, doti, j + 1))
    BY <2>3
  <2>5. out[st[j + 1] + 1] = Block(argv, doti, j + 1)[1]
    BY <2>2, <2>4, Zenon DEF Layout, out
  <2>6. p + 1 = st[j + 1] + 1
    BY <1>3, <1>4
  <2> QED
    BY <2>3, <2>5, <2>6
<1>5. CASE /\ Len(Block(argv, doti, j)) = 3
           /\ Block(argv, doti, j)[2] \in {F("c"), F("c++")}
  <2>1. 2 \in 1..Len(Block(argv, doti, j))
    BY <1>5
  <2>2. out[st[j] + 2] = Block(argv, doti, j)[2] /\ st[j] \in Nat
    BY <2>1, Zenon DEF Layout, out
  <2>3. p + 1 = st[j] + 2
    BY <1>3, <2>2
  <2> QED
    BY <1>5, <2>2, <2>3, OptionsDiffer
<1> QED
  BY <1>3, <1>4, <1>5

(* So what is not looked at is what follows one of them.                    *)
LEMMA SentLooked ==
  ASSUME NEW argv, NEW doti, NEW st, Sending(argv, doti), Layout(argv, doti, st)
  PROVE  LET out == CompilerCmd(argv, doti) IN
         Looked(out) = 1..Len(out) \ After(out, Naming)
<1> DEFINE out == CompilerCmd(argv, doti)
<1>1. out \in Seq(Words)
  BY Zenon DEF Layout
<1>2. \A p \in 1..Len(out) - 1 : out[p] \in Naming => out[p + 1] \notin Naming
  BY SentApart, Zenon
<1> HIDE DEF out
<1>3. \A p \in 1..Len(out) :
        p \in Operands(out, Naming) <=> p > 1 /\ out[p - 1] \in Naming
  BY <1>1, <1>2, PlainOperands, Zenon
<1>4. Operands(out, Naming) \subseteq 1..Len(out)
  BY DEF Operands
<1>5. Operands(out, Naming) = After(out, Naming)
  BY <1>3, <1>4, Zenon DEF After
<1>6. {F("-x"), F("-o")} = Naming
  BY DEF Naming
<1> QED
  BY <1>5, <1>6 DEF Looked, out

(* An argument that is sent as one follows an -o or a -x as it did.         *)
LEMMA SentAfter ==
  ASSUME NEW argv, NEW doti, NEW st,
         Sending(argv, doti), Layout(argv, doti, st),
         NEW j \in 1..Len(argv), Len(Block(argv, doti, j)) = 1
  PROVE  st[j] + 1 \in After(CompilerCmd(argv, doti), Naming)
           <=> j \in After(argv, Naming)
<1> DEFINE n == Len(argv)
           out == CompilerCmd(argv, doti)
           p == st[j] + 1
<1>1. n \in Nat /\ out \in Seq(Words) /\ Len(out) \in Nat /\ st[j] \in Nat
  BY DEF Layout
<1>2. 1 \in 1..Len(Block(argv, doti, j))
  OBVIOUS
<1>3. p \in 1..Len(out)
  BY <1>2, Zenon DEF Layout
<1>4. ASSUME p > 1, out[p - 1] \in Naming PROVE j \in After(argv, Naming)
  <2>1. p - 1 \in 1..Len(out) /\ p = (p - 1) + 1 /\ p - 1 = st[j]
    BY <1>1, <1>3, <1>4
  <2>2. PICK i \in 1..n :
          /\ p - 1 = st[i] + 1 /\ i \notin Dropped(argv)
          /\ \/ /\ argv[i] \in Naming /\ st[i + 1] = st[i] + 1
                /\ out[p - 1] = argv[i]
             \/ /\ Len(Block(argv, doti, i)) = 3
                /\ Block(argv, doti, i)[2] \in {F("c"), F("c++")}
                /\ out[p - 1] = F("-x")
    BY <1>4, <2>1, SentNaming
  <2> HIDE DEF out, p
  <2>3. CASE argv[i] \in Naming /\ st[i + 1] = st[i] + 1
    <3>1. i # n
      <4>1. SUFFICES ASSUME i = n PROVE FALSE
        OBVIOUS
      <4>2. Len(out) = st[i + 1]
        BY <4>1, Zenon DEF Layout, out
      <4> QED
        BY <1>1, <1>3, <2>2, <2>3, <4>2 DEF p
    <3>2. i < n /\ i + 1 \in 1..n
      BY <1>1, <3>1
    <3>3. Len(Block(argv, doti, i + 1)) = 1
      BY <2>3, <3>2, NamingIsKept, Zenon DEF Sending
    <3>4. 1 \in 1..Len(Block(argv, doti, i + 1))
      BY <3>3
    <3>5. st[i + 1] + 1 = st[j] + 1
      BY <2>1, <2>2, <2>3
    <3>6. i + 1 = j
      BY <1>2, <3>2, <3>4, <3>5, Zenon DEF Layout
    <3>7. j > 1 /\ j - 1 = i
      BY <1>1, <3>6
    <3> QED
      BY <2>3, <3>7 DEF After
  <2>4. CASE Len(Block(argv, doti, i)) = 3
    <3>1. 2 \in 1..Len(Block(argv, doti, i))
      BY <2>4
    <3>2. st[i] \in Nat
      BY Zenon DEF Layout
    <3>3. st[i] + 2 = st[j] + 1
      BY <2>1, <2>2, <3>2
    <3>4. i = j /\ 2 = 1
      BY <1>2, <3>1, <3>3, LayoutOne, SMTT(30)
    <3> QED
      BY <3>4
  <2> QED
    BY <2>2, <2>3, <2>4
<1>5. ASSUME j \in After(argv, Naming) PROVE p > 1 /\ out[p - 1] \in Naming
  <2>1. PICK i \in 1..n : j = i + 1 /\ argv[i] \in Naming
    <3>1. j - 1 \in 1..n /\ argv[j - 1] \in Naming /\ j = (j - 1) + 1
      BY <1>1, <1>5 DEF After
    <3> QED
      BY <3>1
  <2> HIDE DEF out, p
  <2>2. i \notin Dropped(argv) /\ argv[i] # SourceFile(argv)
    BY <2>1, NamingIsKept, Zenon DEF Sending
  <2>3. argv \in Seq(Words) /\ doti \in Words
    BY TakenApart DEF Sending
  <2>4. Len(Block(argv, doti, i)) = 1 /\ Block(argv, doti, i)[1] = argv[i]
    <3>1. Single(Block(argv, doti, i), argv[i])
      BY <2>2, <2>3, OneOfArgument, Zenon
    <3> QED
      BY <3>1 DEF Single
  <2>5. 1 \in 1..Len(Block(argv, doti, i))
    BY <2>4
  <2>6. /\ out[st[i] + 1] = Block(argv, doti, i)[1]
        /\ st[i + 1] = st[i] + Len(Block(argv, doti, i))
        /\ st[i] \in Nat
    BY <2>5, LayoutAt DEF out
  <2>7. p > 1 /\ p - 1 = st[i] + 1
    <3>1. st[j] = st[i + 1]
      BY <2>1
    <3> QED
      BY <2>4, <2>6, <3>1 DEF p
  <2> QED
    BY <2>1, <2>4, <2>6, <2>7
<1> QED
  BY <1>3, <1>4, <1>5, Zenon DEF After

(* The server's source is the file sent, if the client's was sent at all.   *)
LEMMA SentSources ==
  ASSUME NEW argv, NEW doti, NEW st, Sending(argv, doti), Layout(argv, doti, st)
  PROVE  LET s   == SourceAt(argv)
             out == CompilerCmd(argv, doti)
             q   == st[s] + Len(Block(argv, doti, s))
         IN  /\ s \in Dropped(argv) => Sources(out) = {}
             /\ s \notin Dropped(argv) =>
                  Sources(out) = {q} /\ out[q] = doti
<1> DEFINE n   == Len(argv)
           s   == SourceAt(argv)
           out == CompilerCmd(argv, doti)
           q   == st[s] + Len(Block(argv, doti, s))
<1>1. /\ argv \in Seq(Words) /\ n \in Nat /\ doti \in Words
      /\ IsSourceFile(doti) /\ doti \notin Naming /\ Unambiguous(argv)
      /\ Taken(argv)
  BY TakenApart DEF Sending, Taken
<1>2. /\ s \in 1..n /\ s \in Sources(argv)
      /\ SourceFile(argv) = argv[s] /\ IsSourceFile(argv[s])
      /\ s \notin After(argv, Naming)
      /\ \A j \in 1..n : IsSourceFile(argv[j]) /\ j # s
                           => j \in After(argv, Naming)
  BY <1>1, TakenSource
<1>3. Sources(out) = {p \in 1..Len(out) :
                        p \notin After(out, Naming) /\ IsSourceFile(out[p])}
  BY SentLooked, Zenon DEF Sources
<1> HIDE DEF s, out
<1>4. ASSUME NEW p \in 1..Len(out), IsSourceFile(out[p]),
             p \notin After(out, Naming)
      PROVE  s \notin Dropped(argv) /\ p = q
  <2>1. PICK j \in 1..n : \E k \in 1..Len(Block(argv, doti, j)) : p = st[j] + k
    BY Zenon DEF Layout, out
  <2>2. PICK k \in 1..Len(Block(argv, doti, j)) : p = st[j] + k
    BY <2>1
  <2>3. out[p] = Block(argv, doti, j)[k] /\ st[j] \in Nat
    BY <2>2, LayoutAt DEF out
  <2>4. j \notin Dropped(argv)
    <3>1. SUFFICES ASSUME j \in Dropped(argv) PROVE FALSE
      OBVIOUS
    <3>2. Block(argv, doti, j) = <<>>
      BY <1>1, <3>1, BlockOfDropped, Zenon
    <3> QED
      BY <2>2, <3>2
  <2>5. ASSUME Len(Block(argv, doti, j)) = 1
        PROVE  j \notin After(argv, Naming) /\ k = 1
    <3>1. k = 1
      BY <2>2, <2>5
    <3> QED
      BY <1>4, <2>2, <2>5, <3>1, SentAfter DEF out
  <2>6. CASE argv[j] # SourceFile(argv)
    <3>1. Len(Block(argv, doti, j)) = 1 /\ Block(argv, doti, j)[1] = argv[j]
      <4>1. Single(Block(argv, doti, j), argv[j])
        BY <1>1, <2>4, <2>6, OneOfArgument, Zenon
      <4> QED
        BY <4>1 DEF Single
    <3>2. IsSourceFile(argv[j])
      BY <1>4, <2>3, <2>5, <3>1
    <3>3. j # s
      BY <1>2, <2>6
    <3> QED
      BY <1>2, <2>5, <3>1, <3>2, <3>3
  <2>7. CASE argv[j] = SourceFile(argv) /\ Has(argv, {F("-x")})
    <3>1. Len(Block(argv, doti, j)) = 1
      <4>1. Single(Block(argv, doti, j), doti)
        BY <1>1, <2>4, <2>7, OneOfFile, Zenon
      <4> QED
        BY <4>1 DEF Single
    <3>2. j = s
      BY <1>2, <2>5, <2>7, <3>1
    <3> QED
      BY <2>2, <2>4, <2>5, <3>1, <3>2
  <2>8. CASE argv[j] = SourceFile(argv) /\ ~Has(argv, {F("-x")})
    <3>1. /\ Len(Block(argv, doti, j)) = 3
          /\ Block(argv, doti, j)[1] = F("-x")
      <4>1. Triple(Block(argv, doti, j), doti)
        BY <1>1, <2>4, <2>8, ThreeOfSource, Zenon
      <4> QED
        BY <4>1 DEF Triple
    <3>2. j = s
      <4>1. SUFFICES ASSUME j # s PROVE FALSE
        OBVIOUS
      <4>2. j \in After(argv, Naming)
        BY <1>2, <2>8, <4>1
      <4>3. j - 1 \in 1..n - 1 /\ j - 1 \in 1..n /\ (j - 1) + 1 = j
            /\ argv[j - 1] \in Naming
        BY <1>1, <4>2 DEF After
      <4>4. argv[j - 1] # F("-o")
        BY <1>1, <1>2, <2>8, <4>3, OneReading, Zenon DEF NamesApart
      <4>5. argv[j - 1] # F("-x")
        BY <2>8, <4>3 DEF Has
      <4> QED
        BY <4>3, <4>4, <4>5 DEF Naming
    <3>3. k # 1
      BY <1>4, <2>3, <3>1, OptionsAreNoSources DEF Naming
    <3>4. k # 2
      <4>1. SUFFICES ASSUME k = 2 PROVE FALSE
        OBVIOUS
      <4>2. /\ st[j] + 1 \in 1..Len(out)
            /\ out[st[j] + 1] = Block(argv, doti, j)[1]
        <5>1. 1 \in {1, 2, 3}
          OBVIOUS
        <5> QED
          BY <3>1, <5>1, LayoutOfThree DEF out
      <4>3. st[j] + 1 \in 1..Len(out) /\ out[st[j] + 1] = F("-x")
        BY <3>1, <4>2, Zenon
      <4>4. p > 1 /\ p - 1 = st[j] + 1
        BY <2>2, <2>3, <4>1
      <4> QED
        <5>1. out[p - 1] \in Naming
          BY <4>3, <4>4 DEF Naming
        <5> QED
          BY <1>4, <4>4, <5>1, Zenon DEF After
    <3>5. k = 3
      BY <2>2, <3>1, <3>3, <3>4
    <3>6. q = st[j] + 3
      BY <3>1, <3>2
    <3> QED
      BY <2>2, <2>4, <3>2, <3>5, <3>6
  <2> QED
    BY <2>6, <2>7, <2>8
<1>5. ASSUME s \notin Dropped(argv)
      PROVE  /\ q \in 1..Len(out) /\ out[q] = doti
             /\ q \notin After(out, Naming)
  <2>1. CASE Has(argv, {F("-x")})
    <3>1. Len(Block(argv, doti, s)) = 1 /\ Block(argv, doti, s)[1] = doti
      <4>1. Single(Block(argv, doti, s), doti)
        BY <1>1, <1>2, <1>5, <2>1, OneOfFile, Zenon
      <4> QED
        BY <4>1 DEF Single
    <3>2. 1 \in 1..Len(Block(argv, doti, s)) /\ q = st[s] + 1
      BY <3>1
    <3>3. q \in 1..Len(out) /\ out[q] = doti
      <4>1. /\ st[s] + 1 \in 1..Len(out)
            /\ out[st[s] + 1] = Block(argv, doti, s)[1]
        BY <1>2, <3>1, LayoutOfOne DEF out
      <4> QED
        BY <3>1, <3>2, <4>1
    <3>4. q \notin After(out, Naming)
      BY <1>2, <3>1, <3>2, SentAfter DEF out
    <3> QED
      BY <3>3, <3>4
  <2>2. CASE ~Has(argv, {F("-x")})
    <3>1. /\ Len(Block(argv, doti, s)) = 3
          /\ Block(argv, doti, s)[2] \in {F("c"), F("c++")}
          /\ Block(argv, doti, s)[3] = doti
      <4>1. Triple(Block(argv, doti, s), doti)
        BY <1>1, <1>2, <1>5, <2>2, ThreeOfSource, Zenon
      <4> QED
        BY <4>1 DEF Triple
    <3>2. /\ 3 \in 1..Len(Block(argv, doti, s))
          /\ 2 \in 1..Len(Block(argv, doti, s)) /\ q = st[s] + 3
      BY <3>1
    <3>3. /\ q \in 1..Len(out) /\ out[q] = doti
          /\ out[st[s] + 2] \in {F("c"), F("c++")} /\ st[s] \in Nat
      <4>1. 2 \in {1, 2, 3} /\ 3 \in {1, 2, 3}
        OBVIOUS
      <4>2. /\ st[s] \in Nat /\ st[s] + 3 \in 1..Len(out)
            /\ out[st[s] + 3] = Block(argv, doti, s)[3]
        BY <1>2, <3>1, <4>1, LayoutOfThree DEF out
      <4>3. out[st[s] + 2] = Block(argv, doti, s)[2]
        BY <1>2, <3>1, <4>1, LayoutOfThree DEF out
      <4> QED
        BY <3>1, <3>2, <4>2, <4>3
    <3>4. q - 1 = st[s] + 2
      BY <3>2, <3>3
    <3>5. q \notin After(out, Naming)
      BY <3>3, <3>4, OptionsDiffer DEF After
    <3> QED
      BY <3>3, <3>5
  <2> QED
    BY <2>1, <2>2
<1>6. s \in Dropped(argv) => Sources(out) = {}
  BY <1>3, <1>4, Zenon
<1>7. s \notin Dropped(argv) => Sources(out) = {q} /\ out[q] = doti
  <2>1. SUFFICES ASSUME s \notin Dropped(argv)
                 PROVE  Sources(out) = {q} /\ out[q] = doti
    OBVIOUS
  <2>2. /\ q \in 1..Len(out) /\ out[q] = doti /\ IsSourceFile(out[q])
        /\ q \notin After(out, Naming)
    BY <1>1, <1>5, <2>1
  <2> HIDE DEF q
  <2>3. q \in Sources(out)
    BY <1>3, <2>2
  <2>4. \A p \in Sources(out) : p = q
    BY <1>3, <1>4 DEF q
  <2> QED
    BY <2>2, <2>3, <2>4
<1> QED
  BY <1>6, <1>7, Zenon DEF s, out

(* Its object is the client's. *)
LEMMA SentObject ==
  ASSUME NEW argv, NEW doti, NEW st, Sending(argv, doti), Layout(argv, doti, st)
  PROVE  LET out == CompilerCmd(argv, doti) IN
         Objects(out) # {} /\ ObjectFile(out) = ObjectFile(argv)
<1> DEFINE n   == Len(argv)
           m   == ObjectAt(argv)
           out == CompilerCmd(argv, doti)
           q   == st[m] + 1
<1>1. /\ argv \in Seq(Words) /\ n \in Nat /\ doti \in Words
      /\ IsSourceFile(doti) /\ doti \notin Naming \cup Compilation
      /\ Taken(argv)
      /\ out \in Seq(Words) /\ Len(out) \in Nat
  BY TakenApart DEF Sending, Taken, Layout
<1>2. /\ m \in 1..n /\ m > 1 /\ argv[m - 1] = F("-o")
      /\ ObjectFile(argv) = argv[m]
      /\ \A j \in 1..n : j > 1 /\ argv[j - 1] = F("-o") => j <= m
  BY <1>1, TakenObject
<1>3. Looked(out) = 1..Len(out) \ After(out, Naming)
  BY SentLooked, Zenon
<1>4. \A p \in 1..Len(out) - 1 : out[p] \in Naming => out[p + 1] \notin Naming
  BY SentApart, Zenon
<1> HIDE DEF m, out
<1>5. ASSUME NEW p \in 1..Len(out), out[p] = F("-o") PROVE p \in Looked(out)
  <2>1. SUFFICES ASSUME p > 1, out[p - 1] \in Naming PROVE FALSE
    BY <1>3 DEF After
  <2>2. p - 1 \in 1..Len(out) - 1 /\ (p - 1) + 1 = p
    BY <1>1, <2>1
  <2> QED
    BY <1>4, <1>5, <2>1, <2>2 DEF Naming
<1>6. ASSUME NEW j \in 1..n - 1, argv[j] = F("-o")
      PROVE  /\ Len(Block(argv, doti, j)) = 1
             /\ Block(argv, doti, j)[1] = F("-o")
             /\ Len(Block(argv, doti, j + 1)) = 1
             /\ Block(argv, doti, j + 1)[1] = argv[j + 1]
  <2>1. j \in 1..n /\ j < n /\ argv[j] \in Naming
    BY <1>1, <1>6 DEF Naming
  <2>2. /\ j \notin Dropped(argv) /\ argv[j] # SourceFile(argv)
        /\ Len(Block(argv, doti, j + 1)) = 1
        /\ Block(argv, doti, j + 1)[1] = argv[j + 1]
    BY <1>1, <1>6, <2>1, NamingIsKept, Zenon
  <2>3. Len(Block(argv, doti, j)) = 1 /\ Block(argv, doti, j)[1] = argv[j]
    <3>1. Single(Block(argv, doti, j), argv[j])
      BY <1>1, <2>1, <2>2, OneOfArgument, Zenon
    <3> QED
      BY <3>1 DEF Single
  <2> QED
    BY <1>6, <2>2, <2>3
<1>7. PICK i \in 1..n - 1 : m = i + 1 /\ argv[i] = F("-o")
  <2>1. m - 1 \in 1..n - 1 /\ m = (m - 1) + 1
    BY <1>1, <1>2
  <2> QED
    BY <1>2, <2>1
<1>8. /\ st[i] + 1 \in 1..Len(out) /\ out[st[i] + 1] = F("-o")
      /\ st[i] \in Nat /\ st[m] = st[i] + 1
      /\ q \in 1..Len(out) /\ out[q] = argv[m]
  <2>1. i \in 1..n /\ i + 1 \in 1..n
    BY <1>1
  <2>2. /\ Len(Block(argv, doti, i)) = 1
        /\ Block(argv, doti, i)[1] = F("-o")
        /\ Len(Block(argv, doti, m)) = 1
        /\ Block(argv, doti, m)[1] = argv[m]
    BY <1>6, <1>7, Zenon
  <2>3. /\ st[i] + 1 \in 1..Len(out)
        /\ out[st[i] + 1] = Block(argv, doti, i)[1]
        /\ st[i] \in Nat /\ st[i + 1] = st[i] + 1
    BY <2>1, <2>2, LayoutOfOne DEF out
  <2>4. out[st[i] + 1] = F("-o")
    BY <2>2, <2>3
  <2>5. q \in 1..Len(out) /\ out[q] = Block(argv, doti, m)[1]
    BY <1>2, <2>2, LayoutOfOne DEF out
  <2>6. out[q] = argv[m]
    BY <2>2, <2>5
  <2> QED
    BY <1>7, <2>3, <2>4, <2>5, <2>6
<1>9. q \in Objects(out)
  <2>1. q = (st[i] + 1) + 1 /\ st[i] + 1 # Len(out)
    BY <1>1, <1>8
  <2>2. st[i] + 1 \in Looked(out)
    BY <1>5, <1>8
  <2> QED
    BY <1>8, <2>1, <2>2 DEF Objects
<1>10. ASSUME NEW p \in Objects(out) PROVE p <= q /\ p \in Nat
  <2>1. PICK o \in Looked(out) : o # Len(out) /\ out[o] = F("-o") /\ p = o + 1
    BY DEF Objects
  <2>2. o \in 1..Len(out)
    BY <1>3
  <2>3. PICK j \in 1..n : /\ o = st[j] + 1 /\ j \notin Dropped(argv)
                          /\ \/ /\ argv[j] \in Naming /\ st[j + 1] = st[j] + 1
                                /\ out[o] = argv[j]
                             \/ /\ Len(Block(argv, doti, j)) = 3
                                /\ Block(argv, doti, j)[2]
                                     \in {F("c"), F("c++")}
                                /\ out[o] = F("-x")
    <3>1. out[o] \in Naming
      BY <2>1 DEF Naming
    <3> QED
      BY <2>2, <3>1, SentNaming DEF out
  <2>4. argv[j] = F("-o") /\ st[j + 1] = st[j] + 1
    BY <2>1, <2>3, OptionsDiffer
  <2>5. j # n
    <3>1. SUFFICES ASSUME j = n PROVE FALSE
      OBVIOUS
    <3>2. Len(out) = st[j + 1]
      BY <3>1, Zenon DEF Layout, out
    <3> QED
      BY <2>1, <2>3, <2>4, <3>2
  <2>6. j + 1 \in 1..n /\ j + 1 > 1 /\ (j + 1) - 1 = j
    BY <1>1, <2>5
  <2>7. j + 1 <= m
    BY <1>2, <2>4, <2>6
  <2>8. st[j + 1] <= st[m]
    BY <1>2, <2>6, <2>7, Zenon DEF Layout
  <2>9. st[j] \in Nat /\ st[m] \in Nat
    BY <1>2, Zenon DEF Layout
  <2>10. p = st[j + 1] + 1 /\ st[j + 1] \in Nat
    BY <2>1, <2>3, <2>4, <2>9
  <2> QED
    BY <2>8, <2>9, <2>10
<1>11. Max(Objects(out)) = q
  <2>1. q \in Nat
    BY <1>8
  <2> HIDE DEF q
  <2>2. \A x \in Objects(out) : (\A y \in Objects(out) : x >= y) <=> x = q
    BY <1>9, <1>10, <2>1
  <2> QED
    BY <1>9, <2>2 DEF Max
<1>12. ObjectFile(out) = argv[m]
  BY <1>8, <1>11 DEF ObjectFile
<1> QED
  BY <1>2, <1>9, <1>12 DEF out

(* The command sent is the client's: the server takes it, unless the source *)
(* was dropped on the way.                                                  *)
LEMMA SentReads ==
  ASSUME NEW argv, NEW doti, Sending(argv, doti)
  PROVE  LET out == CompilerCmd(argv, doti) IN
         IF SourceAt(argv) \in Dropped(argv)
           THEN ~CanHandle(out)
           ELSE /\ CanHandle(out)
                /\ SourceFile(out) = doti
                /\ ObjectFile(out) = ObjectFile(argv)
<1> DEFINE n   == Len(argv)
           s   == SourceAt(argv)
           out == CompilerCmd(argv, doti)
<1>1. /\ argv \in Seq(Words) /\ n \in Nat /\ doti \in Words
      /\ OptionsApart(argv) /\ CanHandle(argv)
  BY TakenApart DEF Sending, Taken
<1>2. PICK st : Layout(argv, doti, st)
  BY <1>1, LayoutExists
<1> DEFINE q == st[s] + Len(Block(argv, doti, s))
<1>3. /\ s \in Dropped(argv) => Sources(out) = {}
      /\ s \notin Dropped(argv) => Sources(out) = {q} /\ out[q] = doti
  BY <1>2, SentSources, Zenon
<1>4. Objects(out) # {} /\ ObjectFile(out) = ObjectFile(argv)
  BY <1>2, SentObject, Zenon
<1>5. Looked(out) = 1..Len(out) \ After(out, Naming)
  BY <1>2, SentLooked, Zenon
<1>6. \E p \in Looked(out) : out[p] \in Compilation
  <2>1. PICK j \in Looked(argv) : argv[j] \in Compilation
    BY <1>1, Zenon DEF CanHandle, Compilation
  <2>2. j \in 1..n /\ j \notin After(argv, Naming)
    BY <1>1, <2>1, ReadApart
  <2>3. argv[j] \in Options
    BY <2>1 DEF Options, Compilation
  <2>4. j \notin After(argv, Paired)
    <3>1. SUFFICES ASSUME j > 1, argv[j - 1] \in Paired PROVE FALSE
      BY DEF After
    <3>2. j - 1 \in 1..n - 1 /\ (j - 1) + 1 = j
      BY <1>1, <2>2, <3>1
    <3> QED
      BY <1>1, <2>3, <3>1, <3>2 DEF OptionsApart
  <2>5. argv[j] \notin Alone \cup Paired
    BY <2>1, OptionsDiffer
  <2>6. j \notin Dropped(argv)
    BY <1>1, <2>4, <2>5, ReadApart
  <2>7. argv[j] # SourceFile(argv)
    BY <2>1, TakenSource, OptionsAreNoSources, Zenon DEF Sending
  <2>8. Len(Block(argv, doti, j)) = 1 /\ Block(argv, doti, j)[1] = argv[j]
    <3>1. Single(Block(argv, doti, j), argv[j])
      BY <1>1, <2>2, <2>6, <2>7, OneOfArgument, Zenon
    <3> QED
      BY <3>1 DEF Single
  <2>9. /\ st[j] + 1 \in 1..Len(out)
        /\ out[st[j] + 1] = Block(argv, doti, j)[1]
    BY <1>2, <2>2, <2>8, LayoutOfOne
  <2>10. st[j] + 1 \in 1..Len(out) /\ out[st[j] + 1] = argv[j]
    BY <2>8, <2>9
  <2>11. st[j] + 1 \notin After(out, Naming)
    BY <1>2, <2>2, <2>8, SentAfter
  <2>12. st[j] + 1 \in Looked(out)
    BY <1>5, <2>10, <2>11
  <2> QED
    BY <2>1, <2>10, <2>12
<1> HIDE DEF out, s, q
<1>7. CASE s \in Dropped(argv)
  <2>1. Sources(out) = {}
    BY <1>3, <1>7
  <2>2. ~CanHandle(out)
    BY <2>1, Zenon DEF CanHandle
  <2> QED
    BY <1>7, <2>2 DEF out, s
<1>8. CASE s \notin Dropped(argv)
  <2>1. Sources(out) = {q} /\ out[q] = doti
    BY <1>3, <1>8
  <2>2. CanHandle(out)
    BY <1>4, <1>6, <2>1, Zenon DEF CanHandle, Compilation
  <2>3. SourceFile(out) = doti
    <3>1. (CHOOSE j \in Sources(out) : TRUE) = q
      BY <2>1
    <3> QED
      BY <2>1, <3>1 DEF SourceFile
  <2> QED
    BY <1>4, <1>8, <2>2, <2>3 DEF out, s
<1> QED
  BY <1>7, <1>8

-----------------------------------------------------------------------------
(* What the server compiles *)

(* No command that makes it preprocess only.                                *)
Compiling(argv) ==
  \A p \in 1..Len(argv) : argv[p] \notin {F("-E"), F("-M")}

LEMMA SentCompiles ==
  ASSUME NEW argv \in Seq(Words), ~CalledForPreprocessing(argv),
         NEW doti \in Words, doti \notin {F("-E"), F("-M")}
  PROVE  /\ CompilerCmd(argv, doti) \in Seq(Words)
         /\ Compiling(CompilerCmd(argv, doti))
<1> DEFINE n   == Len(argv)
           out == CompilerCmd(argv, doti)
<1>1. PICK st : Layout(argv, doti, st)
  BY LayoutExists
<1>2. out \in Seq(Words)
  BY <1>1, Zenon DEF Layout
<1>3. ASSUME NEW p \in 1..Len(out) PROVE out[p] \notin {F("-E"), F("-M")}
  <2>1. PICK j \in 1..n : \E k \in 1..Len(Block(argv, doti, j)) : p = st[j] + k
    BY <1>1, Zenon DEF Layout
  <2>2. PICK k \in 1..Len(Block(argv, doti, j)) : p = st[j] + k
    BY <2>1
  <2>3. out[p] = Block(argv, doti, j)[k]
    BY <1>1, <2>2, LayoutAt
  <2> HIDE DEF out
  <2>4. j \notin Dropped(argv)
    <3>1. SUFFICES ASSUME j \in Dropped(argv) PROVE FALSE
      OBVIOUS
    <3>2. Block(argv, doti, j) = <<>>
      BY <3>1, BlockOfDropped, Zenon
    <3> QED
      BY <2>2, <3>2
  <2>5. CASE argv[j] # SourceFile(argv)
    <3>1. Len(Block(argv, doti, j)) = 1 /\ Block(argv, doti, j)[1] = argv[j]
      <4>1. Single(Block(argv, doti, j), argv[j])
        BY <2>4, <2>5, OneOfArgument, Zenon
      <4> QED
        BY <4>1 DEF Single
    <3>2. out[p] = argv[j]
      BY <2>2, <2>3, <3>1
    <3>3. argv[j] # F("-M")
      BY <2>4 DEF Dropped, Alone
    <3>4. argv[j] # F("-E")
      BY DEF CalledForPreprocessing, Has
    <3> QED
      BY <3>2, <3>3, <3>4
  <2>6. CASE argv[j] = SourceFile(argv) /\ Has(argv, {F("-x")})
    <3>1. Len(Block(argv, doti, j)) = 1 /\ Block(argv, doti, j)[1] = doti
      <4>1. Single(Block(argv, doti, j), doti)
        BY <2>4, <2>6, OneOfFile, Zenon
      <4> QED
        BY <4>1 DEF Single
    <3>2. out[p] = doti
      BY <2>2, <2>3, <3>1
    <3> QED
      BY <3>2
  <2>7. CASE argv[j] = SourceFile(argv) /\ ~Has(argv, {F("-x")})
    <3>1. /\ Len(Block(argv, doti, j)) = 3
          /\ Block(argv, doti, j)[1] = F("-x")
          /\ Block(argv, doti, j)[2] \in {F("c"), F("c++")}
          /\ Block(argv, doti, j)[3] = doti
      <4>1. Triple(Block(argv, doti, j), doti)
        BY <2>4, <2>7, ThreeOfSource, Zenon
      <4> QED
        BY <4>1 DEF Triple
    <3>2. k = 1 \/ k = 2 \/ k = 3
      BY <2>2, <3>1
    <3>3. out[p] \in {F("-x"), F("c"), F("c++"), doti}
      BY <2>3, <3>1, <3>2
    <3>4. {F("-x"), F("c"), F("c++")} \cap {F("-E"), F("-M")} = {}
      BY DEF F
    <3> QED
      BY <3>3, <3>4
  <2> QED
    BY <2>5, <2>6, <2>7
<1> QED
  BY <1>2, <1>3 DEF Compiling

(* What the server makes of what it gets is a command of that kind too.     *)
LEMMA ServerCompiles ==
  ASSUME NEW argv \in Seq(Words), Compiling(argv)
  PROVE  Compiling(ServerCmd(argv))
<1> DEFINE b == SetObjectFile(argv, TempObject)
<1>1. /\ TempObject \in Words /\ TempDoti \in Words
      /\ TempObject # F("-E") /\ TempDoti \notin {F("-E"), F("-M")}
  <2>1. "tmp" \in Word /\ "o" \in Word /\ "ii" \in Word
    BY DEF Word
  <2> QED
    BY <2>1 DEF TempObject, TempDoti, Words, F
<1>2. b \in Seq(Words)
  BY <1>1 DEF SetObjectFile
<1>3. ~CalledForPreprocessing(b)
  <2>1. \A j \in 1..Len(argv) : b[j] # F("-E")
    BY <1>1 DEF SetObjectFile, Compiling
  <2>2. Len(b) = Len(argv)
    BY DEF SetObjectFile
  <2> QED
    BY <2>1, <2>2 DEF CalledForPreprocessing, Has
<1> HIDE DEF b
<1> QED
  BY <1>1, <1>2, <1>3, SentCompiles DEF ServerCmd, b

(* And what the compiler makes of that is an object, or assembly.           *)
LEMMA CompilingMakesObjects ==
  ASSUME NEW argv, Compiling(argv), NEW x, NEW fs, NEW cpu,
         NEW r \in Run(x, argv, fs, cpu), r.ok
  PROVE  r.out.kind \in {"object", "asm"}
<1>1. ~Given(argv, {F("-E"), F("-M")})
  BY DEF Given, Plain, Compiling
<1>2. Stage(argv) \in {"object", "asm"} /\ Stage(argv) # "preprocess"
  BY <1>1 DEF Stage
<1> DEFINE j    == CHOOSE k \in Inputs(argv) : TRUE
           made == Made(x, argv, j, fs, cpu)
           good == [ok |-> TRUE, out |-> made]
<1>3. made.kind = Stage(argv)
  BY <1>2 DEF Made, Content
<1> HIDE DEF j, made
<1>4. r = Failure \/ r = good
  BY Zenon DEF Run, made, j
<1>5. r # Failure
  BY DEF Failure
<1>6. r = good
  BY <1>4, <1>5
<1> QED
  BY <1>2, <1>3, <1>6

-----------------------------------------------------------------------------
(* The specification *)

(* A client between two steps, in terms of its own variables: K is what it  *)
(* may be asked, p its pc, line its cmd, argv its args, msg what it has     *)
(* sent, e its end and obj what it got.                                     *)
Reading(line) == ~CalledForPreprocessing(line) /\ CanHandle(line)
DotiOf(line) == PreprocessedFilename(SourceFile(line), ObjectFile(line))

ClientOK(K, p, line, argv, msg, e, obj) ==
  /\ p # "idle" => line \in K
  /\ Len(argv) = Len(line)
  /\ p \in {"route", "rewrite"} => argv = line
  /\ p \in {"rewrite", "preprocess", "send", "serve"} => Reading(line)
  /\ p \in {"preprocess", "send", "serve"} => argv = RewriteLocalArgs(line)
  /\ p = "serve" => msg # Nothing
  /\ p \notin {"serve", "done"} => msg = Nothing
  /\ msg # Nothing =>
       /\ line \in K /\ Reading(line)
       /\ msg.args = CompilerCmd(RewriteLocalArgs(line), DotiOf(line))
       /\ msg.doti # NoFile
  /\ p # "done" => e = "none"
  /\ e = "object" <=> obj.kind \in {"object", "asm"}

ClientPlace == {"idle", "route", "local", "rewrite", "preprocess",
                "send", "serve", "done"}
IsFunction(f) == f = [c \in Client |-> f[c]]
Functions ==
  /\ IsFunction(compiler) /\ IsFunction(cmd) /\ IsFunction(args)
  /\ IsFunction(pc) /\ IsFunction(sent) /\ IsFunction(end) /\ IsFunction(got)
Ranges ==
  /\ compiler \in [Client -> {"gcc", "g++", "cc"}]
  /\ pc \in [Client -> ClientPlace]
  /\ end \in [Client -> Ends]
  /\ DOMAIN InitialFiles \subseteq DOMAIN files
IsOK(c) ==
  ClientOK(Commands[c], pc[c], cmd[c], args[c], sent[c], end[c], got[c])

WrapInv == Functions /\ Ranges /\ \A c \in Client : IsOK(c)

(* A step of one client leaves the others as they are.                      *)
Others(c) ==
  \A d \in Client : d # c =>
    /\ pc'[d] = pc[d] /\ cmd'[d] = cmd[d] /\ args'[d] = args[d]
    /\ sent'[d] = sent[d] /\ end'[d] = end[d] /\ got'[d] = got[d]

LEMMA StepOfOne ==
  ASSUME WrapInv, NEW c \in Client, Functions', Ranges', Others(c), IsOK(c)'
  PROVE  WrapInv'
<1>1. ASSUME NEW d \in Client PROVE IsOK(d)'
  <2>1. CASE d = c
    BY <2>1
  <2>2. CASE d # c
    <3>1. IsOK(d)
      BY DEF WrapInv
    <3> QED
      BY <2>2, <3>1, Zenon DEF IsOK, Others
  <2> QED
    BY <2>1, <2>2
<1> QED
  BY <1>1 DEF WrapInv

(* What a command that is taken is, and what is sent for it.                *)
LEMMA CommandIsTaken ==
  ASSUME NEW c \in Client, NEW line \in Commands[c], Reading(line)
  PROVE  LET argv == RewriteLocalArgs(line) IN
         /\ Taken(line) /\ Sending(argv, DotiOf(line))
         /\ ~CalledForPreprocessing(argv)
         /\ DotiOf(line) \notin {F("-E"), F("-M")}
<1> DEFINE argv == RewriteLocalArgs(line)
<1>1. Taken(line)
  BY CommandsAssumption, ArgumentsAreWords DEF Reading, Taken
<1>2. Taken(argv)
  BY <1>1, RewriteReads
<1>3. ObjectFile(line) \in Words
  <2>1. line \in Seq(Words)
    BY <1>1 DEF Taken
  <2>2. /\ ObjectAt(line) \in 1..Len(line)
        /\ ObjectFile(line) = line[ObjectAt(line)]
    BY <1>1, TakenObject, Zenon
  <2> QED
    BY <2>1, <2>2
<1>4. /\ DotiOf(line) \in Words /\ IsSourceFile(DotiOf(line))
      /\ DotiOf(line) \notin Naming \cup Compilation
  BY <1>3, PreprocessedIsSource DEF DotiOf
<1>5. DotiOf(line) \notin {F("-E"), F("-M")}
  <2>1. ~IsSourceFile(F("-E")) /\ ~IsSourceFile(F("-M"))
    BY DEF F, IsSourceFile, Extension, Last, SourceExtensions
  <2> QED
    BY <1>4, <2>1
<1>6. ~CalledForPreprocessing(argv)
  <2>1. ~CalledForPreprocessing(line) /\ line \in Seq(Words)
    BY <1>1 DEF Reading, Taken
  <2>2. F("-E") \notin Resolved
    BY DEF Resolved, ArchCPU, TuneCPU, F
  <2>3. \A j \in 1..Len(line) : line[j] # F("-E")
    BY <2>1 DEF CalledForPreprocessing, Has
  <2>4. /\ Len(argv) = Len(line)
        /\ \A j \in 1..Len(line) : argv[j] = Renamed(line[j])
    BY <2>1 DEF RewriteLocalArgs
  <2>5. \A j \in 1..Len(line) : argv[j] \in {line[j]} \cup Resolved
    <3>1. \A x : Renamed(x) \in {x} \cup Resolved
      BY RenamedIs
    <3> QED
      BY <2>4, <3>1
  <2> HIDE DEF argv
  <2> QED
    BY <2>2, <2>3, <2>4, <2>5 DEF CalledForPreprocessing, Has
<1> QED
  BY <1>1, <1>2, <1>4, <1>5, <1>6 DEF Sending

LEMMA WrapInit == Init => WrapInv
<1> SUFFICES ASSUME Init PROVE WrapInv
  OBVIOUS
<1>1. Functions
  BY DEF Init, Functions, IsFunction
<1>2. Ranges
  BY DEF Init, Ranges, Ends, ClientPlace
<1>3. ASSUME NEW c \in Client PROVE IsOK(c)
  <2>1. /\ pc[c] = "idle" /\ cmd[c] = <<>> /\ args[c] = <<>>
        /\ sent[c] = Nothing /\ end[c] = "none" /\ got[c] = NoFile
    BY DEF Init
  <2>2. NoFile.kind = "none"
    BY DEF NoFile, Text, Content
  <2> QED
    BY <2>1, <2>2 DEF IsOK, ClientOK
<1> QED
  BY <1>1, <1>2, <1>3 DEF WrapInv

LEMMA AtMoves ==
  ASSUME WrapInv, NEW c \in Client, NEW here, NEW there, At(c, here, there),
         there \in {"local", "rewrite", "preprocess", "send", "serve", "done"}
  PROVE  /\ pc[c] = here /\ pc'[c] = there
         /\ IsFunction(pc') /\ IsFunction(cmd') /\ IsFunction(compiler')
         /\ cmd' = cmd
         /\ pc' \in [Client -> ClientPlace]
         /\ compiler' \in [Client -> {"gcc", "g++", "cc"}]
         /\ \A d \in Client : d # c => pc'[d] = pc[d]
<1>1. /\ pc[c] = here /\ pc' = [pc EXCEPT ![c] = there]
      /\ cmd' = cmd /\ compiler' = compiler
  BY DEF At
<1>2. Functions /\ Ranges
  BY DEF WrapInv
<1>3. IsFunction(pc') /\ pc'[c] = there
      /\ \A d \in Client : d # c => pc'[d] = pc[d]
  <2>1. IsFunction(pc)
    BY <1>1, <1>2 DEF Functions
  <2>2. pc' = [pc EXCEPT ![c] = there]
    BY <1>1, <1>2
  <2> QED
    BY <2>1, <2>2 DEF IsFunction
<1>4. pc' \in [Client -> ClientPlace]
  BY <1>1, <1>2 DEF Ranges, ClientPlace
<1>5. IsFunction(cmd') /\ IsFunction(compiler')
  BY <1>1, <1>2 DEF Functions
<1>6. compiler' \in [Client -> {"gcc", "g++", "cc"}]
  BY <1>1, <1>2 DEF Ranges
<1> QED
  BY <1>1, <1>3, <1>4, <1>5, <1>6

LEMMA EndingMoves ==
  ASSUME WrapInv, NEW c \in Client, NEW here, NEW how, Ending(c, here, how),
         how \in Ends
  PROVE  /\ At(c, here, "done")
         /\ IsFunction(end') /\ end'[c] = how /\ end' \in [Client -> Ends]
         /\ \A d \in Client : d # c => end'[d] = end[d]
<1>1. At(c, here, "done") /\ end' = [end EXCEPT ![c] = how]
  BY DEF Ending
<1>2. IsFunction(end) /\ end \in [Client -> Ends]
  BY DEF WrapInv, Functions, Ranges
<1>3. IsFunction(end') /\ end'[c] = how
      /\ \A d \in Client : d # c => end'[d] = end[d]
  <2>1. IsFunction(end)
    BY <1>1, <1>2 DEF Functions
  <2>2. end' = [end EXCEPT ![c] = how]
    BY <1>1, <1>2
  <2> QED
    BY <2>1, <2>2 DEF IsFunction
<1>4. end' \in [Client -> Ends]
  BY <1>1, <1>2
<1> QED
  BY <1>1, <1>3, <1>4

LEMMA WritesKeeps ==
  ASSUME DOMAIN InitialFiles \subseteq DOMAIN files, NEW name, NEW content,
         Writes(name, content)
  PROVE  DOMAIN InitialFiles \subseteq DOMAIN files'
BY DEF Writes

(* A client that ends without an object, and has not sent anything but what *)
(* it may have sent before.                                                 *)
LEMMA EndsWithout ==
  ASSUME WrapInv, NEW c \in Client, NEW here, NEW how, Ending(c, here, how),
         how \in Ends \ {"none", "object"}, here # "done", here # "idle",
         UNCHANGED <<args, sent, got>>,
         DOMAIN InitialFiles \subseteq DOMAIN files'
  PROVE  WrapInv'
<1>1. /\ At(c, here, "done") /\ how \in Ends /\ how # "object"
      /\ IsFunction(end') /\ end'[c] = how /\ end' \in [Client -> Ends]
      /\ \A d \in Client : d # c => end'[d] = end[d]
  BY EndingMoves
<1>2. /\ pc[c] = here /\ pc'[c] = "done" /\ cmd' = cmd
      /\ IsFunction(pc') /\ IsFunction(cmd') /\ IsFunction(compiler')
      /\ pc' \in [Client -> ClientPlace]
      /\ compiler' \in [Client -> {"gcc", "g++", "cc"}]
      /\ \A d \in Client : d # c => pc'[d] = pc[d]
  BY <1>1, AtMoves
<1>3. Functions /\ Ranges /\ IsOK(c)
  BY DEF WrapInv
<1>4. Functions'
  BY <1>1, <1>2, <1>3 DEF Functions
<1>5. Ranges'
  BY <1>1, <1>2 DEF Ranges
<1>6. Others(c)
  BY <1>1, <1>2 DEF Others
<1>7. IsOK(c)'
  BY <1>1, <1>2, <1>3 DEF IsOK, ClientOK
<1> QED
  BY <1>4, <1>5, <1>6, <1>7, StepOfOne

(* A client that goes on, sends nothing and gets nothing.                   *)
LEMMA GoesOn ==
  ASSUME WrapInv, NEW c \in Client, NEW here, NEW there, At(c, here, there),
         there \in {"local", "rewrite", "preprocess", "send"},
         here # "done", here # "serve", here # "idle",
         UNCHANGED <<sent, end, got>>, IsFunction(args'),
         \A d \in Client : d # c => args'[d] = args[d],
         DOMAIN InitialFiles \subseteq DOMAIN files',
         Len(args'[c]) = Len(cmd[c]),
         there = "rewrite" => args'[c] = cmd[c] /\ Reading(cmd[c]),
         there \in {"preprocess", "send"} =>
           args'[c] = RewriteLocalArgs(cmd[c]) /\ Reading(cmd[c])
  PROVE  WrapInv'
<1>1. /\ pc[c] = here /\ pc'[c] = there /\ cmd' = cmd
      /\ IsFunction(pc') /\ IsFunction(cmd') /\ IsFunction(compiler')
      /\ pc' \in [Client -> ClientPlace]
      /\ compiler' \in [Client -> {"gcc", "g++", "cc"}]
      /\ \A d \in Client : d # c => pc'[d] = pc[d]
  BY AtMoves
<1>2. Functions /\ Ranges /\ IsOK(c)
  BY DEF WrapInv
<1>3. Functions'
  BY <1>1, <1>2 DEF Functions
<1>4. Ranges'
  BY <1>1, <1>2 DEF Ranges
<1>5. Others(c)
  BY <1>1 DEF Others
<1>6. IsOK(c)'
  BY <1>1, <1>2 DEF IsOK, ClientOK
<1> QED
  BY <1>3, <1>4, <1>5, <1>6, StepOfOne

LEMMA StartKeeps ==
  ASSUME WrapInv, NEW c \in Client, Start(c)
  PROVE  WrapInv'
<1>1. PICK x \in Commands[c], y \in {"gcc", "g++", "cc"} :
        /\ cmd' = [cmd EXCEPT ![c] = x] /\ args' = [args EXCEPT ![c] = x]
        /\ compiler' = [compiler EXCEPT ![c] = y]
  BY DEF Start
<1>2. /\ pc[c] = "idle" /\ pc' = [pc EXCEPT ![c] = "route"]
      /\ UNCHANGED <<sent, end, got, files>>
  BY DEF Start
<1>3. Functions /\ Ranges /\ IsOK(c)
  BY DEF WrapInv
<1>4. /\ IsFunction(cmd') /\ cmd'[c] = x
      /\ \A d \in Client : d # c => cmd'[d] = cmd[d]
  <2>1. IsFunction(cmd)
    BY <1>1, <1>3 DEF Functions
  <2>2. cmd' = [cmd EXCEPT ![c] = x]
    BY <1>1, <1>3
  <2> QED
    BY <2>1, <2>2 DEF IsFunction
<1>5. /\ IsFunction(args') /\ args'[c] = x
      /\ \A d \in Client : d # c => args'[d] = args[d]
  <2>1. IsFunction(args)
    BY <1>1, <1>3 DEF Functions
  <2>2. args' = [args EXCEPT ![c] = x]
    BY <1>1, <1>3
  <2> QED
    BY <2>1, <2>2 DEF IsFunction
<1>6. /\ IsFunction(pc') /\ pc'[c] = "route"
      /\ \A d \in Client : d # c => pc'[d] = pc[d]
  <2>1. IsFunction(pc)
    BY <1>2, <1>3 DEF Functions
  <2>2. pc' = [pc EXCEPT ![c] = "route"]
    BY <1>2, <1>3
  <2> QED
    BY <2>1, <2>2 DEF IsFunction
<1>7. IsFunction(compiler')
  <2>1. IsFunction(compiler)
    BY <1>1, <1>3 DEF Functions
  <2> QED
    BY <1>1, <1>3, <2>1 DEF IsFunction
<1>8. Functions'
  BY <1>2, <1>3, <1>4, <1>5, <1>6, <1>7 DEF Functions
<1>9. Ranges'
  BY <1>1, <1>2, <1>3 DEF Ranges, ClientPlace
<1>10. Others(c)
  BY <1>2, <1>4, <1>5, <1>6 DEF Others
<1>11. IsOK(c)'
  BY <1>2, <1>3, <1>4, <1>5, <1>6 DEF IsOK, ClientOK
<1> QED
  BY <1>8, <1>9, <1>10, <1>11, StepOfOne

LEMMA SendKeeps ==
  ASSUME WrapInv, NEW c \in Client, Send(c)
  PROVE  WrapInv'
<1>1. Functions /\ Ranges /\ IsOK(c)
  BY DEF WrapInv
<1>2. CASE /\ FileAt(files, DotiFile(c)) # NoFile
           /\ At(c, "send", "serve")
           /\ sent' = [sent EXCEPT ![c] =
                [args |-> CompilerCmd(args[c], DotiFile(c)),
                 doti |-> files[DotiFile(c)]]]
           /\ UNCHANGED end
  <2>1. UNCHANGED <<args, got, files>>
    BY DEF Send
  <2>2. /\ pc[c] = "send" /\ pc'[c] = "serve" /\ cmd' = cmd
        /\ IsFunction(pc') /\ IsFunction(cmd') /\ IsFunction(compiler')
        /\ pc' \in [Client -> ClientPlace]
        /\ compiler' \in [Client -> {"gcc", "g++", "cc"}]
        /\ \A d \in Client : d # c => pc'[d] = pc[d]
    BY <1>2, AtMoves
  <2> DEFINE m == [args |-> CompilerCmd(args[c], DotiFile(c)),
                   doti |-> files[DotiFile(c)]]
  <2>3. /\ IsFunction(sent') /\ sent'[c] = m
        /\ \A d \in Client : d # c => sent'[d] = sent[d]
    <3>1. IsFunction(sent)
      BY <1>1, <1>2 DEF Functions
    <3>2. sent' = [sent EXCEPT ![c] = m]
      BY <1>1, <1>2
    <3> QED
      BY <3>1, <3>2 DEF IsFunction
  <2>4. files[DotiFile(c)] # NoFile
    BY <1>2 DEF FileAt
  <2>5. /\ m.args = CompilerCmd(args[c], DotiFile(c))
        /\ m.doti # NoFile /\ m # Nothing
    <3>1. m.doti = files[DotiFile(c)] /\ Nothing.doti = NoFile
      BY DEF Nothing
    <3> QED
      BY <2>4, <3>1
  <2>6. DotiFile(c) = DotiOf(cmd[c])
    BY DEF DotiFile, DotiOf
  <2> HIDE DEF m
  <2>7. Functions'
    BY <1>1, <1>2, <2>1, <2>2, <2>3 DEF Functions
  <2>8. Ranges'
    BY <1>1, <1>2, <2>1, <2>2 DEF Ranges
  <2>9. Others(c)
    BY <1>2, <2>1, <2>2, <2>3 DEF Others
  <2>10. IsOK(c)'
    BY <1>1, <1>2, <2>1, <2>2, <2>3, <2>5, <2>6 DEF IsOK, ClientOK
  <2> QED
    BY <2>7, <2>8, <2>9, <2>10, StepOfOne
<1>3. CASE Ending(c, "send", "no file") /\ UNCHANGED sent
  <2>1. /\ UNCHANGED <<args, sent, got>>
        /\ DOMAIN InitialFiles \subseteq DOMAIN files'
    BY <1>1, <1>3 DEF Send, Ranges
  <2> QED
    BY <1>3, <2>1, EndsWithout DEF Ends
<1> QED
  BY <1>2, <1>3 DEF Send

LEMMA CompileKeeps ==
  ASSUME WrapInv, NEW c \in Client, Compile(c)
  PROVE  WrapInv'
<1>1. Functions /\ Ranges /\ IsOK(c)
  BY DEF WrapInv
<1> DEFINE argv == sent[c].args
<1>2. /\ pc[c] = "serve" /\ UNCHANGED <<args, sent>>
      /\ \E r \in Run(cxx[c], ServerCmd(argv), ServerFiles(sent[c].doti),
                      "server") :
           \/ /\ r.ok /\ Ending(c, "serve", "object")
              /\ got' = [got EXCEPT ![c] = r.out]
              /\ Writes(ObjectFile(args[c]), r.out)
           \/ /\ ~r.ok /\ Ending(c, "serve", "compiler")
              /\ UNCHANGED <<got, files>>
  BY DEF Compile
<1>3. PICK r \in Run(cxx[c], ServerCmd(argv), ServerFiles(sent[c].doti),
                     "server") :
        \/ /\ r.ok /\ Ending(c, "serve", "object")
           /\ got' = [got EXCEPT ![c] = r.out]
           /\ Writes(ObjectFile(args[c]), r.out)
        \/ /\ ~r.ok /\ Ending(c, "serve", "compiler")
           /\ UNCHANGED <<got, files>>
  BY <1>2
<1>4. CASE /\ r.ok /\ Ending(c, "serve", "object")
           /\ got' = [got EXCEPT ![c] = r.out]
           /\ Writes(ObjectFile(args[c]), r.out)
  <2>1. r.out.kind \in {"object", "asm"}
    <3>1. /\ cmd[c] \in Commands[c] /\ Reading(cmd[c])
          /\ argv = CompilerCmd(RewriteLocalArgs(cmd[c]), DotiOf(cmd[c]))
      BY <1>1, <1>2 DEF IsOK, ClientOK
    <3>2. /\ Sending(RewriteLocalArgs(cmd[c]), DotiOf(cmd[c]))
          /\ ~CalledForPreprocessing(RewriteLocalArgs(cmd[c]))
          /\ DotiOf(cmd[c]) \notin {F("-E"), F("-M")}
      BY <3>1, CommandIsTaken
    <3>3. argv \in Seq(Words) /\ Compiling(argv)
      BY <3>1, <3>2, SentCompiles DEF Sending, Taken
    <3>4. Compiling(ServerCmd(argv))
      BY <3>3, ServerCompiles
    <3> QED
      BY <1>4, <3>4, CompilingMakesObjects
  <2>2. /\ At(c, "serve", "done")
        /\ IsFunction(end') /\ end'[c] = "object" /\ end' \in [Client -> Ends]
        /\ \A d \in Client : d # c => end'[d] = end[d]
    BY <1>4, EndingMoves DEF Ends
  <2>3. /\ pc'[c] = "done" /\ cmd' = cmd
        /\ IsFunction(pc') /\ IsFunction(cmd') /\ IsFunction(compiler')
        /\ pc' \in [Client -> ClientPlace]
        /\ compiler' \in [Client -> {"gcc", "g++", "cc"}]
        /\ \A d \in Client : d # c => pc'[d] = pc[d]
    BY <2>2, AtMoves
  <2>4. /\ IsFunction(got') /\ got'[c] = r.out
        /\ \A d \in Client : d # c => got'[d] = got[d]
    <3>1. IsFunction(got)
      BY <1>1, <1>4 DEF Functions
    <3>2. got' = [got EXCEPT ![c] = r.out]
      BY <1>1, <1>4
    <3> QED
      BY <3>1, <3>2 DEF IsFunction
  <2>5. DOMAIN InitialFiles \subseteq DOMAIN files'
    BY <1>1, <1>4, WritesKeeps DEF Ranges
  <2>6. Functions'
    BY <1>1, <1>2, <2>2, <2>3, <2>4 DEF Functions
  <2>7. Ranges'
    BY <2>2, <2>3, <2>5 DEF Ranges
  <2>8. Others(c)
    BY <1>2, <2>2, <2>3, <2>4 DEF Others
  <2>9. IsOK(c)'
    BY <1>1, <1>2, <2>1, <2>2, <2>3, <2>4 DEF IsOK, ClientOK
  <2> QED
    BY <2>6, <2>7, <2>8, <2>9, StepOfOne
<1>5. CASE /\ ~r.ok /\ Ending(c, "serve", "compiler")
           /\ UNCHANGED <<got, files>>
  <2>1. /\ UNCHANGED <<args, sent, got>>
        /\ DOMAIN InitialFiles \subseteq DOMAIN files'
    BY <1>1, <1>2, <1>5 DEF Ranges
  <2> QED
    BY <1>5, <2>1, EndsWithout DEF Ends
<1> QED
  BY <1>3, <1>4, <1>5

LEMMA StepKeeps ==
  ASSUME WrapInv, NEW c \in Client, Step(c)
  PROVE  WrapInv'
<1>1. Functions /\ Ranges /\ IsOK(c)
  BY DEF WrapInv
<1>2. DOMAIN InitialFiles \subseteq DOMAIN files
  BY <1>1 DEF Ranges
<1>3. Len(args[c]) = Len(cmd[c]) /\ IsFunction(args)
  BY <1>1 DEF IsOK, ClientOK, Functions
<1>4. CASE Start(c)
  BY <1>4, StartKeeps
<1>5. CASE RunHere(c)
  <2>1. /\ At(c, "route", "local") /\ UNCHANGED <<sent, end, got>>
        /\ args' = args /\ files' = files
    BY <1>5 DEF RunHere
  <2> QED
    BY <1>2, <1>3, <2>1, GoesOn
<1>6. CASE UnknownCompiler(c)
  <2>1. /\ Ending(c, "route", "unknown") /\ UNCHANGED <<args, sent, got>>
        /\ files' = files
    BY <1>6 DEF UnknownCompiler
  <2> QED
    BY <1>2, <2>1, EndsWithout DEF Ends
<1>7. CASE Offload(c)
  <2>1. /\ At(c, "route", "rewrite") /\ UNCHANGED <<sent, end, got>>
        /\ args' = args /\ files' = files /\ Reading(cmd[c])
    BY <1>7 DEF Offload, Understood, Reading
  <2>2. args[c] = cmd[c]
    BY <1>1, <2>1 DEF At, IsOK, ClientOK
  <2> QED
    BY <1>2, <1>3, <2>1, <2>2, GoesOn
<1>8. CASE RunLocally(c)
  <2>1. Ending(c, "local", "local") /\ UNCHANGED <<args, sent, got>>
    BY <1>8 DEF RunLocally
  <2>2. \/ UNCHANGED files
        \/ \E r \in Run(cxx[c], cmd[c], files, "client") :
             Writes(OutputFile(cmd[c]), r.out)
    BY <1>8 DEF RunLocally
  <2>3. DOMAIN InitialFiles \subseteq DOMAIN files'
    BY <1>2, <2>2, WritesKeeps
  <2> QED
    BY <2>1, <2>3, EndsWithout DEF Ends
<1>9. CASE Rewrite(c)
  <2>1. /\ At(c, "rewrite", "preprocess") /\ UNCHANGED <<sent, end, got>>
        /\ args' = [args EXCEPT ![c] = RewriteLocalArgs(args[c])]
        /\ files' = files
    BY <1>9 DEF Rewrite
  <2>2. pc[c] = "rewrite"
    BY <2>1 DEF At
  <2>3. args[c] = cmd[c] /\ Reading(cmd[c]) /\ cmd[c] \in Commands[c]
    BY <1>1, <2>2 DEF IsOK, ClientOK
  <2>4. /\ IsFunction(args') /\ args'[c] = RewriteLocalArgs(cmd[c])
        /\ \A d \in Client : d # c => args'[d] = args[d]
    BY <1>3, <2>1, <2>3 DEF IsFunction
  <2>5. Len(RewriteLocalArgs(cmd[c])) = Len(cmd[c])
    <3>1. cmd[c] \in Seq(Words)
      BY <2>3, CommandsAssumption, ArgumentsAreWords
    <3> QED
      BY <3>1 DEF RewriteLocalArgs
  <2> QED
    BY <1>2, <2>1, <2>3, <2>4, <2>5, GoesOn
<1>10. CASE Unresolved(c)
  <2>1. UNCHANGED <<args, sent, got>> /\ files' = files
    BY <1>10 DEF Unresolved
  <2>2. CASE At(c, "rewrite", "local") /\ UNCHANGED end
    BY <1>2, <1>3, <2>1, <2>2, GoesOn
  <2>3. CASE Ending(c, "rewrite", "unresolved")
    BY <1>2, <2>1, <2>3, EndsWithout DEF Ends
  <2>4. CASE Ending(c, "rewrite", "unset")
    BY <1>2, <2>1, <2>4, EndsWithout DEF Ends
  <2> QED
    BY <1>10, <2>2, <2>3, <2>4 DEF Unresolved
<1>11. CASE Preprocess(c)
  <2>1. PICK r \in Run(cxx[c], PreprocessorCmd(args[c]), files, "client") :
          /\ \/ At(c, "preprocess", "send") /\ UNCHANGED end
             \/ Ending(c, "preprocess", "preprocessor")
          /\ \/ Writes(OutputFile(PreprocessorCmd(args[c])), r.out)
             \/ UNCHANGED files
          /\ UNCHANGED <<args, sent, got>>
    BY <1>11 DEF Preprocess
  <2>2. DOMAIN InitialFiles \subseteq DOMAIN files'
    BY <1>2, <2>1, WritesKeeps
  <2>3. pc[c] = "preprocess"
    BY <1>11 DEF Preprocess
  <2>4. args[c] = RewriteLocalArgs(cmd[c]) /\ Reading(cmd[c])
    BY <1>1, <2>3 DEF IsOK, ClientOK
  <2>5. CASE At(c, "preprocess", "send") /\ UNCHANGED end
    BY <1>3, <2>1, <2>2, <2>4, <2>5, GoesOn
  <2>6. CASE Ending(c, "preprocess", "preprocessor")
    BY <2>1, <2>2, <2>6, EndsWithout DEF Ends
  <2> QED
    BY <2>1, <2>5, <2>6
<1>12. CASE Send(c)
  BY <1>12, SendKeeps
<1>13. CASE SessionFails(c)
  <2>1. UNCHANGED <<args, sent, got>> /\ files' = files
    BY <1>13 DEF SessionFails
  <2>2. CASE Ending(c, "send", "session")
    BY <1>2, <2>1, <2>2, EndsWithout DEF Ends
  <2>3. CASE Ending(c, "serve", "session")
    BY <1>2, <2>1, <2>3, EndsWithout DEF Ends
  <2> QED
    BY <1>13, <2>2, <2>3 DEF SessionFails
<1>14. CASE Refuse(c)
  <2>1. /\ Ending(c, "serve", "refused") /\ UNCHANGED <<args, sent, got>>
        /\ files' = files
    BY <1>14 DEF Refuse
  <2> QED
    BY <1>2, <2>1, EndsWithout DEF Ends
<1>15. CASE Compile(c)
  BY <1>15, CompileKeeps
<1> QED
  BY <1>4, <1>5, <1>6, <1>7, <1>8, <1>9, <1>10, <1>11, <1>12, <1>13, <1>14,
     <1>15 DEF Step

(* The invariant: each client's variables belong together.  Its command is  *)
(* one it may be asked; the wrapper's arguments are the command, and once   *)
(* they are rewritten what RewriteLocalArgs makes of it; and what has been  *)
(* sent is made of a command that the wrapper understands.                  *)
THEOREM WrapInvariance == Spec => []WrapInv
<1>1. WrapInv /\ [Next]_vars => WrapInv'
  <2> SUFFICES ASSUME WrapInv, [Next]_vars PROVE WrapInv'
    OBVIOUS
  <2>1. ASSUME NEW c \in Client, Step(c) PROVE WrapInv'
    BY <2>1, StepKeeps
  <2>2. CASE UNCHANGED vars
    <3>1. /\ compiler' = compiler /\ cmd' = cmd /\ args' = args /\ pc' = pc
          /\ sent' = sent /\ end' = end /\ got' = got /\ files' = files
      BY <2>2 DEF vars
    <3> QED
      BY <3>1 DEF WrapInv, Functions, Ranges, IsOK
  <2> QED
    BY <2>1, <2>2 DEF Next, Done
<1> QED
  BY WrapInit, <1>1, PTL DEF Spec

(* Type correctness, and with it that a client ends with an object exactly  *)
(* when it has got one that a server's compiler made, and that no client    *)
(* ever removes a file.                                                     *)
THEOREM WrapTypeCorrect == Spec => []TypeOK
<1>1. WrapInv => TypeOK
  <2> SUFFICES ASSUME WrapInv PROVE TypeOK
    OBVIOUS
  <2>1. Ranges /\ \A c \in Client : IsOK(c)
    BY DEF WrapInv
  <2>2. ASSUME NEW c \in Client
        PROVE  /\ pc[c] # "idle" => cmd[c] \in Commands[c]
               /\ Len(args[c]) = Len(cmd[c])
               /\ sent[c] # Nothing => sent[c].doti # NoFile
               /\ end[c] = "object" <=> got[c].kind \in {"object", "asm"}
    BY <2>1, Zenon DEF IsOK, ClientOK
  <2> QED
    BY <2>1, <2>2 DEF TypeOK, Ranges, ClientPlace
<1> QED
  BY WrapInvariance, <1>1, PTL

(* Client and server, which each parse the command, take it for the same,   *)
(* whatever the commands and the interleaving of the clients: the server    *)
(* finds the preprocessed file for its source and the client's object for   *)
(* its own, or the source was an argument that is none.                     *)
THEOREM ServerTakesItForTheSame == Spec => []ServerAgrees
<1>1. WrapInv => ServerAgrees
  <2> SUFFICES ASSUME WrapInv, NEW c \in Client, sent[c] # Nothing
               PROVE  IF CanHandle(sent[c].args)
                        THEN /\ SourceFile(sent[c].args) = DotiFile(c)
                             /\ ObjectFile(sent[c].args) = ObjectFile(cmd[c])
                        ELSE NoSource(c)
    BY DEF ServerAgrees
  <2> DEFINE line == cmd[c]
             argv == RewriteLocalArgs(line)
             doti == DotiOf(line)
             out  == CompilerCmd(argv, doti)
  <2>1. /\ line \in Commands[c] /\ Reading(line)
        /\ sent[c].args = out
    <3>1. IsOK(c)
      BY DEF WrapInv
    <3> QED
      BY <3>1, Zenon DEF IsOK, ClientOK
  <2>2. DotiFile(c) = doti
    BY DEF DotiFile, DotiOf
  <2>3. Taken(line) /\ Sending(argv, doti)
    BY <2>1, CommandIsTaken
  <2>4. /\ Sources(argv) = Sources(line) /\ Dropped(argv) = Dropped(line)
        /\ ObjectFile(argv) = ObjectFile(line)
    BY <2>3, RewriteReads
  <2>5. SourceAt(argv) = Source1(c)
    BY <2>4 DEF SourceAt, Source1
  <2> QED
    BY <2>1, <2>2, <2>3, <2>4, <2>5, SentReads DEF NoSource
<1> QED
  BY WrapInvariance, <1>1, PTL

===============================================================================
