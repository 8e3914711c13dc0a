-------------------------- MODULE FieldStream_proofs --------------------------
(***************************************************************************)
(* Why a field that has been read is the field that was sent, for any      *)
(* fields, any sizes of the buffers and any way in which the stream is     *)
(* cut.  A byte has a place, its field and its offset there.  What is on   *)
(* its way fills the places between the receiver's and the sender's, in    *)
(* order: Chain says so without adding up the sizes of the fields.         *)
(***************************************************************************)
EXTENDS FieldStream, SequenceTheorems, TLAPS

Byte == [of : {"token", "text", "file", "unset"},
         field : Nat, at : Nat, num : Nat]

StreamTypeOK ==
  /\ client \in BOOLEAN
  /\ file \in Seq(Nat) /\ writes \in Nat /\ changed \in BOOLEAN
  /\ spc \in {"begin", "stat", "file", "done", "failed", "killed"}
  /\ sfield \in 1..N + 1
  /\ out \in Seq(Byte)
  /\ size \in Nat /\ sleft \in Int /\ spos \in Nat
  /\ wire \in Seq(Byte)
  /\ rpc \in {"token", "text", "file", "done", "closed", "failed", "invalid",
              "killed"}
  /\ rfield \in 1..N + 1
  /\ rleft \in Nat
  /\ data \in Seq(Byte)
  /\ mv \in [1..RecvSize -> Byte]
  /\ got \in [1..N + 1 -> Seq(Byte)]

-----------------------------------------------------------------------------
(* A byte of a token, of a text and of the file.                            *)
TokenByte(i, j, n) == [of |-> "token", field |-> i, at |-> j, num |-> n]
TextByte(i, j)     == [of |-> "text", field |-> i, at |-> j, num |-> 0]
IsFileByte(b, j) ==
  /\ b.of = "file" /\ b.field = N + 1 /\ b.at = j
  /\ changed \/ (j <= Len(file) /\ b.num = file[j])

(* What token i says.                                                       *)
Told(i) == IF i <= N THEN Texts[i] ELSE size

Offset(b) == IF b.of = "token" THEN b.at - 1 ELSE TokenLen + b.at - 1
Proper(b) ==
  \/ /\ b.field \in 1..N + 1 /\ b.at \in 1..TokenLen
     /\ b = TokenByte(b.field, b.at, Told(b.field))
  \/ /\ b.field \in 1..N /\ b.at \in 1..Texts[b.field]
     /\ b = TextByte(b.field, b.at)
  \/ b.at >= 1 /\ IsFileByte(b, b.at)

(* From offset o of field f it takes d bytes to offset p of field g.  The   *)
(* last field has no end.                                                   *)
Whole(i) == TokenLen + Texts[i]
Leads(f, o, g, p, d) ==
  /\ f = N + 1 \/ d < Whole(f) - o => g = f /\ p = o + d
  /\ f <= N /\ d = Whole(f) - o => g = f + 1 /\ p = 0

(* The bytes of s, and after them the place (g, p), begin at (f, o).        *)
FieldAt(s, g, j)  == IF j <= Len(s) THEN s[j].field ELSE g
OffsetAt(s, p, j) == IF j <= Len(s) THEN Offset(s[j]) ELSE p
Chain(s, f, o, g, p) ==
  /\ FieldAt(s, g, 1) = f /\ OffsetAt(s, p, 1) = o
  /\ \A j, k \in 1..Len(s) + 1 :
       j <= k => Leads(FieldAt(s, g, j), OffsetAt(s, p, j),
                       FieldAt(s, g, k), OffsetAt(s, p, k), k - j)

-----------------------------------------------------------------------------
(* Where the sender is, and what it has announced.                          *)
SenderAt(g, p) ==
  /\ spc \in {"begin", "stat"} => g = sfield /\ p = 0
  /\ spc \in {"file", "done"} => g = N + 1 /\ p = TokenLen + spos
  /\ p # 0 => changed \/ size = Len(file)
Announced ==
  /\ spc = "begin" => ~changed
  /\ spc \in {"begin", "stat"} => spos = 0
  /\ spc = "stat" /\ client => changed \/ size = Len(file)
  /\ changed \/ spos <= Len(file)

(* Where the receiver is, what it has and what it waits for.                *)
Reading == rpc \in {"token", "text", "file", "done", "closed"}
ReceiverOffset ==
  IF rpc = "token" THEN Len(data) ELSE TokenLen + Len(got[rfield])
HasToken ==
  /\ got[rfield] = <<>>
  /\ rleft = TokenLen - Len(data) /\ rleft > 0
  /\ \A j \in 1..Len(data) : data[j] = TokenByte(rfield, j, Told(rfield))
HasText ==
  /\ rfield <= N
  /\ rleft = Texts[rfield] - Len(got[rfield]) /\ rleft > 0
  /\ \A j \in 1..Len(got[rfield]) : got[rfield][j] = TextByte(rfield, j)
HasFile ==
  /\ rfield = N + 1
  /\ rpc = "file" => rleft = size - Len(got[N + 1]) /\ rleft > 0
  /\ rpc # "file" => Len(got[N + 1]) = size
  /\ \A j \in 1..Len(got[N + 1]) : IsFileByte(got[N + 1][j], j)
Has ==
  /\ rpc = "token" => HasToken
  /\ rpc = "text" => HasText
  /\ rpc \in {"file", "done", "closed"} => HasFile
  /\ rpc # "token" => data = <<>>
  /\ \A i \in rfield + 1..N + 1 : got[i] = <<>>

OnItsWay ==
  /\ \A j \in 1..Len(wire \o out) : Proper((wire \o out)[j])
  /\ \E g \in 1..N + 1, p \in {0, TokenLen + spos} :
       /\ SenderAt(g, p)
       /\ Chain(wire \o out, rfield, ReceiverOffset, g, p)

StreamInv ==
  /\ StreamTypeOK /\ Announced
  /\ rpc # "invalid"
  /\ \A i \in 1..rfield - 1 : got[i] = Text(i)
  /\ Reading => Has /\ OnItsWay

-----------------------------------------------------------------------------
(* Sequences of bytes, and chains *)

(* The sizes are numbers. *)
LEMMA Sizes ==
  /\ N \in Nat /\ TokenLen \in Nat \ {0} /\ SendSize \in Nat \ {0}
  /\ RecvSize \in Nat \ {0} /\ Cap \in Nat \ {0}
  /\ \A i \in 1..N : /\ Texts[i] \in Nat
                     /\ Whole(i) \in Nat /\ Whole(i) >= TokenLen
BY SizesAssumption DEF N, Whole

(* The first n elements of a sequence, and the others. *)
LEMMA Cut ==
  ASSUME NEW S, NEW s \in Seq(S), NEW n \in 0..Len(s)
  PROVE  /\ SubSeq(s, 1, n) \in Seq(S) /\ Len(SubSeq(s, 1, n)) = n
         /\ \A j \in 1..n : SubSeq(s, 1, n)[j] = s[j]
         /\ Rest(s, n) \in Seq(S) /\ Len(Rest(s, n)) = Len(s) - n
         /\ \A j \in 1..Len(s) - n : Rest(s, n)[j] = s[j + n]
<1>1. /\ SubSeq(s, 1, n) \in Seq(S) /\ Len(SubSeq(s, 1, n)) = n
      /\ \A j \in 1..n : SubSeq(s, 1, n)[j] = s[j]
  OBVIOUS
<1>2. /\ Rest(s, n) \in Seq(S) /\ Len(Rest(s, n)) = Len(s) - n
      /\ \A j \in 1..Len(s) - n : Rest(s, n)[j] = s[j + n]
  BY DEF Rest
<1> QED
  BY <1>1, <1>2

(* What is handed over joins what was on its way. *)
LEMMA HandOver ==
  ASSUME NEW S, NEW s \in Seq(S), NEW t \in Seq(S), NEW n \in 0..Len(t)
  PROVE  (s \o SubSeq(t, 1, n)) \o Rest(t, n) = s \o t
<1> DEFINE a == SubSeq(t, 1, n)
           b == Rest(t, n)
<1>1. a \in Seq(S) /\ b \in Seq(S)
  BY Cut
<1>2. a \o b = t
  <2>1. a \o b = SubSeq(t, 1, Len(t))
    <3>1. 1 \in 1..Len(t) + 1 /\ n \in 1 - 1..Len(t) /\ Len(t) \in n..Len(t)
      OBVIOUS
    <3> QED
      BY <3>1, ConcatAdjacentSubSeq DEF Rest
  <2> QED
    BY <2>1, SubSeqFull
<1> HIDE DEF a, b
<1>3. (s \o a) \o b = s \o (a \o b)
  BY <1>1, ConcatAssociative
<1> QED
  BY <1>2, <1>3 DEF a, b

(* What is taken is taken from the front. *)
LEMMA TakeOff ==
  ASSUME NEW S, NEW s \in Seq(S), NEW t \in Seq(S), NEW n \in 0..Len(s)
  PROVE  Rest(s, n) \o t = Rest(s \o t, n)
<1> DEFINE a == Rest(s, n)
           c == s \o t
           b == Rest(c, n)
<1>1. /\ c \in Seq(S) /\ Len(c) = Len(s) + Len(t)
      /\ \A j \in 1..Len(s) + Len(t) :
            c[j] = IF j <= Len(s) THEN s[j] ELSE t[j - Len(s)]
  OBVIOUS
<1>2. /\ a \in Seq(S) /\ Len(a) = Len(s) - n
      /\ \A j \in 1..Len(s) - n : a[j] = s[j + n]
  BY Cut
<1>5. Len(s) \in Nat /\ Len(t) \in Nat /\ n \in 0..Len(c)
  BY <1>1
<1> HIDE DEF a, c
<1>3. /\ b \in Seq(S) /\ Len(b) = Len(c) - n
      /\ \A j \in 1..Len(c) - n : b[j] = c[j + n]
  BY <1>1, <1>5, Cut
<1> HIDE DEF b
<1>4. /\ a \o t \in Seq(S) /\ Len(a \o t) = Len(a) + Len(t)
      /\ \A j \in 1..Len(a) + Len(t) :
            (a \o t)[j] = IF j <= Len(a) THEN a[j] ELSE t[j - Len(a)]
  BY <1>2, ConcatProperties, Zenon
<1>6. ASSUME NEW j \in 1..Len(b) PROVE (a \o t)[j] = b[j]
  BY <1>1, <1>2, <1>3, <1>4, <1>5, SMTT(30)
<1>7. a \o t = b
  <2>1. Len(a \o t) = Len(b)
    BY <1>1, <1>2, <1>3, <1>4, <1>5
  <2> QED
    BY <1>3, <1>4, <1>6, <2>1, SeqEqual, Zenon
<1> QED
  BY <1>7 DEF a, b, c

(* Up to the end of its first field, the places of a chain are consecutive; *)
(* at the end the next field begins.                                        *)
LEMMA ChainRuns ==
  ASSUME NEW s \in Seq(Byte), NEW f, NEW o \in Nat, NEW g, NEW p,
         Chain(s, f, o, g, p), NEW j \in 0..Len(s)
  PROVE  /\ f = N + 1 \/ j < Whole(f) - o =>
              FieldAt(s, g, j + 1) = f /\ OffsetAt(s, p, j + 1) = o + j
         /\ f <= N /\ j = Whole(f) - o =>
              FieldAt(s, g, j + 1) = f + 1 /\ OffsetAt(s, p, j + 1) = 0
<1>1. Leads(f, o, FieldAt(s, g, j + 1), OffsetAt(s, p, j + 1), j)
  BY DEF Chain
<1> QED
  BY <1>1 DEF Leads

(* A chain leads from its first place to its last. *)
LEMMA ChainLeads ==
  ASSUME NEW s \in Seq(Byte), NEW f, NEW o, NEW g, NEW p, Chain(s, f, o, g, p)
  PROVE  Leads(f, o, g, p, Len(s))
<1> DEFINE e == Len(s) + 1
<1>1. Len(s) \in Nat /\ 1 \in 1..e /\ e \in 1..e /\ 1 <= e /\ e - 1 = Len(s)
  OBVIOUS
<1>2. FieldAt(s, g, e) = g /\ OffsetAt(s, p, e) = p
  BY <1>1 DEF FieldAt, OffsetAt
<1>3. Leads(FieldAt(s, g, 1), OffsetAt(s, p, 1),
            FieldAt(s, g, e), OffsetAt(s, p, e), e - 1)
  BY <1>1 DEF Chain
<1> QED
  BY <1>1, <1>2, <1>3 DEF Chain

(* What is left of a chain is a chain. *)
LEMMA ChainShrinks ==
  ASSUME NEW s \in Seq(Byte), NEW f, NEW o, NEW g, NEW p,
         Chain(s, f, o, g, p), NEW n \in 0..Len(s)
  PROVE  Chain(Rest(s, n), FieldAt(s, g, n + 1), OffsetAt(s, p, n + 1), g, p)
<1> DEFINE t == Rest(s, n)
<1>1. /\ t \in Seq(Byte) /\ Len(t) = Len(s) - n
      /\ \A j \in 1..Len(s) - n : t[j] = s[j + n]
  BY Cut
<1> HIDE DEF t
<1>2. ASSUME NEW j \in 1..Len(t) + 1
      PROVE  /\ FieldAt(t, g, j) = FieldAt(s, g, j + n)
             /\ OffsetAt(t, p, j) = OffsetAt(s, p, j + n)
  BY <1>1 DEF FieldAt, OffsetAt
<1>3. ASSUME NEW j \in 1..Len(t) + 1, NEW k \in 1..Len(t) + 1, j <= k
      PROVE  Leads(FieldAt(t, g, j), OffsetAt(t, p, j),
                   FieldAt(t, g, k), OffsetAt(t, p, k), k - j)
  <2>1. j + n \in 1..Len(s) + 1 /\ k + n \in 1..Len(s) + 1 /\ j + n <= k + n
        /\ (k + n) - (j + n) = k - j
    BY <1>1, <1>3
  <2> QED
    BY <1>2, <2>1 DEF Chain
<1>4. FieldAt(t, g, 1) = FieldAt(s, g, n + 1)
      /\ OffsetAt(t, p, 1) = OffsetAt(s, p, n + 1)
  BY <1>1, <1>2
<1>5. Chain(t, FieldAt(s, g, n + 1), OffsetAt(s, p, n + 1), g, p)
  BY <1>3, <1>4 DEF Chain
<1> QED
  BY <1>5 DEF t

(* One way after another is a way, and so is what is left of one. *)
LEMMA LeadsOn ==
  ASSUME NEW f \in 1..N + 1, NEW o \in Nat, NEW g \in 1..N + 1, NEW p \in Nat,
         NEW h, NEW q, NEW d \in Nat, NEW c \in Nat,
         Leads(f, o, g, p, d), Leads(g, p, h, q, c)
  PROVE  Leads(f, o, h, q, d + c)
<1> USE Sizes DEF Leads
<1>1. CASE f = N + 1
  BY <1>1
<1>2. CASE f <= N
  <2>1. Whole(f) \in Nat /\ (g <= N => Whole(g) \in Nat \ {0})
    BY <1>2
  <2>2. CASE d + c < Whole(f) - o
    BY <1>2, <2>1, <2>2
  <2>3. CASE d + c = Whole(f) - o
    <3>1. CASE c = 0
      BY <1>2, <2>1, <2>3, <3>1
    <3>2. CASE c > 0
      BY <1>2, <2>1, <2>3, <3>2
    <3> QED
      BY <3>1, <3>2
  <2> QED
    BY <1>2, <2>2, <2>3
<1> QED
  BY <1>1, <1>2

LEMMA LeadsFrom ==
  ASSUME NEW f \in 1..N + 1, NEW o \in Nat, NEW h, NEW q, NEW d \in Nat,
         NEW c \in 0..d, Leads(f, o, h, q, d)
  PROVE  Leads(f, o + c, h, q, d - c)
BY Sizes DEF Leads

(* A chain grows by bytes of one field. *)
LEMMA ChainGrows ==
  ASSUME NEW s \in Seq(Byte), NEW f \in 1..N + 1, NEW o \in Nat,
         NEW g \in 1..N + 1, NEW p \in Nat, Chain(s, f, o, g, p),
         NEW t \in Seq(Byte),
         \A j \in 1..Len(t) : t[j].field = g /\ Offset(t[j]) = p + j - 1,
         g = N + 1 \/ p + Len(t) <= Whole(g),
         \A j \in 1..Len(s) : s[j].field \in 1..N + 1 /\ Offset(s[j]) \in Nat,
         NEW h \in 1..N + 1, NEW q \in Nat, Leads(g, p, h, q, Len(t)),
         g <= N => p < Whole(g), h <= N => q < Whole(h)
  PROVE  Chain(s \o t, f, o, h, q)
<1> DEFINE u == s \o t
           e == Len(s) + 1
           F(j) == FieldAt(u, h, j)
           O(j) == OffsetAt(u, q, j)
<1>1. /\ u \in Seq(Byte) /\ Len(u) = Len(s) + Len(t)
      /\ \A j \in 1..Len(s) + Len(t) :
            u[j] = IF j <= Len(s) THEN s[j] ELSE t[j - Len(s)]
      /\ Len(s) \in Nat /\ Len(t) \in Nat
  OBVIOUS
<1> HIDE DEF u
<1>2. ASSUME NEW j \in 1..Len(s)
      PROVE  /\ FieldAt(s, g, j) = F(j) /\ OffsetAt(s, p, j) = O(j)
             /\ F(j) \in 1..N + 1 /\ O(j) \in Nat
             /\ Leads(F(j), O(j), g, p, e - j)
  <2>1. u[j] = s[j] /\ j <= Len(u)
    BY <1>1
  <2>2. /\ FieldAt(s, g, j) = F(j) /\ OffsetAt(s, p, j) = O(j)
        /\ F(j) \in 1..N + 1 /\ O(j) \in Nat
    BY <2>1 DEF FieldAt, OffsetAt
  <2>3. FieldAt(s, g, e) = g /\ OffsetAt(s, p, e) = p
    BY <1>1 DEF FieldAt, OffsetAt
  <2>4. Leads(FieldAt(s, g, j), OffsetAt(s, p, j),
              FieldAt(s, g, e), OffsetAt(s, p, e), e - j)
    <3>1. j \in 1..Len(s) + 1 /\ e \in 1..Len(s) + 1 /\ j <= e
      BY <1>1
    <3> QED
      BY <3>1 DEF Chain
  <2> QED
    BY <2>2, <2>3, <2>4
<1>3. ASSUME NEW k \in e..Len(u) PROVE F(k) = g /\ O(k) = p + (k - e)
  <2>1. u[k] = t[k - Len(s)] /\ k - Len(s) \in 1..Len(t)
    BY <1>1, <1>3
  <2>2. t[k - Len(s)].field = g /\ Offset(t[k - Len(s)]) = p + (k - Len(s)) - 1
    BY <2>1
  <2> QED
    BY <1>1, <2>1, <2>2 DEF FieldAt, OffsetAt
<1>4. F(Len(u) + 1) = h /\ O(Len(u) + 1) = q
  BY <1>1 DEF FieldAt, OffsetAt
<1>5. ASSUME NEW k \in e..Len(u) + 1
      PROVE  Leads(g, p, F(k), O(k), k - e)
  <2>1. CASE k <= Len(u)
    <3>1. F(k) = g /\ O(k) = p + (k - e) /\ k - e \in 0..Len(t) - 1
      BY <1>1, <1>3, <2>1
    <3> HIDE DEF F, O
    <3> QED
      BY <3>1, Sizes DEF Leads
  <2>2. CASE k = Len(u) + 1
    BY <1>1, <1>4, <2>2
  <2> QED
    <3>1. e \in Nat /\ Len(u) \in Nat
      BY <1>1
    <3> HIDE DEF e
    <3>2. k <= Len(u) \/ k = Len(u) + 1
      BY <3>1
    <3> QED
      BY <2>1, <2>2, <3>2
<1>6. ASSUME NEW j \in 1..Len(u) + 1, NEW k \in 1..Len(u) + 1, j <= k
      PROVE  Leads(F(j), O(j), F(k), O(k), k - j)
  <2>1. CASE k <= Len(s)
    <3>1. /\ j \in 1..Len(s) /\ k \in 1..Len(s)
          /\ j \in 1..Len(s) + 1 /\ k \in 1..Len(s) + 1
      BY <1>1, <1>6, <2>1
    <3>2. Leads(FieldAt(s, g, j), OffsetAt(s, p, j),
                FieldAt(s, g, k), OffsetAt(s, p, k), k - j)
      BY <1>6, <3>1 DEF Chain
    <3>3. /\ FieldAt(s, g, j) = F(j) /\ OffsetAt(s, p, j) = O(j)
          /\ FieldAt(s, g, k) = F(k) /\ OffsetAt(s, p, k) = O(k)
      BY <1>2, <3>1
    <3> HIDE DEF F, O
    <3> QED
      BY <3>2, <3>3
  <2>2. CASE j <= Len(s) /\ k >= e
    <3>1. /\ j \in 1..Len(s) /\ k \in e..Len(u) + 1
          /\ e - j \in Nat /\ k - e \in Nat /\ (e - j) + (k - e) = k - j
      BY <1>1, <1>6, <2>2, SMTT(30)
    <3>2. /\ F(j) \in 1..N + 1 /\ O(j) \in Nat
          /\ Leads(F(j), O(j), g, p, e - j) /\ Leads(g, p, F(k), O(k), k - e)
      BY <1>2, <1>5, <3>1
    <3> HIDE DEF F, O, e
    <3>3. Leads(F(j), O(j), F(k), O(k), (e - j) + (k - e))
      BY <3>1, <3>2, LeadsOn
    <3> QED
      BY <3>1, <3>3
  <2>3. CASE j >= e
    <3>1. j \in e..Len(u) + 1 /\ k \in e..Len(u) + 1
      BY <1>1, <1>6, <2>3
    <3>2. CASE j = Len(u) + 1
      <4>1. k = j /\ k - j = 0 /\ F(k) = h /\ O(k) = q
        BY <1>1, <1>4, <1>6, <3>2
      <4> HIDE DEF F, O
      <4> QED
        BY <4>1, Sizes DEF Leads
    <3>3. CASE j <= Len(u)
      <4>1. F(j) = g /\ O(j) = p + (j - e) /\ Leads(g, p, F(k), O(k), k - e)
        BY <1>1, <1>3, <1>5, <3>1, <3>3
      <4>2. /\ j - e \in 0..k - e /\ k - e \in Nat /\ (k - e) - (j - e) = k - j
        BY <1>1, <1>6, <3>1, SMTT(30)
      <4> HIDE DEF F, O, e
      <4>3. Leads(g, p + (j - e), F(k), O(k), (k - e) - (j - e))
        BY <4>1, <4>2, LeadsFrom
      <4> QED
        BY <4>1, <4>2, <4>3
    <3>4. j = Len(u) + 1 \/ j <= Len(u)
      BY <1>1
    <3> QED
      BY <3>2, <3>3, <3>4
  <2>4. k <= Len(s) \/ (j <= Len(s) /\ k >= e) \/ j >= e
    BY <1>1
  <2> QED
    BY <2>1, <2>2, <2>3, <2>4
<1>7. F(1) = f /\ O(1) = o
  <2>1. FieldAt(s, g, 1) = f /\ OffsetAt(s, p, 1) = o
    BY DEF Chain
  <2>2. CASE Len(s) > 0
    BY <1>1, <1>2, <2>1, <2>2
  <2>3. CASE Len(s) = 0
    <3>1. f = g /\ o = p
      BY <2>1, <2>3 DEF FieldAt, OffsetAt
    <3>2. CASE Len(t) > 0
      BY <1>1, <1>3, <2>3, <3>1, <3>2
    <3>3. CASE Len(t) = 0
      BY <1>1, <1>4, <2>3, <3>1, <3>3, Sizes DEF Leads
    <3> QED
      BY <1>1, <3>2, <3>3
  <2> QED
    BY <1>1, <2>2, <2>3
<1>8. Chain(u, f, o, h, q)
  BY <1>6, <1>7 DEF Chain
<1> QED
  BY <1>8 DEF u

-----------------------------------------------------------------------------
(* Tokens, texts and bytes *)

LEMMA TokenIsSeq ==
  ASSUME NEW i \in 1..N + 1, NEW m \in Nat
  PROVE  /\ Token(i, m) \in Seq(Byte) /\ Len(Token(i, m)) = TokenLen
         /\ \A j \in 1..TokenLen : Token(i, m)[j] = TokenByte(i, j, m)
<1>1. \A j \in 1..TokenLen : TokenByte(i, j, m) \in Byte
  BY Sizes DEF TokenByte, Byte
<1>2. Token(i, m) = [j \in 1..TokenLen |-> TokenByte(i, j, m)]
  BY DEF Token, TokenByte
<1> QED
  BY <1>1, <1>2, Sizes

LEMMA TextIsSeq ==
  ASSUME NEW i \in 1..N
  PROVE  /\ Text(i) \in Seq(Byte) /\ Len(Text(i)) = Texts[i]
         /\ \A j \in 1..Texts[i] : Text(i)[j] = TextByte(i, j)
<1> DEFINE n == Texts[i]
<1>1. n \in Nat
  BY Sizes
<1>2. \A j \in 1..n : TextByte(i, j) \in Byte
  BY Sizes DEF TextByte, Byte
<1>3. Text(i) = [j \in 1..n |-> TextByte(i, j)]
  BY DEF Text, TextByte
<1> HIDE DEF n
<1>4. /\ Text(i) \in Seq(Byte) /\ Len(Text(i)) = n
      /\ \A j \in 1..n : Text(i)[j] = TextByte(i, j)
  BY <1>1, <1>2, <1>3
<1> QED
  BY <1>4 DEF n

(* What is told of a field is a number. *)
LEMMA ToldNumber ==
  ASSUME NEW i \in 1..N + 1, StreamTypeOK PROVE Told(i) \in Nat
BY Sizes DEF Told, StreamTypeOK

(* The place of a byte says what it is. *)
LEMMA WhatByte ==
  ASSUME NEW b \in Byte, Proper(b)
  PROVE  /\ b.field \in 1..N + 1 /\ Offset(b) \in Nat
         /\ Offset(b) < TokenLen =>
              b = TokenByte(b.field, Offset(b) + 1, Told(b.field))
         /\ Offset(b) >= TokenLen /\ b.field <= N =>
              b = TextByte(b.field, Offset(b) - TokenLen + 1)
         /\ Offset(b) >= TokenLen /\ b.field = N + 1 =>
              IsFileByte(b, Offset(b) - TokenLen + 1)
<1> USE Sizes
<1>1. CASE /\ b.field \in 1..N + 1 /\ b.at \in 1..TokenLen
           /\ b = TokenByte(b.field, b.at, Told(b.field))
  <2>1. b.of = "token"
    BY <1>1 DEF TokenByte
  <2>2. Offset(b) = b.at - 1
    BY <2>1 DEF Offset
  <2> QED
    BY <1>1, <2>2
<1>2. CASE /\ b.field \in 1..N /\ b.at \in 1..Texts[b.field]
           /\ b = TextByte(b.field, b.at)
  <2>1. b.of = "text"
    BY <1>2 DEF TextByte
  <2>2. Offset(b) = TokenLen + b.at - 1
    BY <2>1 DEF Offset
  <2>3. b.field # N + 1 /\ Offset(b) \in Nat /\ Offset(b) >= TokenLen
        /\ Offset(b) - TokenLen + 1 = b.at
    BY <1>2, <2>2
  <2> QED
    BY <1>2, <2>3
<1>3. CASE b.at >= 1 /\ IsFileByte(b, b.at)
  <2>1. b.of = "file" /\ b.field = N + 1 /\ b.at \in Nat
    BY <1>3 DEF IsFileByte, Byte
  <2>2. Offset(b) = TokenLen + b.at - 1
    BY <2>1 DEF Offset
  <2>3. Offset(b) \in Nat /\ Offset(b) >= TokenLen
        /\ Offset(b) - TokenLen + 1 = b.at
    BY <1>3, <2>1, <2>2
  <2> QED
    BY <1>3, <2>1, <2>3
<1> QED
  BY <1>1, <1>2, <1>3 DEF Proper

(* The bytes on their way, and each in its place. *)
LEMMA OnItsWayBytes ==
  ASSUME StreamInv, Reading
  PROVE  /\ wire \o out \in Seq(Byte) /\ Len(wire \o out) = Len(wire) + Len(out)
         /\ \A j \in 1..Len(wire) : (wire \o out)[j] = wire[j]
         /\ \A j \in 1..Len(wire \o out) :
              LET b == (wire \o out)[j]
              IN  b \in Byte /\ Proper(b) /\ b.field \in 1..N + 1
                  /\ Offset(b) \in Nat
         /\ ReceiverOffset \in Nat
<1>1. /\ wire \o out \in Seq(Byte) /\ Len(wire \o out) = Len(wire) + Len(out)
      /\ \A j \in 1..Len(wire) : (wire \o out)[j] = wire[j]
  BY DEF StreamInv, StreamTypeOK
<1>2. ASSUME NEW j \in 1..Len(wire \o out)
      PROVE  (wire \o out)[j] \in Byte /\ Proper((wire \o out)[j])
  BY <1>1 DEF StreamInv, OnItsWay
<1>3. ReceiverOffset \in Nat
  BY Sizes DEF ReceiverOffset, StreamInv, StreamTypeOK
<1> QED
  BY <1>1, <1>2, <1>3, WhatByte

(* As long as nothing of the last field has been sent, nothing of it has    *)
(* been received.                                                           *)
LEMMA NothingOfFile ==
  ASSUME StreamInv, Reading, spc \in {"begin", "stat"}
  PROVE  /\ \A j \in 1..Len(wire \o out) : (wire \o out)[j].field # N + 1
         /\ rpc \in {"token", "text"}
         /\ rfield = N + 1 => rpc = "token" /\ data = <<>>
<1> DEFINE s == wire \o out
           e == Len(s) + 1
<1>1. PICK g \in 1..N + 1, p \in {0, TokenLen + spos} :
        /\ SenderAt(g, p)
        /\ Chain(s, rfield, ReceiverOffset, g, p)
  BY DEF StreamInv, OnItsWay
<1>2. p = 0
  BY <1>1 DEF SenderAt
<1>3. /\ s \in Seq(Byte) /\ ReceiverOffset \in Nat
      /\ \A j \in 1..Len(s) : Offset(s[j]) \in Nat
  BY OnItsWayBytes
<1> HIDE DEF s
<1>4. e \in 1..e /\ FieldAt(s, g, e) = g /\ OffsetAt(s, p, e) = p
  BY <1>3 DEF FieldAt, OffsetAt
<1>5. ASSUME NEW j \in 1..Len(s) PROVE s[j].field # N + 1
  <2>1. j \in 1..e /\ j <= e /\ e - j > 0 /\ e - j \in Nat
    BY <1>3
  <2>2. FieldAt(s, g, j) = s[j].field /\ OffsetAt(s, p, j) = Offset(s[j])
    BY <2>1 DEF FieldAt, OffsetAt
  <2>3. Leads(s[j].field, Offset(s[j]), g, p, e - j)
    BY <1>1, <1>4, <2>1, <2>2 DEF Chain
  <2>4. s[j].field = N + 1 => p = Offset(s[j]) + (e - j)
    BY <2>3 DEF Leads
  <2>5. Offset(s[j]) \in Nat
    BY <1>3
  <2> QED
    BY <1>2, <2>1, <2>4, <2>5
<1>6. rfield = N + 1 => ReceiverOffset = 0
  <2>1. Leads(rfield, ReceiverOffset, g, p, Len(s)) /\ Len(s) \in Nat
    BY <1>1, <1>3, ChainLeads
  <2> QED
    BY <1>2, <1>3, <2>1 DEF Leads
<1>7. rfield = N + 1 => rpc = "token" /\ data = <<>>
  <2>1. data \in Seq(Byte) /\ got[rfield] \in Seq(Byte)
    BY DEF StreamInv, StreamTypeOK
  <2> QED
    BY <1>6, <2>1, Sizes DEF ReceiverOffset
<1>8. rpc \in {"token", "text"}
  BY <1>7 DEF StreamInv, Reading, Has, HasFile
<1> QED
  BY <1>5, <1>7, <1>8 DEF s

-----------------------------------------------------------------------------
(* What a step leaves as it was *)

(* A byte stays what it is when the size and the file do, or when it is no  *)
(* byte of the last field.                                                  *)
LEMMA ProperRests ==
  ASSUME NEW b, Proper(b),
         \/ UNCHANGED size /\ (changed' \/ UNCHANGED <<file, changed>>)
         \/ b.field # N + 1
  PROVE  Proper(b)'
<1>1. CASE /\ b.field \in 1..N + 1 /\ b.at \in 1..TokenLen
           /\ b = TokenByte(b.field, b.at, Told(b.field))
  <2>1. Told(b.field)' = Told(b.field)
    BY <1>1, Sizes DEF Told
  <2> QED
    BY <1>1, <2>1 DEF Proper, TokenByte
<1>2. CASE /\ b.field \in 1..N /\ b.at \in 1..Texts[b.field]
           /\ b = TextByte(b.field, b.at)
  BY <1>2 DEF Proper, TextByte
<1>3. CASE b.at >= 1 /\ IsFileByte(b, b.at)
  BY <1>3 DEF Proper, IsFileByte
<1> QED
  BY <1>1, <1>2, <1>3 DEF Proper

(* So does what the receiver has. *)
LEMMA HasRests ==
  ASSUME StreamInv, Reading, UNCHANGED <<receiverVars>>,
         \/ UNCHANGED size /\ (changed' \/ UNCHANGED <<file, changed>>)
         \/ spc \in {"begin", "stat"}
  PROVE  Has' /\ Reading' /\ ReceiverOffset' = ReceiverOffset
<1> USE DEF receiverVars, StreamInv
<1>1. Reading' /\ ReceiverOffset' = ReceiverOffset
  BY DEF Reading, ReceiverOffset
<1>2. ASSUME rpc = "token" PROVE HasToken'
  <2>1. rfield # N + 1 => Told(rfield)' = Told(rfield)
    BY Sizes DEF Told, StreamTypeOK
  <2>2. rfield = N + 1 /\ data # <<>> => Told(rfield)' = Told(rfield)
    BY NothingOfFile DEF Told
  <2>3. data # <<>> => Told(rfield)' = Told(rfield)
    BY <2>1, <2>2
  <2> QED
    BY <1>2, <2>3 DEF Has, HasToken, TokenByte
<1>3. ASSUME rpc = "text" PROVE HasText'
  BY <1>3 DEF Has, HasText, TextByte
<1>4. ASSUME rpc \in {"file", "done", "closed"} PROVE HasFile'
  <2>1. UNCHANGED size /\ (changed' \/ UNCHANGED <<file, changed>>)
    BY <1>4, NothingOfFile
  <2> QED
    BY <1>4, <2>1 DEF Has, HasFile, IsFileByte
<1> QED
  BY <1>1, <1>2, <1>3, <1>4 DEF Has

(* And so does what is on its way, however it moves along. *)
LEMMA OnItsWayRests ==
  ASSUME StreamInv, Reading, UNCHANGED <<receiverVars>>,
         wire' \o out' = wire \o out,
         \/ UNCHANGED size /\ (changed' \/ UNCHANGED <<file, changed>>)
         \/ spc \in {"begin", "stat"},
         \A g \in 1..N + 1, p \in {0, TokenLen + spos} :
           SenderAt(g, p) => SenderAt(g, p)' /\ p \in {0, TokenLen + spos'}
  PROVE  Has' /\ OnItsWay'
<1> DEFINE s == wire \o out
<1>1. Has' /\ ReceiverOffset' = ReceiverOffset /\ rfield' = rfield
  BY HasRests DEF receiverVars
<1>2. ASSUME NEW j \in 1..Len(wire' \o out') PROVE Proper((wire \o out)[j])'
  <2>1. Proper(s[j]) /\ (spc \in {"begin", "stat"} => s[j].field # N + 1)
    BY <1>2, OnItsWayBytes, NothingOfFile
  <2>2. PICK b : b = s[j]
    OBVIOUS
  <2>3. Proper(b)'
    BY <2>1, <2>2, ProperRests
  <2>4. (wire' \o out')[j] = b
    BY <2>2
  <2> QED
    BY <2>3, <2>4 DEF Proper, TokenByte, TextByte, IsFileByte
<1>3. PICK g \in 1..N + 1, p \in {0, TokenLen + spos} :
        SenderAt(g, p) /\ Chain(s, rfield, ReceiverOffset, g, p)
  BY DEF StreamInv, OnItsWay
<1>4. /\ SenderAt(g, p)' /\ p \in {0, TokenLen + spos'}
      /\ Chain(wire' \o out', rfield', ReceiverOffset', g, p)
  BY <1>1, <1>3
<1> QED
  BY <1>1, <1>2, <1>4 DEF OnItsWay

-----------------------------------------------------------------------------
(* The steps of the sender *)

(* Sending bytes of one field, from where the sender is, keeps the chain.   *)
LEMMA Sends ==
  ASSUME StreamInv, Reading, out = <<>>, UNCHANGED <<wire, receiverVars>>,
         \/ UNCHANGED size /\ (changed' \/ UNCHANGED <<file, changed>>)
         \/ spc \in {"begin", "stat"},
         NEW g \in 1..N + 1, NEW p \in Nat,
         \A i \in 1..N + 1, n \in {0, TokenLen + spos} :
           SenderAt(i, n) => i = g /\ n = p,
         NEW t \in Seq(Byte), out' = t,
         \A j \in 1..Len(t) : t[j].field = g /\ Offset(t[j]) = p + j - 1,
         \A j \in 1..Len(t) : Proper(out[j])',
         g = N + 1 \/ p + Len(t) <= Whole(g),
         NEW h \in 1..N + 1, NEW q \in Nat, Leads(g, p, h, q, Len(t)),
         g <= N => p < Whole(g), h <= N => q < Whole(h),
         SenderAt(h, q)', q \in {0, TokenLen + spos'}
  PROVE  Has' /\ OnItsWay'
<1> DEFINE s == wire
<1>1. Has' /\ ReceiverOffset' = ReceiverOffset /\ rfield' = rfield
  BY HasRests DEF receiverVars
<1>2. wire \o out = s /\ wire' \o out' = s \o t /\ s \in Seq(Byte)
  BY DEF StreamInv, StreamTypeOK
<1>3. /\ ReceiverOffset \in Nat /\ rfield \in 1..N + 1
      /\ \A j \in 1..Len(s) : s[j].field \in 1..N + 1 /\ Offset(s[j]) \in Nat
  BY <1>2, OnItsWayBytes DEF StreamInv, StreamTypeOK
<1>4. Chain(s, rfield, ReceiverOffset, g, p)
  <2>1. PICK i \in 1..N + 1, n \in {0, TokenLen + spos} :
          SenderAt(i, n) /\ Chain(s, rfield, ReceiverOffset, i, n)
    BY <1>2 DEF StreamInv, OnItsWay
  <2> QED
    BY <2>1
<1>5. Chain(s \o t, rfield, ReceiverOffset, h, q)
  BY <1>2, <1>3, <1>4, ChainGrows
<1>6. ASSUME NEW j \in 1..Len(wire' \o out') PROVE Proper((wire \o out)[j])'
  <2>1. /\ Len(s) \in Nat /\ Len(t) \in Nat /\ j \in 1..Len(s) + Len(t)
        /\ (s \o t)[j] = IF j <= Len(s) THEN s[j] ELSE t[j - Len(s)]
    BY <1>2, <1>6
  <2>2. CASE j <= Len(s)
    <3>1. Proper(s[j]) /\ (spc \in {"begin", "stat"} => s[j].field # N + 1)
      BY <1>2, <2>1, <2>2, OnItsWayBytes, NothingOfFile
    <3>2. PICK b : b = s[j]
      OBVIOUS
    <3>3. Proper(b)'
      BY <3>1, <3>2, ProperRests
    <3>4. (wire' \o out')[j] = b
      BY <1>2, <2>1, <2>2, <3>2
    <3> QED
      BY <3>3, <3>4 DEF Proper, TokenByte, TextByte, IsFileByte
  <2>3. CASE j > Len(s)
    <3>1. j - Len(s) \in 1..Len(t)
      BY <2>1, <2>3
    <3>2. Proper(out[j - Len(s)])'
      BY <3>1 DEF Proper, TokenByte, TextByte, IsFileByte
    <3>3. (wire' \o out')[j] = out'[j - Len(s)]
      BY <1>2, <2>1, <2>3
    <3> QED
      BY <3>2, <3>3 DEF Proper, TokenByte, TextByte, IsFileByte
  <2> QED
    BY <2>1, <2>2, <2>3
<1> QED
  BY <1>1, <1>2, <1>5, <1>6 DEF OnItsWay

(* A step of the sender, or of one who writes the file. *)
LEMMA ReceiverRests ==
  ASSUME StreamInv, UNCHANGED <<receiverVars>>, StreamTypeOK', Announced',
         Reading => Has' /\ OnItsWay'
  PROVE  StreamInv'
<1>1. rpc' # "invalid" /\ \A i \in 1..rfield' - 1 : got'[i] = Text(i)
  BY DEF StreamInv, receiverVars
<1>2. Reading' = Reading
  BY DEF Reading, receiverVars
<1> QED
  BY <1>1, <1>2 DEF StreamInv

LEMMA BeginInv ==
  ASSUME StreamInv, Begin PROVE StreamInv'
<1> USE DEF Begin
<1>1. StreamTypeOK'
  BY DEF StreamInv, StreamTypeOK, Announce, fileVars, receiverVars
<1>2. Announced'
  BY DEF StreamInv, Announced, Announce, fileVars
<1>3. wire' \o out' = wire \o out
  OBVIOUS
<1>4. \A g \in 1..N + 1, p \in {0, TokenLen + spos} :
        SenderAt(g, p) => SenderAt(g, p)' /\ p \in {0, TokenLen + spos'}
  BY DEF SenderAt
<1>5. Reading => Has' /\ OnItsWay'
  BY <1>3, <1>4, OnItsWayRests
<1> QED
  BY <1>1, <1>2, <1>5, ReceiverRests

(* A text is sent behind its token. *)
LEMMA TextAsSent ==
  ASSUME NEW i \in 1..N, NEW t, t = Token(i, Texts[i]) \o Text(i)
  PROVE  /\ t \in Seq(Byte) /\ Len(t) = Whole(i)
         /\ \A j \in 1..Len(t) : t[j].field = i /\ Offset(t[j]) = j - 1
         /\ \A j \in 1..Len(t) : Proper(t[j])'
<1>1. Texts[i] \in Nat /\ i \in 1..N + 1 /\ TokenLen \in Nat
  BY Sizes
<1>2. PICK a \in Seq(Byte) :
        /\ a = Token(i, Texts[i]) /\ Len(a) = TokenLen
        /\ \A j \in 1..TokenLen : a[j] = TokenByte(i, j, Texts[i])
  BY <1>1, TokenIsSeq
<1>3. PICK b \in Seq(Byte) :
        /\ b = Text(i) /\ Len(b) = Texts[i]
        /\ \A j \in 1..Texts[i] : b[j] = TextByte(i, j)
  BY TextIsSeq
<1>4. /\ t \in Seq(Byte) /\ Len(t) = Len(a) + Len(b)
      /\ \A j \in 1..Len(a) + Len(b) :
            t[j] = IF j <= Len(a) THEN a[j] ELSE b[j - Len(a)]
  BY <1>2, <1>3, ConcatProperties, ZenonT(60)
<1>5. Len(t) = Whole(i)
  BY <1>2, <1>3, <1>4 DEF Whole
<1>6. ASSUME NEW j \in 1..Len(t), j <= TokenLen
      PROVE  t[j].field = i /\ Offset(t[j]) = j - 1 /\ Proper(t[j])'
  <2>1. j \in 1..TokenLen /\ t[j] = TokenByte(i, j, Texts[i])
    BY <1>1, <1>2, <1>3, <1>4, <1>6
  <2>2. Told(i)' = Texts[i]
    BY Sizes DEF Told
  <2> QED
    BY <1>1, <2>1, <2>2 DEF Offset, Proper, TokenByte
<1>7. ASSUME NEW j \in 1..Len(t), ~(j <= TokenLen)
      PROVE  t[j].field = i /\ Offset(t[j]) = j - 1 /\ Proper(t[j])'
  <2>1. /\ j - TokenLen \in 1..Texts[i] /\ TokenLen + (j - TokenLen) - 1 = j - 1
        /\ t[j] = TextByte(i, j - TokenLen)
    BY <1>1, <1>2, <1>3, <1>4, <1>7
  <2> QED
    BY <2>1 DEF Offset, Proper, TextByte
<1> QED
  BY <1>4, <1>5, <1>6, <1>7

LEMMA SendTextInv ==
  ASSUME StreamInv, SendText PROVE StreamInv'
<1> USE DEF SendText
<1>0. PICK g : g = sfield
  OBVIOUS
<1>1. g \in 1..N /\ g + 1 \in 1..N + 1 /\ g \in 1..N + 1
  BY <1>0, Sizes DEF StreamInv, StreamTypeOK
<1>2. PICK t : t = Token(g, Texts[g]) \o Text(g)
  OBVIOUS
<1>3. /\ t \in Seq(Byte) /\ Len(t) = Whole(g)
      /\ \A j \in 1..Len(t) : t[j].field = g /\ Offset(t[j]) = j - 1
      /\ \A j \in 1..Len(t) : Proper(t[j])'
  BY <1>1, <1>2, TextAsSent
<1>4. out' = t
  BY <1>0, <1>2
<1>5. StreamTypeOK'
  BY <1>0, <1>1, <1>3, <1>4
     DEF StreamInv, StreamTypeOK, fileVars, receiverVars
<1>6. Announced'
  BY DEF StreamInv, Announced, fileVars
<1>7. ASSUME Reading PROVE Has' /\ OnItsWay'
  <2>1. \A i \in 1..N + 1, n \in {0, TokenLen + spos} :
          SenderAt(i, n) => i = g /\ n = 0
    BY <1>0 DEF SenderAt
  <2>2. ASSUME NEW h, h = g + 1 PROVE SenderAt(h, 0)'
    <3>1. spc' = "stat" /\ sfield' = h
      BY <1>0, <2>2
    <3> QED
      BY <3>1 DEF SenderAt
  <2>3. Whole(g) \in Nat /\ Whole(g) > 0 /\ (g + 1 <= N => 0 < Whole(g + 1))
    BY <1>1, Sizes
  <2>4. Leads(g, 0, g + 1, 0, Len(t))
    BY <1>1, <1>3, <2>3, Sizes DEF Leads
  <2>5. \A j \in 1..Len(t) : t[j].field = g /\ Offset(t[j]) = 0 + j - 1
    BY <1>3
  <2>6. \A j \in 1..Len(t) : Proper(out[j])'
    BY <1>3, <1>4 DEF Proper, TokenByte, TextByte, IsFileByte
  <2>7. g = N + 1 \/ 0 + Len(t) <= Whole(g)
    BY <1>3, <2>3
  <2>8. /\ out = <<>> /\ spc \in {"begin", "stat"}
        /\ UNCHANGED <<wire, receiverVars>>
        /\ 0 \in {0, TokenLen + spos'} /\ 0 \in Nat
    OBVIOUS
  <2> QED
    BY <1>1, <1>3, <1>4, <1>7, <2>1, <2>2, <2>3, <2>4, <2>5, <2>6, <2>7, <2>8,
       Sends
<1> QED
  BY <1>5, <1>6, <1>7, ReceiverRests

LEMMA SendSizeOfFileInv ==
  ASSUME StreamInv, SendSizeOfFile PROVE StreamInv'
<1> USE DEF SendSizeOfFile
<1>1. /\ size' \in Nat /\ sleft' \in Int /\ spos = 0 /\ spos' = 0
      /\ N + 1 \in 1..N + 1 /\ changed' = changed /\ file' = file
      /\ changed' \/ size' = Len(file')
  BY Sizes DEF StreamInv, StreamTypeOK, Announced, Announce, fileVars
<1>2. PICK t \in Seq(Byte) :
        /\ t = Token(N + 1, size') /\ Len(t) = TokenLen
        /\ \A j \in 1..TokenLen : t[j] = TokenByte(N + 1, j, size')
  BY <1>1, TokenIsSeq
<1>3. \A j \in 1..Len(t) : t[j].field = N + 1 /\ Offset(t[j]) = 0 + j - 1
  <2>1. ASSUME NEW j \in 1..TokenLen
        PROVE  t[j].of = "token" /\ t[j].field = N + 1 /\ t[j].at = j
    <3>1. t[j] = TokenByte(N + 1, j, size')
      BY <1>2
    <3> QED
      BY <3>1 DEF TokenByte
  <2> QED
    BY <1>2, <2>1, Sizes DEF Offset
<1>4. out' = t
  BY <1>2
<1>5. \A j \in 1..Len(t) : Proper(out[j])'
  <2>1. Told(N + 1)' = size'
    BY Sizes DEF Told
  <2>2. ASSUME NEW j \in 1..TokenLen
        PROVE  /\ out'[j] = TokenByte(N + 1, j, Told(N + 1))'
               /\ out'[j].field = N + 1 /\ out'[j].at = j
    BY <1>2, <1>4, <2>1 DEF TokenByte
  <2> QED
    BY <1>1, <1>2, <2>2, ZenonT(60) DEF Proper, TokenByte
<1>6. StreamTypeOK'
  BY <1>1, <1>2, <1>4 DEF StreamInv, StreamTypeOK, fileVars, receiverVars
<1>7. Announced'
  BY <1>1 DEF StreamInv, Announced
<1>8. ASSUME Reading PROVE Has' /\ OnItsWay'
  <2>1. \A i \in 1..N + 1, n \in {0, TokenLen + spos} :
          SenderAt(i, n) => i = N + 1 /\ n = 0
    BY DEF SenderAt
  <2>2. SenderAt(N + 1, TokenLen)' /\ TokenLen \in {0, TokenLen + spos'}
    BY <1>1, Sizes DEF SenderAt
  <2>3. Leads(N + 1, 0, N + 1, TokenLen, Len(t))
    BY <1>2, Sizes DEF Leads
  <2>4. /\ N + 1 <= N => 0 < Whole(N + 1)
        /\ N + 1 <= N => TokenLen < Whole(N + 1)
        /\ TokenLen \in Nat /\ 0 \in Nat
    BY Sizes
  <2>5. /\ out = <<>> /\ spc \in {"begin", "stat"}
        /\ UNCHANGED <<wire, receiverVars>>
    OBVIOUS
  <2> QED
    BY <1>1, <1>2, <1>3, <1>4, <1>5, <1>8, <2>1, <2>2, <2>3, <2>4, <2>5, Sends
<1> QED
  BY <1>6, <1>7, <1>8, ReceiverRests

LEMMA SendChunkInv ==
  ASSUME StreamInv, SendChunk PROVE StreamInv'
<1> USE DEF SendChunk
<1>1. PICK n :
        /\ n = IF spos < Len(file) THEN Least(SendSize, Len(file) - spos) ELSE 0
        /\ out' = FileBytes(spos, n) /\ spos' = spos + n
        /\ sleft' = sleft - Sent(n)
  OBVIOUS
<1>2. /\ spos \in Nat /\ file \in Seq(Nat) /\ Len(file) \in Nat /\ sleft \in Int
      /\ file' = file /\ changed' = changed /\ size' = size
  BY DEF StreamInv, StreamTypeOK, fileVars
<1>3. n \in Nat /\ (n > 0 => spos + n <= Len(file)) /\ n = Sent(n)
  BY <1>1, <1>2, Sizes DEF Least, Sent
<1>4. PICK t : t = FileBytes(spos, n)
  OBVIOUS
<1>5. /\ t \in Seq(Byte) /\ Len(t) = n
      /\ \A j \in 1..n : /\ t[j].of = "file" /\ t[j].field = N + 1
                         /\ t[j].at = spos + j /\ t[j].num = file[spos + j]
                         /\ spos + j \in 1..Len(file)
  <2>1. \A j \in 1..n : spos + j \in 1..Len(file) /\ spos + j \in Nat
    BY <1>2, <1>3
  <2>2. \A j \in 1..n : file[spos + j] \in Nat
    BY <1>2, <2>1
  <2>3. \A j \in 1..n : [of |-> "file", field |-> N + 1, at |-> spos + j,
                         num |-> file[spos + j]] \in Byte
    BY <2>1, <2>2, Sizes DEF Byte
  <2>4. t = [j \in 1..n |-> [of |-> "file", field |-> N + 1, at |-> spos + j,
                             num |-> file[spos + j]]]
    BY <1>4 DEF FileBytes
  <2>5. t \in Seq(Byte) /\ Len(t) = n
    BY <1>3, <2>3, <2>4
  <2> QED
    BY <2>1, <2>4, <2>5
<1>6. out' = t
  BY <1>1, <1>4
<1>7. StreamTypeOK'
  <2>1. spos' \in Nat /\ sleft' \in Int
    BY <1>1, <1>2, <1>3
  <2> QED
    BY <1>5, <1>6, <2>1 DEF StreamInv, StreamTypeOK, fileVars, receiverVars
<1>8. Announced'
  <2>1. changed \/ spos' <= Len(file)
    BY <1>1, <1>2, <1>3 DEF StreamInv, Announced
  <2> QED
    BY <1>2, <2>1 DEF Announced
<1>9. ASSUME Reading PROVE Has' /\ OnItsWay'
  <2>1. TokenLen \in Nat \ {0} /\ N + 1 \in 1..N + 1 /\ ~(N + 1 <= N)
    BY Sizes
  <2>2. PICK p : p = TokenLen + spos
    OBVIOUS
  <2>3. PICK q : q = p + n
    OBVIOUS
  <2>4. p \in Nat /\ q \in Nat /\ q = TokenLen + spos' /\ p # 0
    BY <1>1, <1>2, <1>3, <2>1, <2>2, <2>3, SMTT(30)
  <2>5. \A i \in 1..N + 1, m \in {0, TokenLen + spos} :
          SenderAt(i, m) => i = N + 1 /\ m = p
    BY <2>2 DEF SenderAt
  <2>6. SenderAt(N + 1, q)' /\ q \in {0, TokenLen + spos'}
    <3>1. PICK i \in 1..N + 1, m \in {0, TokenLen + spos} : SenderAt(i, m)
      BY <1>9 DEF StreamInv, OnItsWay
    <3>2. changed \/ size = Len(file)
      BY <2>4, <2>5, <3>1 DEF SenderAt
    <3> QED
      BY <1>2, <2>4, <3>2 DEF SenderAt
  <2>7. Leads(N + 1, p, N + 1, q, Len(t))
    BY <1>5, <2>1, <2>3 DEF Leads
  <2>8. \A j \in 1..Len(t) : t[j].field = N + 1 /\ Offset(t[j]) = p + j - 1
    <3>1. \A j \in 1..n : TokenLen + (spos + j) - 1 = p + j - 1
      BY <1>2, <1>3, <2>1, <2>2
    <3>2. \A j \in 1..n : t[j].field = N + 1
                          /\ Offset(t[j]) = TokenLen + (spos + j) - 1
      BY <1>5 DEF Offset
    <3> QED
      BY <1>5, <3>1, <3>2
  <2>9. \A j \in 1..Len(t) : Proper(out[j])'
    <3>1. \A j \in 1..n : out'[j].at >= 1 /\ IsFileByte(out[j], out[j].at)'
      BY <1>2, <1>5, <1>6, SMTT(30) DEF IsFileByte
    <3> QED
      BY <1>5, <3>1 DEF Proper, IsFileByte
  <2>10. /\ out = <<>> /\ UNCHANGED <<wire, receiverVars>>
         /\ UNCHANGED size /\ UNCHANGED <<file, changed>>
    BY <1>2
  <2> QED
    BY <1>5, <1>6, <1>9, <2>1, <2>4, <2>5, <2>6, <2>7, <2>8, <2>9, <2>10, Sends
<1> QED
  BY <1>7, <1>8, <1>9, ReceiverRests

LEMMA TransmitInv ==
  ASSUME StreamInv, Transmit PROVE StreamInv'
<1> USE DEF Transmit
<1>1. PICK n \in 1..Least(Len(out), Cap - Len(wire)) :
        wire' = wire \o SubSeq(out, 1, n) /\ out' = Rest(out, n)
  OBVIOUS
<1>2. /\ wire \in Seq(Byte) /\ out \in Seq(Byte) /\ n \in 0..Len(out)
  <2>1. wire \in Seq(Byte) /\ out \in Seq(Byte)
    BY DEF StreamInv, StreamTypeOK
  <2>2. Len(wire) \in Nat /\ Len(out) \in Nat /\ Cap \in Nat
    BY <2>1, Sizes
  <2> QED
    BY <2>1, <2>2 DEF Least
<1>3. wire' \in Seq(Byte) /\ out' \in Seq(Byte) /\ wire' \o out' = wire \o out
  <2>1. SubSeq(out, 1, n) \in Seq(Byte) /\ Rest(out, n) \in Seq(Byte)
    BY <1>2, Cut
  <2>2. wire' \o out' = wire \o out
    BY <1>1, <1>2, HandOver
  <2> QED
    BY <1>1, <1>2, <2>1, <2>2
<1>4. StreamTypeOK'
  BY <1>3 DEF StreamInv, StreamTypeOK, fileVars, receiverVars
<1>5. Announced'
  BY DEF StreamInv, Announced, fileVars
<1>6. \A g \in 1..N + 1, p \in {0, TokenLen + spos} :
        SenderAt(g, p) => SenderAt(g, p)' /\ p \in {0, TokenLen + spos'}
  BY DEF SenderAt, fileVars
<1>7. Reading => Has' /\ OnItsWay'
  BY <1>3, <1>6, OnItsWayRests DEF fileVars
<1> QED
  BY <1>4, <1>5, <1>7, ReceiverRests

(* The sender ends, or is ended. *)
LEMMA SenderEndsInv ==
  ASSUME StreamInv, SendEnds \/ TransmitFails \/ SenderDies PROVE StreamInv'
<1>1. /\ spc' \in {"done", "failed", "killed"}
      /\ spc' = "done" => spc = "file"
      /\ UNCHANGED <<client, fileVars, sfield, out, size, sleft, spos, wire,
                     receiverVars>>
  BY DEF SendEnds, TransmitFails, SenderDies
<1>2. StreamTypeOK'
  BY <1>1 DEF StreamInv, StreamTypeOK, fileVars, receiverVars
<1>3. Announced'
  BY <1>1 DEF StreamInv, Announced, fileVars
<1>4. wire' \o out' = wire \o out
  BY <1>1
<1>5. \A g \in 1..N + 1, p \in {0, TokenLen + spos} :
        SenderAt(g, p) => SenderAt(g, p)' /\ p \in {0, TokenLen + spos'}
  BY <1>1 DEF SenderAt, fileVars
<1>6. Reading => Has' /\ OnItsWay'
  BY <1>1, <1>4, <1>5, OnItsWayRests DEF fileVars
<1> QED
  BY <1>1, <1>2, <1>3, <1>6, ReceiverRests

(* Writing the file before its size is taken changes nothing of what is on  *)
(* its way; after that it is known to have changed.                         *)
LEMMA RewriteInv ==
  ASSUME StreamInv, Rewrite PROVE StreamInv'
<1> USE DEF Rewrite
<1>1. writes' \in Nat /\ file' \in Seq(Nat)
  <2>1. writes \in Nat /\ file \in Seq(Nat)
    BY DEF StreamInv, StreamTypeOK
  <2>2. writes' \in Nat
    BY <2>1
  <2>3. <<>> \in Seq(Nat) /\ Append(file, writes') \in Seq(Nat)
    BY <2>1, <2>2
  <2>4. file' \in {<<>>, Append(file, writes')}
    OBVIOUS
  <2> QED
    BY <2>2, <2>3, <2>4
<1>2. changed' \in BOOLEAN
  <2>1. changed' = (spc # "begin")
    OBVIOUS
  <2> QED
    BY <2>1, Zenon
<1>3. changed' <=> spc # "begin"
  OBVIOUS
<1>4. StreamTypeOK'
  BY <1>1, <1>2 DEF StreamInv, StreamTypeOK, senderVars, receiverVars
<1>5. Announced'
  BY <1>1, <1>3 DEF StreamInv, Announced, senderVars
<1>6. wire' \o out' = wire \o out
  BY DEF senderVars
<1>7. \A g \in 1..N + 1, p \in {0, TokenLen + spos} :
        SenderAt(g, p) => SenderAt(g, p)' /\ p \in {0, TokenLen + spos'}
  BY <1>3 DEF SenderAt, senderVars
<1>8. Reading => Has' /\ OnItsWay'
  BY <1>3, <1>6, <1>7, OnItsWayRests DEF senderVars
<1> QED
  BY <1>4, <1>5, <1>8, ReceiverRests

-----------------------------------------------------------------------------
(* The steps of the receiver *)

(* What is received is what comes next, within the field; and the chain     *)
(* goes on from there.                                                      *)
LEMMA Receives ==
  ASSUME StreamInv, rpc \in {"token", "text", "file"},
         NEW n \in 1..Len(wire), n <= rleft, wire' = Rest(wire, n),
         UNCHANGED <<client, fileVars, senderVars>>
  PROVE  /\ Got(n) \in Seq(Byte) /\ Len(Got(n)) = n
         /\ \A j \in 1..n : /\ Proper(Got(n)[j]) /\ Got(n)[j] \in Byte
                            /\ Got(n)[j].field = rfield
                            /\ Offset(Got(n)[j]) = ReceiverOffset + j - 1
         /\ wire' \in Seq(Byte)
         /\ /\ rfield' = rfield /\ ReceiverOffset' = ReceiverOffset + n
            /\ rfield = N + 1 \/ ReceiverOffset + n < Whole(rfield)
            => OnItsWay'
         /\ /\ rfield <= N /\ ReceiverOffset + n = Whole(rfield)
            /\ rfield' = rfield + 1 /\ ReceiverOffset' = 0
            => OnItsWay'
<1> DEFINE s == wire \o out
<1>0. Reading /\ wire \in Seq(Byte) /\ out \in Seq(Byte) /\ rfield \in 1..N + 1
  BY DEF Reading, StreamInv, StreamTypeOK
<1>1. /\ s \in Seq(Byte) /\ Len(s) = Len(wire) + Len(out)
      /\ \A j \in 1..Len(wire) : s[j] = wire[j]
      /\ \A j \in 1..Len(s) : s[j] \in Byte /\ Proper(s[j])
      /\ ReceiverOffset \in Nat
  BY <1>0, OnItsWayBytes
<1>2. /\ n \in 0..Len(wire) /\ n \in Nat
      /\ Len(wire) \in Nat /\ Len(out) \in Nat
      /\ n \in 0..Len(s)
  BY <1>0, <1>1
<1>3. /\ Got(n) \in Seq(Byte) /\ Len(Got(n)) = n
      /\ \A j \in 1..n : Got(n)[j] = wire[j]
      /\ wire' \in Seq(Byte) /\ wire' \o out' = Rest(s, n)
  <2>1. Rest(wire, n) \o out = Rest(wire \o out, n)
    BY <1>0, <1>2, TakeOff
  <2>2. out' = out
    BY DEF senderVars
  <2> QED
    BY <1>0, <1>2, <2>1, <2>2, Cut DEF Got
<1>4. PICK g \in 1..N + 1, p \in {0, TokenLen + spos} :
        SenderAt(g, p) /\ Chain(s, rfield, ReceiverOffset, g, p)
  BY <1>0 DEF StreamInv, OnItsWay
<1>5. rfield = N + 1 \/ (rfield <= N /\ ReceiverOffset + n <= Whole(rfield))
  <2>1. CASE rpc = "token"
    <3>0. ReceiverOffset = Len(data) /\ rleft = TokenLen - Len(data)
      BY <1>0, <2>1 DEF StreamInv, Has, HasToken, ReceiverOffset
    <3>1. ReceiverOffset + n <= TokenLen
      BY <1>1, <1>2, <3>0, Sizes
    <3>2. rfield <= N => Whole(rfield) \in Nat /\ Whole(rfield) >= TokenLen
      BY <1>0, Sizes
    <3> QED
      BY <1>0, <1>1, <1>2, <3>1, <3>2, Sizes
  <2>2. CASE rpc = "text"
    <3>1. /\ ReceiverOffset = TokenLen + Len(got[rfield]) /\ rfield <= N
          /\ rleft = Texts[rfield] - Len(got[rfield])
      BY <1>0, <2>2 DEF StreamInv, Has, HasText, ReceiverOffset
    <3>2. Len(got[rfield]) \in Nat /\ Texts[rfield] \in Nat
      BY <1>0, <3>1, Sizes DEF StreamInv, StreamTypeOK
    <3> QED
      BY <1>2, <3>1, <3>2, Sizes DEF Whole
  <2>3. CASE rpc = "file"
    BY <1>0, <2>3 DEF StreamInv, Has, HasFile
  <2> QED
    BY <2>1, <2>2, <2>3
<1> HIDE DEF s
<1>6. ASSUME NEW j \in 1..n
      PROVE  /\ Proper(Got(n)[j]) /\ Got(n)[j] \in Byte
             /\ Got(n)[j].field = rfield
             /\ Offset(Got(n)[j]) = ReceiverOffset + j - 1
  <2>1. /\ j - 1 \in 0..Len(s) /\ j \in 1..Len(s)
        /\ j \in 1..Len(wire) /\ j \in Nat
    BY <1>1, <1>2
  <2>2. rfield = N + 1 \/ j - 1 < Whole(rfield) - ReceiverOffset
    BY <1>0, <1>1, <1>2, <1>5, Sizes
  <2>3. /\ FieldAt(s, g, (j - 1) + 1) = rfield
        /\ OffsetAt(s, p, (j - 1) + 1) = ReceiverOffset + (j - 1)
    BY <1>1, <1>4, <2>1, <2>2, ChainRuns, SMTT(30)
  <2>4. FieldAt(s, g, j) = s[j].field /\ OffsetAt(s, p, j) = Offset(s[j])
    BY <2>1 DEF FieldAt, OffsetAt
  <2>5. s[j].field = rfield /\ Offset(s[j]) = ReceiverOffset + j - 1
    BY <1>1, <2>1, <2>3, <2>4
  <2>6. Got(n)[j] = s[j]
    BY <1>1, <1>3, <2>1
  <2> QED
    BY <1>1, <2>1, <2>5, <2>6
<1>7. ASSUME NEW f, NEW o, rfield' = f, ReceiverOffset' = o,
             FieldAt(s, g, n + 1) = f, OffsetAt(s, p, n + 1) = o
      PROVE  OnItsWay'
  <2>1. Chain(wire' \o out', f, o, g, p)
    BY <1>1, <1>2, <1>3, <1>4, <1>7, ChainShrinks
  <2>2. SenderAt(g, p)' /\ p \in {0, TokenLen + spos'}
    BY <1>4 DEF SenderAt, senderVars, fileVars
  <2>3. ASSUME NEW j \in 1..Len(wire' \o out') PROVE Proper((wire \o out)[j])'
    <3>1. j + n \in 1..Len(s) /\ (wire' \o out')[j] = s[j + n]
      <4>1. /\ Len(Rest(s, n)) = Len(s) - n
            /\ \A l \in 1..Len(s) - n : Rest(s, n)[l] = s[l + n]
        BY <1>1, <1>2, Cut
      <4>2. j \in 1..Len(s) - n
        BY <1>3, <2>3, <4>1
      <4> QED
        BY <1>1, <1>2, <1>3, <4>1, <4>2
    <3>2. Proper(s[j + n])
      BY <1>1, <3>1
    <3>3. PICK b : b = s[j + n]
      OBVIOUS
    <3>4. Proper(b)'
      BY <3>2, <3>3, ProperRests DEF fileVars, senderVars
    <3> QED
      BY <3>1, <3>3, <3>4 DEF Proper, TokenByte, TextByte, IsFileByte
  <2> QED
    BY <1>7, <2>1, <2>2, <2>3 DEF OnItsWay
<1>10. rfield = N + 1 \/ n < Whole(rfield) - ReceiverOffset =>
         /\ FieldAt(s, g, n + 1) = rfield
         /\ OffsetAt(s, p, n + 1) = ReceiverOffset + n
  <2>1. Leads(rfield, ReceiverOffset,
              FieldAt(s, g, n + 1), OffsetAt(s, p, n + 1), n)
    <3>1. /\ 1 \in 1..Len(s) + 1 /\ n + 1 \in 1..Len(s) + 1 /\ 1 <= n + 1
          /\ (n + 1) - 1 = n
      BY <1>1, <1>2
    <3> QED
      BY <1>4, <3>1 DEF Chain
  <2> QED
    BY <2>1 DEF Leads
<1>8. /\ rfield' = rfield /\ ReceiverOffset' = ReceiverOffset + n
      /\ rfield = N + 1 \/ ReceiverOffset + n < Whole(rfield)
      => OnItsWay'
  <2> SUFFICES ASSUME rfield' = rfield, ReceiverOffset' = ReceiverOffset + n,
                      rfield = N + 1 \/ ReceiverOffset + n < Whole(rfield)
               PROVE  OnItsWay'
    OBVIOUS
  <2>1. rfield = N + 1 \/ n < Whole(rfield) - ReceiverOffset
    BY <1>0, <1>1, <1>2, Sizes
  <2> QED
    BY <1>7, <1>10, <2>1
<1>9. /\ rfield <= N /\ ReceiverOffset + n = Whole(rfield)
      /\ rfield' = rfield + 1 /\ ReceiverOffset' = 0
      => OnItsWay'
  <2> SUFFICES ASSUME rfield <= N, ReceiverOffset + n = Whole(rfield),
                      rfield' = rfield + 1, ReceiverOffset' = 0
               PROVE  OnItsWay'
    OBVIOUS
  <2>1. n = Whole(rfield) - ReceiverOffset
    BY <1>0, <1>1, <1>2, Sizes
  <2>2. FieldAt(s, g, n + 1) = rfield + 1 /\ OffsetAt(s, p, n + 1) = 0
    BY <1>1, <1>2, <1>4, <2>1, ChainRuns
  <2> QED
    BY <1>7, <2>2
<1> QED
  BY <1>3, <1>6, <1>8, <1>9

(* The server's and the client's copies of a text or of the file grow by    *)
(* what has been received, or are whole.                                    *)
LEMMA Takes ==
  ASSUME StreamInv, rpc \in {"text", "file"},
         NEW n \in 1..Len(wire), n <= rleft, wire' = Rest(wire, n),
         UNCHANGED <<client, fileVars, senderVars, data>>,
         Keeps(Got(n)), mv' \in [1..RecvSize -> Byte],
         IF More(n) THEN Counts(n) ELSE NextField
  PROVE  StreamInv'
<1> DEFINE old == got[rfield]
           new == got'[rfield]
<1>1. /\ Reading /\ Has /\ Announced /\ StreamTypeOK
      /\ \A i \in 1..rfield - 1 : got[i] = Text(i)
  BY DEF StreamInv, Reading
<1>2. /\ old \in Seq(Byte) /\ Len(old) \in Nat /\ rfield \in 1..N + 1
      /\ n \in Nat /\ rleft \in Nat /\ got \in [1..N + 1 -> Seq(Byte)]
      /\ data = <<>>
      /\ \A i \in rfield + 1..N + 1 : got[i] = <<>>
  BY <1>1 DEF StreamTypeOK, Has
<1>3. /\ Got(n) \in Seq(Byte) /\ Len(Got(n)) = n /\ wire' \in Seq(Byte)
      /\ \A j \in 1..n : /\ Proper(Got(n)[j]) /\ Got(n)[j] \in Byte
                         /\ Got(n)[j].field = rfield
                         /\ Offset(Got(n)[j]) = TokenLen + Len(old) + j - 1
      /\ /\ rfield' = rfield /\ ReceiverOffset' = TokenLen + Len(old) + n
         /\ rfield = N + 1 \/ TokenLen + Len(old) + n < Whole(rfield)
         => OnItsWay'
      /\ /\ rfield <= N /\ TokenLen + Len(old) + n = Whole(rfield)
         /\ rfield' = rfield + 1 /\ ReceiverOffset' = 0
         => OnItsWay'
  <2>1. ReceiverOffset = TokenLen + Len(old)
    BY DEF ReceiverOffset
  <2> HIDE DEF old
  <2> QED
    BY <2>1, Receives
<1>4. /\ new \in Seq(Byte) /\ Len(new) = Len(old) + n
      /\ \A j \in 1..Len(old) : new[j] = old[j]
      /\ \A j \in 1..n : new[Len(old) + j] = Got(n)[j]
      /\ got' \in [1..N + 1 -> Seq(Byte)]
      /\ \A i \in 1..N + 1 : i # rfield => got'[i] = got[i]
  <2>1. new = old \o Got(n)
    BY <1>2 DEF Keeps
  <2>2. /\ new \in Seq(Byte) /\ Len(new) = Len(old) + n
        /\ \A j \in 1..Len(old) + n :
              new[j] = IF j <= Len(old) THEN old[j] ELSE Got(n)[j - Len(old)]
    <3> HIDE DEF old, new
    <3> QED
      BY <1>2, <1>3, <2>1, ConcatProperties, ZenonT(60)
  <2>3. \A j \in 1..n : /\ Len(old) + j \in 1..Len(old) + n
                        /\ ~(Len(old) + j <= Len(old))
                        /\ (Len(old) + j) - Len(old) = j
    BY <1>2
  <2>4. \A j \in 1..Len(old) : j \in 1..Len(old) + n /\ j <= Len(old)
    BY <1>2
  <2>5. /\ got' \in [1..N + 1 -> Seq(Byte)]
        /\ \A i \in 1..N + 1 : i # rfield => got'[i] = got[i]
    BY <1>2, <2>1, <2>2 DEF Keeps
  <2> HIDE DEF old, new
  <2> QED
    BY <2>2, <2>3, <2>4, <2>5
<1>5. \A j \in 1..n : /\ Offset(Got(n)[j]) >= TokenLen
                      /\ Offset(Got(n)[j]) - TokenLen + 1 = Len(old) + j
  <2>1. TokenLen \in Nat /\ Len(old) \in Nat /\ n \in Nat
    BY <1>2, Sizes
  <2>2. \A j \in 1..n : Offset(Got(n)[j]) = TokenLen + Len(old) + j - 1
    BY <1>3
  <2> HIDE DEF old
  <2> QED
    BY <2>1, <2>2
<1>6. ASSUME rfield <= N
      PROVE  \A j \in 1..Len(old) + n : new[j] = TextByte(rfield, j)
  <2>1. rpc = "text" /\ HasText
    BY <1>1, <1>6, <1>2, Sizes DEF Has, HasFile
  <2>2. ASSUME NEW j \in 1..n
        PROVE  new[Len(old) + j] = TextByte(rfield, Len(old) + j)
    BY <1>3, <1>4, <1>5, <1>6, WhatByte
  <2>3. ASSUME NEW j \in 1..Len(old) PROVE new[j] = TextByte(rfield, j)
    BY <1>4, <2>1 DEF HasText
  <2>4. ASSUME NEW j \in 1..Len(old) + n, ~(j <= Len(old))
        PROVE  j - Len(old) \in 1..n /\ Len(old) + (j - Len(old)) = j
    BY <1>2, <2>4
  <2>5. \A j \in 1..Len(old) + n : j <= Len(old) => j \in 1..Len(old)
    BY <1>2
  <2> HIDE DEF old, new
  <2>6. ASSUME NEW j \in 1..Len(old) + n, ~(j <= Len(old))
        PROVE  new[j] = TextByte(rfield, j)
    <3>1. new[Len(old) + (j - Len(old))]
            = TextByte(rfield, Len(old) + (j - Len(old)))
      BY <2>2, <2>4, <2>6
    <3> QED
      BY <2>4, <2>6, <3>1
  <2> QED
    BY <2>3, <2>5, <2>6
<1>7. ASSUME rfield = N + 1
      PROVE  \A j \in 1..Len(old) + n : IsFileByte(new[j], j)
  <2>1. rpc = "file" /\ HasFile
    BY <1>1, <1>7, <1>2, Sizes DEF Has, HasText
  <2>2. ASSUME NEW j \in 1..n PROVE IsFileByte(new[Len(old) + j], Len(old) + j)
    BY <1>3, <1>4, <1>5, <1>7, WhatByte
  <2>3. ASSUME NEW j \in 1..Len(old) PROVE IsFileByte(new[j], j)
    BY <1>4, <1>7, <2>1 DEF HasFile
  <2>4. ASSUME NEW j \in 1..Len(old) + n, ~(j <= Len(old))
        PROVE  j - Len(old) \in 1..n /\ Len(old) + (j - Len(old)) = j
    BY <1>2, <2>4
  <2>5. \A j \in 1..Len(old) + n : j <= Len(old) => j \in 1..Len(old)
    BY <1>2
  <2> HIDE DEF old, new
  <2>6. ASSUME NEW j \in 1..Len(old) + n, ~(j <= Len(old))
        PROVE  IsFileByte(new[j], j)
    <3>1. IsFileByte(new[Len(old) + (j - Len(old))], Len(old) + (j - Len(old)))
      BY <2>2, <2>4, <2>6
    <3> QED
      BY <2>4, <2>6, <3>1
  <2> QED
    BY <2>3, <2>5, <2>6
<1>8. /\ rfield <= N => rpc = "text" /\ rleft = Texts[rfield] - Len(old)
                        /\ Texts[rfield] \in Nat
      /\ rfield = N + 1 => rpc = "file" /\ rleft = size - Len(old)
                           /\ size \in Nat
  <2>1. /\ rpc = "text" => /\ rfield <= N
                            /\ rleft = Texts[rfield] - Len(old)
        /\ rpc = "file" => rfield = N + 1 /\ rleft = size - Len(old)
        /\ size \in Nat
    BY <1>1 DEF Has, HasText, HasFile, StreamTypeOK
  <2>2. rfield <= N => rfield \in 1..N /\ rfield # N + 1
    BY <1>2, Sizes
  <2>3. rfield <= N => Texts[rfield] \in Nat
    BY <2>2, Sizes
  <2> QED
    BY <2>1, <2>2, <2>3, <1>2, Sizes
<1>9. Announced' /\ data' = <<>>
  BY <1>1, <1>2 DEF Announced, senderVars, fileVars
<1>10. /\ client' = client /\ size' = size /\ changed' = changed /\ file' = file
  BY DEF senderVars, fileVars
<1> HIDE DEF old, new
<1>13. /\ Len(got'[rfield]) = Len(old) + n /\ got'[rfield] = new
       /\ TokenLen + (Len(old) + n) = TokenLen + Len(old) + n
  BY <1>2, <1>4, Sizes DEF new
<1>11. CASE More(n)
  <2>1. /\ rpc' = rpc /\ rfield' = rfield /\ rleft' = rleft - n /\ rleft > n
    BY <1>11 DEF More, Counts, Took
  <2>2. ReceiverOffset' = TokenLen + Len(old) + n
    BY <1>13, <2>1 DEF ReceiverOffset
  <2>3. rfield = N + 1 \/ TokenLen + Len(old) + n < Whole(rfield)
    <3>1. CASE rfield <= N
      <4>1. Texts[rfield] \in Nat /\ rleft = Texts[rfield] - Len(old)
        BY <1>8, <3>1
      <4>2. Len(old) + n < Texts[rfield]
        BY <1>2, <2>1, <4>1
      <4>3. Whole(rfield) = TokenLen + Texts[rfield]
        BY DEF Whole
      <4>4. TokenLen \in Nat
        BY Sizes
      <4> QED
        BY <1>2, <4>1, <4>2, <4>3, <4>4
    <3> QED
      BY <1>2, <3>1, Sizes
  <2>4. OnItsWay'
    BY <1>3, <2>1, <2>2, <2>3
  <2>5. rpc = "text" => HasText'
    <3>1. rpc = "text" => rfield <= N
      BY <1>2, <1>8, Sizes
    <3> QED
      BY <1>2, <1>4, <1>6, <1>8, <2>1, <3>1 DEF HasText, new
  <2>6. rpc = "file" => HasFile'
    <3>1. rpc = "file" => rfield = N + 1
      BY <1>2, <1>8, Sizes
    <3>2. rpc = "file" =>
            /\ rfield' = N + 1
            /\ rleft' = size' - Len(got'[N + 1]) /\ rleft' > 0
      BY <1>2, <1>4, <1>8, <1>10, <2>1, <3>1 DEF new
    <3>3. rpc = "file" =>
            \A j \in 1..Len(got'[N + 1]) : IsFileByte(got[N + 1][j], j)'
      BY <1>2, <1>4, <1>7, <1>10, <3>1 DEF new, IsFileByte
    <3> QED
      BY <2>1, <3>2, <3>3 DEF HasFile
  <2>7. \A i \in rfield' + 1..N + 1 : got'[i] = <<>>
    BY <1>2, <1>4, <2>1, Sizes
  <2>8. Has'
    BY <1>9, <2>1, <2>5, <2>6, <2>7 DEF Has
  <2>9. \A i \in 1..rfield' - 1 : got'[i] = Text(i)
    BY <1>1, <1>2, <1>4, <2>1, Sizes
  <2>10. StreamTypeOK'
    <3>1. rleft' \in Nat
      BY <1>2, <2>1
    <3> QED
      BY <1>1, <1>3, <1>4, <2>1, <3>1 DEF StreamTypeOK, senderVars, fileVars
  <2> QED
    BY <1>9, <2>1, <2>4, <2>8, <2>9, <2>10 DEF StreamInv
<1>12. CASE ~More(n)
  <2>1. NextField /\ n = rleft
    BY <1>2, <1>12 DEF More, Took
  <2>2. CASE rfield <= N
    <3>1. rpc' = "token" /\ rfield' = rfield + 1 /\ rleft' = TokenLen
      BY <2>1, <2>2 DEF NextField
    <3>2. ReceiverOffset' = 0
      BY <1>9, <3>1 DEF ReceiverOffset
    <3>3. Len(old) + n = Texts[rfield]
      BY <1>2, <1>8, <2>1, <2>2
    <3>4. TokenLen + Len(old) + n = Whole(rfield)
      BY <1>2, <1>8, <2>2, <3>3, Sizes DEF Whole
    <3>5. OnItsWay'
      BY <1>3, <2>2, <3>1, <3>2, <3>4
    <3>6. new = Text(rfield)
      <4>1. rfield \in 1..N
        BY <1>2, <2>2, Sizes
      <4>2. /\ Text(rfield) \in Seq(Byte) /\ Len(Text(rfield)) = Len(new)
            /\ \A j \in 1..Len(new) : Text(rfield)[j] = new[j]
        BY <1>4, <1>6, <2>2, <3>3, <4>1, TextIsSeq
      <4> QED
        BY <1>4, <4>2, SeqEqual, Zenon
    <3>7. \A i \in 1..rfield' - 1 : got'[i] = Text(i)
      <4>1. \A i \in 1..rfield' - 1 :
              i \in 1..N + 1 /\ (i = rfield \/ i \in 1..rfield - 1)
        BY <1>2, <2>2, <3>1, Sizes
      <4>2. \A i \in 1..rfield - 1 : i # rfield
        BY <1>2
      <4> QED
        BY <1>1, <1>4, <1>13, <3>6, <4>1, <4>2
    <3>8. HasToken'
      BY <1>2, <1>4, <1>9, <2>2, <3>1, Sizes DEF HasToken
    <3>9. \A i \in rfield' + 1..N + 1 : got'[i] = <<>>
      BY <1>2, <1>4, <3>1, Sizes
    <3>10. Has'
      BY <1>9, <3>1, <3>8, <3>9 DEF Has
    <3>11. StreamTypeOK'
      <4>1. rleft' \in Nat /\ rfield' \in 1..N + 1
        BY <1>2, <2>2, <3>1, Sizes
      <4> QED
        BY <1>1, <1>3, <1>4, <3>1, <4>1 DEF StreamTypeOK, senderVars, fileVars
    <3> QED
      BY <1>9, <3>1, <3>5, <3>7, <3>10, <3>11 DEF StreamInv
  <2>3. CASE rfield = N + 1
    <3>1. rpc' = "done" /\ rfield' = rfield /\ rleft' = 0
      BY <2>1, <2>3, Sizes DEF NextField
    <3>2. ReceiverOffset' = TokenLen + Len(old) + n
      BY <1>13, <3>1 DEF ReceiverOffset
    <3>3. OnItsWay'
      BY <1>3, <2>3, <3>1, <3>2
    <3>4. HasFile'
      <4>1. rfield' = N + 1 /\ Len(got'[N + 1]) = size'
        BY <1>2, <1>4, <1>8, <1>10, <2>1, <2>3, <3>1 DEF new
      <4>2. \A j \in 1..Len(got'[N + 1]) : IsFileByte(got[N + 1][j], j)'
        BY <1>2, <1>4, <1>7, <1>10, <2>3 DEF new, IsFileByte
      <4> QED
        BY <3>1, <4>1, <4>2 DEF HasFile
    <3>5. \A i \in 1..rfield' - 1 : got'[i] = Text(i)
      BY <1>1, <1>2, <1>4, <3>1, Sizes
    <3>6. \A i \in rfield' + 1..N + 1 : got'[i] = <<>>
      BY <1>2, <1>4, <3>1, Sizes
    <3>7. Has'
      BY <1>9, <3>1, <3>4, <3>6 DEF Has
    <3>8. StreamTypeOK'
      <4>1. rleft' \in Nat
        BY <3>1
      <4> QED
        BY <1>1, <1>3, <1>4, <3>1, <4>1 DEF StreamTypeOK, senderVars, fileVars
    <3> QED
      BY <1>9, <3>1, <3>3, <3>5, <3>7, <3>8 DEF StreamInv
  <2> QED
    BY <1>2, <2>2, <2>3, Sizes
<1> QED
  BY <1>11, <1>12

(* The copy is written out of a buffer that holds what has been received.   *)
LEMMA WritesWhatItGot ==
  ASSUME StreamInv, NEW n \in 1..Len(wire), n <= RecvSize,
         NEW buf,
         buf = [k \in 1..RecvSize |-> IF k <= n THEN wire[k] ELSE mv[k]]
  PROVE  buf \in [1..RecvSize -> Byte] /\ WriteOut(buf, n) = Got(n)
<1>1. /\ wire \in Seq(Byte) /\ mv \in [1..RecvSize -> Byte]
      /\ n \in Nat /\ Len(wire) \in Nat /\ n \in 0..Len(wire)
  BY DEF StreamInv, StreamTypeOK
<1>2. buf \in [1..RecvSize -> Byte]
  BY <1>1
<1>3. buf \in Seq(Byte) /\ Len(buf) = RecvSize
  BY <1>2, Sizes
<1>4. /\ Got(n) \in Seq(Byte) /\ Len(Got(n)) = n
      /\ \A j \in 1..n : Got(n)[j] = wire[j]
  BY <1>1, Cut DEF Got
<1>5. CASE n < RecvSize
  <2>1. /\ SubSeq(buf, 1, n) \in Seq(Byte) /\ Len(SubSeq(buf, 1, n)) = n
        /\ \A j \in 1..n : SubSeq(buf, 1, n)[j] = buf[j]
    <3>1. n \in 0..Len(buf)
      BY <1>1, <1>3, <1>5, Sizes
    <3> QED
      BY <1>3, <3>1, Cut, ZenonT(60)
  <2>2. \A j \in 1..n : buf[j] = wire[j]
    BY <1>1, Sizes
  <2>3. SubSeq(buf, 1, n) = Got(n)
    BY <1>4, <2>1, <2>2, SeqEqual, Zenon
  <2> QED
    BY <1>2, <1>5, <2>3 DEF WriteOut
<1>6. CASE n = RecvSize
  <2>1. \A j \in 1..n : buf[j] = wire[j]
    BY <1>1, <1>6, Sizes
  <2>2. buf = Got(n)
    <3>1. /\ buf \in Seq(Byte) /\ Got(n) \in Seq(Byte) /\ Len(buf) = Len(Got(n))
          /\ \A j \in 1..Len(buf) : buf[j] = Got(n)[j]
      BY <1>3, <1>4, <1>6, <2>1
    <3> QED
      BY <3>1, SeqEqual, Zenon
  <2> QED
    BY <1>2, <1>6, <2>2, Sizes DEF WriteOut
<1> QED
  BY <1>1, <1>5, <1>6, Sizes

LEMMA RecvTextInv ==
  ASSUME StreamInv, RecvText PROVE StreamInv'
<1>1. PICK n \in 1..Least(rleft, Len(wire)) :
        /\ wire' = Rest(wire, n)
        /\ Keeps(Got(n))
        /\ IF More(n) THEN Counts(n) ELSE NextField
  BY DEF RecvText
<1>2. n \in 1..Len(wire) /\ n <= rleft
  BY DEF Least, StreamInv, StreamTypeOK
<1>3. mv' \in [1..RecvSize -> Byte]
  BY DEF RecvText, StreamInv, StreamTypeOK
<1> QED
  BY <1>1, <1>2, <1>3, Takes DEF RecvText

LEMMA RecvChunkInv ==
  ASSUME StreamInv, RecvChunk PROVE StreamInv'
<1>1. PICK n \in 1..Least(Least(RecvSize, rleft), Len(wire)) :
        LET buf == [k \in 1..RecvSize |-> IF k <= n THEN wire[k] ELSE mv[k]]
        IN  /\ wire' = Rest(wire, n)
            /\ Keeps(WriteOut(buf, n))
            /\ IF More(n) THEN Counts(n) /\ mv' = buf
                          ELSE NextField /\ mv' = EmptyBuffer
  BY DEF RecvChunk
<1>2. n \in 1..Len(wire) /\ n <= rleft /\ n <= RecvSize
  <2>1. rleft \in Nat /\ RecvSize \in Nat /\ Len(wire) \in Nat
    BY Sizes DEF StreamInv, StreamTypeOK
  <2> QED
    BY <2>1 DEF Least
<1>3. PICK buf :
        buf = [k \in 1..RecvSize |-> IF k <= n THEN wire[k] ELSE mv[k]]
  OBVIOUS
<1>4. buf \in [1..RecvSize -> Byte] /\ WriteOut(buf, n) = Got(n)
  BY <1>2, <1>3, WritesWhatItGot
<1>5. /\ wire' = Rest(wire, n) /\ Keeps(Got(n))
      /\ IF More(n) THEN Counts(n) ELSE NextField
      /\ mv' = buf \/ mv' = EmptyBuffer
  BY <1>1, <1>3, <1>4
<1>6. EmptyBuffer \in [1..RecvSize -> Byte]
  BY DEF EmptyBuffer, Unset, Byte
<1>7. /\ rpc \in {"text", "file"}
      /\ UNCHANGED <<client, fileVars, senderVars, data>>
  BY DEF RecvChunk
<1>8. mv' \in [1..RecvSize -> Byte]
  BY <1>4, <1>5, <1>6
<1> QED
  BY <1>2, <1>5, <1>7, <1>8, Takes

(* The bytes of a token are the token, however many receives it takes; what *)
(* it says decides what is received next.                                   *)
LEMMA RecvTokenInv ==
  ASSUME StreamInv, RecvToken PROVE StreamInv'
<1>1. PICK n \in 1..Least(rleft, Len(wire)) :
        LET token == data \o Got(n)
            m     == token[1].num
        IN  /\ wire' = Rest(wire, n)
            /\ \/ More(n) /\ Counts(n) /\ data' = token
               \/ /\ ~More(n) /\ data' = <<>>
                  /\ IF token # Token(rfield, m)
                       THEN rpc' = "invalid" /\ UNCHANGED <<rfield, rleft>>
                     ELSE IF m = 0 THEN NextField
                     ELSE /\ rpc' = IF rfield <= N THEN "text" ELSE "file"
                          /\ rleft' = m /\ UNCHANGED rfield
  BY DEF RecvToken
<1> DEFINE token == data \o Got(n)
           m     == Told(rfield)
<1>2. /\ rpc = "token" /\ Reading /\ Has /\ HasToken /\ Announced
      /\ StreamTypeOK /\ \A i \in 1..rfield - 1 : got[i] = Text(i)
      /\ \A i \in rfield + 1..N + 1 : got[i] = <<>>
  BY DEF RecvToken, StreamInv, Reading, Has
<1>3. /\ n \in 1..Len(wire) /\ n <= rleft /\ n \in Nat /\ rleft \in Nat
      /\ data \in Seq(Byte) /\ Len(data) \in Nat /\ rfield \in 1..N + 1
      /\ rleft = TokenLen - Len(data) /\ got[rfield] = <<>>
      /\ \A j \in 1..Len(data) : data[j] = TokenByte(rfield, j, m)
  <2>1. rleft \in Nat /\ Len(wire) \in Nat
    BY <1>2 DEF StreamTypeOK
  <2>2. n \in 1..Len(wire) /\ n <= rleft /\ n \in Nat
    BY <2>1 DEF Least
  <2> QED
    BY <1>2, <2>1, <2>2 DEF StreamTypeOK, HasToken
<1>4. m \in Nat
  BY <1>2, <1>3, ToldNumber
<1>5. /\ Got(n) \in Seq(Byte) /\ Len(Got(n)) = n /\ wire' \in Seq(Byte)
      /\ \A j \in 1..n : /\ Proper(Got(n)[j]) /\ Got(n)[j] \in Byte
                         /\ Got(n)[j].field = rfield
                         /\ Offset(Got(n)[j]) = Len(data) + j - 1
      /\ /\ rfield' = rfield /\ ReceiverOffset' = Len(data) + n
         /\ rfield = N + 1 \/ Len(data) + n < Whole(rfield)
         => OnItsWay'
      /\ /\ rfield <= N /\ Len(data) + n = Whole(rfield)
         /\ rfield' = rfield + 1 /\ ReceiverOffset' = 0
         => OnItsWay'
  <2>1. ReceiverOffset = Len(data)
    BY <1>2 DEF ReceiverOffset
  <2>2. wire' = Rest(wire, n) /\ UNCHANGED <<client, fileVars, senderVars>>
    BY <1>1 DEF RecvToken
  <2>3. rpc \in {"token", "text", "file"}
    BY <1>2
  <2> QED
    BY <1>3, <2>1, <2>2, <2>3, Receives
<1>6. /\ token \in Seq(Byte) /\ Len(token) = Len(data) + n
      /\ \A j \in 1..Len(data) + n : token[j] = TokenByte(rfield, j, m)
  <2>1. /\ token \in Seq(Byte) /\ Len(token) = Len(data) + n
        /\ \A j \in 1..Len(data) + n :
              token[j] = IF j <= Len(data) THEN data[j]
                                           ELSE Got(n)[j - Len(data)]
    BY <1>3, <1>5, ConcatProperties, ZenonT(60)
  <2>2. ASSUME NEW j \in 1..n
        PROVE  Got(n)[j] = TokenByte(rfield, Len(data) + j, m)
    <3>1. /\ Offset(Got(n)[j]) < TokenLen
          /\ Offset(Got(n)[j]) + 1 = Len(data) + j
      <4>1. Offset(Got(n)[j]) = Len(data) + j - 1
        BY <1>5
      <4> QED
        BY <1>3, <4>1, Sizes
    <3> QED
      BY <1>5, <3>1, WhatByte
  <2> HIDE DEF token, m
  <2>3. ASSUME NEW j \in 1..Len(data) + n
        PROVE  token[j] = TokenByte(rfield, j, m)
    <3>1. CASE j <= Len(data)
      <4>1. j \in 1..Len(data)
        BY <1>3, <3>1
      <4> QED
        BY <1>3, <2>1, <3>1, <4>1
    <3>2. CASE ~(j <= Len(data))
      <4>1. j - Len(data) \in 1..n /\ Len(data) + (j - Len(data)) = j
        BY <1>3, <3>2
      <4> QED
        BY <2>1, <2>2, <3>2, <4>1
    <3> QED
      BY <3>1, <3>2
  <2> QED
    BY <2>1, <2>3
<1>7. token[1].num = m
  <2>1. 1 \in 1..Len(data) + n
    BY <1>3
  <2>2. token[1] = TokenByte(rfield, 1, m)
    BY <1>6, <2>1
  <2> QED
    BY <2>2 DEF TokenByte
<1> HIDE DEF token, m
<1>8. /\ wire' = Rest(wire, n)
      /\ \/ More(n) /\ Counts(n) /\ data' = token
         \/ /\ ~More(n) /\ data' = <<>>
            /\ IF token # Token(rfield, m)
                 THEN rpc' = "invalid" /\ UNCHANGED <<rfield, rleft>>
               ELSE IF m = 0 THEN NextField
               ELSE /\ rpc' = IF rfield <= N THEN "text" ELSE "file"
                    /\ rleft' = m /\ UNCHANGED rfield
  BY <1>1, <1>7 DEF token
<1>9. /\ client' = client /\ size' = size /\ changed' = changed /\ file' = file
      /\ mv' = mv /\ got' = got /\ Announced'
  BY <1>2 DEF RecvToken, senderVars, fileVars, Announced
<1>10. rfield <= N => /\ rfield \in 1..N /\ Texts[rfield] \in Nat
                      /\ Whole(rfield) = TokenLen + Texts[rfield]
                      /\ m = Texts[rfield]
  BY <1>3, Sizes DEF Whole, m, Told
<1>11. CASE More(n) /\ Counts(n) /\ data' = token
  <2>1. rpc' = "token" /\ rfield' = rfield /\ rleft' = rleft - n /\ rleft > n
    BY <1>2, <1>11 DEF More, Counts, Took
  <2>2. ReceiverOffset' = Len(data) + n
    BY <1>6, <1>11, <2>1 DEF ReceiverOffset
  <2>3. rfield = N + 1 \/ Len(data) + n < Whole(rfield)
    <3>1. Len(data) + n < TokenLen
      BY <1>3, <2>1, Sizes
    <3> QED
      BY <1>3, <1>10, <3>1, Sizes
  <2>4. OnItsWay'
    BY <1>5, <2>1, <2>2, <2>3
  <2>5. HasToken'
    <3>1. /\ got'[rfield'] = <<>>
          /\ rleft' = TokenLen - Len(data') /\ rleft' > 0
      BY <1>3, <1>6, <1>9, <1>11, <2>1, Sizes, SMTT(30)
    <3>2. Told(rfield)' = m
      BY <1>9, <2>1 DEF Told, m
    <3>3. \A j \in 1..Len(data') :
            (data[j] = TokenByte(rfield, j, Told(rfield)))'
      BY <1>6, <1>11, <2>1, <3>2 DEF TokenByte
    <3> QED
      BY <3>1, <3>3 DEF HasToken
  <2>6. Has'
    BY <1>2, <1>9, <2>1, <2>5 DEF Has
  <2>7. StreamTypeOK'
    <3>1. rleft' \in Nat
      BY <1>3, <2>1
    <3> QED
      BY <1>2, <1>5, <1>6, <1>9, <1>11, <2>1, <3>1
         DEF StreamTypeOK, RecvToken, senderVars, fileVars
  <2> QED
    BY <1>2, <1>9, <2>1, <2>4, <2>6, <2>7 DEF StreamInv
<1>12. CASE ~More(n)
  <2>1. n = rleft /\ Len(data) + n = TokenLen /\ data' = <<>>
    <3>1. n = rleft /\ data' = <<>>
      BY <1>3, <1>8, <1>12 DEF More, Took
    <3> QED
      BY <1>3, <3>1, Sizes
  <2>2. token = Token(rfield, m)
    <3>1. /\ Token(rfield, m) \in Seq(Byte)
          /\ Len(Token(rfield, m)) = Len(token)
          /\ \A j \in 1..Len(token) : token[j] = Token(rfield, m)[j]
      BY <1>3, <1>4, <1>6, <2>1, TokenIsSeq
    <3> QED
      BY <1>6, <3>1, SeqEqual, Zenon
  <2>3. IF m = 0 THEN NextField
        ELSE /\ rpc' = IF rfield <= N THEN "text" ELSE "file"
             /\ rleft' = m /\ UNCHANGED rfield
    BY <1>8, <1>12, <2>2
  <2>4. ASSUME rleft' \in Nat, rfield' \in 1..N + 1,
               rpc' \in {"token", "text", "file", "done"}
        PROVE  StreamTypeOK'
    BY <1>2, <1>5, <1>9, <2>1, <2>4, SMTT(30)
       DEF StreamTypeOK, RecvToken, senderVars, fileVars
  <2>5. CASE m = 0 /\ rfield <= N
    <3>1. rpc' = "token" /\ rfield' = rfield + 1 /\ rleft' = TokenLen
      BY <2>3, <2>5 DEF NextField
    <3>2. got[rfield] = Text(rfield)
      <4>1. Text(rfield) \in Seq(Byte) /\ Len(Text(rfield)) = 0
        BY <1>10, <2>5, TextIsSeq
      <4> QED
        BY <1>3, <4>1
    <3>3. OnItsWay'
      <4>1. ReceiverOffset' = 0
        BY <2>1, <3>1 DEF ReceiverOffset
      <4>2. Len(data) + n = Whole(rfield)
        BY <1>10, <2>1, <2>5, Sizes
      <4> QED
        BY <1>5, <2>5, <3>1, <4>1, <4>2
    <3>4. HasToken'
      <4>1. got'[rfield'] = <<>>
        BY <1>2, <1>3, <1>9, <2>5, <3>1, Sizes
      <4>2. rleft' = TokenLen - Len(data') /\ rleft' > 0 /\ Len(data') = 0
        BY <2>1, <3>1, Sizes
      <4> QED
        BY <4>1, <4>2 DEF HasToken
    <3>5. Has'
      <4>1. \A i \in rfield' + 1..N + 1 : got'[i] = <<>>
        BY <1>2, <1>3, <1>9, <3>1, Sizes
      <4> QED
        BY <2>1, <3>1, <3>4, <4>1 DEF Has
    <3>6. \A i \in 1..rfield' - 1 : got'[i] = Text(i)
      BY <1>2, <1>3, <1>9, <3>1, <3>2
    <3>7. StreamTypeOK'
      BY <1>3, <2>4, <2>5, <3>1, Sizes
    <3> QED
      BY <1>9, <3>1, <3>3, <3>5, <3>6, <3>7 DEF StreamInv
  <2>6. CASE m = 0 /\ rfield = N + 1
    <3>1. rpc' = "done" /\ rfield' = rfield /\ rleft' = 0
      BY <2>3, <2>6, Sizes DEF NextField
    <3>2. size = 0
      BY <2>6, Sizes DEF m, Told
    <3>3. OnItsWay'
      <4>1. ReceiverOffset' = Len(data) + n
        BY <1>3, <1>9, <2>1, <3>1, Sizes DEF ReceiverOffset
      <4> QED
        BY <1>5, <2>6, <3>1, <4>1
    <3>4. HasFile'
      <4>1. rfield' = N + 1 /\ got'[N + 1] = <<>> /\ size' = 0
        BY <1>3, <1>9, <2>6, <3>1, <3>2
      <4> QED
        BY <3>1, <4>1 DEF HasFile
    <3>5. Has'
      BY <1>2, <1>9, <2>1, <3>1, <3>4 DEF Has
    <3>6. StreamTypeOK'
      BY <1>3, <2>4, <3>1
    <3> QED
      BY <1>2, <1>9, <3>1, <3>3, <3>5, <3>6 DEF StreamInv
  <2>7. CASE m # 0
    <3>1. /\ rpc' = IF rfield <= N THEN "text" ELSE "file"
          /\ rleft' = m /\ rfield' = rfield
      BY <2>3, <2>7
    <3>2. m > 0
      BY <1>4, <2>7
    <3>3. OnItsWay'
      <4>1. ReceiverOffset' = Len(data) + n
        BY <1>3, <1>9, <2>1, <3>1, Sizes DEF ReceiverOffset
      <4>2. rfield = N + 1 \/ Len(data) + n < Whole(rfield)
        BY <1>3, <1>10, <2>1, <3>2, Sizes
      <4> QED
        BY <1>5, <3>1, <4>1, <4>2
    <3>4. got'[rfield'] = <<>> /\ Len(got'[rfield']) = 0
      BY <1>3, <1>9, <3>1
    <3>5. rpc' = "text" => HasText'
      BY <1>10, <3>1, <3>2, <3>4, Sizes DEF HasText
    <3>6. rpc' = "file" => HasFile'
      <4>1. rpc' = "file" => rfield = N + 1
        BY <1>3, <3>1, Sizes
      <4>2. rpc' = "file" => m = size
        BY <4>1, Sizes DEF m, Told
      <4> QED
        BY <1>4, <1>9, <3>1, <3>2, <3>4, <4>1, <4>2 DEF HasFile
    <3>7. Has'
      BY <1>2, <1>9, <2>1, <3>1, <3>5, <3>6 DEF Has
    <3>8. StreamTypeOK'
      BY <1>3, <1>4, <2>4, <3>1
    <3> QED
      BY <1>2, <1>9, <3>1, <3>3, <3>7, <3>8 DEF StreamInv
  <2> QED
    BY <1>3, <2>5, <2>6, <2>7, Sizes
<1> QED
  BY <1>8, <1>11, <1>12

(* The receiver ends, or is ended. *)
LEMMA ReceiverEndsInv ==
  ASSUME StreamInv, RecvFails \/ Close \/ ReceiverDies PROVE StreamInv'
<1>1. /\ rpc' \in {"failed", "closed", "killed"}
      /\ rpc' = "closed" => rpc = "done"
      /\ UNCHANGED <<client, fileVars, senderVars, wire, rfield, rleft, data,
                     mv, got>>
  BY DEF RecvFails, Close, ReceiverDies
<1>2. StreamTypeOK'
  BY <1>1 DEF StreamInv, StreamTypeOK, fileVars, senderVars
<1>3. Announced'
  BY <1>1 DEF StreamInv, Announced, fileVars, senderVars
<1>4. rpc' # "invalid" /\ \A i \in 1..rfield' - 1 : got'[i] = Text(i)
  BY <1>1 DEF StreamInv
<1>5. ASSUME Reading' PROVE Has' /\ OnItsWay'
  <2>1. rpc = "done" /\ rpc' = "closed" /\ Has /\ OnItsWay
    BY <1>1, <1>5 DEF Reading, StreamInv
  <2>2. /\ ReceiverOffset' = ReceiverOffset /\ rfield' = rfield
        /\ wire' = wire /\ out' = out /\ spos' = spos
    BY <1>1, <2>1 DEF ReceiverOffset, senderVars
  <2>3. HasFile'
    BY <1>1, <2>1 DEF Has, HasFile, IsFileByte, fileVars, senderVars
  <2>4. Has'
    BY <1>1, <2>1, <2>3 DEF Has
  <2>5. PICK g \in 1..N + 1, p \in {0, TokenLen + spos} :
          SenderAt(g, p) /\ Chain(wire \o out, rfield, ReceiverOffset, g, p)
    BY <2>1 DEF OnItsWay
  <2>6. SenderAt(g, p)'
    BY <1>1, <2>5 DEF SenderAt, fileVars, senderVars
  <2>7. \A j \in 1..Len(wire' \o out') : Proper((wire \o out)[j])'
    BY <1>1, <2>1, ZenonT(60)
      DEF OnItsWay, Proper, Told, TokenByte, TextByte, IsFileByte,
                      fileVars, senderVars
  <2> QED
    BY <2>2, <2>4, <2>5, <2>6, <2>7 DEF OnItsWay
<1> QED
  BY <1>2, <1>3, <1>4, <1>5 DEF StreamInv

-----------------------------------------------------------------------------
(* The specification *)

LEMMA StreamInit ==
  Init => StreamInv
<1> SUFFICES ASSUME Init PROVE StreamInv
  OBVIOUS
<1> USE DEF Init
<1>1. file \in Seq(Nat)
  <2>1. PICK n \in 0..MaxSize : file = [k \in 1..n |-> 0]
    OBVIOUS
  <2> QED
    BY <2>1, Sizes
<1>2. EmptyBuffer \in [1..RecvSize -> Byte]
  BY DEF EmptyBuffer, Unset, Byte
<1>3. changed \in BOOLEAN
  <2>1. changed = FALSE
    OBVIOUS
  <2> QED
    BY <2>1, Zenon
<1>4. 1 \in 1..N + 1 /\ rleft \in Nat /\ rleft > 0 /\ rleft = TokenLen
  BY Sizes
<1>5. /\ <<>> \in Seq(Byte) /\ wire = <<>> /\ out = <<>> /\ data = <<>>
      /\ got \in [1..N + 1 -> Seq(Byte)] /\ \A i \in 1..N + 1 : got[i] = <<>>
  OBVIOUS
<1>6. StreamTypeOK
  BY <1>1, <1>2, <1>3, <1>4, <1>5 DEF StreamTypeOK
<1>7. Announced
  BY <1>1 DEF Announced
<1>8. Has
  BY <1>4, <1>5, Sizes DEF Has, HasToken
<1>9. OnItsWay
  <2>1. wire \o out = <<>> /\ Len(wire \o out) = 0
    BY <1>5
  <2>2. Chain(<<>>, 1, 0, 1, 0)
    <3>1. /\ FieldAt(<<>>, 1, 1) = 1 /\ OffsetAt(<<>>, 0, 1) = 0
      BY DEF FieldAt, OffsetAt
    <3>2. Leads(1, 0, 1, 0, 0)
      BY Sizes DEF Leads
    <3>3. \A j, k \in 1..Len(<<>>) + 1 : j = 1 /\ k = 1 /\ k - j = 0
      OBVIOUS
    <3> QED
      BY <3>1, <3>2, <3>3 DEF Chain
  <2>3. SenderAt(1, 0) /\ ReceiverOffset = 0 /\ rfield = 1
    BY <1>5 DEF SenderAt, ReceiverOffset
  <2> QED
    BY <1>4, <2>1, <2>2, <2>3 DEF OnItsWay
<1> QED
  BY <1>6, <1>7, <1>8, <1>9 DEF StreamInv

LEMMA StreamNextInv ==
  StreamInv /\ [Next]_vars => StreamInv'
<1> SUFFICES ASSUME StreamInv, [Next]_vars PROVE StreamInv'
  OBVIOUS
<1>1. CASE Sender
  <2>1. CASE Begin
    BY <2>1, BeginInv
  <2>2. CASE SendText
    BY <2>2, SendTextInv
  <2>3. CASE SendSizeOfFile
    BY <2>3, SendSizeOfFileInv
  <2>4. CASE SendChunk
    BY <2>4, SendChunkInv
  <2>5. CASE SendEnds \/ TransmitFails
    BY <2>5, SenderEndsInv
  <2>6. CASE Transmit
    BY <2>6, TransmitInv
  <2> QED
    BY <1>1, <2>1, <2>2, <2>3, <2>4, <2>5, <2>6 DEF Sender
<1>2. CASE Receiver
  <2>1. CASE RecvToken
    BY <2>1, RecvTokenInv
  <2>2. CASE RecvText
    BY <2>2, RecvTextInv
  <2>3. CASE RecvChunk
    BY <2>3, RecvChunkInv
  <2>4. CASE RecvFails \/ Close
    BY <2>4, ReceiverEndsInv
  <2> QED
    BY <1>2, <2>1, <2>2, <2>3, <2>4 DEF Receiver
<1>3. CASE Rewrite
  BY <1>3, RewriteInv
<1>4. CASE SenderDies
  BY <1>4, SenderEndsInv
<1>5. CASE ReceiverDies
  BY <1>5, ReceiverEndsInv
<1>6. CASE UNCHANGED vars
  <2> USE <1>6 DEF vars, StreamInv
  <2>1. StreamTypeOK' /\ Announced'
    BY DEF StreamTypeOK, Announced, fileVars, senderVars, receiverVars
  <2>2. wire' \o out' = wire \o out
    BY DEF senderVars
  <2>3. \A g \in 1..N + 1, p \in {0, TokenLen + spos} :
          SenderAt(g, p) => SenderAt(g, p)' /\ p \in {0, TokenLen + spos'}
    BY DEF SenderAt, senderVars, fileVars
  <2>4. Reading => Has' /\ OnItsWay'
    BY <2>2, <2>3, OnItsWayRests DEF senderVars, fileVars
  <2> QED
    BY <2>1, <2>4, ReceiverRests
<1> QED
  BY <1>1, <1>2, <1>3, <1>4, <1>5, <1>6 DEF Next, Ended

(* In every reachable state the bytes on their way are those that the       *)
(* receiver waits for, in order, up to where the sender is.                 *)
THEOREM StreamInvariance == Spec => []StreamInv
<1>1. Init => StreamInv
  BY StreamInit
<1>2. StreamInv /\ [Next]_vars => StreamInv'
  BY StreamNextInv
<1> QED
  BY <1>1, <1>2, PTL DEF Spec

LEMMA InvImpliesFieldsIntact ==
  StreamInv => FieldsIntact
<1> SUFFICES ASSUME StreamInv PROVE FieldsIntact
  OBVIOUS
<1> USE DEF StreamInv
<1>1. ASSUME NEW i \in 1..N, Received(i) PROVE got[i] = Text(i)
  <2>1. CASE rfield > i
    <3>1. i \in 1..rfield - 1
      BY <2>1, Sizes DEF StreamTypeOK
    <3> QED
      BY <3>1
  <2>2. CASE rpc \in {"done", "closed"}
    <3>1. rfield = N + 1
      BY <2>2 DEF Reading, Has, HasFile
    <3>2. i \in 1..rfield - 1
      BY <3>1, Sizes
    <3> QED
      BY <3>2
  <2> QED
    BY <1>1, <2>1, <2>2 DEF Received
<1>2. ASSUME Received(N + 1)
      PROVE  /\ Len(got[N + 1]) = size
             /\ \A k \in 1..size : got[N + 1][k].at = k
             /\ changed \/ got[N + 1] = FileBytes(0, Len(file))
  <2>1. rpc \in {"done", "closed"}
    BY <1>2, Sizes DEF Received, StreamTypeOK
  <2>2. /\ Reading /\ HasFile /\ OnItsWay /\ rfield = N + 1
        /\ Len(got[N + 1]) = size
        /\ \A j \in 1..size : IsFileByte(got[N + 1][j], j)
    BY <2>1 DEF Reading, Has, HasFile
  <2>3. \A k \in 1..size : got[N + 1][k].at = k
    BY <2>2 DEF IsFileByte
  <2>4. ASSUME ~changed PROVE size = Len(file)
    <3> DEFINE s == wire \o out
    <3>1. PICK g \in 1..N + 1, p \in {0, TokenLen + spos} :
            SenderAt(g, p) /\ Chain(s, N + 1, ReceiverOffset, g, p)
      BY <2>2 DEF OnItsWay
    <3>2. ReceiverOffset \in Nat /\ ReceiverOffset # 0
      BY <2>1, <2>2, Sizes DEF ReceiverOffset, StreamTypeOK
    <3>3. s \in Seq(Byte) /\ Len(s) \in Nat
      BY <2>2, OnItsWayBytes
    <3> HIDE DEF s
    <3>4. Leads(N + 1, ReceiverOffset, g, p, Len(s))
      BY <3>1, <3>3, ChainLeads
    <3>5. p # 0
      BY <3>2, <3>3, <3>4 DEF Leads
    <3> QED
      BY <2>4, <3>1, <3>5 DEF SenderAt
  <2>5. ASSUME ~changed PROVE got[N + 1] = FileBytes(0, Len(file))
    <3> DEFINE n == Len(file)
               t == FileBytes(0, n)
    <3>1. n \in Nat /\ file \in Seq(Nat) /\ got[N + 1] \in Seq(Byte)
          /\ Len(got[N + 1]) = n
      BY <2>2, <2>4, <2>5, Sizes DEF StreamTypeOK
    <3>2. \A k \in 1..n : /\ 0 + k = k /\ file[k] \in Nat /\ k \in Nat
      BY <3>1
    <3>3. t = [k \in 1..n |-> [of |-> "file", field |-> N + 1, at |-> 0 + k,
                               num |-> file[0 + k]]]
      BY DEF FileBytes
    <3>4. \A k \in 1..n : got[N + 1][k].of = "file"
                          /\ got[N + 1][k].field = N + 1
                          /\ got[N + 1][k].at = k
                          /\ got[N + 1][k].num = file[k]
                          /\ got[N + 1][k] \in Byte
      BY <2>2, <2>4, <2>5, <3>1 DEF IsFileByte
    <3> HIDE DEF n, t
    <3>5. ASSUME NEW k \in 1..n PROVE t[k] = got[N + 1][k]
      <4>1. t[k] = [of |-> "file", field |-> N + 1, at |-> k, num |-> file[k]]
        BY <3>2, <3>3
      <4>2. PICK b \in Byte : b = got[N + 1][k]
        BY <3>4
      <4>3. b = [of |-> b.of, field |-> b.field, at |-> b.at, num |-> b.num]
        BY DEF Byte
      <4> QED
        BY <3>4, <4>1, <4>2, <4>3
    <3>6. t \in Seq(Byte) /\ Len(t) = n
      <4>1. \A k \in 1..n : t[k] \in Byte
        BY <3>4, <3>5
      <4> QED
        BY <3>1, <3>3, <4>1
    <3>7. t = got[N + 1]
      BY <3>1, <3>5, <3>6, SeqEqual, Zenon
    <3> QED
      BY <3>7 DEF n, t
  <2> QED
    BY <2>2, <2>3, <2>5
<1> QED
  BY <1>1, <1>2 DEF FieldsIntact

(* Every field that has been read is what was sent, and no token is read    *)
(* from other bytes: recv_exactly and chunked_read_write, for any sizes and *)
(* any way in which the stream is cut (net.py).                             *)
THEOREM FieldsAreIntact == Spec => []FieldsIntact
<1> QED
  BY StreamInvariance, InvImpliesFieldsIntact, PTL

LEMMA InvImpliesNothingUnread ==
  StreamInv => NothingUnread
<1> SUFFICES ASSUME StreamInv, ~changed,
                    spc = "done", rpc \in {"done", "closed"}
             PROVE  wire = <<>>
  BY DEF NothingUnread
<1> USE DEF StreamInv
<1> DEFINE s == wire \o out
<1>1. Reading /\ Has /\ HasFile /\ OnItsWay
  BY DEF Reading, Has
<1>2. PICK g \in 1..N + 1, p \in {0, TokenLen + spos} :
        SenderAt(g, p) /\ Chain(s, rfield, ReceiverOffset, g, p)
  BY <1>1 DEF OnItsWay
<1>3. /\ rfield = N + 1 /\ ReceiverOffset = TokenLen + size
      /\ g = N + 1 /\ p = TokenLen + spos
  BY <1>1, <1>2 DEF HasFile, ReceiverOffset, SenderAt
<1>4. /\ size \in Nat /\ spos \in Nat /\ TokenLen \in Nat \ {0}
      /\ Len(file) \in Nat /\ wire \in Seq(Byte) /\ out \in Seq(Byte)
  BY Sizes DEF StreamTypeOK
<1>5. size = Len(file) /\ spos <= Len(file)
  <2>1. p # 0
    BY <1>3, <1>4
  <2> QED
    BY <1>2, <2>1 DEF SenderAt, Announced
<1>6. s \in Seq(Byte) /\ Len(s) = Len(wire) + Len(out)
      /\ Len(wire) \in Nat /\ Len(out) \in Nat /\ Len(s) \in Nat
  BY <1>4
<1> HIDE DEF s
<1>7. Leads(N + 1, TokenLen + size, N + 1, TokenLen + spos, Len(s))
  <2>1. Leads(rfield, ReceiverOffset, g, p, Len(s))
    BY <1>2, <1>6, ChainLeads
  <2> QED
    BY <1>3, <2>1
<1>8. TokenLen + spos = (TokenLen + size) + Len(s)
  BY <1>7 DEF Leads
<1>9. Len(wire) = 0
  BY <1>4, <1>5, <1>6, <1>8
<1> QED
  BY <1>4, <1>9

(* When both are done, the sender has sent exactly what the receiver was    *)
(* told to read, unless somebody has written the file meanwhile             *)
(* (chunked_send and chunked_read_write, net.py).                           *)
THEOREM NothingIsLeftUnread == Spec => []NothingUnread
<1> QED
  BY StreamInvariance, InvImpliesNothingUnread, PTL
===============================================================================
