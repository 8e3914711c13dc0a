----------------------- MODULE CompileSession_proofs -----------------------
(***************************************************************************)
(* What holds of CompileSession for any number of requests, any sizes and  *)
(* any buffers.  The invariant IInv is inductive: a step moves one request *)
(* (Move), the others keep all that is theirs (Same, SameKeeps, the frames *)
(* of the two file name spaces), and for the request that moves there is   *)
(* one lemma per conjunct of IInv, with one case per action.               *)
(***************************************************************************)
EXTENDS CompileSessionInv, SequenceTheorems, TLAPS

(* The messages of a request, in their order, and their types. *)
LEMMA RequestFields ==
  /\ RequestLen \in Nat
  /\ \A i \in 1..RequestLen : RequestAt(i) \in UpMsg
  /\ RequestAt(1) = Field("DIST", 1)
  /\ RequestAt(2) = Field("ARGC", NArgs)
  /\ \A i \in 3..2 + NArgs : RequestAt(i) = Field("ARGV", 0)
  /\ RequestAt(3 + NArgs) = Field("DOTI", SrcLen)
  /\ \A i \in 4 + NArgs..RequestLen : RequestAt(i) = Field("BLK", 0)
BY SizesAssumption DEF RequestLen, RequestAt, Field, UpMsg, ServerReads

(* The messages of a reply, in their order, and their types. *)
LEMMA ReplyFields ==
  ASSUME TypeOK, NEW r \in Request
  PROVE  /\ ReplyLen(r) \in Nat /\ ReplyLen(r) = 5 + Len(snap[r])
         /\ \A i \in 1..ReplyLen(r) : ReplyAt(r, i) \in DownMsg
         /\ ReplyAt(r, 1) = Field("DONE", 1)
         /\ ReplyAt(r, 2) = Field("STAT", ret[r])
         /\ ReplyAt(r, 3) = Field("SERR", 0)
         /\ ReplyAt(r, 4) = Field("SOUT", 0)
         /\ ReplyAt(r, 5) = Field("DOTO", Len(snap[r]))
         /\ \A i \in 6..ReplyLen(r) : ReplyAt(r, i) = Chunk(snap[r][i - 5])
<1>1. snap[r] \in Seq(SrcFile) /\ ret[r] \in {-1, 0, 1}
  BY DEF TypeOK, ObjFile
<1>2. Len(snap[r]) \in Nat /\ \A i \in 1..Len(snap[r]) : snap[r][i] \in SrcFile
  BY <1>1
<1> QED
  BY <1>1, <1>2 DEF ReplyLen, ReplyAt, Field, Chunk, DownMsg, ClientReads

(* A position in a stream is a number of messages. *)
LEMMA Positions ==
  ASSUME IInv, NEW r \in Request PROVE SRead(r) \in Nat /\ CRead(r) \in Nat
<1>1. TypeOK /\ HandlerAt(r) /\ ClientAt(r)
  BY DEF IInv
<1>2. sleft[r] \in Nat /\ cleft[r] \in Nat /\ Len(snap[r]) \in Nat
  BY <1>1 DEF TypeOK, ObjFile
<1>3. SRead(r) \in Nat
  <2>1. /\ spc[r] = "ARGV" => sleft[r] \in 1..NArgs
        /\ spc[r] = "BLK" => sleft[r] \in 1..SrcLen
    BY <1>1 DEF HandlerAt
  <2>2. CASE spc[r] = "ARGV"
    BY <1>2, <2>1, <2>2, SizesAssumption DEF SRead
  <2>3. CASE spc[r] = "BLK"
    BY <1>2, <2>1, <2>3, SizesAssumption DEF SRead, RequestLen
  <2>4. CASE spc[r] \notin {"ARGV", "BLK"}
    BY <2>4, SizesAssumption DEF SRead, RequestLen
  <2> QED
    BY <2>2, <2>3, <2>4
<1>4. CRead(r) \in Nat
  BY <1>1, <1>2 DEF CRead, ClientAt
<1> QED
  BY <1>3, <1>4

(* What a reader finds at the head of its stream. *)
LEMMA HeadUp ==
  ASSUME IInv, NEW r \in Request, spc[r] \notin Ending, up[r] # <<>>
  PROVE  /\ Head(up[r]) = RequestAt(SRead(r) + 1)
         /\ SRead(r) + 1 \in 1..RequestLen
<1>1. up[r] \in Seq(UpMsg) /\ csent[r] \in 0..RequestLen
  BY DEF IInv, TypeOK
<1>2. UpStream(r)
  BY DEF IInv
<1>3. SRead(r) \in Nat
  BY Positions
<1> QED
  BY <1>1, <1>2, <1>3, RequestFields DEF UpStream

(* And at the head of the reply. *)
LEMMA HeadDown ==
  ASSUME IInv, NEW r \in Request, ~ClientGone(r), down[r] # <<>>
  PROVE  /\ Head(down[r]) = ReplyAt(r, CRead(r) + 1)
         /\ ssent[r] >= CRead(r) + 1
<1>1. down[r] \in Seq(DownMsg) /\ ssent[r] \in Nat
  BY DEF IInv, TypeOK
<1>2. DownStream(r)
  BY DEF IInv
<1>3. CRead(r) \in Nat
  BY Positions
<1> QED
  BY <1>1, <1>2, <1>3 DEF DownStream

(* A source that grows by a chunk stays the source of its request. *)
LEMMA SrcGrow ==
  ASSUME NEW s \in SrcFile, NEW k \in Nat
  PROVE  /\ [s EXCEPT !.n = k] \in SrcFile
         /\ [s EXCEPT !.n = k].of = s.of /\ [s EXCEPT !.n = k].n = k
         /\ s.n \in Nat
BY DEF SrcFile

(* What a compiler makes is an object. *)
LEMMA ObjectType ==
  ASSUME NEW src \in SrcFile
  PROVE  Object(src) \in ObjFile /\ Len(Object(src)) = ObjLen
BY SizesAssumption, SeqDef DEF Object, ObjFile

(* What has arrived of a stream that was cut is a beginning of it. *)
LEMMA ArrivedIs ==
  ASSUME NEW S, NEW s \in Seq(S), NEW u \in Arrived(s)
  PROVE  /\ u \in Seq(S) /\ Len(u) \in Nat /\ Len(u) <= Len(s)
         /\ \A i \in 1..Len(u) : i \in 1..Len(s) /\ u[i] = s[i]
<1>1. PICK n \in 0..Len(s) : u = SubSeq(s, 1, n)
  BY DEF Arrived
<1>2. Len(s) \in Nat /\ n \in Nat /\ n <= Len(s)
  OBVIOUS
<1>3. /\ SubSeq(s, 1, n) \in Seq(S) /\ Len(SubSeq(s, 1, n)) = n
      /\ \A i \in 1..n : SubSeq(s, 1, n)[i] = s[i]
  BY <1>2, SubSeqProperties
<1> QED
  BY <1>1, <1>2, <1>3

(* One request moves at a time. *)
Move(r) ==
  ClientStep(r) \/ ClientFault(r) \/ HandlerStep(r) \/ HandlerFault(r) \/ Cut(r)

Same(q) ==
  /\ cpc'[q] = cpc[q] /\ csent'[q] = csent[q] /\ cleft'[q] = cleft[q]
  /\ cstat'[q] = cstat[q] /\ ofile'[q] = ofile[q]
  /\ up'[q] = up[q] /\ down'[q] = down[q] /\ cut'[q] = cut[q]
  /\ spc'[q] = spc[q] /\ sleft'[q] = sleft[q] /\ ssent'[q] = ssent[q]
  /\ ret'[q] = ret[q] /\ doti'[q] = doti[q] /\ obj'[q] = obj[q]
  /\ snap'[q] = snap[q] /\ cleanup'[q] = cleanup[q] /\ raised'[q] = raised[q]

(* A step of one request leaves the variables of every other alone. *)
LEMMA OthersSame ==
  ASSUME TypeOK, NEW r \in Request, Move(r), NEW q \in Request \ {r}
  PROVE  Same(q)
<1> USE DEF TypeOK, Same, clientVars, netVars, handlerVars, tmpVars
<1>1. CASE Connect(r) \/ SendRequest(r) \/ ClientError(r) \/ ClientFault(r)
  BY <1>1 DEF Connect, SendRequest, ClientError, ClientFault, ClientIOError,
     Starve, ClientTimesOut, ClientKill, ClientEnds
<1>2. CASE RecvDone(r) \/ RecvStat(r) \/ RecvSerr(r)
             \/ RecvSout(r) \/ RecvDoto(r) \/ RecvObjChunk(r)
  BY <1>2 DEF RecvDone, RecvStat, RecvSerr, RecvSout, RecvDoto, RecvObjChunk,
              ClientTakes
<1>3. CASE ReadHello(r) \/ ReadArgc(r) \/ ReadArgv(r)
             \/ ReadDoti(r) \/ ReadDotiChunk(r)
  BY <1>3 DEF ReadHello, ReadArgc, ReadArgv, ReadDoti, ReadDotiChunk,
              ServerTakes
<1>4. CASE Accept(r) \/ CheckCommand(r) \/ ReserveObject(r)
             \/ ReleaseObject(r) \/ RunCompiler(r)
  BY <1>4 DEF Accept, CheckCommand, ReserveObject, ReleaseObject, RunCompiler
<1>5. CASE SendReply(r) \/ OpenObject(r) \/ HandlerError(r) \/ Cleanup(r)
             \/ HandlerFault(r) \/ Cut(r)
  BY <1>5 DEF SendReply, OpenObject, HandlerError, HandlerRaises, Cleanup,
     HandlerFault, HandlerIOError, Hang, HandlerKill, Cut
<1> QED
  BY <1>1, <1>2, <1>3, <1>4, <1>5 DEF Move, ClientStep, HandlerStep

(* What the invariant says of a request depends on its variables only. *)
LEMMA SameKeeps ==
  ASSUME NEW q \in Request, Same(q)
  PROVE  /\ ClientAt(q) => ClientAt(q)'
         /\ HandlerAt(q) => HandlerAt(q)'
         /\ UpStream(q) => UpStream(q)'
         /\ DownStream(q) => DownStream(q)'
         /\ CompletedUnlessRaised(q) => CompletedUnlessRaised(q)'
         /\ Told(q) => Told(q)'
         /\ FailedForCause(q) => FailedForCause(q)'
<1> USE DEF Same
<1>1. ReplyLen(q)' = ReplyLen(q)
  BY DEF ReplyLen
<1>2. \A i : ReplyAt(q, i)' = ReplyAt(q, i)
  BY DEF ReplyAt, Field, Chunk
<1>3. SRead(q)' = SRead(q) /\ CRead(q)' = CRead(q)
  BY DEF SRead, CRead
<1>4. ClientAt(q) => ClientAt(q)'
  BY DEF ClientAt
<1>5. HandlerAt(q) => HandlerAt(q)'
  BY <1>1 DEF HandlerAt
<1>6. UpStream(q) => UpStream(q)'
  BY <1>3 DEF UpStream
<1>7. DownStream(q) => DownStream(q)'
  BY <1>2, <1>3 DEF DownStream, ClientGone
<1>8. CompletedUnlessRaised(q) => CompletedUnlessRaised(q)'
  BY <1>1 DEF CompletedUnlessRaised
<1>9. Told(q) => Told(q)'
  BY DEF Told
<1>10. FailedForCause(q) => FailedForCause(q)'
  BY DEF FailedForCause
<1> QED
  BY <1>4, <1>5, <1>6, <1>7, <1>8, <1>9, <1>10

(* What the heads of the streams carry. *)
LEMMA UpNumbers ==
  ASSUME IInv, NEW r \in Request, up[r] # <<>>
  PROVE  /\ spc[r] = "ARGC" => Head(up[r]).num = NArgs
         /\ spc[r] = "DOTI" => Head(up[r]).num = SrcLen
<1>1. CASE spc[r] = "ARGC"
  <2>1. SRead(r) + 1 = 2 /\ spc[r] \notin Ending
    BY <1>1 DEF SRead, Ending
  <2> QED
    BY <1>1, <2>1, HeadUp, RequestFields DEF Field
<1>2. CASE spc[r] = "DOTI"
  <2>1. SRead(r) + 1 = 3 + NArgs /\ spc[r] \notin Ending
    BY <1>2, SizesAssumption DEF SRead, Ending
  <2> QED
    BY <1>2, <2>1, HeadUp, RequestFields DEF Field
<1> QED
  BY <1>1, <1>2

(* What the heads of the reply carry: a status, a size, a chunk. *)
LEMMA DownNumbers ==
  ASSUME IInv, NEW r \in Request, down[r] # <<>>
  PROVE  /\ cpc[r] = "STAT" => Head(down[r]).num = ret[r] /\ ssent[r] >= 2
         /\ cpc[r] = "DOTO" => Head(down[r]).num = Len(snap[r]) /\ ssent[r] >= 5
         /\ cpc[r] = "OBJ" =>
              /\ Head(down[r]).src = snap[r][Len(snap[r]) - cleft[r] + 1]
              /\ ssent[r] >= 6
<1>1. TypeOK /\ ClientAt(r)
  BY DEF IInv
<1>2. CASE cpc[r] = "STAT"
  <2>1. CRead(r) + 1 = 2 /\ ~ClientGone(r)
    BY <1>2 DEF CRead, ClientGone
  <2> QED
    BY <1>1, <1>2, <2>1, HeadDown, ReplyFields DEF Field
<1>3. CASE cpc[r] = "DOTO"
  <2>1. CRead(r) + 1 = 5 /\ ~ClientGone(r)
    BY <1>3 DEF CRead, ClientGone
  <2> QED
    BY <1>1, <1>3, <2>1, HeadDown, ReplyFields DEF Field
<1>4. CASE cpc[r] = "OBJ"
  <2>a. Len(snap[r]) \in Nat /\ cleft[r] \in 1..Len(snap[r])
    BY <1>1, <1>4 DEF ClientAt, TypeOK, ObjFile
  <2>1. CRead(r) + 1 = 6 + Len(snap[r]) - cleft[r] /\ ~ClientGone(r)
    BY <1>4, <2>a DEF CRead, ClientGone
  <2>b. ReplyLen(r) = 5 + Len(snap[r]) /\ ssent[r] \in Nat
    BY <1>1 DEF ReplyLen, TypeOK
  <2>c. CRead(r) + 1 <= ssent[r]
    BY <1>1, <1>4, <2>1, HeadDown
  <2>2. CRead(r) + 1 \in 6..ReplyLen(r) /\ ssent[r] >= 6
    BY <2>1, <2>a, <2>b, <2>c
  <2>3. Head(down[r]) = ReplyAt(r, CRead(r) + 1)
    BY <2>1, HeadDown
  <2>4. ReplyAt(r, CRead(r) + 1) = Chunk(snap[r][CRead(r) + 1 - 5])
    BY <2>2, Positions DEF ReplyAt
  <2>5. Len(snap[r]) \in Nat /\ cleft[r] \in Nat
    BY <1>1 DEF TypeOK, ObjFile
  <2>6. CRead(r) + 1 - 5 = Len(snap[r]) - cleft[r] + 1
    BY <2>1, <2>5, Positions
  <2> QED
    BY <1>4, <2>2, <2>3, <2>4, <2>6 DEF Chunk
<1> QED
  BY <1>2, <1>3, <1>4

(* What is in flight stays a stretch of the reply while the status and the  *)
(* object stay; its first four fields do not depend on the object.          *)
LEMMA ReplyFrame ==
  ASSUME NEW q \in Request, ret'[q] = ret[q]
  PROVE  /\ \A i \in 1..4 : ReplyAt(q, i)' = ReplyAt(q, i)
         /\ snap'[q] = snap[q] =>
              /\ ReplyLen(q)' = ReplyLen(q)
              /\ \A i \in Nat : ReplyAt(q, i)' = ReplyAt(q, i)
BY DEF ReplyAt, ReplyLen, Field, Chunk

(* Each reader is sent the field it waits for. *)
LEMMA HeadTags ==
  ASSUME IInv, NEW r \in Request
  PROVE  /\ cpc[r] \in ClientReads /\ down[r] # <<>> =>
              Head(down[r]).tag = cpc[r]
         /\ spc[r] \in ServerReads /\ up[r] # <<>> => Head(up[r]).tag = spc[r]
<1>1. TypeOK /\ ClientAt(r) /\ HandlerAt(r)
  BY DEF IInv
<1>2. ASSUME cpc[r] \in ClientReads, down[r] # <<>>
      PROVE  Head(down[r]).tag = cpc[r]
  <2>1. Head(down[r]) = ReplyAt(r, CRead(r) + 1)
    BY <1>2, HeadDown DEF ClientGone, ClientReads
  <2>2. CASE cpc[r] = "OBJ"
    <3>1. CRead(r) >= 5
      BY <1>1, <2>2 DEF CRead, ClientAt, TypeOK, ObjFile
    <3>2. Head(down[r]) = Chunk(snap[r][CRead(r) + 1 - 5])
      BY <2>1, <3>1, Positions DEF ReplyAt
    <3> QED
      BY <2>2, <3>2 DEF Chunk
  <2>3. CASE cpc[r] # "OBJ"
    BY <1>1, <1>2, <2>1, <2>3, ReplyFields DEF CRead, ClientReads, Field
  <2> QED
    BY <2>2, <2>3
<1>3. ASSUME spc[r] \in ServerReads, up[r] # <<>>
      PROVE  Head(up[r]).tag = spc[r]
  <2>1. Head(up[r]) = RequestAt(SRead(r) + 1)
    BY <1>3, HeadUp DEF ServerReads, Ending
  <2>2. CASE spc[r] = "ARGV"
    <3>1. SRead(r) + 1 \in 3..2 + NArgs
      BY <1>1, <2>2, SizesAssumption DEF SRead, HandlerAt
    <3> QED
      BY <2>1, <2>2, <3>1, RequestFields DEF Field
  <2>3. CASE spc[r] = "BLK"
    <3>1. SRead(r) + 1 \in 4 + NArgs..RequestLen
      BY <1>1, <2>3, SizesAssumption DEF SRead, HandlerAt, RequestLen
    <3> QED
      BY <2>1, <2>3, <3>1, RequestFields DEF Field
  <2>4. CASE spc[r] = "DOTI"
    BY <2>1, <2>4, RequestFields, SizesAssumption DEF SRead, Field
  <2>5. CASE spc[r] \in {"DIST", "ARGC"}
    BY <2>1, <2>5, RequestFields DEF SRead, Field
  <2> QED
    BY <1>3, <2>2, <2>3, <2>4, <2>5 DEF ServerReads
<1> QED
  BY <1>2, <1>3

(* Taking the head of a stream, and sending at its tail. *)
LEMMA TakeUp ==
  ASSUME IInv, NEW r \in Request, spc[r] \notin Ending, up[r] # <<>>,
         up'[r] = Tail(up[r]), csent'[r] = csent[r], cut'[r] = cut[r],
         spc'[r] \notin Ending => SRead(r)' = SRead(r) + 1
  PROVE  UpStream(r)'
<1>1. up[r] \in Seq(UpMsg) /\ csent[r] \in 0..RequestLen /\ UpStream(r)
  BY DEF IInv, TypeOK
<1>2. SRead(r) \in Nat
  BY Positions
<1>3. Len(Tail(up[r])) = Len(up[r]) - 1
      /\ \A i \in 1..Len(Tail(up[r])) : Tail(up[r])[i] = up[r][i + 1]
  BY <1>1
<1>4. CASE spc'[r] \notin Ending
  <2>1. \A i \in 1..Len(up'[r]) : up'[r][i] = RequestAt(SRead(r) + 1 + i)
    <3> TAKE i \in 1..Len(up'[r])
    <3>1. i + 1 \in 1..Len(up[r]) /\ SRead(r) + (i + 1) = SRead(r) + 1 + i
      BY <1>1, <1>2, <1>3
    <3>2. up[r][i + 1] = RequestAt(SRead(r) + (i + 1))
      BY <1>1, <3>1 DEF UpStream
    <3> QED
      BY <1>3, <3>1, <3>2
  <2> QED
    BY <1>1, <1>2, <1>3, <1>4, <2>1 DEF UpStream
<1> QED
  BY <1>4 DEF UpStream, Ending

(* Taking the head of the reply. *)
LEMMA TakeDown ==
  ASSUME IInv, NEW r \in Request, ~ClientGone(r), down[r] # <<>>,
         down'[r] = Tail(down[r]), ssent'[r] = ssent[r], cut'[r] = cut[r],
         ret'[r] = ret[r], snap'[r] = snap[r],
         ~ClientGone(r)' => CRead(r)' = CRead(r) + 1
  PROVE  DownStream(r)'
<1>1. down[r] \in Seq(DownMsg) /\ ssent[r] \in Nat /\ DownStream(r)
  BY DEF IInv, TypeOK
<1>2. CRead(r) \in Nat
  BY Positions
<1>3. Len(Tail(down[r])) = Len(down[r]) - 1
      /\ \A i \in 1..Len(Tail(down[r])) : Tail(down[r])[i] = down[r][i + 1]
  BY <1>1
<1>4. \A i \in Nat : ReplyAt(r, i)' = ReplyAt(r, i)
  BY ReplyFrame
<1>5. CASE ~ClientGone(r)'
  <2>1. ASSUME NEW i \in 1..Len(down'[r])
        PROVE  down'[r][i] = ReplyAt(r, CRead(r) + i)'
    <3>1. i + 1 \in 1..Len(down[r]) /\ CRead(r) + (i + 1) \in Nat
      BY <1>1, <1>2, <1>3
    <3>2. (CRead(r) + i)' = CRead(r) + (i + 1)
      BY <1>1, <1>2, <1>3, <1>5
    <3>3. down[r][i + 1] = ReplyAt(r, CRead(r) + (i + 1))
      BY <1>1, <3>1 DEF DownStream
    <3>4. ReplyAt(r, CRead(r) + (i + 1)) = ReplyAt(r, CRead(r) + i)'
      BY <1>4, <3>1, <3>2
    <3> QED
      BY <1>3, <3>1, <3>3, <3>4
  <2>2. /\ Len(down'[r]) <= ssent'[r] - CRead(r)'
        /\ ~cut'[r] => Len(down'[r]) = ssent'[r] - CRead(r)'
    BY <1>1, <1>2, <1>3, <1>5 DEF DownStream
  <2> QED
    BY <2>1, <2>2 DEF DownStream
<1> QED
  BY <1>5 DEF DownStream

(* A stream nobody reads or writes stays what it is. *)
LEMMA KeepUp ==
  ASSUME IInv, NEW r \in Request,
         up'[r] = up[r], csent'[r] = csent[r], cut'[r] = cut[r],
         spc'[r] \notin Ending => spc[r] \notin Ending /\ SRead(r)' = SRead(r)
  PROVE  UpStream(r)'
BY DEF IInv, UpStream

(* Nor does a reply nobody reads or writes change. *)
LEMMA KeepDown ==
  ASSUME IInv, NEW r \in Request,
         cpc'[r] = cpc[r], cleft'[r] = cleft[r], down'[r] = down[r],
         cut'[r] = cut[r],
         ssent'[r] = ssent[r], ret'[r] = ret[r], snap'[r] = snap[r]
  PROVE  DownStream(r)'
<1>1. DownStream(r)
  BY DEF IInv
<1>2. \A i : ReplyAt(r, i)' = ReplyAt(r, i)
  BY DEF ReplyAt, Field, Chunk
<1>3. CRead(r)' = CRead(r)
  BY DEF CRead
<1> QED
  BY <1>1, <1>2, <1>3 DEF DownStream, ClientGone

(* A reply has a status. *)
LEMMA SentRet ==
  ASSUME IInv, NEW r \in Request, ssent[r] >= 1 PROVE ret[r] # -1
BY DEF IInv, HandlerAt

(* How far the reply can be. *)
LEMMA ReplyBounds ==
  ASSUME IInv, NEW r \in Request, ~ClientGone(r)
  PROVE  /\ Len(down[r]) \in Nat /\ CRead(r) + Len(down[r]) <= ssent[r]
         /\ ~cut[r] => ssent[r] = CRead(r) + Len(down[r])
         /\ CRead(r) <= ssent[r]
         /\ cpc[r] = "OBJ" => CRead(r) >= 5
<1>1. TypeOK /\ ClientAt(r) /\ DownStream(r) /\ CRead(r) \in Nat
  BY Positions DEF IInv
<1>2. Len(down[r]) \in Nat /\ ssent[r] \in Nat /\ cleft[r] \in Nat
      /\ Len(snap[r]) \in Nat
  BY <1>1 DEF TypeOK, ObjFile
<1>3. /\ CRead(r) + Len(down[r]) <= ssent[r]
      /\ ~cut[r] => ssent[r] = CRead(r) + Len(down[r])
  BY <1>1, <1>2 DEF DownStream
<1>4. cpc[r] = "OBJ" => CRead(r) >= 5
  BY <1>1, <1>2 DEF CRead, ClientAt
<1> QED
  BY <1>1, <1>2, <1>3, <1>4

(* Types. *)
LEMMA TypeOKStep ==
  ASSUME IInv, NEW r \in Request, Move(r)
  PROVE  TypeOK'
<1>a. TypeOK /\ ClientAt(r) /\ HandlerAt(r)
  BY DEF IInv
<1> USE <1>a DEF TypeOK, clientVars, netVars, handlerVars, tmpVars, ClientReads,
   ServerReads, LoopPc
<1>1. CASE Connect(r)
  BY <1>1 DEF Connect
<1>2. CASE SendRequest(r)
  <2>1. csent[r] + 1 \in 0..RequestLen /\ csent[r] + 1 \in 1..RequestLen
    BY <1>2, RequestFields DEF SendRequest, ClientAt
  <2>2. RequestAt(csent[r] + 1) \in UpMsg
    BY <2>1, RequestFields
  <2>3. csent' \in [Request -> 0..RequestLen] /\ up' \in [Request -> Seq(UpMsg)]
    BY <1>2, <2>1, <2>2 DEF SendRequest
  <2> QED
    BY <1>2, <2>3 DEF SendRequest
<1>3. CASE RecvDone(r)
  BY <1>3 DEF RecvDone, ClientTakes
<1>4. CASE RecvStat(r)
  <2>1. Head(down[r]).num \in {-1, 0, 1}
    BY <1>4, DownNumbers DEF RecvStat, ClientTakes
  <2> QED
    BY <1>4, <2>1, SMTT(30) DEF RecvStat, ClientTakes
<1>5. CASE RecvSerr(r)
  BY <1>5 DEF RecvSerr, ClientTakes
<1>6. CASE RecvSout(r)
  BY <1>6 DEF RecvSout, ClientTakes
<1>7. CASE RecvDoto(r)
  <2>1. Head(down[r]).num \in Nat /\ <<>> \in ObjFile
    BY <1>7, DownNumbers DEF RecvDoto, ClientTakes, ObjFile
  <2>2. /\ cleft' \in [Request -> Nat]
        /\ ofile' \in [Request -> ObjFile \cup {Old}]
    BY <1>7, <2>1 DEF RecvDoto
  <2>3. down' \in [Request -> Seq(DownMsg)]
    BY <1>7 DEF RecvDoto, ClientTakes
  <2>4. cpc' \in [Request -> {"connect", "send", "starved", "done",
                               "failed", "ioerror", "killed"} \cup ClientReads]
    BY <1>7 DEF RecvDoto, ClientTakes
  <2> QED
    BY <1>7, <2>2, <2>3, <2>4 DEF RecvDoto, ClientTakes
<1>8. CASE RecvObjChunk(r)
  <2>1. ofile[r] \in ObjFile /\ cleft[r] \in 1..Len(snap[r])
    BY <1>8 DEF RecvObjChunk, ClientTakes, IInv, Told, ClientAt
  <2>2. Head(down[r]).src \in SrcFile
    <3>1. Len(snap[r]) - cleft[r] + 1 \in 1..Len(snap[r])
      BY <2>1 DEF ObjFile
    <3>2. snap[r] \in Seq(SrcFile)
      BY DEF ObjFile
    <3>3. snap[r][Len(snap[r]) - cleft[r] + 1] \in SrcFile
      BY <3>1, <3>2, ElementOfSeq
    <3> QED
      BY <1>8, <3>3, DownNumbers DEF RecvObjChunk, ClientTakes
  <2>3. Append(ofile[r], Head(down[r]).src) \in ObjFile
    BY <2>1, <2>2 DEF ObjFile
  <2>4. /\ cleft' \in [Request -> Nat]
        /\ ofile' \in [Request -> ObjFile \cup {Old}]
    BY <1>8, <2>1, <2>3 DEF RecvObjChunk, ObjFile
  <2>5. down' \in [Request -> Seq(DownMsg)]
    BY <1>8 DEF RecvObjChunk, ClientTakes
  <2>6. cpc' \in [Request -> {"connect", "send", "starved", "done",
                               "failed", "ioerror", "killed"} \cup ClientReads]
    BY <1>8 DEF RecvObjChunk, ClientTakes
  <2> QED
    BY <1>8, <2>4, <2>5, <2>6 DEF RecvObjChunk, ClientTakes
<1>9. CASE ClientError(r)
  <2>1. cpc' \in [Request -> {"connect", "send", "starved", "done",
                               "failed", "ioerror", "killed"} \cup ClientReads]
    BY <1>9 DEF ClientError, ClientEnds
  <2> QED
    BY <1>9, <2>1 DEF ClientError, ClientEnds
<1>10. CASE ClientFault(r)
  BY <1>10 DEF ClientFault, ClientIOError, Starve, ClientTimesOut, ClientKill,
               ClientEnds
<1>11. CASE Accept(r)
  BY <1>11 DEF Accept
<1>12. CASE ReadHello(r)
  BY <1>12 DEF ReadHello, ServerTakes
<1>13. CASE ReadArgc(r)
  <2>1. Head(up[r]).num = NArgs
    BY <1>13, UpNumbers DEF ReadArgc, ServerTakes
  <2>2. sleft' \in [Request -> Nat]
    BY <1>13, <2>1, SizesAssumption DEF ReadArgc
  <2>3. up' \in [Request -> Seq(UpMsg)]
    BY <1>13 DEF ReadArgc, ServerTakes
  <2>4. spc'[r] \in {"ARGV", "check"}
    BY <1>13 DEF ReadArgc, ServerTakes
  <2> QED
    BY <1>13, <2>2, <2>3, <2>4 DEF ReadArgc, ServerTakes
<1>14. CASE ReadArgv(r)
  <2>1. sleft[r] \in 1..NArgs
    BY <1>14 DEF ReadArgv, ServerTakes, HandlerAt
  <2>2. sleft' \in [Request -> Nat]
    BY <1>14, <2>1, SizesAssumption DEF ReadArgv
  <2> QED
    BY <1>14, <2>2 DEF ReadArgv, ServerTakes
<1>15. CASE CheckCommand(r)
  BY <1>15 DEF CheckCommand
<1>16. CASE ReadDoti(r)
  <2>1. /\ Head(up[r]).num = SrcLen
        /\ \A n \in Nat : Registered(r, n) \in SUBSET {"doti", "obj"}
    BY <1>16, UpNumbers DEF ReadDoti, ServerTakes, Registered
  <2>2. [of |-> r, n |-> 0] \in SrcFile
    BY DEF SrcFile
  <2> QED
    BY <1>16, <2>1, <2>2, SizesAssumption, SMTT(30) DEF ReadDoti, ServerTakes
<1>17. CASE ReadDotiChunk(r)
  <2>1. /\ doti[r] \in DotiName /\ dotis[doti[r]] \in SrcFile
        /\ sleft[r] \in 1..SrcLen
    BY <1>17 DEF ReadDotiChunk, ServerTakes, IInv, FileOf, HandlerAt
  <2>2. [dotis[doti[r]] EXCEPT !.n = @ + 1] \in SrcFile
    <3>1. dotis[doti[r]].n + 1 \in Nat
      BY <2>1 DEF SrcFile
    <3> QED
      BY <2>1, <3>1, SrcGrow
  <2>3. dotis' \in [DotiName -> SrcFile \cup {Absent}]
    BY <1>17, <2>1, <2>2 DEF ReadDotiChunk, Written
  <2>4. /\ sleft' \in [Request -> Nat]
        /\ cleanup' \in [Request -> SUBSET {"doti", "obj"}]
    BY <1>17, <2>1, SizesAssumption DEF ReadDotiChunk, Registered
  <2> QED
    BY <1>17, <2>3, <2>4, SMTT(30) DEF ReadDotiChunk, ServerTakes
<1>18. CASE ReserveObject(r)
  <2>1. <<>> \in ObjFile
    BY DEF ObjFile
  <2> QED
    BY <1>18, <2>1 DEF ReserveObject
<1>19. CASE ReleaseObject(r)
  BY <1>19 DEF ReleaseObject
<1>20. CASE RunCompiler(r)
  <2>1. doti[r] \in DotiName /\ obj[r] \in ObjName /\ dotis[doti[r]] \in SrcFile
    BY <1>20 DEF IInv, HandlerAt, FileOf, RunCompiler, Before, Uploaded
  <2>2. objs' \in [ObjName -> ObjFile \cup {Absent}]
    <3>1. Object(dotis[doti[r]]) \in ObjFile
      BY <2>1, ObjectType
    <3> QED
      BY <1>20, <2>1, <3>1 DEF RunCompiler
  <2> QED
    BY <1>20, <2>2 DEF RunCompiler
<1>21. CASE SendReply(r)
  <2>1. ssent[r] + 1 \in 1..ReplyLen(r)
    <3>1. ssent[r] \in Nat /\ ReplyLen(r) \in Nat /\ ReplyLen(r) >= 5
      BY ReplyFields DEF ObjFile
    <3> QED
      BY <1>21, <3>1 DEF SendReply, HandlerAt
  <2>2. ReplyAt(r, ssent[r] + 1) \in DownMsg
    BY <2>1, ReplyFields
  <2>3. down' \in [Request -> Seq(DownMsg)]
    BY <1>21, <2>2 DEF SendReply
  <2> QED
    BY <1>21, <2>1, <2>3 DEF SendReply
<1>22. CASE OpenObject(r)
  <2>1. obj[r] \in ObjName
    BY <1>22 DEF OpenObject, HandlerAt, Uploaded
  <2>2. snap' \in [Request -> ObjFile]
    BY <1>22, <2>1, SentinelAssumption DEF OpenObject
  <2> QED
    BY <1>22, <2>2 DEF OpenObject
<1>23. CASE HandlerError(r)
  BY <1>23 DEF HandlerError, HandlerRaises
<1>24. CASE Cleanup(r)
  BY <1>24 DEF Cleanup
<1>25. CASE HandlerFault(r)
  <2>1. CASE HandlerIOError(r)
    BY <2>1 DEF HandlerIOError, HandlerRaises
  <2>2. CASE Hang(r)
    BY <2>2 DEF Hang
  <2>3. CASE HandlerKill(r)
    BY <2>3 DEF HandlerKill
  <2> QED
    BY <1>25, <2>1, <2>2, <2>3 DEF HandlerFault
<1>26. CASE Cut(r)
  <2>1. PICK u \in Arrived(up[r]) : up' = [up EXCEPT ![r] = u]
    BY <1>26 DEF Cut
  <2>2. PICK d \in Arrived(down[r]) : down' = [down EXCEPT ![r] = d]
    BY <1>26 DEF Cut
  <2>3. u \in Seq(UpMsg) /\ d \in Seq(DownMsg)
    BY ArrivedIs
  <2>4. /\ up' \in [Request -> Seq(UpMsg)]
        /\ down' \in [Request -> Seq(DownMsg)]
    BY <2>1, <2>2, <2>3
  <2> QED
    BY <1>26, <2>4 DEF Cut
<1> QED
  BY <1>1, <1>2, <1>3, <1>4, <1>5, <1>6, <1>7, <1>8, <1>9, <1>10, <1>11, <1>12,
     <1>13, <1>14, <1>15, <1>16, <1>17, <1>18, <1>19, <1>20, <1>21, <1>22,
     <1>23, <1>24, <1>25, <1>26 DEF Move, ClientStep, HandlerStep

(* The client: its counters agree with where it is. *)
LEMMA ClientAtStep ==
  ASSUME IInv, NEW r \in Request, Move(r)
  PROVE  ClientAt(r)'
<1>a. TypeOK /\ ClientAt(r) /\ HandlerAt(r) /\ ClientAt(r)
  BY DEF IInv
<1> USE <1>a, RequestFields DEF ClientAt, TypeOK, clientVars, netVars,
   handlerVars, tmpVars, ClientReads, Before, Uploaded, LoopPc, ServerGone
<1>1. CASE Connect(r)
  BY <1>1, SizesAssumption DEF Connect, RequestLen
<1>2. CASE SendRequest(r)
  BY <1>2 DEF SendRequest
<1>3. CASE RecvDone(r)
  BY <1>3 DEF RecvDone, ClientTakes
<1>4. CASE RecvStat(r)
  BY <1>4 DEF RecvStat, ClientTakes
<1>5. CASE RecvSerr(r)
  BY <1>5 DEF RecvSerr, ClientTakes
<1>6. CASE RecvSout(r)
  BY <1>6 DEF RecvSout, ClientTakes
<1>7. CASE RecvDoto(r)
  BY <1>7, DownNumbers DEF RecvDoto, ClientTakes, ObjFile
<1>8. CASE RecvObjChunk(r)
  BY <1>8 DEF RecvObjChunk, ClientTakes
<1>9. CASE ClientError(r)
  BY <1>9 DEF ClientError, ClientEnds
<1>10. CASE ClientFault(r)
  BY <1>10 DEF ClientFault, ClientIOError, Starve, ClientTimesOut, ClientKill,
               ClientEnds
<1>11. CASE Accept(r)
  BY <1>11 DEF Accept
<1>12. CASE ReadHello(r)
  BY <1>12 DEF ReadHello, ServerTakes
<1>13. CASE ReadArgc(r)
  BY <1>13 DEF ReadArgc, ServerTakes
<1>14. CASE ReadArgv(r)
  BY <1>14 DEF ReadArgv, ServerTakes
<1>15. CASE CheckCommand(r)
  BY <1>15 DEF CheckCommand
<1>16. CASE ReadDoti(r)
  BY <1>16 DEF ReadDoti, ServerTakes
<1>17. CASE ReadDotiChunk(r)
  BY <1>17 DEF ReadDotiChunk, ServerTakes
<1>18. CASE ReserveObject(r)
  BY <1>18 DEF ReserveObject
<1>19. CASE ReleaseObject(r)
  BY <1>19 DEF ReleaseObject
<1>20. CASE RunCompiler(r)
  BY <1>20 DEF RunCompiler
<1>21. CASE SendReply(r)
  BY <1>21 DEF SendReply
<1>22. CASE OpenObject(r)
  <2>1. /\ ssent[r] = 4 /\ cpc'[r] = cpc[r] /\ csent'[r] = csent[r]
        /\ spc[r] = "open" /\ spc'[r] = "object"
    BY <1>22 DEF OpenObject, HandlerAt
  <2>2. cpc[r] # "OBJ"
    <3> SUFFICES ASSUME cpc[r] = "OBJ" PROVE FALSE
      OBVIOUS
    <3>1. ~ClientGone(r)
      BY DEF ClientGone
    <3>2. /\ CRead(r) + Len(down[r]) <= 4 /\ CRead(r) >= 5
          /\ CRead(r) \in Nat /\ Len(down[r]) \in Nat
      BY <2>1, <3>1, ReplyBounds, Positions
    <3> QED
      BY <3>2
  <2> QED
    BY <2>1, <2>2
<1>23. CASE HandlerError(r)
  BY <1>23 DEF HandlerError, HandlerRaises, HandlerBroken, ServerReads
<1>24. CASE Cleanup(r)
  BY <1>24 DEF Cleanup
<1>25. CASE HandlerFault(r)
  BY <1>25 DEF HandlerFault, HandlerIOError, HandlerRaises, UsesTmp,
     Hang, HandlerKill
<1>26. CASE Cut(r)
  BY <1>26 DEF Cut
<1> QED
  BY <1>1, <1>2, <1>3, <1>4, <1>5, <1>6, <1>7, <1>8, <1>9, <1>10, <1>11, <1>12,
     <1>13, <1>14, <1>15, <1>16, <1>17, <1>18, <1>19, <1>20, <1>21, <1>22,
     <1>23, <1>24, <1>25, <1>26 DEF Move, ClientStep, HandlerStep

(* The handler: its counters and names agree with where it is. *)
LEMMA HandlerAtStep ==
  ASSUME IInv, NEW r \in Request, Move(r)
  PROVE  HandlerAt(r)'
<1>a. TypeOK /\ ClientAt(r) /\ HandlerAt(r) /\ HandlerAt(r)
  BY DEF IInv
<1> USE <1>a, RequestFields, SentinelAssumption DEF HandlerAt, TypeOK,
   clientVars, netVars, handlerVars, tmpVars, ServerReads, Before, Uploaded,
   LoopPc, ReplyLen, Registered
<1>1. CASE Connect(r)
  BY <1>1 DEF Connect
<1>2. CASE SendRequest(r)
  BY <1>2 DEF SendRequest
<1>3. CASE RecvDone(r)
  BY <1>3 DEF RecvDone, ClientTakes
<1>4. CASE RecvStat(r)
  BY <1>4 DEF RecvStat, ClientTakes
<1>5. CASE RecvSerr(r)
  BY <1>5 DEF RecvSerr, ClientTakes
<1>6. CASE RecvSout(r)
  BY <1>6 DEF RecvSout, ClientTakes
<1>7. CASE RecvDoto(r)
  BY <1>7 DEF RecvDoto, ClientTakes
<1>8. CASE RecvObjChunk(r)
  BY <1>8 DEF RecvObjChunk, ClientTakes
<1>9. CASE ClientError(r)
  BY <1>9 DEF ClientError, ClientEnds
<1>10. CASE ClientFault(r)
  BY <1>10 DEF ClientFault, ClientIOError, Starve, ClientTimesOut, ClientKill,
               ClientEnds
<1>11. CASE Accept(r)
  BY <1>11 DEF Accept
<1>12. CASE ReadHello(r)
  BY <1>12 DEF ReadHello, ServerTakes
<1>13. CASE ReadArgc(r)
  BY <1>13, UpNumbers, SizesAssumption DEF ReadArgc, ServerTakes
<1>14. CASE ReadArgv(r)
  <2>1. spc[r] = "ARGV" /\ sleft[r] \in 1..NArgs
        /\ sleft'[r] = sleft[r] - 1
    BY <1>14 DEF ReadArgv, ServerTakes
  <2>2. spc'[r] = IF sleft[r] - 1 > 0 THEN "ARGV" ELSE "check"
    BY <1>14 DEF ReadArgv, ServerTakes
  <2>3. spc'[r] = "ARGV" => sleft'[r] \in 1..NArgs
    BY <2>1, <2>2, SizesAssumption
  <2>4. /\ ssent'[r] = ssent[r] /\ ret'[r] = ret[r] /\ doti'[r] = doti[r]
        /\ obj'[r] = obj[r] /\ cleanup'[r] = cleanup[r]
    BY <1>14 DEF ReadArgv, ServerTakes
  <2> QED
    BY <2>1, <2>2, <2>3, <2>4
<1>15. CASE CheckCommand(r)
  BY <1>15 DEF CheckCommand
<1>16. CASE ReadDoti(r)
  BY <1>16, UpNumbers, SizesAssumption DEF ReadDoti, ServerTakes
<1>17. CASE ReadDotiChunk(r)
  BY <1>17, SizesAssumption DEF ReadDotiChunk, ServerTakes
<1>18. CASE ReserveObject(r)
  BY <1>18 DEF ReserveObject
<1>19. CASE ReleaseObject(r)
  BY <1>19 DEF ReleaseObject
<1>20. CASE RunCompiler(r)
  BY <1>20 DEF RunCompiler
<1>21. CASE SendReply(r)
  <2>1. /\ ssent[r] \in Nat /\ Len(snap[r]) \in Nat
        /\ spc[r] \in {"reply", "object"}
    BY <1>21 DEF SendReply, ObjFile
  <2>2. /\ spc'[r] = CASE ssent[r] + 1 = 4 -> "open"
                      [] ssent[r] + 1 = ReplyLen(r) -> "cleanup"
                      [] OTHER -> spc[r]
        /\ ssent'[r] = ssent[r] + 1
    BY <1>21 DEF SendReply
  <2>3. /\ ret'[r] = ret[r] /\ doti'[r] = doti[r] /\ obj'[r] = obj[r]
        /\ cleanup'[r] = cleanup[r] /\ snap'[r] = snap[r]
        /\ sleft'[r] = sleft[r]
    BY <1>21 DEF SendReply
  <2>4. CASE ssent[r] + 1 = 4
    BY <2>1, <2>2, <2>3, <2>4
  <2>5. CASE ssent[r] + 1 # 4
    <3>1. CASE spc[r] = "reply"
      <4>1. ssent[r] \in 0..2 /\ spc'[r] = "reply"
        BY <2>1, <2>2, <2>5, <3>1
      <4> QED
        BY <2>2, <2>3, <3>1, <4>1
    <3>2. CASE spc[r] = "object"
      <4>1. ssent[r] \in 4..Len(snap[r]) + 4
        BY <2>1, <3>2
      <4>2. spc'[r] = "object" => ssent[r] + 1 \in 4..Len(snap[r]) + 4
        <5>1. ReplyLen(r) = 5 + Len(snap[r])
          BY DEF ReplyLen
        <5>2. spc'[r] = "object" => ssent[r] + 1 # ReplyLen(r)
          BY <2>2, <2>5
        <5> QED
          BY <2>1, <4>1, <5>1, <5>2
      <4>3. spc'[r] \in {"object", "cleanup"}
        BY <2>2, <2>5, <3>2
      <4> QED
        BY <2>1, <2>2, <2>3, <3>2, <4>2, <4>3
    <3> QED
      BY <2>1, <3>1, <3>2
  <2> QED
    BY <2>4, <2>5
<1>22. CASE OpenObject(r)
  BY <1>22 DEF OpenObject
<1>23. CASE HandlerError(r)
  BY <1>23 DEF HandlerError, HandlerRaises
<1>24. CASE Cleanup(r)
  BY <1>24 DEF Cleanup
<1>25. CASE HandlerFault(r)
  BY <1>25 DEF HandlerFault, HandlerIOError, HandlerRaises, UsesTmp,
     Hang, HandlerKill
<1>26. CASE Cut(r)
  BY <1>26 DEF Cut
<1> QED
  BY <1>1, <1>2, <1>3, <1>4, <1>5, <1>6, <1>7, <1>8, <1>9, <1>10, <1>11, <1>12,
     <1>13, <1>14, <1>15, <1>16, <1>17, <1>18, <1>19, <1>20, <1>21, <1>22,
     <1>23, <1>24, <1>25, <1>26 DEF Move, ClientStep, HandlerStep

(* The stream of the request. *)
LEMMA UpStreamStep ==
  ASSUME IInv, NEW r \in Request, Move(r)
  PROVE  UpStream(r)'
<1>a. TypeOK /\ ClientAt(r) /\ HandlerAt(r) /\ UpStream(r)
  BY DEF IInv
<1> USE <1>a DEF UpStream, TypeOK, clientVars, netVars, handlerVars, tmpVars,
   ServerReads
<1>1. CASE Connect(r)
  <2>1. up'[r] = up[r] /\ csent'[r] = csent[r] /\ cut'[r] = cut[r]
        /\ spc'[r] = spc[r] /\ sleft'[r] = sleft[r]
    BY <1>1 DEF Connect
  <2> QED
    BY <2>1, KeepUp DEF SRead
<1>2. CASE SendRequest(r)
  <2>1. up[r] \in Seq(UpMsg) /\ csent[r] \in 0..RequestLen
        /\ SRead(r) \in Nat
    BY Positions
  <2>2. /\ up'[r] = Append(up[r], RequestAt(csent[r] + 1))
        /\ csent'[r] = csent[r] + 1 /\ ~cut[r]
        /\ spc'[r] = spc[r] /\ sleft'[r] = sleft[r]
    BY <1>2 DEF SendRequest
  <2>3. SRead(r)' = SRead(r)
    BY <2>2 DEF SRead
  <2>4. CASE spc[r] \notin Ending
    <3>1. Len(up[r]) = csent[r] - SRead(r)
          /\ \A i \in 1..Len(up[r]) : up[r][i] = RequestAt(SRead(r) + i)
      BY <2>2, <2>4 DEF UpStream
    <3>2. Len(up'[r]) = Len(up[r]) + 1
          /\ \A i \in 1..Len(up'[r]) :
               /\ i = Len(up[r]) + 1 => up'[r][i] = RequestAt(csent[r] + 1)
               /\ i # Len(up[r]) + 1 =>
                    i \in 1..Len(up[r]) /\ up'[r][i] = up[r][i]
      BY <2>1, <2>2
    <3>3. csent[r] + 1 = SRead(r) + (Len(up[r]) + 1)
      BY <2>1, <3>1, RequestFields
    <3>4. Len(up[r]) \in Nat
      BY <2>1
    <3>5. ASSUME NEW i \in 1..Len(up'[r])
          PROVE  up'[r][i] = RequestAt(SRead(r) + i)
      <4>1. CASE i = Len(up[r]) + 1
        <5>1. csent[r] + 1 = SRead(r) + i
          BY <3>3, <4>1
        <5>2. up'[r][i] = RequestAt(csent[r] + 1)
          BY <3>2, <4>1, Zenon
        <5> QED
          BY <5>1, <5>2
      <4>2. CASE i # Len(up[r]) + 1
        <5>1. i \in 1..Len(up[r]) /\ up'[r][i] = up[r][i]
          BY <3>2, <4>2, Zenon
        <5> QED
          BY <3>1, <5>1
      <4> QED
        BY <4>1, <4>2
    <3>6. Len(up'[r]) = csent'[r] - SRead(r)'
      BY <2>1, <2>2, <2>3, <3>1, <3>2, <3>4, RequestFields
    <3> QED
      BY <2>3, <3>5, <3>6 DEF UpStream
  <2>5. CASE spc[r] \in Ending
    BY <2>2, <2>5 DEF UpStream
  <2> QED
    BY <2>4, <2>5
<1>3. CASE RecvDone(r)
  <2>1. up'[r] = up[r] /\ csent'[r] = csent[r] /\ cut'[r] = cut[r]
        /\ spc'[r] = spc[r] /\ sleft'[r] = sleft[r]
    BY <1>3 DEF RecvDone, ClientTakes
  <2> QED
    BY <2>1, KeepUp DEF SRead
<1>4. CASE RecvStat(r)
  <2>1. up'[r] = up[r] /\ csent'[r] = csent[r] /\ cut'[r] = cut[r]
        /\ spc'[r] = spc[r] /\ sleft'[r] = sleft[r]
    BY <1>4 DEF RecvStat, ClientTakes
  <2> QED
    BY <2>1, KeepUp DEF SRead
<1>5. CASE RecvSerr(r)
  <2>1. up'[r] = up[r] /\ csent'[r] = csent[r] /\ cut'[r] = cut[r]
        /\ spc'[r] = spc[r] /\ sleft'[r] = sleft[r]
    BY <1>5 DEF RecvSerr, ClientTakes
  <2> QED
    BY <2>1, KeepUp DEF SRead
<1>6. CASE RecvSout(r)
  <2>1. up'[r] = up[r] /\ csent'[r] = csent[r] /\ cut'[r] = cut[r]
        /\ spc'[r] = spc[r] /\ sleft'[r] = sleft[r]
    BY <1>6 DEF RecvSout, ClientTakes
  <2> QED
    BY <2>1, KeepUp DEF SRead
<1>7. CASE RecvDoto(r)
  <2>1. up'[r] = up[r] /\ csent'[r] = csent[r] /\ cut'[r] = cut[r]
        /\ spc'[r] = spc[r] /\ sleft'[r] = sleft[r]
    BY <1>7 DEF RecvDoto, ClientTakes
  <2> QED
    BY <2>1, KeepUp DEF SRead
<1>8. CASE RecvObjChunk(r)
  <2>1. up'[r] = up[r] /\ csent'[r] = csent[r] /\ cut'[r] = cut[r]
        /\ spc'[r] = spc[r] /\ sleft'[r] = sleft[r]
    BY <1>8 DEF RecvObjChunk, ClientTakes
  <2> QED
    BY <2>1, KeepUp DEF SRead
<1>9. CASE ClientError(r)
  <2>1. up'[r] = up[r] /\ csent'[r] = csent[r] /\ cut'[r] = cut[r]
        /\ spc'[r] = spc[r] /\ sleft'[r] = sleft[r]
    BY <1>9 DEF ClientError, ClientEnds
  <2> QED
    BY <2>1, KeepUp DEF SRead
<1>10. CASE ClientFault(r)
  <2>1. up'[r] = up[r] /\ csent'[r] = csent[r] /\ cut'[r] = cut[r]
        /\ spc'[r] = spc[r] /\ sleft'[r] = sleft[r]
    BY <1>10 DEF ClientFault, ClientIOError, Starve, ClientTimesOut,
       ClientKill, ClientEnds
  <2> QED
    BY <2>1, KeepUp DEF SRead
<1>11. CASE Accept(r)
  BY <1>11, KeepUp DEF Accept, SRead, Ending
<1>12. CASE ReadHello(r)
  <2>1. spc[r] \notin Ending /\ up[r] # <<>>
        /\ up'[r] = Tail(up[r]) /\ csent'[r] = csent[r]
        /\ cut'[r] = cut[r]
    BY <1>12 DEF ReadHello, ServerTakes, Ending
  <2>2. spc'[r] \notin Ending => SRead(r)' = SRead(r) + 1
    BY <1>12 DEF ReadHello, ServerTakes, SRead
  <2> QED
    BY <2>1, <2>2, TakeUp
<1>13. CASE ReadArgc(r)
  <2>1. spc[r] \notin Ending /\ up[r] # <<>>
        /\ up'[r] = Tail(up[r]) /\ csent'[r] = csent[r]
        /\ cut'[r] = cut[r]
    BY <1>13 DEF ReadArgc, ServerTakes, Ending
  <2>2. SRead(r)' = SRead(r) + 1
    <3>1. Head(up[r]).num = NArgs /\ spc[r] = "ARGC"
      BY <1>13, <2>1, UpNumbers DEF ReadArgc, ServerTakes
    <3>2. spc'[r] = "ARGV" /\ sleft'[r] = NArgs
      BY <1>13, <3>1, SizesAssumption DEF ReadArgc, ServerTakes, LoopPc
    <3> QED
      BY <3>1, <3>2, SizesAssumption DEF SRead
  <2> QED
    BY <2>1, <2>2, TakeUp
<1>14. CASE ReadArgv(r)
  <2>1. spc[r] \notin Ending /\ up[r] # <<>>
        /\ up'[r] = Tail(up[r]) /\ csent'[r] = csent[r]
        /\ cut'[r] = cut[r]
    BY <1>14 DEF ReadArgv, ServerTakes, Ending
  <2>2. SRead(r)' = SRead(r) + 1
    <3>1. spc[r] = "ARGV" /\ sleft[r] \in 1..NArgs
          /\ sleft'[r] = sleft[r] - 1
      BY <1>14 DEF ReadArgv, ServerTakes, HandlerAt
    <3>2. spc'[r] = IF sleft[r] - 1 > 0 THEN "ARGV" ELSE "check"
      BY <1>14 DEF ReadArgv, ServerTakes, LoopPc
    <3> QED
      BY <3>1, <3>2, SizesAssumption DEF SRead
  <2> QED
    BY <2>1, <2>2, TakeUp
<1>15. CASE CheckCommand(r)
  BY <1>15, KeepUp DEF CheckCommand, SRead, Ending
<1>16. CASE ReadDoti(r)
  <2>1. spc[r] \notin Ending /\ up[r] # <<>>
        /\ up'[r] = Tail(up[r]) /\ csent'[r] = csent[r]
        /\ cut'[r] = cut[r]
    BY <1>16 DEF ReadDoti, ServerTakes, Ending
  <2>2. SRead(r)' = SRead(r) + 1
    <3>1. Head(up[r]).num = SrcLen /\ spc[r] = "DOTI"
      BY <1>16, <2>1, UpNumbers DEF ReadDoti, ServerTakes
    <3>2. spc'[r] = IF SrcLen > 0 THEN "BLK" ELSE "objname"
      BY <1>16, <3>1 DEF ReadDoti, ServerTakes, LoopPc
    <3>3. sleft'[r] = SrcLen
      BY <1>16, <3>1 DEF ReadDoti
    <3> QED
      BY <3>1, <3>2, <3>3, SizesAssumption DEF SRead, RequestLen
  <2> QED
    BY <2>1, <2>2, TakeUp
<1>17. CASE ReadDotiChunk(r)
  <2>1. spc[r] \notin Ending /\ up[r] # <<>>
        /\ up'[r] = Tail(up[r]) /\ csent'[r] = csent[r]
        /\ cut'[r] = cut[r]
    BY <1>17 DEF ReadDotiChunk, ServerTakes, Ending
  <2>2. SRead(r)' = SRead(r) + 1
    <3>1. spc[r] = "BLK" /\ sleft[r] \in 1..SrcLen
          /\ sleft'[r] = sleft[r] - 1
      BY <1>17 DEF ReadDotiChunk, ServerTakes, HandlerAt
    <3>2. spc'[r] = IF sleft[r] - 1 > 0 THEN "BLK" ELSE "objname"
      BY <1>17 DEF ReadDotiChunk, ServerTakes, LoopPc
    <3>3. CASE sleft[r] = 1
      <4>1. spc'[r] = "objname"
        BY <3>1, <3>2, <3>3
      <4>2. SRead(r)' = RequestLen
        BY <4>1 DEF SRead
      <4>3. SRead(r) = RequestLen - 1
        BY <3>1, <3>3, SizesAssumption DEF SRead, RequestLen
      <4> QED
        BY <4>2, <4>3, SizesAssumption DEF RequestLen
    <3>4. CASE sleft[r] > 1
      <4>1. spc'[r] = "BLK"
        BY <3>1, <3>2, <3>4
      <4> QED
        BY <3>1, <4>1, SizesAssumption DEF SRead, RequestLen
    <3> QED
      BY <3>1, <3>3, <3>4, SizesAssumption
  <2> QED
    BY <2>1, <2>2, TakeUp
<1>18. CASE ReserveObject(r)
  BY <1>18, KeepUp DEF ReserveObject, SRead, Ending
<1>19. CASE ReleaseObject(r)
  BY <1>19, KeepUp DEF ReleaseObject, SRead, Ending
<1>20. CASE RunCompiler(r)
  BY <1>20, KeepUp DEF RunCompiler, SRead, Ending
<1>21. CASE SendReply(r)
  BY <1>21, KeepUp DEF SendReply, SRead, Ending
<1>22. CASE OpenObject(r)
  BY <1>22, KeepUp DEF OpenObject, SRead, Ending
<1>23. CASE HandlerError(r)
  BY <1>23, KeepUp DEF HandlerError, HandlerRaises, SRead, Ending
<1>24. CASE Cleanup(r)
  BY <1>24, KeepUp DEF Cleanup, SRead, Ending
<1>25. CASE HandlerFault(r)
  BY <1>25, KeepUp DEF HandlerFault, HandlerIOError, HandlerRaises, UsesTmp,
     Hang, HandlerKill, SRead, Ending
<1>26. CASE Cut(r)
  <2>1. PICK u \in Arrived(up[r]) : up'[r] = u
    BY <1>26 DEF Cut
  <2>2. /\ csent'[r] = csent[r] /\ spc'[r] = spc[r] /\ sleft'[r] = sleft[r]
        /\ cut'[r]
    BY <1>26 DEF Cut
  <2>3. SRead(r)' = SRead(r)
    BY <2>2 DEF SRead
  <2>4. up[r] \in Seq(UpMsg) /\ csent[r] \in 0..RequestLen /\ SRead(r) \in Nat
    BY Positions
  <2>5. /\ Len(u) \in Nat /\ Len(u) <= Len(up[r])
        /\ \A i \in 1..Len(u) : i \in 1..Len(up[r]) /\ u[i] = up[r][i]
    BY <2>1, <2>4, ArrivedIs
  <2>6. CASE spc[r] \notin Ending
    <3>1. /\ Len(up[r]) <= csent[r] - SRead(r)
          /\ \A i \in 1..Len(up[r]) : up[r][i] = RequestAt(SRead(r) + i)
      BY <2>6 DEF UpStream
    <3>2. Len(u) <= csent[r] - SRead(r)
      BY <2>4, <2>5, <3>1, RequestFields
    <3>3. \A i \in 1..Len(u) : u[i] = RequestAt(SRead(r) + i)
      BY <2>5, <3>1
    <3> QED
      BY <2>1, <2>2, <2>3, <3>2, <3>3 DEF UpStream
  <2>7. CASE spc[r] \in Ending
    BY <2>2, <2>7 DEF UpStream
  <2> QED
    BY <2>6, <2>7
<1> QED
  BY <1>1, <1>2, <1>3, <1>4, <1>5, <1>6, <1>7, <1>8, <1>9, <1>10, <1>11, <1>12,
     <1>13, <1>14, <1>15, <1>16, <1>17, <1>18, <1>19, <1>20, <1>21, <1>22,
     <1>23, <1>24, <1>25, <1>26 DEF Move, ClientStep, HandlerStep

(* The stream of the reply. *)
LEMMA DownStreamStep ==
  ASSUME IInv, NEW r \in Request, Move(r)
  PROVE  DownStream(r)'
<1>a. TypeOK /\ ClientAt(r) /\ HandlerAt(r) /\ DownStream(r)
  BY DEF IInv
<1> USE <1>a DEF TypeOK, clientVars, netVars, handlerVars, tmpVars
<1>1. CASE Connect(r)
  <2>1. /\ ~ClientGone(r) /\ CRead(r) = 0 /\ CRead(r)' = 0
        /\ down'[r] = down[r] /\ ssent'[r] = ssent[r] /\ cut'[r] = cut[r]
    BY <1>1 DEF Connect, ClientGone, CRead, LoopPc
  <2>2. ret'[r] = ret[r] /\ snap'[r] = snap[r]
    BY <1>1 DEF Connect
  <2>3. \A i \in Nat : ReplyAt(r, i)' = ReplyAt(r, i)
    BY <2>2, ReplyFrame
  <2>4. Len(down[r]) \in Nat
    BY DEF TypeOK
  <2>5. \A i \in 1..Len(down[r]) : i \in Nat /\ 0 + i = i
    BY <2>4
  <2> QED
    BY <2>1, <2>3, <2>5 DEF DownStream
<1>2. CASE SendRequest(r)
  <2>1. /\ ~ClientGone(r) /\ CRead(r) = 0 /\ CRead(r)' = 0
        /\ down'[r] = down[r] /\ ssent'[r] = ssent[r] /\ cut'[r] = cut[r]
    BY <1>2 DEF SendRequest, ClientGone, CRead, LoopPc
  <2>2. ret'[r] = ret[r] /\ snap'[r] = snap[r]
    BY <1>2 DEF SendRequest
  <2>3. \A i \in Nat : ReplyAt(r, i)' = ReplyAt(r, i)
    BY <2>2, ReplyFrame
  <2>4. Len(down[r]) \in Nat
    BY DEF TypeOK
  <2>5. \A i \in 1..Len(down[r]) : i \in Nat /\ 0 + i = i
    BY <2>4
  <2> QED
    BY <2>1, <2>3, <2>5 DEF DownStream
<1>3. CASE RecvDone(r)
  <2>1. /\ cpc[r] = "DONE" /\ down[r] # <<>>
        /\ down'[r] = Tail(down[r]) /\ ssent'[r] = ssent[r]
        /\ cut'[r] = cut[r]
        /\ ret'[r] = ret[r] /\ snap'[r] = snap[r]
    BY <1>3 DEF RecvDone, ClientTakes
  <2>2. ~ClientGone(r)' => CRead(r)' = CRead(r) + 1
    BY <1>3, <2>1 DEF RecvDone, ClientTakes, CRead, ClientGone
  <2> QED
    BY <2>1, <2>2, TakeDown DEF ClientGone
<1>4. CASE RecvStat(r)
  <2>1. /\ cpc[r] = "STAT" /\ down[r] # <<>>
        /\ down'[r] = Tail(down[r]) /\ ssent'[r] = ssent[r]
        /\ cut'[r] = cut[r]
        /\ ret'[r] = ret[r] /\ snap'[r] = snap[r]
    BY <1>4 DEF RecvStat, ClientTakes
  <2>2. ~ClientGone(r)' => CRead(r)' = CRead(r) + 1
    BY <1>4, <2>1 DEF RecvStat, ClientTakes, CRead, ClientGone
  <2> QED
    BY <2>1, <2>2, TakeDown DEF ClientGone
<1>5. CASE RecvSerr(r)
  <2>1. /\ cpc[r] = "SERR" /\ down[r] # <<>>
        /\ down'[r] = Tail(down[r]) /\ ssent'[r] = ssent[r]
        /\ cut'[r] = cut[r]
        /\ ret'[r] = ret[r] /\ snap'[r] = snap[r]
    BY <1>5 DEF RecvSerr, ClientTakes
  <2>2. ~ClientGone(r)' => CRead(r)' = CRead(r) + 1
    BY <1>5, <2>1 DEF RecvSerr, ClientTakes, CRead, ClientGone
  <2> QED
    BY <2>1, <2>2, TakeDown DEF ClientGone
<1>6. CASE RecvSout(r)
  <2>1. /\ cpc[r] = "SOUT" /\ down[r] # <<>>
        /\ down'[r] = Tail(down[r]) /\ ssent'[r] = ssent[r]
        /\ cut'[r] = cut[r]
        /\ ret'[r] = ret[r] /\ snap'[r] = snap[r]
    BY <1>6 DEF RecvSout, ClientTakes
  <2>2. ~ClientGone(r)' => CRead(r)' = CRead(r) + 1
    BY <1>6, <2>1 DEF RecvSout, ClientTakes, CRead, ClientGone
  <2> QED
    BY <2>1, <2>2, TakeDown DEF ClientGone
<1>7. CASE RecvDoto(r)
  <2>1. /\ cpc[r] = "DOTO" /\ down[r] # <<>>
        /\ down'[r] = Tail(down[r]) /\ ssent'[r] = ssent[r]
        /\ cut'[r] = cut[r]
        /\ ret'[r] = ret[r] /\ snap'[r] = snap[r]
    BY <1>7 DEF RecvDoto, ClientTakes
  <2>2. ~ClientGone(r)' => CRead(r)' = CRead(r) + 1
    <3>1. Head(down[r]).num = Len(snap[r])
      BY <2>1, DownNumbers
    <3>2. cpc'[r] = IF Len(snap[r]) > 0 THEN "OBJ" ELSE "done"
      BY <1>7, <3>1 DEF RecvDoto, ClientTakes, LoopPc
    <3>3. cleft'[r] = Len(snap[r]) /\ Len(snap[r]) \in Nat
      BY <1>7, <3>1 DEF RecvDoto, ObjFile
    <3> QED
      BY <2>1, <3>2, <3>3 DEF CRead, ClientGone
  <2> QED
    BY <2>1, <2>2, TakeDown DEF ClientGone
<1>8. CASE RecvObjChunk(r)
  <2>1. /\ cpc[r] = "OBJ" /\ down[r] # <<>>
        /\ down'[r] = Tail(down[r]) /\ ssent'[r] = ssent[r]
        /\ cut'[r] = cut[r]
        /\ ret'[r] = ret[r] /\ snap'[r] = snap[r]
    BY <1>8 DEF RecvObjChunk, ClientTakes
  <2>2. ~ClientGone(r)' => CRead(r)' = CRead(r) + 1
    <3>1. cpc'[r] = IF cleft[r] - 1 > 0 THEN "OBJ" ELSE "done"
      BY <1>8 DEF RecvObjChunk, ClientTakes, LoopPc
    <3>2. cleft'[r] = cleft[r] - 1 /\ cleft[r] \in Nat
          /\ Len(snap[r]) \in Nat
      BY <1>8 DEF RecvObjChunk, ObjFile
    <3> QED
      BY <2>1, <3>1, <3>2 DEF CRead, ClientGone
  <2> QED
    BY <2>1, <2>2, TakeDown DEF ClientGone
<1>9. CASE ClientError(r)
  <2>1. ClientGone(r)'
    BY <1>9 DEF ClientError, ClientEnds, ClientGone
  <2> QED
    BY <2>1 DEF DownStream
<1>10. CASE ClientFault(r)
  <2>1. CASE Starve(r)
    <3>1. /\ cpc[r] = "send" /\ cpc'[r] = "starved"
          /\ down'[r] = down[r] /\ ssent'[r] = ssent[r] /\ cut'[r] = cut[r]
          /\ ret'[r] = ret[r] /\ snap'[r] = snap[r]
      BY <2>1 DEF Starve, ClientEnds
    <3>2. ~ClientGone(r) /\ CRead(r) = 0 /\ CRead(r)' = 0
      BY <3>1 DEF ClientGone, CRead
    <3>3. \A i \in Nat : ReplyAt(r, i)' = ReplyAt(r, i)
      BY <3>1, ReplyFrame
    <3>4. Len(down[r]) \in Nat
      BY DEF TypeOK
    <3>5. ASSUME NEW i \in 1..Len(down[r])
          PROVE  down[r][i] = ReplyAt(r, CRead(r) + i)'
      <4>1. i \in Nat /\ 0 + i = i
        BY <3>4
      <4>2. down[r][i] = ReplyAt(r, CRead(r) + i)
        BY <3>2 DEF DownStream
      <4>3. ReplyAt(r, CRead(r) + i)' = ReplyAt(r, CRead(r) + i)
        BY <3>2, <3>3, <4>1
      <4> QED
        BY <4>2, <4>3
    <3> QED
      BY <3>1, <3>2, <3>5 DEF DownStream
  <2>2. CASE ~Starve(r)
    <3>1. ClientGone(r)'
      BY <1>10, <2>2 DEF ClientFault, ClientIOError, ClientTimesOut,
         ClientKill, ClientEnds, ClientGone
    <3> QED
      BY <3>1 DEF DownStream
  <2> QED
    BY <2>1, <2>2
<1>11. CASE Accept(r)
  BY <1>11, KeepDown DEF Accept
<1>12. CASE ReadHello(r)
  BY <1>12, KeepDown DEF ReadHello, ServerTakes
<1>13. CASE ReadArgc(r)
  BY <1>13, KeepDown DEF ReadArgc, ServerTakes
<1>14. CASE ReadArgv(r)
  BY <1>14, KeepDown DEF ReadArgv, ServerTakes
<1>15. CASE CheckCommand(r)
  BY <1>15, KeepDown DEF CheckCommand
<1>16. CASE ReadDoti(r)
  BY <1>16, KeepDown DEF ReadDoti, ServerTakes
<1>17. CASE ReadDotiChunk(r)
  BY <1>17, KeepDown DEF ReadDotiChunk, ServerTakes
<1>18. CASE ReserveObject(r)
  BY <1>18, KeepDown DEF ReserveObject
<1>19. CASE ReleaseObject(r)
  BY <1>19, KeepDown DEF ReleaseObject
<1>20. CASE RunCompiler(r)
  <2>1. /\ ssent[r] = 0 /\ ssent'[r] = 0 /\ down'[r] = down[r]
        /\ cut'[r] = cut[r]
        /\ cpc'[r] = cpc[r] /\ cleft'[r] = cleft[r] /\ snap'[r] = snap[r]
    BY <1>20 DEF RunCompiler, HandlerAt
  <2>2. CASE ClientGone(r)
    BY <2>1, <2>2 DEF DownStream, ClientGone
  <2>3. CASE ~ClientGone(r)
    <3>1. Len(down[r]) = 0 /\ CRead(r) = 0
      BY <2>1, <2>3, ReplyBounds, Positions
    <3>2. CRead(r)' = CRead(r)
      BY <2>1 DEF CRead
    <3> QED
      BY <2>1, <3>1, <3>2 DEF DownStream
  <2> QED
    BY <2>2, <2>3
<1>21. CASE SendReply(r)
  <2>1. /\ down'[r] = Append(down[r], ReplyAt(r, ssent[r] + 1))
        /\ ssent'[r] = ssent[r] + 1 /\ cpc'[r] = cpc[r] /\ ~cut[r]
        /\ cleft'[r] = cleft[r] /\ ret'[r] = ret[r] /\ snap'[r] = snap[r]
    BY <1>21 DEF SendReply
  <2>2. CASE ClientGone(r)
    BY <2>1, <2>2 DEF DownStream, ClientGone
  <2>3. CASE ~ClientGone(r)
    <3>1. /\ Len(down[r]) \in Nat /\ CRead(r) \in Nat /\ ssent[r] \in Nat
          /\ ssent[r] = CRead(r) + Len(down[r])
      BY <2>1, <2>3, ReplyBounds, Positions
    <3>2. CRead(r)' = CRead(r)
      BY <2>1 DEF CRead
    <3>3. down[r] \in Seq(DownMsg)
      OBVIOUS
    <3>4. Len(down'[r]) = Len(down[r]) + 1
          /\ \A i \in 1..Len(down'[r]) :
               /\ i = Len(down[r]) + 1 => down'[r][i] = ReplyAt(r, ssent[r] + 1)
               /\ i # Len(down[r]) + 1 =>
                    i \in 1..Len(down[r]) /\ down'[r][i] = down[r][i]
      BY <2>1, <3>3
    <3>5. \A i \in Nat : ReplyAt(r, i)' = ReplyAt(r, i)
      BY <2>1, ReplyFrame
    <3>6. ASSUME NEW i \in 1..Len(down'[r])
          PROVE  down'[r][i] = ReplyAt(r, CRead(r) + i)
      <4>1. CASE i = Len(down[r]) + 1
        <5>1. CRead(r) + i = ssent[r] + 1
          BY <3>1, <4>1
        <5>2. down'[r][i] = ReplyAt(r, ssent[r] + 1)
          BY <3>4, <4>1, Zenon
        <5> QED
          BY <5>1, <5>2
      <4>2. CASE i # Len(down[r]) + 1
        <5>1. i \in 1..Len(down[r]) /\ down'[r][i] = down[r][i]
          BY <3>4, <4>2, Zenon
        <5> QED
          BY <2>3, <5>1 DEF DownStream
      <4> QED
        BY <4>1, <4>2
    <3>7. ASSUME NEW i \in 1..Len(down'[r])
          PROVE  down'[r][i] = ReplyAt(r, CRead(r) + i)'
      <4>1. CRead(r) + i \in Nat
        BY <3>1, <3>4
      <4>2. ReplyAt(r, CRead(r) + i)' = ReplyAt(r, CRead(r) + i)
        BY <3>2, <3>5, <4>1
      <4> QED
        BY <3>6, <4>2
    <3>8. Len(down'[r]) = ssent'[r] - CRead(r)'
      BY <2>1, <3>1, <3>2, <3>4
    <3> QED
      BY <3>4, <3>7, <3>8 DEF DownStream
  <2> QED
    BY <2>2, <2>3
<1>22. CASE OpenObject(r)
  <2>1. /\ ssent[r] = 4 /\ ssent'[r] = 4 /\ down'[r] = down[r]
        /\ cut'[r] = cut[r]
        /\ cpc'[r] = cpc[r] /\ cleft'[r] = cleft[r] /\ ret'[r] = ret[r]
    BY <1>22 DEF OpenObject, HandlerAt
  <2>2. CASE ClientGone(r)
    BY <2>1, <2>2 DEF DownStream, ClientGone
  <2>3. CASE ~ClientGone(r)
    <3>1. /\ Len(down[r]) \in Nat /\ CRead(r) \in Nat
          /\ CRead(r) + Len(down[r]) <= 4
          /\ ~cut[r] => 4 = CRead(r) + Len(down[r])
          /\ cpc[r] = "OBJ" => CRead(r) >= 5
      BY <2>1, <2>3, ReplyBounds, Positions
    <3>2. CRead(r)' = CRead(r)
      <4>1. cpc[r] # "OBJ"
        BY <3>1
      <4> QED
        BY <2>1, <4>1 DEF CRead
    <3>3. ASSUME NEW i \in 1..Len(down[r])
          PROVE  down[r][i] = ReplyAt(r, CRead(r) + i)'
      <4>1. CRead(r) + i \in 1..4
        BY <3>1, SMTT(30)
      <4>2. ReplyAt(r, CRead(r) + i)' = ReplyAt(r, CRead(r) + i)
        BY <2>1, <3>2, <4>1, ReplyFrame
      <4> QED
        BY <2>3, <4>2 DEF DownStream
    <3> QED
      BY <2>1, <2>3, <3>2, <3>3 DEF DownStream
  <2> QED
    BY <2>2, <2>3
<1>23. CASE HandlerError(r)
  BY <1>23, KeepDown DEF HandlerError, HandlerRaises
<1>24. CASE Cleanup(r)
  BY <1>24, KeepDown DEF Cleanup
<1>25. CASE HandlerFault(r)
  BY <1>25, KeepDown DEF HandlerFault, HandlerIOError, HandlerRaises, UsesTmp,
     Hang, HandlerKill
<1>26. CASE Cut(r)
  <2>1. PICK u \in Arrived(down[r]) : down'[r] = u
    BY <1>26 DEF Cut
  <2>2. /\ cpc'[r] = cpc[r] /\ cleft'[r] = cleft[r] /\ ssent'[r] = ssent[r]
        /\ ret'[r] = ret[r] /\ snap'[r] = snap[r] /\ cut'[r]
    BY <1>26 DEF Cut
  <2>3. CRead(r)' = CRead(r)
    BY <2>2 DEF CRead
  <2>4. down[r] \in Seq(DownMsg)
    OBVIOUS
  <2>5. /\ Len(u) \in Nat /\ Len(u) <= Len(down[r])
        /\ \A i \in 1..Len(u) : i \in 1..Len(down[r]) /\ u[i] = down[r][i]
    BY <2>1, <2>4, ArrivedIs
  <2>6. CASE ~ClientGone(r)
    <3>1. /\ Len(down[r]) \in Nat /\ CRead(r) \in Nat /\ ssent[r] \in Nat
          /\ CRead(r) + Len(down[r]) <= ssent[r]
      BY <2>6, ReplyBounds, Positions
    <3>2. Len(u) <= ssent[r] - CRead(r)
      BY <2>5, <3>1
    <3>3. \A i \in Nat : ReplyAt(r, i)' = ReplyAt(r, i)
      BY <2>2, ReplyFrame
    <3>4. ASSUME NEW i \in 1..Len(u)
          PROVE  u[i] = ReplyAt(r, CRead(r) + i)'
      <4>1. CRead(r) + i \in Nat
        BY <2>5, <3>1
      <4>2. ReplyAt(r, CRead(r) + i)' = ReplyAt(r, CRead(r) + i)
        BY <2>3, <3>3, <4>1
      <4>3. u[i] = ReplyAt(r, CRead(r) + i)
        BY <2>5, <2>6 DEF DownStream
      <4> QED
        BY <4>2, <4>3
    <3> QED
      BY <2>1, <2>2, <2>3, <3>2, <3>4 DEF DownStream
  <2>7. CASE ClientGone(r)
    BY <2>2, <2>7 DEF DownStream, ClientGone
  <2> QED
    BY <2>6, <2>7
<1> QED
  BY <1>1, <1>2, <1>3, <1>4, <1>5, <1>6, <1>7, <1>8, <1>9, <1>10, <1>11, <1>12,
     <1>13, <1>14, <1>15, <1>16, <1>17, <1>18, <1>19, <1>20, <1>21, <1>22,
     <1>23, <1>24, <1>25, <1>26 DEF Move, ClientStep, HandlerStep

(* A handler that ends without an exception has done all of its work. *)
LEMMA CompletedUnlessRaisedStep ==
  ASSUME IInv, NEW r \in Request, Move(r)
  PROVE  CompletedUnlessRaised(r)'
<1>a. TypeOK /\ ClientAt(r) /\ HandlerAt(r) /\ CompletedUnlessRaised(r)
  BY DEF IInv
<1> USE <1>a DEF CompletedUnlessRaised, TypeOK, clientVars, netVars,
   handlerVars, tmpVars, ReplyLen, LoopPc, ClientAt, HandlerAt
<1>1. CASE Connect(r)
  BY <1>1 DEF Connect
<1>2. CASE SendRequest(r)
  BY <1>2 DEF SendRequest
<1>3. CASE RecvDone(r)
  BY <1>3 DEF RecvDone, ClientTakes
<1>4. CASE RecvStat(r)
  BY <1>4 DEF RecvStat, ClientTakes
<1>5. CASE RecvSerr(r)
  BY <1>5 DEF RecvSerr, ClientTakes
<1>6. CASE RecvSout(r)
  BY <1>6 DEF RecvSout, ClientTakes
<1>7. CASE RecvDoto(r)
  BY <1>7 DEF RecvDoto, ClientTakes
<1>8. CASE RecvObjChunk(r)
  BY <1>8 DEF RecvObjChunk, ClientTakes
<1>9. CASE ClientError(r)
  BY <1>9 DEF ClientError, ClientEnds
<1>10. CASE ClientFault(r)
  BY <1>10 DEF ClientFault, ClientIOError, Starve, ClientTimesOut, ClientKill,
               ClientEnds
<1>11. CASE Accept(r)
  BY <1>11 DEF Accept
<1>12. CASE ReadHello(r)
  BY <1>12 DEF ReadHello, ServerTakes
<1>13. CASE ReadArgc(r)
  BY <1>13 DEF ReadArgc, ServerTakes
<1>14. CASE ReadArgv(r)
  BY <1>14 DEF ReadArgv, ServerTakes
<1>15. CASE CheckCommand(r)
  BY <1>15 DEF CheckCommand
<1>16. CASE ReadDoti(r)
  BY <1>16 DEF ReadDoti, ServerTakes
<1>17. CASE ReadDotiChunk(r)
  BY <1>17 DEF ReadDotiChunk, ServerTakes
<1>18. CASE ReserveObject(r)
  BY <1>18 DEF ReserveObject
<1>19. CASE ReleaseObject(r)
  BY <1>19 DEF ReleaseObject
<1>20. CASE RunCompiler(r)
  BY <1>20 DEF RunCompiler
<1>21. CASE SendReply(r)
  <2>1. SUFFICES ASSUME spc'[r] \in {"cleanup", "closed"}
                 PROVE  /\ csent'[r] = RequestLen /\ up'[r] = <<>>
                        /\ ssent'[r] = ReplyLen(r)'
    OBVIOUS
  <2>2. spc[r] \in {"reply", "object"} /\ ssent'[r] = 5 + Len(snap[r])
    BY <1>21, <2>1 DEF SendReply
  <2>3. csent'[r] = csent[r] /\ up'[r] = up[r] /\ snap'[r] = snap[r]
    BY <1>21 DEF SendReply
  <2>4. SRead(r) = RequestLen
    BY <2>2 DEF SRead
  <2>5. UpStream(r) /\ up[r] \in Seq(UpMsg) /\ csent[r] \in 0..RequestLen
        /\ RequestLen \in Nat
    BY RequestFields DEF IInv
  <2>6. Len(up[r]) <= csent[r] - RequestLen
    BY <2>2, <2>4, <2>5 DEF UpStream, Ending
  <2>7. Len(up[r]) = 0 /\ csent[r] = RequestLen
    BY <2>5, <2>6
  <2> QED
    BY <2>2, <2>3, <2>5, <2>7
<1>22. CASE OpenObject(r)
  BY <1>22 DEF OpenObject
<1>23. CASE HandlerError(r)
  BY <1>23 DEF HandlerError, HandlerRaises
<1>24. CASE Cleanup(r)
  BY <1>24 DEF Cleanup
<1>25. CASE HandlerFault(r)
  BY <1>25 DEF HandlerFault, HandlerIOError, HandlerRaises, UsesTmp,
     Hang, HandlerKill
<1>26. CASE Cut(r)
  <2>1. PICK u \in Arrived(up[r]) : up'[r] = u
    BY <1>26 DEF Cut
  <2>2. up[r] = <<>> => u = <<>>
    BY <2>1, ArrivedIs, EmptySeq
  <2> QED
    BY <1>26, <2>1, <2>2 DEF Cut
<1> QED
  BY <1>1, <1>2, <1>3, <1>4, <1>5, <1>6, <1>7, <1>8, <1>9, <1>10, <1>11, <1>12,
     <1>13, <1>14, <1>15, <1>16, <1>17, <1>18, <1>19, <1>20, <1>21, <1>22,
     <1>23, <1>24, <1>25, <1>26 DEF Move, ClientStep, HandlerStep

(* What the client was told and what it holds. *)
LEMMA ToldStep ==
  ASSUME IInv, NEW r \in Request, Move(r)
  PROVE  Told(r)'
<1>a. TypeOK /\ ClientAt(r) /\ HandlerAt(r) /\ Told(r)
  BY DEF IInv
<1> USE <1>a DEF Told, TypeOK, clientVars, netVars, handlerVars, tmpVars,
   LoopPc, ClientAt, HandlerAt, WantsObject
<1>1. CASE Connect(r)
  BY <1>1 DEF Connect
<1>2. CASE SendRequest(r)
  BY <1>2 DEF SendRequest
<1>3. CASE RecvDone(r)
  BY <1>3 DEF RecvDone, ClientTakes
<1>4. CASE RecvStat(r)
  <2>1. /\ Head(down[r]).num = ret[r] /\ ret[r] # -1
    BY <1>4, DownNumbers, SentRet DEF RecvStat, ClientTakes
  <2> QED
    BY <1>4, <2>1 DEF RecvStat, ClientTakes
<1>5. CASE RecvSerr(r)
  BY <1>5 DEF RecvSerr, ClientTakes
<1>6. CASE RecvSout(r)
  BY <1>6 DEF RecvSout, ClientTakes
<1>7. CASE RecvDoto(r)
  BY <1>7, DownNumbers DEF RecvDoto, ClientTakes, ObjFile
<1>8. CASE RecvObjChunk(r)
  <2>1. /\ cpc[r] = "OBJ" /\ down[r] # <<>>
        /\ cpc'[r] = IF cleft[r] - 1 > 0 THEN "OBJ" ELSE "done"
        /\ cleft'[r] = cleft[r] - 1
        /\ ofile'[r] = Append(ofile[r], Head(down[r]).src)
    BY <1>8 DEF RecvObjChunk, ClientTakes, ObjFile
  <2>2. /\ cstat'[r] = cstat[r] /\ ret'[r] = ret[r] /\ snap'[r] = snap[r]
        /\ ssent'[r] = ssent[r]
    BY <1>8 DEF RecvObjChunk, ClientTakes
  <2>3. /\ ret[r] # -1 /\ cstat[r] = ret[r] /\ cstat[r] = 0
        /\ ofile[r] \in Seq(SrcFile) /\ snap[r] \in Seq(SrcFile)
        /\ Len(ofile[r]) = Len(snap[r]) - cleft[r]
        /\ \A i \in 1..Len(ofile[r]) : ofile[r][i] = snap[r][i]
        /\ cleft[r] \in 1..Len(snap[r])
    BY <2>1 DEF ObjFile
  <2>4. /\ Head(down[r]).src = snap[r][Len(snap[r]) - cleft[r] + 1]
        /\ ssent[r] >= 6
    BY <2>1, DownNumbers
  <2>5. Len(snap[r]) \in Nat /\ Len(ofile[r]) \in Nat /\ cleft[r] \in Nat
    BY <2>3
  <2>6. Head(down[r]).src \in SrcFile
    <3>1. Len(snap[r]) - cleft[r] + 1 \in 1..Len(snap[r])
      BY <2>3, <2>5
    <3> QED
      BY <2>3, <2>4, <3>1, ElementOfSeq
  <2>7. /\ ofile'[r] \in Seq(SrcFile)
        /\ Len(ofile'[r]) = Len(ofile[r]) + 1
        /\ \A i \in 1..Len(ofile[r]) : ofile'[r][i] = ofile[r][i]
        /\ ofile'[r][Len(ofile[r]) + 1] = Head(down[r]).src
    BY <2>1, <2>3, <2>6
  <2>8. Len(ofile'[r]) = Len(snap[r]) - cleft'[r]
    BY <2>1, <2>3, <2>5, <2>7
  <2>9. ASSUME NEW i \in 1..Len(ofile'[r]) PROVE ofile'[r][i] = snap[r][i]
    <3>1. CASE i = Len(ofile[r]) + 1
      BY <2>3, <2>4, <2>7, <3>1
    <3>2. CASE i # Len(ofile[r]) + 1
      <4>1. i \in 1..Len(ofile[r])
        BY <2>5, <2>7, <3>2
      <4> QED
        BY <2>3, <2>7, <4>1
    <3> QED
      BY <3>1, <3>2
  <2>10. cpc'[r] = "done" => ofile'[r] = snap[r]
    <3> SUFFICES ASSUME cpc'[r] = "done" PROVE ofile'[r] = snap[r]
      OBVIOUS
    <3>1. cleft[r] = 1
      BY <2>1, <2>3, <2>5
    <3>2. Len(ofile'[r]) = Len(snap[r])
      BY <2>1, <2>5, <2>8, <3>1
    <3> QED
      BY <2>3, <2>7, <2>9, <3>2, SeqEqual
  <2>11. cpc'[r] \in {"OBJ", "done"} /\ ssent'[r] >= 5 /\ ofile'[r] \in ObjFile
    BY <2>1, <2>2, <2>4, <2>7 DEF ObjFile
  <2> QED
    BY <2>2, <2>3, <2>8, <2>9, <2>10, <2>11
<1>9. CASE ClientError(r)
  BY <1>9 DEF ClientError, ClientEnds
<1>10. CASE ClientFault(r)
  BY <1>10 DEF ClientFault, ClientIOError, Starve, ClientTimesOut, ClientKill,
               ClientEnds
<1>11. CASE Accept(r)
  BY <1>11 DEF Accept
<1>12. CASE ReadHello(r)
  BY <1>12 DEF ReadHello, ServerTakes
<1>13. CASE ReadArgc(r)
  BY <1>13 DEF ReadArgc, ServerTakes
<1>14. CASE ReadArgv(r)
  BY <1>14 DEF ReadArgv, ServerTakes
<1>15. CASE CheckCommand(r)
  BY <1>15 DEF CheckCommand
<1>16. CASE ReadDoti(r)
  BY <1>16 DEF ReadDoti, ServerTakes
<1>17. CASE ReadDotiChunk(r)
  BY <1>17 DEF ReadDotiChunk, ServerTakes
<1>18. CASE ReserveObject(r)
  BY <1>18 DEF ReserveObject
<1>19. CASE ReleaseObject(r)
  BY <1>19 DEF ReleaseObject
<1>20. CASE RunCompiler(r)
  <2>1. /\ ret[r] = -1 /\ ssent[r] = 0
        /\ cpc'[r] = cpc[r] /\ ofile'[r] = ofile[r]
    BY <1>20 DEF RunCompiler
  <2>2. /\ ofile'[r] = Old
        /\ cpc'[r] \notin {"SERR", "SOUT", "DOTO", "OBJ", "done"}
    BY <2>1
  <2> QED
    BY <2>2
<1>21. CASE SendReply(r)
  BY <1>21 DEF SendReply
<1>22. CASE OpenObject(r)
  <2>1. /\ ssent[r] = 4 /\ ret'[r] = ret[r] /\ cpc'[r] = cpc[r]
        /\ cstat'[r] = cstat[r] /\ ofile'[r] = ofile[r]
    BY <1>22 DEF OpenObject
  <2>2. cpc[r] # "OBJ"
    <3> SUFFICES ASSUME cpc[r] = "OBJ" PROVE FALSE
      OBVIOUS
    <3>1. ~ClientGone(r)
      BY DEF ClientGone
    <3>2. /\ CRead(r) + Len(down[r]) <= 4 /\ CRead(r) >= 5
          /\ CRead(r) \in Nat /\ Len(down[r]) \in Nat
      BY <2>1, <3>1, ReplyBounds, Positions
    <3> QED
      BY <3>2
  <2>3. ~(cpc[r] = "done" /\ cstat[r] = 0)
    BY <2>1
  <2> QED
    BY <2>1, <2>2, <2>3
<1>23. CASE HandlerError(r)
  BY <1>23 DEF HandlerError, HandlerRaises
<1>24. CASE Cleanup(r)
  BY <1>24 DEF Cleanup
<1>25. CASE HandlerFault(r)
  BY <1>25 DEF HandlerFault, HandlerIOError, HandlerRaises, UsesTmp,
     Hang, HandlerKill
<1>26. CASE Cut(r)
  BY <1>26 DEF Cut
<1> QED
  BY <1>1, <1>2, <1>3, <1>4, <1>5, <1>6, <1>7, <1>8, <1>9, <1>10, <1>11, <1>12,
     <1>13, <1>14, <1>15, <1>16, <1>17, <1>18, <1>19, <1>20, <1>21, <1>22,
     <1>23, <1>24, <1>25, <1>26 DEF Move, ClientStep, HandlerStep

(* A client that fails has seen the end of a handler that raised. *)
LEMMA FailedForCauseStep ==
  ASSUME IInv, NEW r \in Request, Move(r)
  PROVE  FailedForCause(r)'
<1>a. TypeOK /\ ClientAt(r) /\ HandlerAt(r) /\ FailedForCause(r)
  BY DEF IInv
<1> USE <1>a DEF FailedForCause, TypeOK, clientVars, netVars, handlerVars,
   tmpVars, LoopPc
<1>1. CASE Connect(r)
  BY <1>1 DEF Connect
<1>2. CASE SendRequest(r)
  BY <1>2 DEF SendRequest
<1>3. CASE RecvDone(r)
  BY <1>3 DEF RecvDone, ClientTakes
<1>4. CASE RecvStat(r)
  BY <1>4 DEF RecvStat, ClientTakes
<1>5. CASE RecvSerr(r)
  BY <1>5 DEF RecvSerr, ClientTakes
<1>6. CASE RecvSout(r)
  BY <1>6 DEF RecvSout, ClientTakes
<1>7. CASE RecvDoto(r)
  BY <1>7 DEF RecvDoto, ClientTakes
<1>8. CASE RecvObjChunk(r)
  BY <1>8 DEF RecvObjChunk, ClientTakes
<1>9. CASE ClientError(r)
  <2>1. ServerGone(r) \/ cut[r]
    BY <1>9, HeadTags DEF ClientError, ClientBroken
  <2>2. SUFFICES ASSUME spc[r] = "closed", ~raised[r], ~cut[r] PROVE FALSE
    BY <1>9, <2>1 DEF ClientError, ClientEnds, ServerGone
  <2>3. csent[r] = RequestLen /\ up[r] = <<>> /\ ssent[r] = ReplyLen(r)
    BY <2>2 DEF IInv, CompletedUnlessRaised
  <2>4. cpc[r] \in ClientReads /\ down[r] = <<>>
    <3>1. RequestLen > 0
      BY SizesAssumption DEF RequestLen
    <3>2. cpc[r] \notin {"connect", "send"}
      BY <2>3, <3>1, RequestFields DEF ClientAt
    <3> QED
      BY <1>9, <2>2, <2>3, <3>2, HeadTags DEF ClientError, ClientBroken
  <2>5. ssent[r] = CRead(r)
    <3>1. DownStream(r) /\ CRead(r) \in Nat /\ ~ClientGone(r)
      BY <2>4, Positions DEF IInv, ClientGone, ClientReads
    <3> QED
      BY <2>2, <2>4, <3>1 DEF DownStream
  <2>6. CRead(r) < ReplyLen(r)
    <3>1. /\ Len(snap[r]) \in Nat /\ cleft[r] \in Nat
          /\ ReplyLen(r) = 5 + Len(snap[r])
      BY ReplyFields DEF ObjFile
    <3>2. cpc[r] = "OBJ" => cleft[r] \in 1..Len(snap[r])
      BY DEF ClientAt
    <3> QED
      BY <2>4, <3>1, <3>2 DEF CRead
  <2> QED
    BY <2>3, <2>5, <2>6, ReplyFields
<1>10. CASE ClientFault(r)
  <2>1. CASE ClientTimesOut(r)
    <3>1. CASE cut[r]
      BY <2>1, <3>1 DEF ClientTimesOut, ClientEnds
    <3>2. CASE ~cut[r]
      <4>1. cpc[r] = "starved" /\ ServerGone(r)
        BY <2>1, <3>2 DEF ClientTimesOut
      <4>2. csent[r] # RequestLen
        BY <4>1, RequestFields DEF ClientAt
      <4>3. spc[r] = "closed" => raised[r]
        BY <4>2 DEF IInv, CompletedUnlessRaised
      <4> QED
        BY <2>1, <4>1, <4>3 DEF ClientTimesOut, ClientEnds, ServerGone
    <3> QED
      BY <3>1, <3>2
  <2>2. CASE ClientIOError(r) \/ Starve(r) \/ ClientKill(r)
    BY <2>2 DEF ClientIOError, Starve, ClientKill, ClientEnds
  <2> QED
    BY <1>10, <2>1, <2>2 DEF ClientFault
<1>11. CASE Accept(r)
  BY <1>11 DEF Accept
<1>12. CASE ReadHello(r)
  BY <1>12 DEF ReadHello, ServerTakes
<1>13. CASE ReadArgc(r)
  BY <1>13 DEF ReadArgc, ServerTakes
<1>14. CASE ReadArgv(r)
  BY <1>14 DEF ReadArgv, ServerTakes
<1>15. CASE CheckCommand(r)
  BY <1>15 DEF CheckCommand
<1>16. CASE ReadDoti(r)
  BY <1>16 DEF ReadDoti, ServerTakes
<1>17. CASE ReadDotiChunk(r)
  BY <1>17 DEF ReadDotiChunk, ServerTakes
<1>18. CASE ReserveObject(r)
  BY <1>18 DEF ReserveObject
<1>19. CASE ReleaseObject(r)
  BY <1>19 DEF ReleaseObject
<1>20. CASE RunCompiler(r)
  BY <1>20 DEF RunCompiler
<1>21. CASE SendReply(r)
  BY <1>21 DEF SendReply
<1>22. CASE OpenObject(r)
  BY <1>22 DEF OpenObject
<1>23. CASE HandlerError(r)
  BY <1>23 DEF HandlerError, HandlerRaises
<1>24. CASE Cleanup(r)
  BY <1>24 DEF Cleanup
<1>25. CASE HandlerFault(r)
  BY <1>25 DEF HandlerFault, HandlerIOError, HandlerRaises, UsesTmp,
     Hang, HandlerKill
<1>26. CASE Cut(r)
  BY <1>26 DEF Cut
<1> QED
  BY <1>1, <1>2, <1>3, <1>4, <1>5, <1>6, <1>7, <1>8, <1>9, <1>10, <1>11, <1>12,
     <1>13, <1>14, <1>15, <1>16, <1>17, <1>18, <1>19, <1>20, <1>21, <1>22,
     <1>23, <1>24, <1>25, <1>26 DEF Move, ClientStep, HandlerStep

(* The .ii file of the handler that moves. *)
LEMMA FileOfStep ==
  ASSUME IInv, NEW r \in Request, Move(r)
  PROVE  FileOf(r)'
<1>a. TypeOK /\ ClientAt(r) /\ HandlerAt(r) /\ FileOf(r)
  BY DEF IInv
<1> USE <1>a, SentinelAssumption DEF FileOf, TypeOK, clientVars, netVars,
   handlerVars, tmpVars, Registered, FreshDoti, Removes, LoopPc, HandlerAt,
   Before, Uploaded, SrcFile
<1>1. CASE Connect(r)
  BY <1>1 DEF Connect
<1>2. CASE SendRequest(r)
  BY <1>2 DEF SendRequest
<1>3. CASE RecvDone(r)
  BY <1>3 DEF RecvDone, ClientTakes
<1>4. CASE RecvStat(r)
  BY <1>4 DEF RecvStat, ClientTakes
<1>5. CASE RecvSerr(r)
  BY <1>5 DEF RecvSerr, ClientTakes
<1>6. CASE RecvSout(r)
  BY <1>6 DEF RecvSout, ClientTakes
<1>7. CASE RecvDoto(r)
  BY <1>7 DEF RecvDoto, ClientTakes
<1>8. CASE RecvObjChunk(r)
  BY <1>8 DEF RecvObjChunk, ClientTakes
<1>9. CASE ClientError(r)
  BY <1>9 DEF ClientError, ClientEnds
<1>10. CASE ClientFault(r)
  BY <1>10 DEF ClientFault, ClientIOError, Starve, ClientTimesOut, ClientKill,
               ClientEnds
<1>11. CASE Accept(r)
  BY <1>11 DEF Accept
<1>12. CASE ReadHello(r)
  BY <1>12 DEF ReadHello, ServerTakes
<1>13. CASE ReadArgc(r)
  BY <1>13 DEF ReadArgc, ServerTakes
<1>14. CASE ReadArgv(r)
  BY <1>14 DEF ReadArgv, ServerTakes
<1>15. CASE CheckCommand(r)
  BY <1>15 DEF CheckCommand
<1>16. CASE ReadDoti(r)
  BY <1>16, UpNumbers, SizesAssumption DEF ReadDoti, ServerTakes
<1>17. CASE ReadDotiChunk(r)
  <2>1. /\ doti[r] \in DotiName /\ dotis[doti[r]] \in SrcFile
        /\ dotis[doti[r]].of = r /\ dotis[doti[r]].n = SrcLen - sleft[r]
        /\ sleft[r] \in 1..SrcLen
    BY <1>17 DEF ReadDotiChunk, ServerTakes
  <2>2. /\ SrcLen - (sleft[r] - 1) \in Nat
        /\ SrcLen - sleft[r] + 1 = SrcLen - (sleft[r] - 1)
    BY <2>1, SizesAssumption
  <2>5. dotis'[doti[r]] = [dotis[doti[r]] EXCEPT !.n = SrcLen - (sleft[r] - 1)]
    BY <1>17, <2>1, <2>2, SentinelAssumption DEF ReadDotiChunk, Written
  <2>4. dotis'[doti[r]].of = r /\ dotis'[doti[r]].n = SrcLen - (sleft[r] - 1)
        /\ dotis'[doti[r]] \in SrcFile
    BY <2>1, <2>2, <2>5, SrcGrow
  <2>3. doti'[r] = doti[r] /\ sleft'[r] = sleft[r] - 1
        /\ cleanup'[r] = Registered(r, sleft[r] - 1)
    BY <1>17 DEF ReadDotiChunk
  <2> QED
    <3>1. spc[r] = "BLK" /\ "doti" \notin cleanup[r] /\ sleft[r] \in Nat
          /\ (spc'[r] = "BLK" <=> sleft[r] - 1 > 0)
      BY <1>17, <2>1, SizesAssumption DEF ReadDotiChunk, ServerTakes
    <3> QED
      BY <2>1, <2>3, <2>4, <3>1, SizesAssumption
<1>18. CASE ReserveObject(r)
  BY <1>18 DEF ReserveObject
<1>19. CASE ReleaseObject(r)
  BY <1>19 DEF ReleaseObject
<1>20. CASE RunCompiler(r)
  BY <1>20 DEF RunCompiler
<1>21. CASE SendReply(r)
  BY <1>21 DEF SendReply
<1>22. CASE OpenObject(r)
  BY <1>22 DEF OpenObject
<1>23. CASE HandlerError(r)
  BY <1>23 DEF HandlerError, HandlerRaises, HandlerBroken, ServerReads
<1>24. CASE Cleanup(r)
  BY <1>24 DEF Cleanup
<1>25. CASE HandlerFault(r)
  BY <1>25 DEF HandlerFault, HandlerIOError, HandlerRaises, UsesTmp,
     Hang, HandlerKill, ServerGone
<1>26. CASE Cut(r)
  BY <1>26 DEF Cut
<1> QED
  BY <1>1, <1>2, <1>3, <1>4, <1>5, <1>6, <1>7, <1>8, <1>9, <1>10, <1>11, <1>12,
     <1>13, <1>14, <1>15, <1>16, <1>17, <1>18, <1>19, <1>20, <1>21, <1>22,
     <1>23, <1>24, <1>25, <1>26 DEF Move, ClientStep, HandlerStep

(* The object of the handler that moves. *)
LEMMA ObjectOfStep ==
  ASSUME IInv, NEW r \in Request, Move(r)
  PROVE  ObjectOf(r)'
<1>a. TypeOK /\ ClientAt(r) /\ HandlerAt(r) /\ ObjectOf(r)
  BY DEF IInv
<1> USE <1>a, SentinelAssumption DEF ObjectOf, TypeOK, clientVars, netVars,
   handlerVars, tmpVars, SharesObject, Removes, HandlerAt, LoopPc, Before,
      Uploaded
<1>1. CASE Connect(r)
  BY <1>1 DEF Connect
<1>2. CASE SendRequest(r)
  BY <1>2 DEF SendRequest
<1>3. CASE RecvDone(r)
  BY <1>3 DEF RecvDone, ClientTakes
<1>4. CASE RecvStat(r)
  BY <1>4 DEF RecvStat, ClientTakes
<1>5. CASE RecvSerr(r)
  BY <1>5 DEF RecvSerr, ClientTakes
<1>6. CASE RecvSout(r)
  BY <1>6 DEF RecvSout, ClientTakes
<1>7. CASE RecvDoto(r)
  BY <1>7 DEF RecvDoto, ClientTakes
<1>8. CASE RecvObjChunk(r)
  BY <1>8 DEF RecvObjChunk, ClientTakes
<1>9. CASE ClientError(r)
  BY <1>9 DEF ClientError, ClientEnds
<1>10. CASE ClientFault(r)
  BY <1>10 DEF ClientFault, ClientIOError, Starve, ClientTimesOut, ClientKill,
               ClientEnds
<1>11. CASE Accept(r)
  BY <1>11 DEF Accept
<1>12. CASE ReadHello(r)
  BY <1>12 DEF ReadHello, ServerTakes
<1>13. CASE ReadArgc(r)
  BY <1>13 DEF ReadArgc, ServerTakes
<1>14. CASE ReadArgv(r)
  BY <1>14 DEF ReadArgv, ServerTakes
<1>15. CASE CheckCommand(r)
  BY <1>15 DEF CheckCommand
<1>16. CASE ReadDoti(r)
  BY <1>16 DEF ReadDoti, ServerTakes
<1>17. CASE ReadDotiChunk(r)
  BY <1>17 DEF ReadDotiChunk, ServerTakes
<1>18. CASE ReserveObject(r)
  BY <1>18 DEF ReserveObject
<1>19. CASE ReleaseObject(r)
  BY <1>19 DEF ReleaseObject
<1>20. CASE RunCompiler(r)
  <2>1. dotis[doti[r]] \in SrcFile /\ dotis[doti[r]].of = r
        /\ dotis[doti[r]].n = SrcLen
    BY <1>20 DEF RunCompiler, IInv, FileOf
  <2>2. dotis[doti[r]] = Source(r)
    BY <2>1 DEF SrcFile, Source
  <2> QED
    BY <1>20, <2>2 DEF RunCompiler
<1>21. CASE SendReply(r)
  BY <1>21 DEF SendReply
<1>22. CASE OpenObject(r)
  BY <1>22 DEF OpenObject
<1>23. CASE HandlerError(r)
  BY <1>23 DEF HandlerError, HandlerRaises
<1>24. CASE Cleanup(r)
  BY <1>24 DEF Cleanup
<1>25. CASE HandlerFault(r)
  BY <1>25 DEF HandlerFault, HandlerIOError, HandlerRaises, UsesTmp,
     Hang, HandlerKill
<1>26. CASE Cut(r)
  BY <1>26 DEF Cut
<1> QED
  BY <1>1, <1>2, <1>3, <1>4, <1>5, <1>6, <1>7, <1>8, <1>9, <1>10, <1>11, <1>12,
     <1>13, <1>14, <1>15, <1>16, <1>17, <1>18, <1>19, <1>20, <1>21, <1>22,
     <1>23, <1>24, <1>25, <1>26 DEF Move, ClientStep, HandlerStep

(* Every .ii file has one owner. *)
LEMMA OwnerOfStep ==
  ASSUME IInv, NEW r \in Request, Move(r), NEW d \in DotiName
  PROVE  OwnerOf(d)'
<1>a. TypeOK /\ HandlerAt(r) /\ FileOf(r) /\ OwnerOf(d)
  BY DEF IInv
<1> USE <1>a, SentinelAssumption DEF OwnerOf, TypeOK, clientVars, netVars,
   handlerVars, tmpVars, Registered, FreshDoti, Removes, LoopPc, HandlerAt,
   Before, Uploaded, SrcFile, FileOf
<1>1. CASE Connect(r)
  BY <1>1 DEF Connect
<1>2. CASE SendRequest(r)
  BY <1>2 DEF SendRequest
<1>3. CASE RecvDone(r)
  BY <1>3 DEF RecvDone, ClientTakes
<1>4. CASE RecvStat(r)
  BY <1>4 DEF RecvStat, ClientTakes
<1>5. CASE RecvSerr(r)
  BY <1>5 DEF RecvSerr, ClientTakes
<1>6. CASE RecvSout(r)
  BY <1>6 DEF RecvSout, ClientTakes
<1>7. CASE RecvDoto(r)
  BY <1>7 DEF RecvDoto, ClientTakes
<1>8. CASE RecvObjChunk(r)
  BY <1>8 DEF RecvObjChunk, ClientTakes
<1>9. CASE ClientError(r)
  BY <1>9 DEF ClientError, ClientEnds
<1>10. CASE ClientFault(r)
  <2>1. UNCHANGED <<dotis, doti, spc>>
    BY <1>10 DEF ClientFault, ClientIOError, Starve, ClientTimesOut,
                 ClientKill, ClientEnds
  <2> QED
    BY <2>1
<1>11. CASE Accept(r)
  BY <1>11 DEF Accept
<1>12. CASE ReadHello(r)
  BY <1>12 DEF ReadHello, ServerTakes
<1>13. CASE ReadArgc(r)
  BY <1>13 DEF ReadArgc, ServerTakes
<1>14. CASE ReadArgv(r)
  BY <1>14 DEF ReadArgv, ServerTakes
<1>15. CASE CheckCommand(r)
  BY <1>15 DEF CheckCommand
<1>16. CASE ReadDoti(r)
  <2>1. PICK e \in DotiName :
          /\ FreshDoti(e)
          /\ doti' = [doti EXCEPT ![r] = e]
          /\ dotis' = [dotis EXCEPT ![e] = [of |-> r, n |-> 0]]
    BY <1>16 DEF ReadDoti
  <2>2. /\ spc'[r] # "closed"
        /\ \A q \in Request \ {r} : spc'[q] = spc[q] /\ doti'[q] = doti[q]
    BY <1>16, <2>1 DEF ReadDoti, ServerTakes
  <2>3. /\ dotis'[e] = [of |-> r, n |-> 0] /\ doti'[r] = e
        /\ \A c \in DotiName : c # e => dotis'[c] = dotis[c]
    BY <2>1
  <2>4. CASE d = e
    BY <2>2, <2>3, <2>4
  <2>5. CASE d # e /\ dotis[d] # Absent
    <3>1. dotis[d].of \in Request /\ dotis'[d] = dotis[d]
      BY <2>3, <2>5
    <3>2. dotis[d].of # r
      BY <1>16, <2>5, <3>1 DEF ReadDoti, ServerTakes
    <3> QED
      BY <2>2, <2>5, <3>1, <3>2
  <2> QED
    BY <2>3, <2>4, <2>5
<1>17. CASE ReadDotiChunk(r)
  <2>1. /\ doti[r] \in DotiName /\ dotis[doti[r]] \in SrcFile
        /\ dotis[doti[r]].of = r /\ spc[r] = "BLK" /\ spc'[r] # "closed"
    BY <1>17 DEF ReadDotiChunk, ServerTakes
  <2>2. dotis'[doti[r]].of = r /\ (d # doti[r] => dotis'[d] = dotis[d])
    BY <1>17, <2>1, SentinelAssumption DEF ReadDotiChunk, Written
  <2>3. /\ doti' = doti
        /\ \A q \in Request : spc'[q] = "closed" => spc[q] = "closed"
    BY <1>17 DEF ReadDotiChunk, ServerTakes
  <2> QED
    BY <2>1, <2>2, <2>3
<1>18. CASE ReserveObject(r)
  BY <1>18 DEF ReserveObject
<1>19. CASE ReleaseObject(r)
  BY <1>19 DEF ReleaseObject
<1>20. CASE RunCompiler(r)
  BY <1>20 DEF RunCompiler
<1>21. CASE SendReply(r)
  BY <1>21 DEF SendReply
<1>22. CASE OpenObject(r)
  BY <1>22 DEF OpenObject
<1>23. CASE HandlerError(r)
  BY <1>23 DEF HandlerError, HandlerRaises
<1>24. CASE Cleanup(r)
  BY <1>24 DEF Cleanup
<1>25. CASE HandlerFault(r)
  BY <1>25 DEF HandlerFault, HandlerIOError, HandlerRaises, UsesTmp,
     Hang, HandlerKill
<1>26. CASE Cut(r)
  BY <1>26 DEF Cut
<1> QED
  BY <1>1, <1>2, <1>3, <1>4, <1>5, <1>6, <1>7, <1>8, <1>9, <1>10, <1>11, <1>12,
     <1>13, <1>14, <1>15, <1>16, <1>17, <1>18, <1>19, <1>20, <1>21, <1>22,
     <1>23, <1>24, <1>25, <1>26 DEF Move, ClientStep, HandlerStep

(* The files of a handler that does not move. *)
LEMMA DotiFrame ==
  ASSUME IInv, NEW r \in Request, Move(r), NEW d \in DotiName,
         dotis[d] # Absent, dotis[d].of # r
  PROVE  dotis'[d] = dotis[d]
<1> USE DEF tmpVars
<1>1. TypeOK /\ HandlerAt(r) /\ FileOf(r) /\ OwnerOf(d)
  BY DEF IInv
<1>2. CASE ReadDoti(r)
  BY <1>1, <1>2 DEF ReadDoti, FreshDoti, TypeOK
<1>3. CASE ReadDotiChunk(r)
  <2>1. doti[r] # d
    BY <1>1, <1>3 DEF ReadDotiChunk, ServerTakes, HandlerAt, FileOf
  <2> QED
    BY <1>1, <1>3, <2>1 DEF ReadDotiChunk, TypeOK
<1>4. CASE Cleanup(r)
  <2>1. Removes(r, "doti") => doti[r] # d
    BY <1>1, <1>4 DEF Cleanup, Removes, HandlerAt, FileOf
  <2> QED
    BY <1>4, <2>1 DEF Cleanup
<1>5. CASE ~(ReadDoti(r) \/ ReadDotiChunk(r) \/ Cleanup(r))
  <2>1. dotis' = dotis
    <3>1. CASE ClientStep(r) \/ ClientFault(r) \/ Cut(r)
      BY <3>1 DEF ClientStep, Connect, SendRequest, RecvDone, RecvStat,
                  RecvSerr, RecvSout, RecvDoto, RecvObjChunk, ClientTakes,
                  ClientError, ClientFault, ClientIOError, Starve,
                  ClientTimesOut, ClientKill, ClientEnds, Cut
    <3>2. CASE HandlerStep(r) \/ HandlerFault(r)
      BY <1>5, <3>2
         DEF HandlerStep, Accept, ReadHello, ReadArgc, ReadArgv, CheckCommand,
             ReserveObject, ReleaseObject, RunCompiler, SendReply, OpenObject,
             HandlerError, HandlerRaises, HandlerFault, HandlerIOError, Hang,
             HandlerKill
    <3> QED
      BY <3>1, <3>2 DEF Move
  <2> QED
    BY <2>1
<1> QED
  BY <1>2, <1>3, <1>4, <1>5

(* A handler touches no object but the one of its own name. *)
LEMMA ObjFrame ==
  ASSUME IInv, NEW r \in Request, Move(r)
  PROVE  /\ obj'[r] = obj[r] \/ obj[r] = Absent
         /\ \A o \in ObjName : o # obj'[r] => objs'[o] = objs[o]
<1> USE DEF tmpVars, clientVars, netVars, handlerVars
<1>1. TypeOK /\ HandlerAt(r)
  BY DEF IInv
<1>2. CASE ReserveObject(r)
  BY <1>1, <1>2 DEF ReserveObject, HandlerAt, TypeOK
<1>3. CASE ReleaseObject(r) \/ RunCompiler(r)
  BY <1>1, <1>3 DEF ReleaseObject, RunCompiler, TypeOK
<1>4. CASE Cleanup(r)
  BY <1>4 DEF Cleanup
<1>5. CASE ~(ReserveObject(r) \/ ReleaseObject(r) \/ RunCompiler(r)
               \/ Cleanup(r))
  <2>1. objs' = objs /\ obj' = obj
    <3>1. CASE ClientStep(r) \/ ClientFault(r) \/ Cut(r)
      BY <3>1 DEF ClientStep, Connect, SendRequest, RecvDone, RecvStat,
                  RecvSerr, RecvSout, RecvDoto, RecvObjChunk, ClientTakes,
                  ClientError, ClientFault, ClientIOError, Starve,
                  ClientTimesOut, ClientKill, ClientEnds, Cut
    <3>2. CASE HandlerStep(r) \/ HandlerFault(r)
      BY <1>5, <3>2
         DEF HandlerStep, Accept, ReadHello, ReadArgc, ReadArgv, CheckCommand,
             ReadDoti, ReadDotiChunk, ServerTakes, SendReply, OpenObject,
             HandlerError, HandlerRaises, HandlerFault, HandlerIOError, Hang,
             HandlerKill
    <3> QED
      BY <3>1, <3>2 DEF Move
  <2> QED
    BY <2>1
<1> QED
  BY <1>2, <1>3, <1>4, <1>5

(* A step that leaves an object under a name leaves its handler holding it, *)
(* or found it there and held by somebody else.                             *)
LEMMA ObjectKept ==
  ASSUME IInv, NEW r \in Request, Move(r), NEW o \in ObjName,
         objs'[o] # Absent
  PROVE  HoldsObject(r, o)' \/ (objs[o] # Absent /\ ~HoldsObject(r, o))
<1> USE DEF tmpVars, clientVars, netVars, handlerVars, HoldsObject
<1>a. TypeOK /\ HandlerAt(r)
  BY DEF IInv
<1>b. obj[r] = o => o # Absent
  BY <1>a, SentinelAssumption DEF TypeOK
<1>1. CASE ReserveObject(r)
  <2>1. obj[r] = Absent
    BY <1>a, <1>1 DEF ReserveObject, HandlerAt
  <2>2. PICK x \in ObjName : /\ obj' = [obj EXCEPT ![r] = x]
                             /\ objs' = [objs EXCEPT ![x] = <<>>]
    BY <1>1 DEF ReserveObject
  <2>3. spc'[r] = "drawn"
    BY <1>a, <1>1 DEF ReserveObject, TypeOK
  <2> QED
    BY <1>a, <1>b, <2>1, <2>2, <2>3 DEF TypeOK
<1>2. CASE ReleaseObject(r)
  BY <1>a, <1>2 DEF ReleaseObject, TypeOK
<1>3. CASE RunCompiler(r)
  BY <1>a, <1>3 DEF RunCompiler, TypeOK, HandlerAt, Uploaded
<1>4. CASE Cleanup(r)
  BY <1>a, <1>4 DEF Cleanup, Removes, TypeOK
<1>5. CASE HandlerError(r)
  <2>1. /\ objs' = objs /\ obj' = obj /\ cleanup' = cleanup
        /\ spc'[r] = "cleanup"
    BY <1>a, <1>5 DEF HandlerError, HandlerRaises, TypeOK
  <2>2. spc[r] = "drawn" /\ obj[r] = o => FALSE
    BY <1>5, <2>1 DEF HandlerError, HandlerBroken, ServerReads
  <2>3. spc[r] # "killed"
    BY <1>5 DEF HandlerError, HandlerBroken, ServerReads
  <2> QED
    BY <2>1, <2>2, <2>3
<1>6. CASE HandlerFault(r)
  <2>1. objs' = objs /\ obj' = obj /\ cleanup' = cleanup
    BY <1>6 DEF HandlerFault, HandlerIOError, HandlerRaises, Hang, HandlerKill
  <2>2. CASE HandlerIOError(r) \/ Hang(r)
    <3>1. spc[r] \notin {"drawn", "killed"} /\ spc'[r] \in {"cleanup", "hung"}
      BY <1>a, <2>2 DEF HandlerIOError, HandlerRaises, UsesTmp, Hang, TypeOK
    <3> QED
      BY <2>1, <3>1
  <2>3. CASE HandlerKill(r)
    <3>1. spc'[r] = "killed"
      BY <1>a, <2>3 DEF HandlerKill, TypeOK
    <3> QED
      BY <2>1, <3>1
  <2> QED
    BY <1>6, <2>2, <2>3 DEF HandlerFault
<1>7. CASE SendReply(r) \/ OpenObject(r)
  <2>1. /\ objs' = objs /\ obj' = obj /\ cleanup' = cleanup
        /\ spc[r] \notin {"drawn", "killed"}
    BY <1>7 DEF SendReply, OpenObject
  <2>2. spc'[r] # "closed"
    BY <1>a, <1>7 DEF SendReply, OpenObject, TypeOK
  <2> QED
    BY <2>1, <2>2
<1>8. CASE ReadHello(r) \/ ReadArgc(r) \/ ReadArgv(r) \/ Accept(r)
             \/ CheckCommand(r) \/ ReadDoti(r) \/ ReadDotiChunk(r)
  <2>1. /\ objs' = objs /\ spc[r] \in Before \cup {"BLK"}
    BY <1>8 DEF ReadHello, ReadArgc, ReadArgv, Accept, CheckCommand, ReadDoti,
       ReadDotiChunk, ServerTakes, Before
  <2>2. obj[r] = Absent
    BY <1>a, <2>1 DEF HandlerAt
  <2> QED
    BY <1>b, <2>1, <2>2
<1>9. CASE ClientStep(r) \/ ClientFault(r) \/ Cut(r)
  BY <1>9 DEF ClientStep, Connect, SendRequest, RecvDone, RecvStat, RecvSerr,
     RecvSout, RecvDoto, RecvObjChunk, ClientTakes, ClientError, ClientFault,
     ClientIOError, Starve, ClientTimesOut, ClientKill, ClientEnds, Cut
<1> QED
  BY <1>1, <1>2, <1>3, <1>4, <1>5, <1>6, <1>7, <1>8, <1>9 DEF Move, HandlerStep

(* Every file with an object's name has a handler that will remove it. *)
LEMMA ObjectHeldStep ==
  ASSUME IInv, NEW r \in Request, Move(r), NEW o \in ObjName
  PROVE  ObjectHeld(o)'
<1>1. SUFFICES ASSUME objs'[o] # Absent
               PROVE  \E q \in Request : HoldsObject(q, o)'
  BY DEF ObjectHeld
<1>2. CASE HoldsObject(r, o)'
  BY <1>2
<1>3. CASE objs[o] # Absent /\ ~HoldsObject(r, o)
  <2>1. PICK q \in Request : HoldsObject(q, o)
    BY <1>3 DEF IInv, ObjectHeld
  <2>2. Same(q)
    BY <1>3, <2>1, OthersSame DEF IInv
  <2> QED
    BY <2>1, <2>2 DEF HoldsObject, Same
<1> QED
  BY <1>1, <1>2, <1>3, ObjectKept

(* So what the invariant says of the files of the others is kept. *)
LEMMA FilesOfOthers ==
  ASSUME IInv, NEW r \in Request, Move(r), NEW q \in Request \ {r}
  PROVE  FileOf(q)' /\ ObjectOf(q)'
<1>1. Same(q)
  BY OthersSame DEF IInv
<1>2. TypeOK /\ FileOf(q) /\ ObjectOf(q) /\ HandlerAt(q)
  BY DEF IInv
<1>3. FileOf(q)'
  <2>1. SUFFICES ASSUME doti[q] # Absent, spc[q] # "closed"
                 PROVE  dotis'[doti[q]] = dotis[doti[q]]
    BY <1>1, <1>2 DEF FileOf, Same
  <2>2. doti[q] \in DotiName
    BY <1>2, <2>1 DEF TypeOK
  <2> QED
    BY <1>2, <2>1, <2>2, DotiFrame DEF FileOf
<1>4. ObjectOf(q)'
  <2>1. SUFFICES ASSUME ~SharesObject(q)', obj[q] # Absent
                 PROVE  ~SharesObject(q) /\ objs'[obj[q]] = objs[obj[q]]
    BY <1>1, <1>2 DEF ObjectOf, Same, HandlerAt, Before, Uploaded, Source
  <2>2. obj'[r] # obj[q]
    BY <1>1, <2>1 DEF SharesObject, Same
  <2>3. objs'[obj[q]] = objs[obj[q]]
    BY <1>2, <2>1, <2>2, ObjFrame DEF TypeOK
  <2>4. ASSUME NEW p \in Request \ {q} PROVE obj[p] # obj[q]
    <3>1. CASE p = r
      BY <2>1, <2>2, <3>1, ObjFrame
    <3>2. CASE p # r
      <4>1. obj'[p] = obj[p] /\ obj'[q] = obj[q]
        BY <1>1, <3>2, OthersSame DEF IInv, Same
      <4> QED
        BY <2>1, <4>1 DEF SharesObject
    <3> QED
      BY <3>1, <3>2
  <2> QED
    BY <2>3, <2>4 DEF SharesObject
<1> QED
  BY <1>3, <1>4

(* Nobody moves: the last step of a system that has ended, or a stutter. *)
LEMMA Stutter ==
  ASSUME IInv, UNCHANGED vars PROVE IInv'
<1> USE DEF vars, clientVars, netVars, handlerVars, tmpVars
<1>1. TypeOK'
  BY DEF IInv, TypeOK
<1>2. ASSUME NEW q \in Request
      PROVE  /\ ClientAt(q)' /\ HandlerAt(q)' /\ UpStream(q)'
             /\ DownStream(q)' /\ CompletedUnlessRaised(q)' /\ Told(q)'
             /\ FailedForCause(q)'
  <2>1. Same(q)
    BY DEF Same
  <2> QED
    BY <2>1, SameKeeps DEF IInv
<1>3. ASSUME NEW q \in Request PROVE FileOf(q)' /\ ObjectOf(q)'
  BY DEF IInv, FileOf, ObjectOf, SharesObject, Source
<1>4. ASSUME NEW d \in DotiName PROVE OwnerOf(d)'
  BY DEF IInv, OwnerOf
<1>5. ASSUME NEW o \in ObjName PROVE ObjectHeld(o)'
  BY DEF IInv, ObjectHeld, HoldsObject
<1> QED
  BY <1>1, <1>2, <1>3, <1>4, <1>5 DEF IInv

(* The invariant holds at first, when nothing has been sent or created. *)
LEMMA InitInv == Init => IInv
<1> SUFFICES ASSUME Init PROVE IInv
  OBVIOUS
<1>1. TypeOK
  BY RequestFields DEF Init, TypeOK, ObjFile
<1>2. ASSUME NEW r \in Request
      PROVE  /\ ClientAt(r) /\ HandlerAt(r) /\ CompletedUnlessRaised(r)
             /\ Told(r) /\ FailedForCause(r)
  BY DEF Init, ClientAt, HandlerAt, CompletedUnlessRaised, Told,
         FailedForCause, ClientReads, Before, Uploaded
<1>3. ASSUME NEW r \in Request PROVE UpStream(r) /\ DownStream(r)
  <2>1. SRead(r) = 0 /\ CRead(r) = 0
    BY DEF Init, SRead, CRead
  <2> QED
    BY <2>1 DEF Init, UpStream, DownStream
<1>4. ASSUME NEW r \in Request PROVE FileOf(r) /\ ObjectOf(r)
  BY DEF Init, FileOf, ObjectOf
<1>5. ASSUME NEW d \in DotiName PROVE OwnerOf(d)
  BY DEF Init, OwnerOf
<1>6. ASSUME NEW o \in ObjName PROVE ObjectHeld(o)
  BY DEF Init, ObjectHeld
<1> QED
  BY <1>1, <1>2, <1>3, <1>4, <1>5, <1>6 DEF IInv

(* Every step keeps it. *)
LEMMA NextInv == IInv /\ [Next]_vars => IInv'
<1> SUFFICES ASSUME IInv, [Next]_vars PROVE IInv'
  OBVIOUS
<1>1. CASE UNCHANGED vars
  BY <1>1, Stutter
<1>2. ASSUME NEW r \in Request, Move(r) PROVE IInv'
  <2>1. TypeOK'
    BY <1>2, TypeOKStep
  <2>2. ASSUME NEW q \in Request
        PROVE  /\ ClientAt(q)' /\ HandlerAt(q)' /\ UpStream(q)'
               /\ DownStream(q)' /\ CompletedUnlessRaised(q)' /\ Told(q)'
               /\ FailedForCause(q)'
    <3>1. CASE q = r
      BY <1>2, <3>1, ClientAtStep, HandlerAtStep, UpStreamStep,
         DownStreamStep, CompletedUnlessRaisedStep, ToldStep,
         FailedForCauseStep
    <3>2. CASE q # r
      <4>1. Same(q)
        BY <1>2, <3>2, OthersSame DEF IInv
      <4> QED
        BY <4>1, SameKeeps DEF IInv
    <3> QED
      BY <3>1, <3>2
  <2>3. ASSUME NEW q \in Request PROVE FileOf(q)' /\ ObjectOf(q)'
    BY <1>2, FileOfStep, ObjectOfStep, FilesOfOthers
  <2>4. ASSUME NEW d \in DotiName PROVE OwnerOf(d)'
    BY <1>2, OwnerOfStep
  <2>5. ASSUME NEW o \in ObjName PROVE ObjectHeld(o)'
    BY <1>2, ObjectHeldStep
  <2> QED
    BY <2>1, <2>2, <2>3, <2>4, <2>5 DEF IInv
<1> QED
  BY <1>1, <1>2 DEF Next, AllEnded, Move

-----------------------------------------------------------------------------
(* IInv holds in every state a system of any number of requests, any sizes  *)
(* and any buffers can reach.                                               *)
THEOREM Invariance == Spec => []IInv
BY InitInv, NextInv, PTL DEF Spec

(* Every variable keeps its type. *)
THEOREM TypeCorrect == Spec => []TypeOK
<1>1. IInv => TypeOK
  BY DEF IInv
<1> QED
  BY <1>1, Invariance, PTL

(* Framing: neither side ever finds a field out of place (read_token of the *)
(* client, the name checks of the handler).                                 *)
THEOREM AlwaysAligned == Spec => []Aligned
<1>1. IInv => Aligned
  BY HeadTags DEF Aligned
<1> QED
  BY <1>1, Invariance, PTL

(* A client told of success holds the object of its own source, complete,   *)
(* unless another handler drew the name of its handler's object (_compile). *)
THEOREM AlwaysFaithful == Spec => []FaithfulUnlessShared
<1>1. IInv => FaithfulUnlessShared
  BY DEF IInv, FaithfulUnlessShared, Told, ObjectOf
<1> QED
  BY <1>1, Invariance, PTL

(* The client's object path is only touched after a successful compilation. *)
THEOREM OldObjectKept == Spec => []OverwrittenOnlyAfterSuccess
<1>1. IInv => OverwrittenOnlyAfterSuccess
  BY DEF IInv, OverwrittenOnlyAfterSuccess, Told
<1> QED
  BY <1>1, Invariance, PTL

(* A client is refused, disconnected or timed out only if its handler met   *)
(* an exception or was killed, or the connection was lost.                  *)
THEOREM FailuresHaveCauses == Spec => []NoSpuriousFailure
<1>1. IInv => NoSpuriousFailure
  BY DEF IInv, NoSpuriousFailure, FailedForCause
<1> QED
  BY <1>1, Invariance, PTL

(* Handlers that end by themselves leave uploads that were cut short, and   *)
(* nothing else: no complete upload and no object.                          *)
THEOREM OnlyPartialUploadsLeft == Spec => []LeftoverIsPartialUpload
<1>1. IInv => LeftoverIsPartialUpload
  BY DEF IInv, LeftoverIsPartialUpload, OwnerOf, ObjectHeld, HoldsObject
<1> QED
  BY <1>1, Invariance, PTL

-----------------------------------------------------------------------------
(* The refinement *)

(* What a build tool sees of the others' requests does not change. *)
LEMMA OthersLookSame ==
  ASSUME TypeOK, NEW r \in Request, Move(r), NEW q \in Request \ {r}
  PROVE  Verdict(q)' = Verdict(q) /\ Outcome(q)' = Outcome(q)
BY OthersSame DEF Same, Verdict, Outcome

(* A mapped function changes at one request at most. *)
LEMMA LooksChange ==
  ASSUME TypeOK, NEW r \in Request, Move(r)
  PROVE  /\ Verdict(r)' = Verdict(r) =>
              [q \in Request |-> Verdict(q)]' = [q \in Request |-> Verdict(q)]
         /\ Outcome(r)' = Outcome(r) =>
              [q \in Request |-> Outcome(q)]' = [q \in Request |-> Outcome(q)]
         /\ [q \in Request |-> Verdict(q)]' =
              [[q \in Request |-> Verdict(q)] EXCEPT ![r] = Verdict(r)']
         /\ [q \in Request |-> Outcome(q)]' =
              [[q \in Request |-> Outcome(q)] EXCEPT ![r] = Outcome(r)']
<1>1. \A q \in Request :
        q # r => Verdict(q)' = Verdict(q) /\ Outcome(q)' = Outcome(q)
  BY OthersLookSame
<1> QED
  BY <1>1

(* A verdict is given once, by the compiler. *)
LEMMA VerdictStep ==
  ASSUME IInv, NEW r \in Request, Move(r), Verdict(r)' # Verdict(r)
  PROVE  /\ Verdict(r) = "none" /\ Verdict(r)' \in {"ok", "bad"}
         /\ Outcome(r)' = Outcome(r)
<1>a. TypeOK /\ HandlerAt(r)
  BY DEF IInv
<1>1. CASE RunCompiler(r)
  <2>1. ret[r] = -1 /\ ret'[r] \in {0, 1} /\ UNCHANGED <<cpc, cstat>>
    BY <1>a, <1>1 DEF RunCompiler, HandlerAt, Before, TypeOK, clientVars
  <2> QED
    BY <2>1 DEF Verdict, Outcome
<1>2. CASE ~RunCompiler(r)
  <2> USE DEF clientVars, netVars, handlerVars, tmpVars
  <2>1. ASSUME ClientStep(r) \/ ClientFault(r) \/ Cut(r) PROVE UNCHANGED ret
    BY <2>1 DEF ClientStep, Connect, SendRequest, RecvDone, RecvStat, RecvSerr,
       RecvSout, RecvDoto, RecvObjChunk, ClientTakes, ClientError,
       ClientFault, ClientIOError, Starve, ClientTimesOut, ClientKill,
       ClientEnds, Cut
  <2>2. ASSUME HandlerStep(r) \/ HandlerFault(r) PROVE UNCHANGED ret
    BY <1>2, <2>2 DEF HandlerStep, Accept, ReadHello, ReadArgc, ReadArgv,
       CheckCommand, ReadDoti, ReadDotiChunk, ReserveObject, ReleaseObject,
       SendReply, OpenObject, HandlerError, HandlerRaises, Cleanup,
       HandlerFault, HandlerIOError, Hang, HandlerKill, ServerTakes
  <2> QED
    BY <2>1, <2>2 DEF Move, Verdict
<1> QED
  BY <1>1, <1>2

(* An outcome is one too, is the client's doing, and agrees with the        *)
(* verdict.                                                                 *)
LEMMA OutcomeStep ==
  ASSUME IInv, NEW r \in Request, Move(r), Outcome(r)' # Outcome(r)
  PROVE  /\ Verdict(r)' = Verdict(r) /\ Outcome(r) = "waiting"
         /\ \/ Outcome(r)' = "object" /\ Verdict(r) = "ok"
            \/ Outcome(r)' = "diagnostics" /\ Verdict(r) = "bad"
            \/ Outcome(r)' = "error"
<1>a. TypeOK /\ Told(r)
  BY DEF IInv
<1> USE <1>a DEF Verdict, Outcome, TypeOK, clientVars, netVars, handlerVars,
   tmpVars
<1>1. ASSUME HandlerStep(r) \/ HandlerFault(r) \/ Cut(r)
      PROVE  UNCHANGED <<cpc, cstat>>
  BY <1>1 DEF HandlerStep, Accept, ReadHello, ReadArgc, ReadArgv,
     CheckCommand, ReadDoti, ReadDotiChunk, ReserveObject, ReleaseObject,
     RunCompiler, SendReply, OpenObject, HandlerError, HandlerRaises, Cleanup,
     HandlerFault, HandlerIOError, Hang, HandlerKill, ServerTakes, Cut
<1>2. CASE Connect(r) \/ SendRequest(r)
  BY <1>2 DEF Connect, SendRequest, LoopPc
<1>3. CASE RecvDone(r) \/ RecvStat(r) \/ RecvSerr(r)
  BY <1>3 DEF RecvDone, RecvStat, RecvSerr, ClientTakes
<1>4. CASE RecvSout(r)
  BY <1>4 DEF RecvSout, ClientTakes, WantsObject, Told
<1>5. CASE RecvDoto(r) \/ RecvObjChunk(r)
  BY <1>5 DEF RecvDoto, RecvObjChunk, ClientTakes, LoopPc, Told
<1>6. CASE ClientError(r) \/ ClientFault(r)
  BY <1>6 DEF ClientError, ClientFault, ClientIOError, UsesOwnFiles, Starve,
     ClientTimesOut, ClientKill, ClientEnds, ClientBroken, ClientReads,
     ClientGone
<1> QED
  BY <1>1, <1>2, <1>3, <1>4, <1>5, <1>6 DEF Move, ClientStep

(* What a build tool sees of the sessions is RemoteCompile: at most one      *)
(* verdict and one outcome for a request, which agree (DccClient and         *)
(* Distccd.handle).  That a client is answered, TLC checks.                  *)
THEOREM IsRemoteCompile == Spec => KeepsPromise
<1>1. Init => Promise!Init
  BY DEF Init, Promise!Init, Verdict, Outcome
<1>2. ASSUME IInv, NEW r \in Request, Move(r)
      PROVE  Promise!Next \/ UNCHANGED Promise!vars
  <2>a. TypeOK
    BY <1>2 DEF IInv
  <2>1. CASE Verdict(r)' # Verdict(r)
    <3>1. Promise!Compile(r)
      BY <1>2, <2>a, <2>1, VerdictStep, LooksChange DEF Promise!Compile
    <3> QED
      BY <3>1 DEF Promise!Next
  <2>2. CASE Outcome(r)' # Outcome(r)
    <3>1. Promise!Answer(r)
      BY <1>2, <2>a, <2>2, OutcomeStep, LooksChange
         DEF Promise!Answer, Promise!Deliver, Promise!Report, Promise!Fail,
             Promise!Settle
    <3> QED
      BY <3>1 DEF Promise!Next
  <2>3. CASE Verdict(r)' = Verdict(r) /\ Outcome(r)' = Outcome(r)
    BY <1>2, <2>a, <2>3, LooksChange DEF Promise!vars
  <2> QED
    BY <2>1, <2>2, <2>3
<1>3. UNCHANGED vars => UNCHANGED Promise!vars
  BY DEF vars, clientVars, handlerVars, Promise!vars, Verdict, Outcome
<1>4. IInv /\ [Next]_vars => [Promise!Next]_(Promise!vars)
  BY <1>2, <1>3 DEF Next, AllEnded, Move
<1> QED
  BY <1>1, <1>4, Invariance, PTL DEF Spec, KeepsPromise, Promise!Spec
=============================================================================
