--------------------------- MODULE CompileSession ---------------------------
(***************************************************************************)
(* Remote compilation, end to end: the client side of a request            *)
(* (net.DccClient, driven by net.dcc_compile), the forked handler that     *)
(* serves its connection (server.Distccd.handle), the two directions of    *)
(* their TCP connection and the temporary files the handlers of one daemon *)
(* share.                                                                  *)
(*                                                                         *)
(* A message is one protocol field (its 12-byte token together with an     *)
(* argument or a diagnostic text) or one chunk of a file.                  *)
(***************************************************************************)
EXTENDS Integers, Sequences, FiniteSets

CONSTANTS
  Request,    \* invocations of pdistcc; each one opens one connection
  DotiName,   \* names the server's tempfile module can pick for a .ii file
  ObjName,    \* names it can pick for an object file
  NArgs,      \* arguments of a compiler command
  SrcLen,     \* chunks of a preprocessed source
  ObjLen,     \* chunks of an object file
  Cap,        \* messages the socket buffers hold in one direction
  MaxChildren,\* handlers socketserver.ForkingMixIn runs at a time (40)
  Absent,     \* no file, or no name chosen yet
  Old         \* whatever was at the client's object path beforehand

(* A source is its owner and how many of its chunks there are; an object is *)
(* a sequence of chunks, each knowing the source it was compiled from.      *)
SrcFile == [of : Request, n : Nat]
ObjFile == Seq(SrcFile)

ASSUME SizesAssumption ==
  /\ NArgs \in Nat \ {0}
  /\ SrcLen \in Nat
  /\ ObjLen \in Nat
  /\ Cap \in Nat \ {0}
  /\ MaxChildren \in Nat \ {0}

ASSUME SentinelAssumption ==
  /\ Absent \notin SrcFile \cup ObjFile \cup DotiName \cup ObjName
  /\ Old \notin ObjFile

VARIABLES
  cpc,      \* cpc[r]: what the client is doing, or the field it waits for
  csent,    \* csent[r]: messages of the request it has sent
  cleft,    \* cleft[r]: chunks of the object still to receive (remaining)
  cstat,    \* cstat[r]: the status it was told
  ofile,    \* ofile[r]: the file at the client's object path
  up,       \* up[r]: messages in flight to the server
  down,     \* down[r]: messages in flight to the client
  spc,      \* spc[r]: what the handler is doing, or the field it waits for
  sleft,    \* sleft[r]: arguments or chunks still to receive
  ssent,    \* ssent[r]: messages of the reply it has sent
  ret,      \* ret[r]: the compiler's exit status
  doti,     \* doti[r]: name of the temporary source
  obj,      \* obj[r]: name of the temporary object (wrapper.object_file())
  snap,     \* snap[r]: the object file opened for the reply
  cleanup,  \* cleanup[r]: which of the two names cleanup_files holds
  raised,   \* raised[r]: an exception ended the handler's try block
  cut,      \* cut[r]: the connection carries nothing any more, not even its end
  dotis,    \* dotis[d]: the .ii file of that name in the server's /tmp
  objs      \* objs[o]: the object file of that name in the server's /tmp

clientVars  == <<cpc, csent, cleft, cstat, ofile>>
handlerVars == <<spc, sleft, ssent, ret, doti, obj, snap, cleanup, raised>>
tmpVars     == <<dotis, objs>>
netVars     == <<up, down, cut>>
vars        == <<clientVars, netVars, handlerVars, tmpVars>>

-----------------------------------------------------------------------------
(* Messages *)

Field(t, n) == [tag |-> t, num |-> n]
Chunk(s)    == [tag |-> "OBJ", src |-> s]

(* The request: DccClient.request sends its fields, then the file. *)
RequestLen == 3 + NArgs + SrcLen
RequestAt(i) ==
  CASE i = 1              -> Field("DIST", 1)
    [] i = 2              -> Field("ARGC", NArgs)
    [] i \in 3..2 + NArgs -> Field("ARGV", 0)
    [] i = 3 + NArgs      -> Field("DOTI", SrcLen)
    [] OTHER              -> Field("BLK", 0)

(* The reply: Distccd._reply sends four fields, then the object it opened.  *)
(* The chunked_send of ReplyLenFault stops one chunk early, the reply of    *)
(* ReplyAtFault has the diagnostics before the status.                      *)
ReplyLenFault(r) == IF snap[r] = <<>> THEN 5 ELSE 4 + Len(snap[r])
ReplyLen(r) == 5 + Len(snap[r])
ReplyAtFault(r, i) ==
  IF i <= 5 THEN Field(<<"DONE", "SERR", "STAT", "SOUT", "DOTO">>[i], 0)
            ELSE Chunk(snap[r][i - 5])
ReplyAt(r, i) ==
  CASE i = 1 -> Field("DONE", 1)
    [] i = 2 -> Field("STAT", ret[r])
    [] i = 3 -> Field("SERR", 0)
    [] i = 4 -> Field("SOUT", 0)
    [] i = 5 -> Field("DOTO", Len(snap[r]))
    [] OTHER -> Chunk(snap[r][i - 5])

(* What a request uploads, and what compiling a source gives. *)
Source(r) == [of |-> r, n |-> SrcLen]
Object(src) == [i \in 1..ObjLen |-> src]

(* `while remaining > 0`: where a receive loop is with n things to go. *)
LoopPc(pc, n, next) == IF n > 0 THEN pc ELSE next

-----------------------------------------------------------------------------
(* Who is still there *)

ClientReads == {"DONE", "STAT", "SERR", "SOUT", "DOTO", "OBJ"}
ServerReads == {"DIST", "ARGC", "ARGV", "DOTI", "BLK"}
ClientGone(r) == cpc[r] \in {"done", "failed", "ioerror", "killed"}
ServerGone(r) == spc[r] \in {"closed", "killed"}
Children == {q \in Request : spc[q] # "idle" /\ ~ServerGone(q)}

UpMsg == [tag : ServerReads, num : Nat]
DownMsg == [tag : ClientReads \ {"OBJ"}, num : Int]
             \cup [tag : {"OBJ"}, src : SrcFile]

(* Streams hold messages of their own direction, tables their own names. *)
TypeOK ==
  /\ cpc \in [Request -> {"connect", "send", "starved", "done", "failed",
                          "ioerror", "killed"} \cup ClientReads]
  /\ csent \in [Request -> 0..RequestLen]
  /\ cleft \in [Request -> Nat]
  /\ cstat \in [Request -> {-1, 0, 1}]
  /\ ofile \in [Request -> ObjFile \cup {Old}]
  /\ up \in [Request -> Seq(UpMsg)]
  /\ down \in [Request -> Seq(DownMsg)]
  /\ spc \in [Request -> {"idle", "check", "objname", "drawn", "compile",
                          "hung", "reply", "open", "object", "cleanup",
                          "closed", "killed"} \cup ServerReads]
  /\ sleft \in [Request -> Nat]
  /\ ssent \in [Request -> Nat]
  /\ ret \in [Request -> {-1, 0, 1}]
  /\ doti \in [Request -> DotiName \cup {Absent}]
  /\ obj \in [Request -> ObjName \cup {Absent}]
  /\ snap \in [Request -> ObjFile]
  /\ cleanup \in [Request -> SUBSET {"doti", "obj"}]
  /\ raised \in [Request -> BOOLEAN]
  /\ cut \in [Request -> BOOLEAN]
  /\ dotis \in [DotiName -> SrcFile \cup {Absent}]
  /\ objs \in [ObjName -> ObjFile \cup {Absent}]

Init ==
  /\ cpc = [r \in Request |-> "connect"]
  /\ csent = [r \in Request |-> 0]
  /\ cleft = [r \in Request |-> 0]
  /\ cstat = [r \in Request |-> -1]
  /\ ofile = [r \in Request |-> Old]
  /\ up = [r \in Request |-> <<>>]
  /\ down = [r \in Request |-> <<>>]
  /\ spc = [r \in Request |-> "idle"]
  /\ sleft = [r \in Request |-> 0]
  /\ ssent = [r \in Request |-> 0]
  /\ ret = [r \in Request |-> -1]
  /\ doti = [r \in Request |-> Absent]
  /\ obj = [r \in Request |-> Absent]
  /\ snap = [r \in Request |-> <<>>]
  /\ cleanup = [r \in Request |-> {}]
  /\ raised = [r \in Request |-> FALSE]
  /\ cut = [r \in Request |-> FALSE]
  /\ dotis = [d \in DotiName |-> Absent]
  /\ objs = [o \in ObjName |-> Absent]

-----------------------------------------------------------------------------
(* The client *)

Connect(r) ==
  /\ cpc[r] = "connect" /\ ~ServerGone(r)
  /\ cpc' = [cpc EXCEPT ![r] = "send"]
  /\ UNCHANGED <<csent, cleft, cstat, ofile, netVars, handlerVars, tmpVars>>

(* Sending blocks while the peer's window is full, even if nobody reads.  *)
SendRequest(r) ==
  /\ cpc[r] = "send" /\ ~cut[r] /\ Len(up[r]) < Cap
  /\ up' = [up EXCEPT ![r] = Append(@, RequestAt(csent[r] + 1))]
  /\ csent' = [csent EXCEPT ![r] = @ + 1]
  /\ cpc' = [cpc EXCEPT ![r] = LoopPc("send", RequestLen - csent'[r], "DONE")]
  /\ UNCHANGED <<cleft, cstat, ofile, down, cut, handlerVars, tmpVars>>

(* read_token(sock, tag), then on to `next`. *)
ClientTakes(r, tag, next) ==
  /\ cpc[r] = tag /\ down[r] # <<>> /\ Head(down[r]).tag = tag
  /\ cpc' = [cpc EXCEPT ![r] = next]
  /\ down' = [down EXCEPT ![r] = Tail(@)]
  /\ UNCHANGED <<csent, up, cut, handlerVars, tmpVars>>

RecvDone(r) ==
  /\ ClientTakes(r, "DONE", "STAT")
  /\ UNCHANGED <<cleft, cstat, ofile>>

(* A client that takes any status for success has the fault. *)
RecvStatFault(r) ==
  /\ ClientTakes(r, "STAT", "SERR")
  /\ cstat' = [cstat EXCEPT ![r] = 0]
  /\ UNCHANGED <<cleft, ofile>>
RecvStat(r) ==
  /\ ClientTakes(r, "STAT", "SERR")
  /\ cstat' = [cstat EXCEPT ![r] = Head(down[r]).num]
  /\ UNCHANGED <<cleft, ofile>>

RecvSerr(r) ==
  /\ ClientTakes(r, "SERR", "SOUT")
  /\ UNCHANGED <<cleft, cstat, ofile>>

(* A client told of a failure leaves the rest of the reply unread; one that *)
(* takes the object whatever it was told has the fault.                     *)
WantsObjectFault(status) == TRUE
WantsObject(status) == status = 0
RecvSout(r) ==
  /\ ClientTakes(r, "SOUT", IF WantsObject(cstat[r]) THEN "DOTO" ELSE "done")
  /\ UNCHANGED <<cleft, cstat, ofile>>

(* The object path is opened 'wb', so it is truncated, before a byte of the *)
(* object has come.                                                         *)
RecvDoto(r) ==
  LET size == Head(down[r]).num IN
  /\ ClientTakes(r, "DOTO", LoopPc("OBJ", size, "done"))
  /\ cleft' = [cleft EXCEPT ![r] = size]
  /\ ofile' = [ofile EXCEPT ![r] = <<>>]
  /\ UNCHANGED cstat

RecvObjChunk(r) ==
  /\ ClientTakes(r, "OBJ", LoopPc("OBJ", cleft[r] - 1, "done"))
  /\ cleft' = [cleft EXCEPT ![r] = @ - 1]
  /\ ofile' = [ofile EXCEPT ![r] = Append(@, Head(down[r]).src)]
  /\ UNCHANGED cstat

(* Connection refused, broken pipe, a send nobody acknowledges, the wrong   *)
(* token, or the end of a stream that should have had more in it; a server  *)
(* that closes with bytes of the request unread resets the connection and   *)
(* may destroy what it had sent.  Of a cut connection a reader learns       *)
(* nothing.  A recv_exactly that takes an empty read for progress has the   *)
(* fault.                                                                   *)
ClientBrokenFault(r) ==
  \/ cpc[r] \in {"connect", "send"} /\ (ServerGone(r) \/ cut[r])
  \/ cpc[r] \in ClientReads /\ down[r] # <<>> /\ Head(down[r]).tag # cpc[r]
ClientBroken(r) ==
  \/ cpc[r] \in {"connect", "send"} /\ (ServerGone(r) \/ cut[r])
  \/ cpc[r] \in ClientReads /\ down[r] # <<>> /\ Head(down[r]).tag # cpc[r]
  \/ cpc[r] \in ClientReads /\ ~cut[r] /\ ServerGone(r)
       /\ (down[r] = <<>> \/ up[r] # <<>>)

(* An exception: dcc_compile does not return. *)
ClientEnds(r, how) ==
  /\ cpc' = [cpc EXCEPT ![r] = how]
  /\ UNCHANGED <<csent, cleft, cstat, ofile, netVars, handlerVars, tmpVars>>

ClientError(r) == ClientBroken(r) /\ ClientEnds(r, "failed")

ClientStep(r) ==
  \/ Connect(r)  \/ SendRequest(r)
  \/ RecvDone(r) \/ RecvStat(r) \/ RecvSerr(r) \/ RecvSout(r)
  \/ RecvDoto(r) \/ RecvObjChunk(r)
  \/ ClientError(r)

(* What an open or read of the .ii, a write of the diagnostics, the open of *)
(* the object path, a write or the flush of the object run into on the      *)
(* client's own host: no such file, no permission, no space.                *)
UsesOwnFiles(r) ==
  \/ cpc[r] = "send" /\ (csent[r] = 0 \/ csent[r] >= 3 + NArgs)
  \/ cpc[r] \in {"SERR", "SOUT", "DOTO", "OBJ"} /\ down[r] # <<>>
ClientIOError(r) == UsesOwnFiles(r) /\ ClientEnds(r, "ioerror")

(* The .ii has become shorter than announced: chunked_send reads nothing    *)
(* and sends nothing, for ever, with the connection open.                   *)
Starve(r) ==
  /\ cpc[r] = "send" /\ csent[r] >= 3 + NArgs
  /\ ClientEnds(r, "starved")

(* The kernel gives up on what the client has sent and nobody acknowledged, *)
(* or hears of a server that has closed: either may end a recv or a send of *)
(* nothing, and need not.                                                   *)
ClientTimesOut(r) ==
  /\ \/ cut[r] /\ cpc[r] \in ClientReads \cup {"starved"}
     \/ ~cut[r] /\ cpc[r] = "starved" /\ ServerGone(r)
  /\ ClientEnds(r, "failed")

(* The build is interrupted: the kernel closes the connection. *)
ClientKill(r) ==
  cpc[r] # "connect" /\ ~ClientGone(r) /\ ClientEnds(r, "killed")

ClientFault(r) ==
  ClientIOError(r) \/ Starve(r) \/ ClientTimesOut(r) \/ ClientKill(r)

-----------------------------------------------------------------------------
(* The server *)

(* ForkingTCPServer forks one handler per connection. *)
Accept(r) ==
  /\ spc[r] = "idle" /\ cpc[r] # "connect"
  /\ Cardinality(Children) < MaxChildren
  /\ spc' = [spc EXCEPT ![r] = "DIST"]
  /\ UNCHANGED <<clientVars, netVars, sleft, ssent, ret, doti, obj, snap,
                 cleanup, raised, tmpVars>>

(* read_field, and the check of the field's name. *)
ServerTakes(r, tag, next) ==
  /\ spc[r] = tag /\ up[r] # <<>> /\ Head(up[r]).tag = tag
  /\ spc' = [spc EXCEPT ![r] = next]
  /\ up' = [up EXCEPT ![r] = Tail(@)]
  /\ UNCHANGED <<clientVars, down, cut, ssent, ret, obj, snap, raised, objs>>

ReadHello(r) ==
  /\ ServerTakes(r, "DIST", "ARGC")
  /\ UNCHANGED <<sleft, doti, cleanup, dotis>>

ReadArgc(r) ==
  LET argc == Head(up[r]).num IN
  /\ ServerTakes(r, "ARGC", LoopPc("ARGV", argc, "check"))
  /\ sleft' = [sleft EXCEPT ![r] = argc]
  /\ UNCHANGED <<doti, cleanup, dotis>>

ReadArgv(r) ==
  /\ ServerTakes(r, "ARGV", LoopPc("ARGV", sleft[r] - 1, "check"))
  /\ sleft' = [sleft EXCEPT ![r] = @ - 1]
  /\ UNCHANGED <<doti, cleanup, dotis>>

(* A supported compiler, called to make one object from one source. *)
CheckCommand(r) ==
  /\ spc[r] = "check"
  /\ spc' = [spc EXCEPT ![r] = "DOTI"]
  /\ UNCHANGED <<clientVars, netVars, sleft, ssent, ret, doti, obj, snap,
                 cleanup, raised, tmpVars>>

(* The path of a complete upload goes to cleanup_files; an upload that is   *)
(* cut short leaves _read_doti by an exception, with its file on the disk.  *)
Registered(r, left) == IF left = 0 THEN cleanup[r] \cup {"doti"} ELSE cleanup[r]

(* tempfile opens with O_EXCL, so the name it picks is nobody's; without    *)
(* it is the fault.                                                         *)
FreshDotiFault(d) == d \in DotiName
FreshDoti(d) == dotis[d] = Absent
ReadDoti(r) ==
  LET size == Head(up[r]).num IN
  \E d \in DotiName :
    /\ FreshDoti(d)
    /\ ServerTakes(r, "DOTI", LoopPc("BLK", size, "objname"))
    /\ sleft' = [sleft EXCEPT ![r] = size]
    /\ doti' = [doti EXCEPT ![r] = d]
    /\ dotis' = [dotis EXCEPT ![d] = [of |-> r, n |-> 0]]
    /\ cleanup' = [cleanup EXCEPT ![r] = Registered(r, size)]

(* What is written to a file somebody has removed is nobody's. *)
Written(f) == IF f = Absent THEN f ELSE [f EXCEPT !.n = @ + 1]
ReadDotiChunk(r) ==
  /\ ServerTakes(r, "BLK", LoopPc("BLK", sleft[r] - 1, "objname"))
  /\ sleft' = [sleft EXCEPT ![r] = @ - 1]
  /\ dotis' = [dotis EXCEPT ![doti[r]] = Written(@)]
  /\ cleanup' = [cleanup EXCEPT ![r] = Registered(r, sleft'[r])]
  /\ UNCHANGED doti

(* _compile draws the object's name by creating a file and deleting it.     *)
(* From then until the compiler has written the object, the name is free.   *)
ReserveObject(r) ==
  /\ spc[r] = "objname"
  /\ \E o \in ObjName :
       /\ objs[o] = Absent
       /\ obj' = [obj EXCEPT ![r] = o]
       /\ objs' = [objs EXCEPT ![o] = <<>>]
  /\ spc' = [spc EXCEPT ![r] = "drawn"]
  /\ UNCHANGED <<clientVars, netVars, sleft, ssent, ret, doti, snap,
                 cleanup, raised, dotis>>

ReleaseObject(r) ==
  /\ spc[r] = "drawn" /\ objs[obj[r]] # Absent
  /\ objs' = [objs EXCEPT ![obj[r]] = Absent]
  /\ cleanup' = [cleanup EXCEPT ![r] = @ \cup {"obj"}]
  /\ spc' = [spc EXCEPT ![r] = "compile"]
  /\ UNCHANGED <<clientVars, netVars, sleft, ssent, ret, doti, obj, snap,
                 raised, dotis>>

(* The compiler runs: any status, and whatever the status it may have made  *)
(* an object or not.  It replaces a file that has the object's name.        *)
RunCompiler(r) ==
  /\ spc[r] = "compile"
  /\ \E status \in {0, 1} : ret' = [ret EXCEPT ![r] = status]
  /\ \/ objs' = [objs EXCEPT ![obj[r]] = Object(dotis[doti[r]])]
     \/ UNCHANGED objs
  /\ spc' = [spc EXCEPT ![r] = "reply"]
  /\ UNCHANGED <<clientVars, netVars, sleft, ssent, doti, obj, snap, cleanup,
                 raised, dotis>>

SendReply(r) ==
  /\ spc[r] \in {"reply", "object"} /\ ~cut[r] /\ Len(down[r]) < Cap
  /\ down' = [down EXCEPT ![r] = Append(@, ReplyAt(r, ssent[r] + 1))]
  /\ ssent' = [ssent EXCEPT ![r] = @ + 1]
  /\ spc' = [spc EXCEPT ![r] = CASE ssent'[r] = 4           -> "open"
                                 [] ssent'[r] = ReplyLen(r) -> "cleanup"
                                 [] OTHER                   -> @]
  /\ UNCHANGED <<clientVars, up, cut, sleft, ret, doti, obj, snap, cleanup,
                 raised, tmpVars>>

(* The object is opened by name, after the status has gone out.  A file the *)
(* handler has open stays the same file when its name is removed or reused. *)
(* A handler that takes a missing object for an empty one, whatever the     *)
(* compiler said, has the fault.                                            *)
OpenObjectFault(r) ==
  /\ spc[r] = "open"
  /\ snap' = [snap EXCEPT ![r] =
                IF objs[obj[r]] = Absent THEN <<>> ELSE objs[obj[r]]]
  /\ spc' = [spc EXCEPT ![r] = "object"]
  /\ UNCHANGED <<clientVars, netVars, sleft, ssent, ret, doti, obj, cleanup,
                 raised, tmpVars>>
OpenObject(r) ==
  /\ spc[r] = "open"
  /\ \/ objs[obj[r]] # Absent /\ snap' = [snap EXCEPT ![r] = objs[obj[r]]]
     \/ objs[obj[r]] = Absent /\ ret[r] # 0 /\ UNCHANGED snap
  /\ spc' = [spc EXCEPT ![r] = "object"]
  /\ UNCHANGED <<clientVars, netVars, sleft, ssent, ret, doti, obj, cleanup,
                 raised, tmpVars>>

(* Unsupported compiler or mode, no such program, the wrong token, the end  *)
(* of a stream that should have had more in it, a send to a client that has *)
(* gone or does not answer; a placeholder somebody else has deleted; no     *)
(* object although the compiler succeeded.  A chunked_read_write that takes *)
(* an empty read for progress has the fault.                                *)
HandlerBrokenFault(r) ==
  \/ spc[r] \in {"check", "compile"}
  \/ spc[r] \in ServerReads /\ up[r] # <<>> /\ Head(up[r]).tag # spc[r]
  \/ spc[r] \in {"reply", "object"} /\ (ClientGone(r) \/ cut[r])
  \/ spc[r] = "drawn" /\ objs[obj[r]] = Absent
  \/ spc[r] = "open" /\ objs[obj[r]] = Absent /\ ret[r] = 0
HandlerBroken(r) ==
  \/ spc[r] \in {"check", "compile"}
  \/ spc[r] \in ServerReads /\ up[r] # <<>> /\ Head(up[r]).tag # spc[r]
  \/ spc[r] \in ServerReads /\ up[r] = <<>> /\ ~cut[r] /\ ClientGone(r)
  \/ spc[r] \in {"reply", "object"} /\ (ClientGone(r) \/ cut[r])
  \/ spc[r] = "drawn" /\ objs[obj[r]] = Absent
  \/ spc[r] = "open" /\ objs[obj[r]] = Absent /\ ret[r] = 0

(* Every exception leaves the try block the same way, BrokenPipeError too. *)
HandlerRaises(r) ==
  /\ spc' = [spc EXCEPT ![r] = "cleanup"]
  /\ raised' = [raised EXCEPT ![r] = TRUE]
  /\ UNCHANGED <<clientVars, netVars, sleft, ssent, ret, doti, obj, snap,
                 cleanup, tmpVars>>

HandlerError(r) == HandlerBroken(r) /\ HandlerRaises(r)

(* What the server's own host fails in: making the .ii, writing or flushing *)
(* it, making the placeholder, opening or reading the object.               *)
UsesTmp(r) ==
  \/ spc[r] \in {"DOTI", "BLK"} /\ up[r] # <<>>
  \/ spc[r] \in {"objname", "open", "object"}
HandlerIOError(r) == UsesTmp(r) /\ HandlerRaises(r)

(* The finally clause, and the end of the connection.  A handler that never *)
(* registered its object has the fault.                                     *)
RemovesFault(r, what) == what = "doti" /\ what \in cleanup[r]
Removes(r, what) == what \in cleanup[r]
Cleanup(r) ==
  /\ spc[r] = "cleanup"
  /\ dotis' = [d \in DotiName |->
                 IF Removes(r, "doti") /\ d = doti[r] THEN Absent ELSE dotis[d]]
  /\ objs' = [o \in ObjName |->
                 IF Removes(r, "obj") /\ o = obj[r] THEN Absent ELSE objs[o]]
  /\ spc' = [spc EXCEPT ![r] = "closed"]
  /\ UNCHANGED <<clientVars, netVars, sleft, ssent, ret, doti, obj, snap,
                 cleanup, raised>>

HandlerStep(r) ==
  \/ Accept(r)
  \/ ReadHello(r)     \/ ReadArgc(r)      \/ ReadArgv(r)    \/ CheckCommand(r)
  \/ ReadDoti(r)      \/ ReadDotiChunk(r)
  \/ ReserveObject(r) \/ ReleaseObject(r) \/ RunCompiler(r)
  \/ SendReply(r)     \/ OpenObject(r)
  \/ HandlerError(r)  \/ Cleanup(r)

(* A compiler that never ends: communicate() waits for it without a timeout. *)
Hang(r) ==
  /\ spc[r] = "compile"
  /\ spc' = [spc EXCEPT ![r] = "hung"]
  /\ UNCHANGED <<clientVars, netVars, sleft, ssent, ret, doti, obj, snap,
                 cleanup, raised, tmpVars>>

(* The handler, or the daemon that has yet to accept, is killed: no finally *)
(* clause runs, and the kernel closes the connection.                       *)
HandlerKill(r) ==
  /\ ~ServerGone(r)
  /\ spc' = [spc EXCEPT ![r] = "killed"]
  /\ UNCHANGED <<clientVars, netVars, sleft, ssent, ret, doti, obj, snap,
                 cleanup, raised, tmpVars>>

HandlerFault(r) == HandlerIOError(r) \/ Hang(r) \/ HandlerKill(r)

(* The network or a machine is lost (one that loses its processes as well   *)
(* has them killed next): what has arrived can still be read, the rest      *)
(* never comes, nor does the end of either stream.  No socket has a timeout *)
(* or keepalive, so who only waits is never told.                           *)
Arrived(s) == {SubSeq(s, 1, n) : n \in 0..Len(s)}
Cut(r) ==
  /\ cpc[r] # "connect" /\ ~cut[r] /\ ~(ClientGone(r) /\ ServerGone(r))
  /\ cut' = [cut EXCEPT ![r] = TRUE]
  /\ \E u \in Arrived(up[r]) : up' = [up EXCEPT ![r] = u]
  /\ \E d \in Arrived(down[r]) : down' = [down EXCEPT ![r] = d]
  /\ UNCHANGED <<clientVars, handlerVars, tmpVars>>

(* Everybody has ended: the one way the system may stop. *)
AllEnded ==
  /\ \A r \in Request : ClientGone(r) /\ ServerGone(r)
  /\ UNCHANGED vars

Next ==
  \/ \E r \in Request : \/ ClientStep(r)  \/ ClientFault(r)
                        \/ HandlerStep(r) \/ HandlerFault(r) \/ Cut(r)
  \/ AllEnded

(* Each side keeps running until it ends or waits for what does not come;   *)
(* no fault has to happen.                                                  *)
Spec ==
  /\ Init /\ [][Next]_vars
  /\ \A r \in Request : WF_vars(ClientStep(r)) /\ WF_vars(HandlerStep(r))

-----------------------------------------------------------------------------
(* What the pieces must add up to *)

(* Framing: the next message of a stream is always the one its reader is    *)
(* waiting for, so neither read_token of the client nor the name checks of  *)
(* the handler ever see a field out of place, at whatever point the other   *)
(* side gave up.                                                            *)
Aligned ==
  \A r \in Request :
    /\ cpc[r] \in ClientReads /\ down[r] # <<>> => Head(down[r]).tag = cpc[r]
    /\ spc[r] \in ServerReads /\ up[r] # <<>> => Head(up[r]).tag = spc[r]

(* Another request's handler has drawn the same name for its object. *)
SharesObject(r) == \E q \in Request \ {r} : obj[q] = obj[r]

(* A client that was told of success has, byte for byte, what its own      *)
(* source compiles to, complete, unless _compile's draw of a name went      *)
(* wrong.  The .ii names need no such exception.                            *)
FaithfulUnlessShared ==
  \A r \in Request :
    cpc[r] = "done" /\ cstat[r] = 0 =>
      ofile[r] = Object(Source(r)) \/ SharesObject(r)

(* A client overwrites what was at its object path only when the compiler   *)
(* has run for it and succeeded: a failed compilation, a refused command or *)
(* a lost connection before that leaves the old object to the build tool.   *)
OverwrittenOnlyAfterSuccess ==
  \A r \in Request : ofile[r] # Old => ret[r] = 0

(* A client is refused, sees the connection end or times out only if its    *)
(* handler met an exception or was killed, or the connection was lost: no   *)
(* order of the two sides' steps breaks a session by itself, and a handler  *)
(* that came to its end has always sent all that its client waits for.      *)
(* Errors of the client's own files end it differently (ClientIOError).     *)
NoSpuriousFailure ==
  \A r \in Request :
    cpc[r] = "failed" => raised[r] \/ spc[r] = "killed" \/ cut[r]

(* What handlers that were not killed leave behind in /tmp can only be an   *)
(* upload that was cut short.  Complete uploads are removed on every path,  *)
(* and no object is left: whatever has the name of one belongs to a handler *)
(* that has not ended by itself, even when several have drawn the name.     *)
LeftoverIsPartialUpload ==
  /\ \A d \in DotiName :
       dotis[d] # Absent /\ spc[dotis[d].of] = "closed" => dotis[d].n < SrcLen
  /\ \A o \in ObjName :
       objs[o] # Absent => \E r \in Request : obj[r] = o /\ spc[r] # "closed"

(* A handler nothing will wake: its compiler does not end, or it reads from *)
(* a client that is starved or on the other side of a lost connection.      *)
HandlerStuck(r) ==
  \/ spc[r] = "hung"
  \/ spc[r] \in ServerReads /\ up[r] = <<>> /\ (cut[r] \/ cpc[r] = "starved")

(* A connection nobody accepts: such handlers have all the places. *)
Unserved(r) ==
  /\ spc[r] = "idle"
  /\ Cardinality({q \in Request : HandlerStuck(q)}) >= MaxChildren

ClientStuck(r) ==
  \/ cpc[r] = "starved"
  \/ cpc[r] \in ClientReads /\ (cut[r] \/ spc[r] = "hung")
  \/ Unserved(r)

(* Every connection's handler ends and gives up its place among the         *)
(* MaxChildren, whatever its client does, unless from some point on it is   *)
(* stuck or there is no place for it.                                       *)
HandlerEnds ==
  \A r \in Request :
    \/ (cpc[r] # "connect") ~> ServerGone(r)
    \/ <>[](HandlerStuck(r) \/ Unserved(r))

(* Every client is answered or sees that it will not be, although it sets   *)
(* no timeout, unless it is starved, the connection or the compiler of its  *)
(* own handler is lost, or stuck handlers have all the places for good.     *)
Answered == \A r \in Request : <>ClientGone(r) \/ <>[]ClientStuck(r)

(* Once a handler has opened an object, its client gets to the end of it    *)
(* unless one of the two is killed or meets an error of its own host, or    *)
(* the connection is lost.                                                  *)
Delivered ==
  \A r \in Request :
    spc[r] = "object" ~>
      \/ cpc[r] = "done"
      \/ cpc[r] \in {"ioerror", "killed"} \/ raised[r] \/ spc[r] = "killed"
      \/ cut[r]

(* A session looks to a build tool like the promise in RemoteCompile. *)
Verdict(r) == CASE ret[r] = -1 -> "none" [] ret[r] = 0 -> "ok" [] OTHER -> "bad"
Outcome(r) ==
  CASE cpc[r] = "done" /\ cstat[r] = 0              -> "object"
    [] cpc[r] = "done" /\ cstat[r] # 0              -> "diagnostics"
    [] cpc[r] \in {"failed", "ioerror", "killed"}   -> "error"
    [] OTHER                                        -> "waiting"

Promise == INSTANCE RemoteCompile WITH
  verdict <- [r \in Request |-> Verdict(r)],
  outcome <- [r \in Request |-> Outcome(r)]

(* Every step of a session is a step of the promise or none: at most one    *)
(* verdict, at most one outcome, and the outcome agrees with the verdict.   *)
(* (That the outcome comes is Answered.)                                    *)
KeepsPromise == Promise!Spec

-----------------------------------------------------------------------------
(* What the repository says and the code does not do *)

(* ExitStatus(r): dcc_compile drops what handle_response returns, and main  *)
(* returns nothing; only an exception makes the interpreter exit with 1.    *)
ExitStatus(r) == IF cpc[r] = "done" THEN 0 ELSE 1

(* pdistcc.py stands in for the compiler (a CMake compiler launcher), so it *)
(* exits with 0 only if the compiler succeeded.                             *)
ExitStatusFaithful ==
  \A r \in Request : ClientGone(r) /\ ExitStatus(r) = 0 => cstat[r] = 0

(* cleanup_files is the handler's list of what to remove: nothing of a      *)
(* handler that ended by itself is left in /tmp, a client that disconnects  *)
(* being nothing out of the ordinary.                                       *)
NothingLeft ==
  \A d \in DotiName : dotis[d] # Absent => spc[dotis[d].of] # "closed"

=============================================================================
