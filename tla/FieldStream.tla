----------------------------- MODULE FieldStream -----------------------------
(***************************************************************************)
(* The fields of a request or of a reply as bytes on a TCP connection      *)
(* (net.py): a sender that counts down the size it has announced, and a    *)
(* receiver that counts down the size it was told, over a stream that      *)
(* takes and gives as many bytes as it likes.  CompileSession takes a      *)
(* field, and a chunk of a file, for one message; here is why it may.      *)
(*                                                                         *)
(* The last field is a file.  A client's preprocessed file may be written  *)
(* while it is sent, by the compiler of another client with an object of   *)
(* the same stem (WrapCompiler!Shared).                                    *)
(***************************************************************************)
EXTENDS Integers, Sequences

CONSTANTS
  Texts,     \* Texts[i]: bytes of the i-th field, before the file
  TokenLen,  \* DCC_TOKEN_HEADER_LEN
  SendSize,  \* chunk_size of chunked_send
  RecvSize,  \* chunk_size of chunked_read_write
  Cap,       \* bytes the socket's buffers hold
  MaxSize,   \* bytes of the file, at most
  MaxWrites  \* times somebody else writes it, at most

ASSUME SizesAssumption ==
  /\ Texts \in Seq(Nat)
  /\ {TokenLen, SendSize, RecvSize, Cap} \subseteq Nat \ {0}
  /\ MaxSize \in Nat /\ MaxWrites \in Nat

VARIABLES
  client,   \* a client sends a request, or else a server its reply
  file,     \* the file: for each byte, which writer it is from
  writes,   \* how often the file has been written
  changed,  \* history: it was, after the sender had looked at its size
  spc,      \* what the sender does next
  sfield,   \* the field it sends next
  out,      \* what its sendall has not yet handed over
  size,     \* the size it has announced for the file
  sleft,    \* remaining, in chunked_send
  spos,     \* where the sender is in the file
  wire,     \* bytes on their way
  rpc,      \* what the receiver does next
  rfield,   \* the field it reads
  rleft,    \* remaining, in recv_exactly or in chunked_read_write
  data,     \* what recv_exactly has of a token
  mv,       \* chunked_read_write's buffer
  got       \* got[i]: what it has of the i-th field

fileVars     == <<file, writes, changed>>
senderVars   == <<spc, sfield, out, size, sleft, spos>>
receiverVars == <<rpc, rfield, rleft, data, mv, got>>
vars == <<client, fileVars, senderVars, wire, receiverVars>>

N == Len(Texts)
Unset == [of |-> "unset", field |-> 0, at |-> 0, num |-> 0]

EmptyBuffer == [k \in 1..RecvSize |-> Unset]

Init ==
  /\ client \in BOOLEAN
  /\ file \in {[k \in 1..n |-> 0] : n \in 0..MaxSize}
  /\ writes = 0 /\ changed = FALSE
  /\ spc = "begin" /\ sfield = 1 /\ out = <<>>
  /\ size = 0 /\ sleft = 0 /\ spos = 0
  /\ wire = <<>>
  /\ rpc = "token" /\ rfield = 1 /\ rleft = TokenLen /\ data = <<>>
  /\ mv = EmptyBuffer
  /\ got = [i \in 1..N + 1 |-> <<>>]

-----------------------------------------------------------------------------
(* The sender *)

Least(m, n)  == IF m < n THEN m ELSE n
Rest(s, n)   == SubSeq(s, n + 1, Len(s))
Token(i, n)  == [k \in 1..TokenLen |->
                   [of |-> "token", field |-> i, at |-> k, num |-> n]]
Text(i)      == [k \in 1..Texts[i] |->
                   [of |-> "text", field |-> i, at |-> k, num |-> 0]]
FileBytes(from, n) ==
  [k \in 1..n |-> [of |-> "file", field |-> N + 1, at |-> from + k,
                   num |-> file[from + k]]]

(* os.stat: the client's before it sends anything, the server's when it has *)
(* sent all but the file.                                                   *)
Announce == size' = Len(file) /\ sleft' = Len(file)
Begin ==
  /\ spc = "begin" /\ spc' = "stat"
  /\ IF client THEN Announce ELSE UNCHANGED <<size, sleft>>
  /\ UNCHANGED <<client, fileVars, sfield, out, spos, wire, receiverVars>>

SendText ==
  /\ spc = "stat" /\ out = <<>> /\ sfield <= N
  /\ out' = Token(sfield, Texts[sfield]) \o Text(sfield)
  /\ sfield' = sfield + 1
  /\ UNCHANGED <<client, fileVars, spc, size, sleft, spos, wire, receiverVars>>

SendSizeOfFile ==
  /\ spc = "stat" /\ out = <<>> /\ sfield = N + 1
  /\ spc' = "file"
  /\ IF client THEN UNCHANGED <<size, sleft>> ELSE Announce
  /\ out' = Token(N + 1, size')
  /\ UNCHANGED <<client, fileVars, sfield, spos, wire, receiverVars>>

(* chunked_send.  At the end of a file that is shorter than announced it    *)
(* reads nothing, again and again.  (Python reads ahead by a buffer, which  *)
(* delays when it sees a change.)                                           *)
SendMore == sleft > 0
(* It counts what it has read; the fault counts what it has asked for.      *)
SentFault(n) == SendSize
Sent(n) == n
SendChunk ==
  /\ spc = "file" /\ out = <<>> /\ SendMore
  /\ LET n == IF spos < Len(file) THEN Least(SendSize, Len(file) - spos) ELSE 0
     IN /\ out' = FileBytes(spos, n)
        /\ spos' = spos + n
        /\ sleft' = sleft - Sent(n)
  /\ UNCHANGED <<client, fileVars, spc, sfield, size, wire, receiverVars>>

SendEnds ==
  /\ spc = "file" /\ out = <<>> /\ ~SendMore
  /\ spc' = "done"
  /\ UNCHANGED <<client, fileVars, sfield, out, size, sleft, spos, wire,
                 receiverVars>>

(* sendall hands over what there is room for, and raises an exception when  *)
(* nobody reads any more.                                                   *)
ReceiverGone == rpc \in {"closed", "failed", "invalid", "killed"}
SenderGone   == spc \in {"failed", "killed"}
Transmit ==
  /\ ~SenderGone /\ ~ReceiverGone
  /\ \E n \in 1..Least(Len(out), Cap - Len(wire)) :
       wire' = wire \o SubSeq(out, 1, n) /\ out' = Rest(out, n)
  /\ UNCHANGED <<client, fileVars, spc, sfield, size, sleft, spos,
                 receiverVars>>

TransmitFails ==
  /\ ~SenderGone /\ ReceiverGone /\ out # <<>>
  /\ spc' = "failed"
  /\ UNCHANGED <<client, fileVars, sfield, out, size, sleft, spos, wire,
                 receiverVars>>

-----------------------------------------------------------------------------
(* The receiver *)

(* After a field the next token is read; after the file there is nothing.   *)
NextField ==
  IF rfield <= N
    THEN rpc' = "token" /\ rfield' = rfield + 1 /\ rleft' = TokenLen
    ELSE rpc' = "done" /\ rleft' = 0 /\ UNCHANGED rfield

(* recv gives at least one byte of what remains, at most all; the fault     *)
(* takes it to give all.                                                    *)
Got(n)  == SubSeq(wire, 1, n)
TookFault(n) == rleft
Took(n) == n
More(n) == rleft > Took(n)
Counts(n) == rleft' = rleft - Took(n) /\ UNCHANGED <<rpc, rfield>>

(* read_token: recv_exactly, then dcc_decode, which finds a name and a size *)
(* only in the bytes of one token.                                          *)
RecvToken ==
  /\ rpc = "token"
  /\ \E n \in 1..Least(rleft, Len(wire)) :
       LET token == data \o Got(n)
           m     == token[1].num
       IN
       /\ wire' = Rest(wire, n)
       /\ \/ More(n) /\ Counts(n) /\ data' = token
          \/ /\ ~More(n) /\ data' = <<>>
             /\ IF token # Token(rfield, m)
                  THEN rpc' = "invalid" /\ UNCHANGED <<rfield, rleft>>
                ELSE IF m = 0 THEN NextField
                ELSE /\ rpc' = IF rfield <= N THEN "text" ELSE "file"
                     /\ rleft' = m /\ UNCHANGED rfield
  /\ UNCHANGED <<client, fileVars, senderVars, mv, got>>

Keeps(bytes) == got' = [got EXCEPT ![rfield] = @ \o bytes]

(* The server reads its texts, the arguments, with recv_exactly.            *)
RecvText ==
  /\ rpc = "text" /\ client
  /\ \E n \in 1..Least(rleft, Len(wire)) :
       /\ wire' = Rest(wire, n)
       /\ Keeps(Got(n))
       /\ IF More(n) THEN Counts(n) ELSE NextField
  /\ UNCHANGED <<client, fileVars, senderVars, data, mv>>

(* chunked_read_write: a short read leaves the rest of the buffer as it     *)
(* was, which the fault writes too.                                         *)
WriteOutFault(buf, n) == buf
WriteOut(buf, n) == IF n < RecvSize THEN SubSeq(buf, 1, n) ELSE buf
RecvChunk ==
  /\ rpc = "file" \/ (rpc = "text" /\ ~client)
  /\ \E n \in 1..Least(Least(RecvSize, rleft), Len(wire)) :
       LET buf == [k \in 1..RecvSize |-> IF k <= n THEN wire[k] ELSE mv[k]] IN
       /\ wire' = Rest(wire, n)
       /\ Keeps(WriteOut(buf, n))
       /\ IF More(n) THEN Counts(n) /\ mv' = buf
                     ELSE NextField /\ mv' = EmptyBuffer
  /\ UNCHANGED <<client, fileVars, senderVars, data>>

(* Reading nothing means that the peer is gone; a server that has replied   *)
(* hangs up, a client that has sent its request waits for the reply.        *)
RecvFails ==
  /\ rpc \in {"token", "text", "file"} /\ wire = <<>>
  /\ SenderGone \/ (spc = "done" /\ ~client)
  /\ rpc' = "failed"
  /\ UNCHANGED <<client, fileVars, senderVars, wire, rfield, rleft, data, mv,
                 got>>

(* In the end the receiver closes the connection, the server after its      *)
(* reply, whatever has not been read.                                       *)
Close ==
  /\ rpc = "done" /\ rpc' = "closed"
  /\ UNCHANGED <<client, fileVars, senderVars, wire, rfield, rleft, data, mv,
                 got>>

-----------------------------------------------------------------------------
(* Everybody else *)

(* Another gcc -E writes the file: it truncates it and appends.             *)
Rewrite ==
  /\ client /\ ~SenderGone /\ spc # "done" /\ writes < MaxWrites
  /\ writes' = writes + 1
  /\ file' \in {<<>>, Append(file, writes')} /\ Len(file') <= MaxSize
  /\ changed' = (spc # "begin")
  /\ UNCHANGED <<client, senderVars, wire, receiverVars>>

SenderDies ==
  /\ spc \in {"begin", "stat", "file"} /\ spc' = "killed"
  /\ UNCHANGED <<client, fileVars, sfield, out, size, sleft, spos, wire,
                 receiverVars>>
ReceiverDies ==
  /\ rpc \in {"token", "text", "file", "done"} /\ rpc' = "killed"
  /\ UNCHANGED <<client, fileVars, senderVars, wire, rfield, rleft, data, mv,
                 got>>

Sender ==
  \/ Begin \/ SendText \/ SendSizeOfFile \/ SendChunk \/ SendEnds
  \/ Transmit \/ TransmitFails
Receiver == RecvToken \/ RecvText \/ RecvChunk \/ RecvFails \/ Close

SenderEnded == SenderGone \/ spc = "done"
Ended == SenderEnded /\ ReceiverGone /\ UNCHANGED vars

Next == Sender \/ Receiver \/ Rewrite \/ SenderDies \/ ReceiverDies \/ Ended

(* Both processes keep running, until somebody kills them. *)
Spec == Init /\ [][Next]_vars /\ WF_vars(Sender) /\ WF_vars(Receiver)

-----------------------------------------------------------------------------
(* What sending a field must do *)

(* Each field that has been read is what was sent, and no token is decoded  *)
(* from other bytes than its own (an InvalidToken), wherever the stream is  *)
(* cut.  The file is the one its size was taken from, unless somebody has   *)
(* written it since; even then it has that size, and its bytes are in order.*)
Received(i) == rfield > i \/ rpc \in {"done", "closed"}
FieldsIntact ==
  /\ rpc # "invalid"
  /\ \A i \in 1..N : Received(i) => got[i] = Text(i)
  /\ Received(N + 1) =>
       /\ Len(got[N + 1]) = size
       /\ \A k \in 1..size : got[N + 1][k].at = k
       /\ changed \/ got[N + 1] = FileBytes(0, Len(file))

(* When both are done, nothing is left in the stream that the next to read  *)
(* it could take for a token, unless the file has grown.                    *)
NothingUnread ==
  spc = "done" /\ rpc \in {"done", "closed"} => wire = <<>> \/ changed

(* A file that has shrunk keeps chunked_send reading nothing.               *)
Starved ==
  changed /\ spc = "file" /\ out = <<>> /\ sleft > 0 /\ spos >= Len(file)

(* And only that: otherwise both loops end, with what was announced or with *)
(* an exception.                                                            *)
LoopsEnd == <>[]Starved \/ (<>SenderEnded /\ <>ReceiverGone)
===============================================================================
