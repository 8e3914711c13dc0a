------------------------- MODULE CompileSessionInv -------------------------
(***************************************************************************)
(* The inductive invariant behind the safety properties of CompileSession. *)
(* Its heart is a pair of positions.  SRead(r) and CRead(r) are derived    *)
(* from where each side is in its own code: how many messages it has taken *)
(* from its stream.  What is in flight is then exactly the stretch of the  *)
(* request, or of the reply, from that position to the last message sent.  *)
(***************************************************************************)
EXTENDS CompileSession

Before    == {"idle", "DIST", "ARGC", "ARGV", "check", "DOTI"}
Uploaded  ==
  {"objname", "drawn", "compile", "hung", "reply", "open", "object"}
Ending    == {"cleanup", "closed", "killed"}

(* Messages of the request the handler has taken, while it runs. *)
SRead(r) ==
  CASE spc[r] \in {"idle", "DIST"}  -> 0
    [] spc[r] = "ARGC"              -> 1
    [] spc[r] = "ARGV"              -> 2 + NArgs - sleft[r]
    [] spc[r] \in {"check", "DOTI"} -> 2 + NArgs
    [] spc[r] = "BLK"               -> RequestLen - sleft[r]
    [] OTHER                        -> RequestLen

(* Messages of the reply the client has taken, while it runs. *)
CRead(r) ==
  CASE cpc[r] = "STAT" -> 1
    [] cpc[r] = "SERR" -> 2
    [] cpc[r] = "SOUT" -> 3
    [] cpc[r] = "DOTO" -> 4
    [] cpc[r] = "OBJ"  -> 5 + Len(snap[r]) - cleft[r]
    [] OTHER           -> 0

(* Each side's counters agree with where it is. *)
ClientAt(r) ==
  /\ cpc[r] = "connect" =>
       csent[r] = 0 /\ ~cut[r] /\ spc[r] \in {"idle", "killed"}
  /\ cpc[r] \in {"send", "starved"} => csent[r] < RequestLen
  /\ cpc[r] \in ClientReads \cup {"done"} => csent[r] = RequestLen
  /\ cpc[r] = "OBJ" => cleft[r] \in 1..Len(snap[r])

HandlerAt(r) ==
  /\ spc[r] = "ARGV" => sleft[r] \in 1..NArgs
  /\ spc[r] = "BLK" => sleft[r] \in 1..SrcLen
  /\ spc[r] \in Before \cup {"BLK", "objname", "drawn", "compile", "hung"}
       => ssent[r] = 0 /\ ret[r] = -1
  /\ spc[r] = "reply" => ssent[r] \in 0..3
  /\ spc[r] = "open" => ssent[r] = 4
  /\ spc[r] \in {"reply", "open", "object"} => ret[r] # -1
  /\ spc[r] = "object" => ssent[r] \in 4..ReplyLen(r) - 1
  /\ spc[r] \in Before => doti[r] = Absent /\ cleanup[r] = {}
  /\ spc[r] = "BLK" => doti[r] # Absent /\ "doti" \notin cleanup[r]
  /\ spc[r] \in Uploaded => "doti" \in cleanup[r]
  /\ spc[r] \in Before \cup {"BLK", "objname"} => obj[r] = Absent
  /\ spc[r] \in Uploaded \ {"objname"} => obj[r] # Absent
  /\ ssent[r] >= 1 => ret[r] # -1
  /\ ret[r] # -1 => obj[r] # Absent
  /\ "doti" \in cleanup[r] => doti[r] # Absent
  /\ "obj" \in cleanup[r] => obj[r] # Absent
  /\ spc[r] \in Uploaded \ {"objname", "drawn"} => "obj" \in cleanup[r]

(* The two streams: all that has been sent and not yet taken, or, of a      *)
(* connection that was cut, the beginning of it.                            *)
UpStream(r) ==
  spc[r] \notin Ending =>
    /\ Len(up[r]) <= csent[r] - SRead(r)
    /\ ~cut[r] => Len(up[r]) = csent[r] - SRead(r)
    /\ \A i \in 1..Len(up[r]) : up[r][i] = RequestAt(SRead(r) + i)

DownStream(r) ==
  ~ClientGone(r) =>
    /\ Len(down[r]) <= ssent[r] - CRead(r)
    /\ ~cut[r] => Len(down[r]) = ssent[r] - CRead(r)
    /\ \A i \in 1..Len(down[r]) : down[r][i] = ReplyAt(r, CRead(r) + i)

(* A handler that ended by itself and without an exception did all of it. *)
CompletedUnlessRaised(r) ==
  spc[r] \in {"cleanup", "closed"} /\ ~raised[r] =>
    csent[r] = RequestLen /\ up[r] = <<>> /\ ssent[r] = ReplyLen(r)

(* What the client knows and holds. *)
Told(r) ==
  /\ cpc[r] \in {"SERR", "SOUT", "DOTO", "OBJ", "done"} =>
       ret[r] # -1 /\ cstat[r] = ret[r]
  /\ cpc[r] \in {"DOTO", "OBJ"} => cstat[r] = 0
  /\ ofile[r] # Old => ret[r] = 0
  /\ cpc[r] = "OBJ" =>
       /\ ofile[r] \in ObjFile
       /\ Len(ofile[r]) = Len(snap[r]) - cleft[r]
       /\ \A i \in 1..Len(ofile[r]) : ofile[r][i] = snap[r][i]
  /\ cpc[r] = "done" /\ cstat[r] = 0 => ofile[r] = snap[r] /\ ssent[r] >= 5

(* A .ii file belongs to one request, from the draw of its name on. *)
FileOf(r) ==
  doti[r] # Absent /\ spc[r] # "closed" =>
    /\ dotis[doti[r]] # Absent
    /\ dotis[doti[r]].of = r
    /\ spc[r] = "BLK" => dotis[doti[r]].n = SrcLen - sleft[r]
    /\ "doti" \in cleanup[r] => dotis[doti[r]].n = SrcLen
    /\ "doti" \notin cleanup[r] => dotis[doti[r]].n < SrcLen

OwnerOf(d) ==
  dotis[d] # Absent =>
    /\ doti[dotis[d].of] = d
    /\ spc[dotis[d].of] = "closed" => dotis[d].n < SrcLen

(* Nobody else touches the object of a handler that is alone with its name. *)
ObjectOf(r) ==
  ~SharesObject(r) =>
    /\ spc[r] = "compile" => objs[obj[r]] = Absent
    /\ spc[r] \in {"reply", "open"} =>
         objs[obj[r]] \in {Absent, Object(Source(r))}
    /\ (spc[r] = "object" \/ ssent[r] >= 5) /\ ret[r] = 0 =>
         snap[r] = Object(Source(r))

FailedForCause(r) ==
  cpc[r] = "failed" => raised[r] \/ spc[r] = "killed" \/ cut[r]

(* The file that has an object's name is that of a handler that will remove *)
(* it, or would have if it had not been killed.                             *)
HoldsObject(r, o) ==
  /\ obj[r] = o
  /\ spc[r] # "closed"
  /\ "obj" \in cleanup[r] \/ spc[r] \in {"drawn", "killed"}
ObjectHeld(o) == objs[o] # Absent => \E r \in Request : HoldsObject(r, o)

(* All of it: every request's streams, counters and files are where the two *)
(* sides' code says they are.                                               *)
IInv ==
  /\ TypeOK
  /\ \A r \in Request :
       /\ ClientAt(r) /\ HandlerAt(r)
       /\ UpStream(r) /\ DownStream(r) /\ CompletedUnlessRaised(r)
       /\ Told(r) /\ FileOf(r) /\ ObjectOf(r)
       /\ FailedForCause(r)
  /\ \A d \in DotiName : OwnerOf(d)
  /\ \A o \in ObjName : ObjectHeld(o)
=============================================================================
