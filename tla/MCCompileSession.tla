-------------------------- MODULE MCCompileSession --------------------------
(* CompileSession for TLC: requests and file names are interchangeable. *)
EXTENDS CompileSessionInv, TLC

Symmetry ==
  Permutations(Request) \cup Permutations(DotiName) \cup Permutations(ObjName)

(* TLC may not use symmetry when it checks liveness.  Numbering the files   *)
(* in the order they are first picked, and the requests in the order their  *)
(* connections are accepted, or lost before that, loses nothing and leaves  *)
(* one of each set of states that differ only by names.                     *)
InOrder(name) == \A r \in Request : name[r] # Absent /\ name[r] > 1 =>
                   \E q \in Request : name[q] = name[r] - 1
NamesInOrder ==
  /\ InOrder(doti) /\ InOrder(obj)
  /\ \A r \in Request : spc[r] # "idle" /\ r > 1 => spc[r - 1] # "idle"

(* Faults are not fair, so fewer of them is a smaller set of whole          *)
(* behaviours: any number of them in one session, none in the others.       *)
Faulty(r) ==
  \/ cpc[r] \in {"starved", "ioerror", "killed"}
  \/ spc[r] \in {"hung", "killed"}
  \/ cut[r]
OneFaulty == Cardinality({r \in Request : Faulty(r)}) <= 1
=============================================================================
