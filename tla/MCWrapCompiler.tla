---------------------------- MODULE MCWrapCompiler ----------------------------
(* WrapCompiler for TLC.  The first client is asked for whatever compiles   *)
(* among the arrangements of up to Parts of the parts below, and for some   *)
(* other commands; the second for an object with the stem of the first's.   *)
EXTENDS WrapCompiler

CONSTANTS Parts, c1, c2

Joins  == {<<"-DX=a", "c">>}
Others == {F("-O2"), <<"-frandom-seed=a", "c">>}

Part ==
  {<<<<"a", "c">>>>, <<<<"a", "C">>>>, <<<<"a", "i">>>>, <<<<"a", "ii">>>>,
   <<<<"a", "S">>>>,
   <<F("-c")>>, <<F("-S")>>, <<F("-E")>>, <<F("-x"), F("c")>>,
   <<<<"-DX=a", "c">>>>, <<F("-I"), F("c")>>, <<F("-MD")>>, <<F("-M")>>,
   <<F("-march=native")>>, <<F("-mcpu=native")>>, <<F("-mtune=native")>>,
   <<F("-O2")>>, <<<<"-frandom-seed=a", "c">>>>, <<F("-D"), F("X")>>,
   <<F("-MD"), F("-MP")>>, <<F("-MMD"), F("-MP")>>,
   <<F("-MD"), F("-MQ"), F("t")>>,
   <<F("-imacros"), <<"m", "h">>>>, <<F("-include"), <<"m", "h">>>>}
Arranged(n) ==
  {t \in [1..n -> Part] : \A i, j \in 1..n : t[i] = t[j] => i = j}
Compiles(t) == \E j \in DOMAIN t : t[j] \in {<<F("-c")>>, <<F("-S")>>}
Asked ==
  {FlattenSeq(t) : t \in Arranged(1) \cup Arranged(2)} \cup
  {<<F("-o"), <<"a", "o">>>> \o FlattenSeq(t) :
     t \in {u \in UNION {Arranged(n) : n \in 1..Parts} : Compiles(u)}}
MCCommands ==
  (c1 :> Asked) @@
  (c2 :> {<<F("-c"), <<"b", e>>, F("-o"), <<"a", "lo">>>> : e \in {"c", "cpp"}})

MCFiles ==
  [n \in {<<"a", "c">>, <<"a", "C">>, <<"a", "S">>,
          <<"b", "c">>, <<"b", "cpp">>} |-> Source(n)]
  @@ (<<"a", "i">> :> Text("doti", <<"a", "i">>, "c"))
  @@ (<<"a", "ii">> :> Text("doti", <<"a", "ii">>, "c++"))
  @@ (<<"m", "h">> :> Text("header", <<"m", "h">>, "none"))
===============================================================================
