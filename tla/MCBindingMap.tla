---------------------------- MODULE MCBindingMap ----------------------------
(* Small operation tables and messages for TLC.  Rows are built by R, with *)
(* the fields a table leaves at their defaults filled in.                  *)
EXTENDS BindingMap

In(di, so) == [di |-> di, so |-> so, co |-> "pt", at |-> "fl", ap |-> "pt"]
Auth(in)   == [in EXCEPT !.ap = "au"]
Lit(v)     == <<[live |-> TRUE, v |-> 0], [live |-> FALSE, v |-> v]>>
Out(di, dest) == [di |-> di, dest |-> dest, ad |-> "pt", at |-> ""]
R(code, operation, ins, params, o) ==
  [enabled |-> TRUE, operation |-> operation, code |-> code,
   inputs |-> ins, params |-> params, out |-> o]
A(di, mt) == [di |-> di, mt |-> mt]
M(verb, path, di, payload, cred) ==
  [verb |-> verb, path |-> path, di |-> di, payload |-> payload, cred |-> cred]
Bare(v)  == <<[code |-> "", v |-> v]>>

(* bm_temperature_controlled_light.xml in shape: two comparisons chained   *)
(* through internal indexes into a product that drives the light.          *)
Chain ==
  [ops |-> <<R("ot1", "gt", <<In(1, "ts")>>, Lit(1), Out(3, "")),
             R("ot2", "gt", <<In(2, "bt")>>, Lit(0), Out(4, "")),
             R("ot3", "mu", <<In(3, ""), In(4, "")>>, <<>>, Out(5, "li"))>>,
   addrs |-> <<A(1, "hi"), A(2, "hi"), A(3, "it"), A(4, "it"), A(5, "wi")>>]

(* One sensor feeds a row directly and through two others. *)
Diamond ==
  [ops |-> <<R("ot1", "gt", <<In(1, "ts")>>, Lit(1), Out(3, "")),
             R("ot2", "ad", <<In(1, "ts"), In(3, "")>>, <<>>, Out(4, "li")),
             R("ot3", "su", <<In(4, ""), In(3, "")>>, <<>>, Out(5, "li"))>>,
   addrs |-> <<A(1, "hi"), A(3, "it"), A(4, "wi"), A(5, "wi")>>]

(* Two buttons sharing one object path, each row gated per message. *)
TwoButtons ==
  [ops |-> <<R("ot1", "gt", <<Auth(In(1, "bt"))>>, Lit(0), Out(3, "li")),
             R("ot2", "gt", <<Auth(In(2, "bt"))>>, Lit(0), Out(4, "li"))>>,
   addrs |-> <<A(1, "hi"), A(2, "hi"), A(3, "wi"), A(4, "wi")>>]

(* An app row, a literal comparison to an unlisted device, a disabled row, *)
(* an index beyond the cache, an adjusted output, a row beyond MaxOps.     *)
AppRow ==
  [ops |-> <<R("ot1", "ap", <<In(1, "ts"), Auth(In(2, "bt"))>>, <<>>, Out(3, "")),
             [R("ot2", "su", <<In(3, "")>>, Lit(1), Out(0, "li")) EXCEPT !.out.ad = "av"],
             [R("ot3", "gt", <<In(6, "bt")>>, Lit(0), Out(4, "li")) EXCEPT !.enabled = FALSE],
             R("ot4", "gt", <<In(2, "bt")>>, Lit(0), Out(5, "li"))>>,
   addrs |-> <<A(1, "hi"), A(2, "sm")>>]

OrderedDocs == {Chain, Diamond, TwoButtons, AppRow}

(* The consumer stands before its producer: acyclic, but not in order. *)
Unordered ==
  [ops |-> <<R("ot1", "ad", <<In(1, "ts"), In(3, "")>>, <<>>, Out(5, "li")),
             R("ot2", "gt", <<In(1, "ts")>>, Lit(1), Out(3, ""))>>,
   addrs |-> <<A(1, "hi"), A(3, "it"), A(5, "wi")>>]
UnorderedDiamond ==
  [ops |-> <<R("ot1", "ad", <<In(3, ""), In(4, "")>>, <<>>, Out(5, "li")),
             R("ot2", "ad", <<In(1, "ts"), In(4, "")>>, <<>>, Out(3, "")),
             R("ot3", "gt", <<In(1, "ts")>>, Lit(1), Out(4, ""))>>,
   addrs |-> <<A(1, "hi"), A(3, "it"), A(4, "it"), A(5, "wi")>>]
AllDocs == OrderedDocs \cup {Unordered, UnorderedDiamond}

ButtonDocs == {TwoButtons}

(* The app turns a reading into a level, a second row shifts it. *)
AppChain ==
  [ops |-> <<R("ot1", "ap", <<In(1, "ts")>>, <<>>, Out(3, "")),
             R("ot2", "su", <<In(3, "")>>, Lit(1), Out(5, "li"))>>,
   addrs |-> <<A(1, "hi"), A(3, "it"), A(5, "wi")>>]
AppChainDocs == {AppChain}

(* Reports of the sensor, of either button, of both (index 0), a structured *)
(* answer with and without the datum, a GET request and a command.          *)
SensorReports == {M("EVENT", "ts", 1, Bare(v), "none") : v \in {0, 2}}
ButtonReports == {M("EVENT", "bt", di, Bare(v), c) : di \in {1, 2}, v \in {0, 1}, c \in {"ok", "bad"}}
OtherMessages ==
  {M("EVENT", "bt", 0, <<[code |-> "ty", v |-> 7], [code |-> "va", v |-> 1]>>, "ok"),
   M("EVENT", "ts", 1, <<[code |-> "ty", v |-> 7]>>, "none"),
   M("GET", "bt", 2, <<>>, "ok"),
   M("PUT", "li", 5, Bare(1), "ok")}
AllMessages == SensorReports \cup ButtonReports \cup OtherMessages

AllPermits  == {<<"ok", "ot1">>}
AllPolicies == {<<"ot3", "bk">>, <<"ot2", "pa">>, <<"ot3", "fl">>}
NoPolicies  == {}
BothHooks   == {{"app", "auth"}}
AnyHooks    == {{"app", "auth"}, {}}
AppValues   == {0, 2}
AppNaN      == {0, NaN}   \* a Lua 0/0 is a number too

(* n ones in binary: the bound on the recursion is 2^n_ops - 1. *)
ASSUME AllOnes == \A n \in 0 .. 10 : Binary(1 .. n, n) = 2 ^ n - 1
=============================================================================
