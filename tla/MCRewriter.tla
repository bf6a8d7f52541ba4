----------------------------- MODULE MCRewriter -----------------------------
(***************************************************************************)
(* Three files, the last generated; three operators, of which one is a     *)
(* wrapper; a text with two candidates of one operator; and a function and *)
(* two methods of one name, the receiver of one a pointer to a generic     *)
(* type.                                                                   *)
(***************************************************************************)
EXTENDS Rewriter

CONSTANT NoFunc

ThreeFiles == {1, 2, 3}
LastFile == {3}
ThreeOps == {1, 2, 3}
LastOp == {3}
Dispatchers == <<"a", "b", "wrap">>

Func == [recv |-> "none", type |-> "", name |-> "M"]
Ptr == [recv |-> "star", type |-> "T", name |-> "M"]
Generic == [recv |-> "starindex", type |-> "G", name |-> "M"]
Code == {"s", "t"}
OneTwo == {1, 2}
Found ==
  [t \in Code \cup {Comment, Doc} |->
     CASE t = "s" -> <<{<<1, 1>>}, {}, {<<1, 1>>}>>
       [] t = "t" -> <<{<<1, 1>>, <<2, 1>>}, {<<2, 2>>}, {}>>
       [] OTHER -> <<{}, {}, {}>>]

Line(u, d, t, dir) == [uid |-> u, decl |-> d, text |-> t, indent |-> 0, dir |-> dir]
Start1 == <<Line(1, Func, "s", {}), Line(2, Ptr, "s", {{1}})>>
Start2 == <<Line(3, NoFunc, "s", {}), Line(4, Generic, "doc", {{3}}), Line(5, Generic, "s", {})>>
Start3 == <<Line(6, NoFunc, "t", {})>>
SomePackages == {<<Start1, Start2, Start3>>, <<Start2, Start3, <<>>>>}
SomeLines == {Line(0, Func, "s", {}), Line(0, Ptr, "comment", {{}}), Line(0, Func, "comment", {{0}})}

NoFilter == [diff |-> {<<0, 0>>}, exclude |-> {}, funcs |-> {}, ops |-> {1, 2, 3}]
SomeScopes ==
  { NoFilter,
    [NoFilter EXCEPT !.diff = {<<2, 1>>, <<2, 3>>}],
    [NoFilter EXCEPT !.exclude = {1}, !.ops = {1}],
    [NoFilter EXCEPT !.funcs = {<<"dot", "T", "M">>}] }
=============================================================================
