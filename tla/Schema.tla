------------------------------- MODULE Schema -------------------------------
(***************************************************************************)
(* The mutant schema: one program that holds every kept mutant of a        *)
(* package, of which the environment variable KANLY_MUTANT activates one.  *)
(* The rewriter replaces each candidate's node by a call of a dispatcher;  *)
(* the dispatchers are rendered from the mutations by their operators.     *)
(*                                                                         *)
(* A run of the test binary is abstracted to evaluating the rewritten tree *)
(* once: its value and the trace of calls, channel operations and switch   *)
(* bodies it leaves.                                                       *)
(***************************************************************************)
EXTENDS Operators, FiniteSets

CONSTANTS Programs,  \* the programs: records t, named, e (see GoLang)
          Inputs     \* the inputs: records x (of the integer variable), b

VARIABLES g,         \* the program
          only,      \* the operators selected (Options.Operators)
          kept,      \* the mutants that reached the schema, by ID
          schema,    \* the rewritten program
          test,      \* KANLY_MUTANT and the input of a run of the test binary
          out        \* its outcome: a value v and a trace tr

vars == <<g, only, kept, schema, test, out>>

-----------------------------------------------------------------------------
(* Rewriting. *)

Disp(fn, op, a, ids) ==
  [k |-> "disp", fn |-> fn, op |-> op, n |-> 0, a |-> a, cl |-> <<>>, ids |-> ids]
Closure(e) == Node("closure", "", 0, <<e>>)

\* The groups on node p, one per dispatcher key, each named by its first
\* mutant; shape-specific rewrites come before the ones that wrap.
Group(M, p, i) == InOrder({j \in DOMAIN M : M[j].at = p /\ DispatcherKey(M[j].op) = DispatcherKey(M[i].op)})
Firsts(M, p)   == {i \in DOMAIN M : M[i].at = p /\ Group(M, p, i)[1] = i}
Shaped(M, p)   == {i \in Firsts(M, p) : M[i].op \notin Wrappers}

Groups(M, p)   == InOrder(Shaped(M, p)) \o InOrder(Firsts(M, p) \ Shaped(M, p))

\* Two shape-specific rewrites of one node are refused.
Clash(M) == \E i \in DOMAIN M : Cardinality(Shaped(M, M[i].at)) > 1

\* IntLiteral.RewriteGroup: plain int takes a dispatcher; any other integer
\* type, which cannot be spelled at the call site, a sum typed by its context.
RECURSIVE SumOf(_)
SumOf(terms) == IF Len(terms) = 1 THEN terms[1] ELSE Bin("+", SumOf(Front(terms)), Last(terms))

LitTerm(v, selector) == Bin("*", Lit(v), Bin(">>", Lit(1), selector))

RewriteIntLiteral(M, t, cur, ids) ==
  LET on(i) == IF M[i].v = 0 THEN <<>> ELSE <<LitTerm(M[i].v, Disp("MutLitOn", "", <<>>, <<i>>))>>
  IN  IF t = "int" THEN Disp("MutIntLit", "", <<cur>>, ids)
      ELSE SumOf(<<LitTerm(cur.n, Disp("MutLitOff", "", <<>>, ids))>>
                 \o FlattenSeq([n \in DOMAIN ids |-> on(ids[n])]))

\* The switch becomes one on the index of the clause that matches.
RewriteSwitch(M, cur, ids) ==
  LET drops(c) == {i \in ToSet(ids) : M[i].to = "drop" /\ M[i].v = c}
      swaps    == SelectSeq(ids, LAMBDA i : M[i].to = "swap")
  IN  [Disp("Switch", "", cur.a, swaps) EXCEPT
         !.cl = [c \in DOMAIN cur.cl |->
                  IF drops(c) = {} THEN cur.cl[c]
                  ELSE [cur.cl[c] EXCEPT !.drop = CHOOSE i \in drops(c) : TRUE]]]

RewriteBoolLiteral(t, cur, ids) ==
  LET call == Disp("MutBoolLit", "", <<cur>>, ids)
  IN  IF t = "bool" THEN call ELSE Bin("==", call, BoolLit(1))

stmtSwapCall(cur, mut, ids) == ExprStmt(Disp("MutStmt", "", <<Closure(cur), Closure(mut)>>, ids))

RewriteChanOp(cur, ids) ==
  IF cur.k = "recv" THEN Disp("MutRecv", cur.op, <<>>, ids)
  ELSE ExprStmt(Disp("MutCallSkip", "", <<Closure(cur)>>, ids))

RewriteBoolLogic(cur, ids) == Disp("MutBool", cur.op, <<cur.a[1], Closure(cur.a[2])>>, ids)

\* op.Rewrite or op.RewriteGroup on cur, which stands at p.
Emit(M, p, cur, i) ==
  LET ids == Group(M, p, i)
      op  == M[i].op
      t   == TypeOf(g, p)
  IN  CASE op = "int_arith"   -> Disp("MutInt", cur.op, cur.a, ids)
        [] op = "int_bitwise" -> Disp("MutIntBit", cur.op, cur.a, ids)
        [] DispatcherKey(op) = "int_cmp" -> Disp("MutIntCmp", cur.op, cur.a, ids)
        [] op = "bool_logic"  -> RewriteBoolLogic(cur, ids)
        [] op = "bool_not"    -> Disp("MutNot", "", cur.a, ids)
        [] op = "err_return_nil" -> Disp("MutErr", "", <<cur>>, ids)
        [] op = "call_delete" -> Disp("MutCallSkip", "", <<Closure(cur)>>, ids)
        [] op = "string_literal" -> Disp("MutString", "", <<cur>>, ids)
        [] op = "slice_index" -> Index(Disp("MutIdx", "", cur.a, ids))
        [] op = "slice_range" -> Disp("MutIdx", "", <<cur>>, ids)
        [] op = "inc_dec"     -> stmtSwapCall(cur, IncDec(incDecSibling[cur.op]), ids)
        [] op = "int_compound_assign" ->
             stmtSwapCall(cur, Assign(compoundSibling[cur.op], cur.a[1]), ids)
        [] op = "int_literal" -> RewriteIntLiteral(M, t, cur, ids)
        [] DispatcherKey(op) = "return_zero" -> Disp("MutRetZero", t, <<cur>>, ids)
        [] op = "bool_literal" -> RewriteBoolLiteral(t, cur, ids)
        [] op = "chan_op"     -> RewriteChanOp(cur, ids)
        [] op = "switch_case" -> RewriteSwitch(M, cur, ids)

\* Post-order: a node is rewritten after its children.
RECURSIVE Rewrite(_, _, _)
Rewrite(M, e, p) ==
  FoldLeft(LAMBDA cur, i : Emit(M, p, cur, i),
           [e EXCEPT !.a = [i \in DOMAIN e.a |-> Rewrite(M, e.a[i], Append(p, i))]],
           Groups(M, p))

-----------------------------------------------------------------------------
(* The dispatchers, rendered for the mutations of their operators. *)

Feeds(fn) ==
  CASE fn = "MutInt"      -> {"int_arith"}
    [] fn = "MutIntCmp"   -> {"int_cmp_boundary", "int_cmp_negate"}
    [] fn = "MutBool"     -> {"bool_logic"}
    [] fn = "MutNot"      -> {"bool_not"}
    [] fn = "MutErr"      -> {"err_return_nil"}
    [] fn = "MutCallSkip" -> {"call_delete", "chan_op"}
    [] fn = "MutRecv"     -> {"chan_op"}
    [] fn = "Switch"      -> {"switch_case"}    \* __cMutKeep and __cMutSwap
    [] fn = "MutString"   -> {"string_literal"}
    [] fn = "MutIdx"      -> {"slice_index", "slice_range"}
    [] fn = "MutStmt"     -> {"inc_dec", "int_compound_assign"}
    [] fn = "MutIntBit"   -> {"int_bitwise"}
    [] fn \in {"MutIntLit", "MutLitOff", "MutLitOn"} -> {"int_literal"}
    [] fn = "MutRetZero"  -> {"return_zero", "struct_field_zero"}
    [] fn = "MutBoolLit"  -> {"bool_literal"}

\* The template renders __cMutInt always, any other only when it has mutations.
Rendered(M, fn) == fn = "MutInt" \/ \E i \in DOMAIN M : M[i].op \in Feeds(fn)

mutantExpr(m) == IF m.to \in Arith THEN m.to ELSE "+"
intCmpExpr(m) == IF m.to \in Cmps THEN m.to ELSE "<"
intBitExpr(m) == IF m.to \in Bits THEN m.to ELSE "&"
boolLogicExpr(m) == IF m.to = "&&" THEN "&&" ELSE "||"
sliceIdxExpr(m, t, i) == IF m.to \in {"+", "-"} THEN BinOp(t, m.to, i, IntV(1)) ELSE i

\* var zero T; the nil of a pointer type is not the nil interface.
Zero(t) == CASE t = "int" -> IntV(0) [] t = "bool" -> BoolV(FALSE) [] t = "string" -> <<"str", 0>>
             [] t \in {"ptr", "slice"} -> <<t, -1>> [] OTHER -> NilV

\* KANLY_MUTANT: 0 stands for a variable that is unset or holds no mutant ID.
readActiveMutant(v) == IF v < 1 THEN -1 ELSE v

-----------------------------------------------------------------------------
(* Evaluation of source and rewritten trees alike.  rt: the type t, the     *)
(* input x and b, the mutations M, the active mutant, and whether recover   *)
(* would be called directly by the deferred function.                       *)

Done(v, tr) == [v |-> v, tr |-> tr]
Then(r, F(_)) == IF r.v = Panic THEN r
                 ELSE LET s == F(r.v) IN Done(s.v, r.tr \o s.tr)

Elems == 3                            \* of the array indexed and the slice cut
RecvV(elem) == IF elem = "error" THEN <<"err", 2>> ELSE IntV(2)

\* The marks of the bodies run from clause i on.
RECURSIVE Bodies(_, _)
Bodies(cl, i) == IF i = 0 THEN <<>>
                 ELSE <<<<"body", cl[i].body>>>> \o IF cl[i].fall THEN Bodies(cl, i + 1) ELSE <<>>

\* __cMutSwap, once per swap mutant
SwapIndex(rt, swaps, idx) ==
  LET hit == \E n \in DOMAIN swaps : swaps[n] = rt.active
      a   == rt.M[rt.active].v
  IN  IF ~hit THEN idx ELSE IF idx = a THEN a + 1 ELSE IF idx = a + 1 THEN a ELSE idx

RECURSIVE Eval(_, _)
RECURSIVE Match(_, _, _, _, _)
RECURSIVE Dispatch(_, _)

\* The clause that matches, from expression j of clause i on; 0 if there is none.
\* A clause whose drop mutant is active (__cMutKeep) compares nothing.
Match(rt, e, tag, i, j) ==
  IF i > Len(e.cl)
  THEN LET ds == {d \in DOMAIN e.cl : e.cl[d].dflt}
       IN  Done(<<"clause", IF ds = {} THEN 0 ELSE CHOOSE d \in ds : TRUE>>, <<>>)
  ELSE IF j > Len(e.cl[i].at) \/ e.cl[i].drop = rt.active
  THEN Match(rt, e, tag, i + 1, 1)
  ELSE Then(Eval(rt, e.a[e.cl[i].at[j]]), LAMBDA v :
         IF v[2] = (IF tag = Unit THEN 1 ELSE tag[2]) THEN Done(<<"clause", i>>, <<>>)
         ELSE Match(rt, e, tag, i, j + 1))

Logical(rt, op, x, y) == IF (x[2] = 1) = (op = "||") THEN Done(x, <<>>) ELSE Eval(rt, y)

\* The active mutant, whether it is one of a call's, and whether it has a
\* branch in the dispatcher called.
Active(rt)   == rt.M[rt.active]
Hit(rt, e)   == \E n \in DOMAIN e.ids : e.ids[n] = rt.active
Fired(rt, e) == Hit(rt, e) /\ Active(rt).op \in Feeds(e.fn)

\* Arguments are evaluated before the call; a closure when it is called, and
\* recover is then not called by the deferred function itself.
Arg(rt, e, F(_)) == Then(Eval(rt, e.a[1]), LAMBDA x : Done(F(x), <<>>))
Args(rt, e, F(_, _)) == Then(Eval(rt, e.a[1]), LAMBDA x :
                          Then(Eval(rt, e.a[2]), LAMBDA y : Done(F(x, y), <<>>)))
Inside(rt)    == [rt EXCEPT !.direct = FALSE]
Invoke(rt, c) == Eval(Inside(rt), c.a[1])

MutInt(rt, e) == Args(rt, e, LAMBDA x, y :
  BinOp(rt.t, IF Fired(rt, e) THEN mutantExpr(Active(rt)) ELSE e.op, x, y))
MutIntBit(rt, e) == Args(rt, e, LAMBDA x, y :
  BinOp(rt.t, IF Fired(rt, e) THEN intBitExpr(Active(rt)) ELSE e.op, x, y))
MutIntCmp(rt, e) == Args(rt, e, LAMBDA x, y :
  BinOp(rt.t, IF Fired(rt, e) THEN intCmpExpr(Active(rt)) ELSE e.op, x, y))
MutBool(rt, e) == Then(Eval(rt, e.a[1]), LAMBDA x :
  Logical(Inside(rt), IF Fired(rt, e) THEN boolLogicExpr(Active(rt)) ELSE e.op, x, e.a[2]))
MutNot(rt, e) == Arg(rt, e, LAMBDA x : IF Fired(rt, e) THEN x ELSE BoolV(x[2] = 0))
MutErr(rt, e) == Arg(rt, e, LAMBDA x : IF Fired(rt, e) THEN NilV ELSE x)
MutCallSkip(rt, e) == IF Hit(rt, e) THEN Done(Unit, <<>>) ELSE Invoke(rt, e.a[1])
MutRecv(rt, e) == IF Hit(rt, e) THEN Done(IF e.op = "error" THEN NilV ELSE IntV(0), <<>>)
                  ELSE Done(RecvV(e.op), <<<<"recv", 0>>>>)
MutString(rt, e) == Arg(rt, e, LAMBDA x : IF Hit(rt, e) THEN <<"str", 0>> ELSE x)
MutIdx(rt, e) == Arg(rt, e, LAMBDA x :
  IF Fired(rt, e) THEN sliceIdxExpr(Active(rt), rt.t, x) ELSE x)
MutStmt(rt, e) == Invoke(rt, e.a[IF Hit(rt, e) THEN 2 ELSE 1])
MutIntLit(rt, e) == Arg(rt, e, LAMBDA x : IF Fired(rt, e) THEN IntV(Active(rt).v) ELSE x)
MutLitOff(rt, e) == Done(IntV(IF Hit(rt, e) THEN 1 ELSE 0), <<>>)
MutLitOn(rt, e) == Done(IntV(IF Hit(rt, e) THEN 0 ELSE 1), <<>>)
MutRetZero(rt, e) == Arg(rt, e, LAMBDA x : IF Hit(rt, e) THEN Zero(e.op) ELSE x)
MutBoolLit(rt, e) == Arg(rt, e, LAMBDA x : IF Hit(rt, e) THEN BoolV(x[2] = 0) ELSE x)

\* The rewritten switch: a closure finds the clause, the bodies stay outside.
MutSwitch(rt, e) ==
  Then(Eval(Inside(rt), e.a[1]), LAMBDA tag :
    Then(Match(Inside(rt), e, tag, 1, 1), LAMBDA i :
      Done(Unit, Bodies(e.cl, SwapIndex(rt, e.ids, i[2])))))

Dispatch(rt, e) ==
  CASE e.fn = "MutInt"      -> MutInt(rt, e)
    [] e.fn = "MutIntBit"   -> MutIntBit(rt, e)
    [] e.fn = "MutIntCmp"   -> MutIntCmp(rt, e)
    [] e.fn = "MutBool"     -> MutBool(rt, e)
    [] e.fn = "MutNot"      -> MutNot(rt, e)
    [] e.fn = "MutErr"      -> MutErr(rt, e)
    [] e.fn = "MutCallSkip" -> MutCallSkip(rt, e)
    [] e.fn = "MutRecv"     -> MutRecv(rt, e)
    [] e.fn = "MutString"   -> MutString(rt, e)
    [] e.fn = "MutIdx"      -> MutIdx(rt, e)
    [] e.fn = "MutStmt"     -> MutStmt(rt, e)
    [] e.fn = "MutIntLit"   -> MutIntLit(rt, e)
    [] e.fn = "MutLitOff"   -> MutLitOff(rt, e)
    [] e.fn = "MutLitOn"    -> MutLitOn(rt, e)
    [] e.fn = "MutRetZero"  -> MutRetZero(rt, e)
    [] e.fn = "MutBoolLit"  -> MutBoolLit(rt, e)
    [] e.fn = "Switch"      -> MutSwitch(rt, e)

Eval(rt, e) ==
  LET sub(F(_)) == Then(Eval(rt, e.a[1]), F)
  IN  CASE e.k \in {"lit", "named"} -> Done(IntV(e.n), <<>>)
        [] e.k = "var"       -> Done(IntV(rt.x), <<>>)
        [] e.k = "boollit"   -> Done(BoolV(e.n = 1), <<>>)
        [] e.k = "boolvar"   -> Done(BoolV(rt.b), <<>>)
        [] e.k \in {"strlit", "strvar"} -> Done(<<"str", e.n>>, <<>>)
        [] e.k \in {"ptr", "err"} -> Done(<<e.k, 1>>, <<>>)
        [] e.k = "recovered" -> Done(BoolV(rt.direct), <<>>)
        [] e.k = "call" /\ e.a = <<>> -> Done(IntV(e.n), <<<<"call", e.n>>>>)
        [] e.k = "call"      -> sub(LAMBDA x : Done(IntV(e.n), <<<<"call", e.n, x[2]>>>>))
        [] e.k = "recv"      -> Done(RecvV(e.op), <<<<"recv", 0>>>>)
        [] e.k = "nop"       -> Done(Unit, <<>>)
        [] e.k = "zero"      -> sub(LAMBDA x : Done(Zero(e.op), <<>>))
        [] e.k = "not"       -> sub(LAMBDA x : Done(BoolV(x[2] = 0), <<>>))
        [] e.k = "bin" /\ e.op \in Logic -> sub(LAMBDA x : Logical(rt, e.op, x, e.a[2]))
        [] e.k = "bin"       -> sub(LAMBDA x : Then(Eval(rt, e.a[2]), LAMBDA y :
                                  Done(BinOp(rt.t, e.op, x, y), <<>>)))
        [] e.k = "index"     -> sub(LAMBDA x :
             Done(IF x[2] \in 0..(Elems - 1) THEN IntV(x[2]) ELSE Panic, <<>>))
        [] e.k = "slice"     -> sub(LAMBDA lo : Then(Eval(rt, e.a[2]), LAMBDA hi :
             Done(IF 0 <= lo[2] /\ lo[2] <= hi[2] /\ hi[2] <= Elems
                  THEN <<"slice", lo[2] * (Elems + 1) + hi[2]>> ELSE Panic, <<>>)))
        [] e.k \in {"return", "field", "const", "usage", "commaok", "closure"} -> Eval(rt, e.a[1])
        [] e.k = "exprstmt"  -> sub(LAMBDA x : Done(Unit, <<>>))
        [] e.k = "incdec"    -> Done(Unit, <<<<"x", Wrap(rt.t, IF e.op = "++" THEN rt.x + 1 ELSE rt.x - 1)>>>>)
        [] e.k = "assign"    -> sub(LAMBDA y :
             LET v == BinOp(rt.t, e.op, IntV(rt.x), y)
             IN  Done(IF v = Panic THEN v ELSE Unit, <<<<"x", v[2]>>>>))
        [] e.k = "send"      -> sub(LAMBDA x : Done(Unit, <<<<"send", x[2]>>>>))
        [] e.k = "switch"    -> sub(LAMBDA tag :
             Then(Match(rt, e, tag, 1, 1), LAMBDA i :
               Done(Unit, Bodies(e.cl, IF i[2] = 0 THEN 0 ELSE e.cl[i[2]].to))))
        [] e.k = "disp"      -> Dispatch(rt, e)

-----------------------------------------------------------------------------
(* Type-checking the schema.  Constants and comparisons are untyped; a      *)
(* generic dispatcher infers its type from a typed argument, or takes the   *)
(* default type of the untyped ones.                                        *)

Ints    == {"untyped", "int", "uint", "sized"}
Default(t) == CASE t = "untyped" -> "int" [] t = "ubool" -> "bool" [] t = "ustr" -> "string"
                [] OTHER -> t
Untyped == {"untyped", "ubool", "ustr"}
Join(s, t) == IF s = t \/ s \in Untyped THEN t ELSE IF t \in Untyped THEN s ELSE "bad"

RECURSIVE HasCall(_)
HasCall(e) == e.k = "disp" \/ \E i \in DOMAIN e.a : HasCall(e.a[i])

\* A value of type t fits a result, field, channel or parameter of its kind.
Fits(prog, t) == t \in Untyped \cup {prog.t, BoolType(prog), StrType(prog), "error", "ptr", "slice"}

\* The type an expression has by itself; "bad" if it, or a part, does not compile.
RECURSIVE Own(_, _, _)
Own(prog, M, e) ==
  LET T(i) == Own(prog, M, e.a[i])
      If(cond, t) == IF cond THEN t ELSE "bad"
  IN  IF \E i \in DOMAIN e.a : T(i) = "bad" THEN "bad" ELSE
      CASE e.k = "lit" -> "untyped"
        [] e.k = "call" -> If(\A i \in DOMAIN e.a : Fits(prog, T(i)), prog.t)
        [] e.k \in {"named", "var"} -> prog.t
        [] e.k = "recv" -> IF e.op = "error" THEN "error" ELSE prog.t
        [] e.k = "strlit" -> "ustr"
        [] e.k \in {"boollit", "recovered"} -> "ubool"
        [] e.k = "boolvar" -> BoolType(prog)
        [] e.k = "strvar" -> StrType(prog)
        [] e.k = "ptr" -> "ptr"
        [] e.k = "err" -> "error"
        [] e.k \in {"index", "slice"} ->
             If(\A i \in DOMAIN e.a : T(i) \in Ints, IF e.k = "index" THEN prog.t ELSE "slice")
        [] e.k = "not" -> T(1)
        [] e.k = "bin" /\ e.op \in Cmps -> If(Join(T(1), T(2)) # "bad", "ubool")
        [] e.k = "bin" /\ e.op \in Shifts -> If(T(2) \in Ints, T(1))
        [] e.k = "bin" -> Join(T(1), T(2))
        [] e.k = "const" -> If(~HasCall(e.a[1]), "stmt")
        [] e.k = "commaok" -> If(e.a[1].k = "recv", "stmt")
        [] e.k \in {"return", "field"} -> If(e.op = "iface" \/ Fits(prog, T(1)), "stmt")
        [] e.k = "assign" -> If(e.op \in Shifts \/ Join(prog.t, T(1)) # "bad", "stmt")
        [] e.k = "send" -> If(Fits(prog, T(1)), "stmt")
        [] e.k = "closure" -> T(1)
        [] e.k = "switch" \/ (e.k = "disp" /\ e.fn = "Switch") ->
             LET tag == IF e.a[1].k = "nop" THEN "bool" ELSE Default(T(1))
             IN  If(\A i \in 2..Len(e.a) : \/ Join(tag, T(i)) # "bad"
                                           \/ e.a[1].k = "nop" /\ T(i) = BoolType(prog), "stmt")
        [] e.k # "disp" -> "stmt"
        [] ~Rendered(M, e.fn) -> "bad"
        [] e.fn \in {"MutInt", "MutIntBit"} -> Default(Join(T(1), T(2)))
        [] e.fn = "MutIntCmp" -> If(Join(T(1), T(2)) # "bad", "bool")
        [] e.fn \in {"MutBool", "MutNot", "MutIdx", "MutRetZero"} -> Default(T(1))
        [] e.fn = "MutErr" -> If(T(1) = "error", "error")
        [] e.fn = "MutString" -> If(Default(T(1)) = "string", "string")
        [] e.fn = "MutIntLit" -> "int"
        [] e.fn \in {"MutLitOff", "MutLitOn"} -> "uint"
        [] e.fn = "MutBoolLit" -> "bool"
        [] e.fn = "MutRecv" -> IF e.op = "error" THEN "error" ELSE prog.t
        [] OTHER -> "stmt"

-----------------------------------------------------------------------------
Run(tree, M, active, input) ==
  Eval([t |-> g.t, x |-> input.x, b |-> input.b, M |-> M, active |-> active, direct |-> TRUE], tree)

Pending == Done(<<"pending", 0>>, <<>>)

Init == /\ g \in Programs
        /\ only = {} /\ kept = <<>> /\ schema = Nop
        /\ test = [mutant |-> 0, input |-> CHOOSE i \in Inputs : TRUE]
        /\ out = Pending

\* RewriteWith, for every operator or for the ones --operators names: every
\* candidate is numbered, the selected ones are rewritten.
Instrument ==
  LET cs  == Candidates(g)
      all == {cs[i].op : i \in DOMAIN cs}
  IN  /\ schema = Nop
      /\ \E ops \in {all} \cup {{op} : op \in all} :
           /\ ops # {}
           /\ only' = ops
           /\ kept' = [i \in {j \in DOMAIN cs : cs[j].op \in ops} |-> cs[i]]
      /\ schema' = Rewrite(kept', g.e, <<>>)
      /\ UNCHANGED <<g, test, out>>

\* The test binary runs with KANLY_MUTANT = m.
RunTest(m, input) ==
  /\ schema # Nop /\ out = Pending
  /\ test' = [mutant |-> m, input |-> input]
  /\ out' = Run(schema, kept, readActiveMutant(m), input)
  /\ UNCHANGED <<g, only, kept, schema>>

Next == \/ Instrument
        \/ \E m \in {0} \cup DOMAIN kept, input \in Inputs : RunTest(m, input)

Spec == Init /\ [][Next]_vars

-----------------------------------------------------------------------------
(* What a mutant means: the program with one change written into it. *)

Written(c) ==
  LET e == At(g.e, c.at)
      new == CASE c.op \in {"int_arith", "int_bitwise", "int_cmp_boundary", "int_cmp_negate",
                            "bool_logic", "inc_dec", "int_compound_assign"} -> [e EXCEPT !.op = c.to]
               [] c.op = "bool_not" -> e.a[1]
               [] c.op = "call_delete" -> Nop
               [] c.op \in {"string_literal", "int_literal", "bool_literal"} ->
                    [e EXCEPT !.n = c.v]
               [] c.op = "slice_index" -> Index(Bin(c.to, e.a[1], Lit(1)))
               [] c.op = "slice_range" -> Bin(c.to, e, Lit(1))
               [] c.op \in {"return_zero", "struct_field_zero"} ->
                    Node("zero", CASE IsBool(e) -> "bool" [] IsInt(e) -> "int" [] e.k = "strvar" -> "string"
                                   [] At(g.e, Parent(c.at)).op = "iface" -> "nil" [] OTHER -> e.k, 0, <<e>>)
               [] c.op = "err_return_nil" -> Node("zero", "nil", 0, <<e>>)
               [] c.op = "chan_op" /\ e.k = "recv" ->
                    Node("zero", IF IsErr(e) THEN "nil" ELSE "int", 0, <<Nop>>)
               [] c.op = "chan_op" -> Nop
               [] c.to = "drop" -> [e EXCEPT !.cl[c.v].at = <<>>]
               [] c.to = "swap" -> [e EXCEPT !.cl[c.v].to = c.v + 1, !.cl[c.v + 1].to = c.v]
  IN  Put(g.e, c.at, new)

Meant == Run(IF test.mutant = 0 THEN g.e ELSE Written(kept[test.mutant]), kept, -1, test.input)

\* A deleted call, a send or a compound assignment is moved into a closure
\* without a look for recover in its operands.
RecoverMoved ==
  \E i \in DOMAIN kept : /\ kept[i].op \in {"call_delete", "chan_op", "int_compound_assign"}
                         /\ containsRecover(At(g.e, kept[i].at))

\* The schema behaves, with a mutant active, exactly as the program with that
\* one change written into its source, and with none active as the program
\* itself: same value or panic, same calls, receives, sends and switch bodies
\* in the same order, however the other mutants' dispatchers nest around it.
\* Programs in which call_delete, chan_op or int_compound_assign moves a
\* recover are left to RecoverWorks.
SchemaFaithful == out # Pending /\ ~RecoverMoved => out = Meant

\* With no mutant active the instrumented program is the program, also where
\* it calls recover: context_test.go pins that operators skip the positions
\* where "the rewrite changes behaviour while no mutant is active".
RecoverWorks == out # Pending /\ test.mutant = 0 => out = Meant

\* The numbers of type t where int and uint have w bits; a literal rewritten in
\* t is held by t, and its mutants with it, wherever the source compiles.
Held(t, w) == IF t = "uint" THEN 0..(2^w - 1) ELSE -(2^(w - 1))..(2^(w - 1) - 1)
LiteralsHeld ==
  \A i \in DOMAIN kept : kept[i].op = "int_literal" =>
    LET t == TypeOf(g, kept[i].at)
    IN  \A w \in {IF t = "sized" THEN Width ELSE Narrow, Width} :
          At(g.e, kept[i].at).n \in Held(t, w) => kept[i].v \in Held(t, w)

\* The schema compiles: no two operators claim one node, every dispatcher that
\* is called is rendered, the types generic dispatchers infer, or literals
\* take from their context, fit where the calls stand, and no mutant of a
\* literal overflows its type on a target on which the literal does not.
SchemaCompiles ==
  schema # Nop /\ out = Pending =>
    ~Clash(kept) /\ Own(g, kept, schema) # "bad" /\ LiteralsHeld
=============================================================================
