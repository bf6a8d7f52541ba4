----------------------------- MODULE Operators ------------------------------
(***************************************************************************)
(* The mutation operators of internal/operators: which nodes of a program  *)
(* each one turns into candidates, in the order Find reports them.         *)
(*                                                                         *)
(* A candidate is an operator, the path of the node the rewrite replaces,  *)
(* and what the mutant puts there: an operator (to) or a number (v).       *)
(***************************************************************************)
EXTENDS GoLang, TLC, SequencesExt

CONSTANT Narrow  \* bits int and uint are taken to have (32) when a literal fits them

ASSUME NarrowAssumption == Narrow \in 1..Width

\* The registration order, which numbers the mutants.
Registry == <<"int_arith", "int_cmp_boundary", "int_cmp_negate", "bool_logic",
  "bool_not", "err_return_nil", "call_delete", "string_literal", "slice_index",
  "slice_range", "inc_dec", "int_compound_assign", "int_bitwise", "int_literal",
  "return_zero", "bool_literal", "struct_field_zero", "chan_op", "switch_case">>

DispatcherKey(op) ==
  CASE op \in {"int_cmp_boundary", "int_cmp_negate"}  -> "int_cmp"
    [] op = "err_return_nil"                          -> "err_return"
    [] op \in {"inc_dec", "int_compound_assign"}      -> "stmt_swap"
    [] op = "struct_field_zero"                       -> "return_zero"
    [] OTHER                                          -> op

\* mutation.Wrapper: Rewrite wraps the expression whatever its shape.
Wrappers == {"err_return_nil", "slice_range", "return_zero", "struct_field_zero"}

sibling         == "+" :> "-" @@ "-" :> "+" @@ "*" :> "/" @@ "/" :> "*" @@ "%" :> "*"
bitwiseSibling  == "&" :> "|" @@ "|" :> "&" @@ "^" :> "&" @@ "&^" :> "&"
                   @@ "<<" :> ">>" @@ ">>" :> "<<"
compoundSibling == sibling @@ bitwiseSibling
boundarySibling == "<" :> "<=" @@ "<=" :> "<" @@ ">" :> ">=" @@ ">=" :> ">"
negateMap       == "<" :> ">=" @@ ">" :> "<=" @@ "<=" :> ">" @@ ">=" :> "<"
                   @@ "==" :> "!=" @@ "!=" :> "=="
incDecSibling   == "++" :> "--" @@ "--" :> "++"
logicSibling    == "&&" :> "||" @@ "||" :> "&&"

-----------------------------------------------------------------------------
(* Type guards, shared by the operators. *)

RECURSIVE hasOwnType(_)
hasOwnType(e) ==
  \/ e.k \in {"named", "var", "boolvar", "strvar", "call", "recv", "index", "ptr", "err"}
  \/ e.k = "not" /\ hasOwnType(e.a[1])
  \/ e.k = "bin" /\ e.op \notin Cmps /\ hasOwnType(e.a[1])
  \/ e.k = "bin" /\ e.op \notin Cmps \cup Shifts /\ hasOwnType(e.a[2])

\* Mutant: inference is never checked.
AlwaysInferable(t, x, y) == TRUE

operandsInferable(t, x, y) == hasOwnType(x) \/ hasOwnType(y) \/ t = "int"

\* x and y, of types tx and ty, are integers of one type a generic dispatcher infers.
intOperands(tx, x, ty, y) ==
  /\ ~(IsConst(x) /\ IsConst(y))
  /\ IsInt(x) /\ IsInt(y)
  /\ tx = ty /\ operandsInferable(tx, x, y)

intOperand(x)  == IsInt(x) /\ ~IsConst(x)
boolOperand(x) == IsBool(x) /\ ~IsConst(x)
boolOperands(x, y) == IsBool(x) /\ IsBool(y) /\ ~(IsConst(x) /\ IsConst(y))

isPlainBoolResult(g, p) == TypeOf(g, p) \in {"bool", "untyped"}
boolResultInferable(g, p, operand) == isPlainBoolResult(g, p) \/ hasOwnType(operand)

RECURSIVE containsRecover(_)
containsRecover(e) == e.k = "recovered" \/ \E i \in DOMAIN e.a : containsRecover(e.a[i])

\* An array length or a const declaration: also litMutable and stringLitMutable.
inConstantPosition(g, p) == \E n \in 0..(Len(p) - 1) : At(g.e, SubSeq(p, 1, n)).k = "const"

\* The node at p and its children, with their types.
IntPair(g, p) == LET e == At(g.e, p)
                 IN  intOperands(TypeOf(g, Append(p, 1)), e.a[1], TypeOf(g, Append(p, 2)), e.a[2])

-----------------------------------------------------------------------------
(* Integer literals. *)

\* Clamped to 64 bits (Width) and, for int and uint, to 32 (Narrow) when n fits.
intRange(t, n) ==
  LET fits == IF t = "uint" THEN n < 2^Narrow ELSE n < 2^(Narrow - 1)
      bits == IF t # "sized" /\ fits THEN Narrow ELSE Width
  IN  IF t = "uint" THEN <<0, IF bits = Width THEN 2^(Width - 1) - 1 ELSE 2^bits - 1>>
      ELSE <<-(2^(bits - 1)), 2^(bits - 1) - 1>>

\* The values 0, 1, -n, n+1 and n-1 that differ from n and fit the type, each
\* once; n + 1 is computed in 64 bits.
intLitMutants(t, n) ==
  LET r  == intRange(t, n)
      vs == <<0, 1, -n, Wrap("int", n + 1), n - 1>>
      ok(i) == /\ vs[i] # n /\ r[1] <= vs[i] /\ vs[i] <= r[2]
               /\ \A j \in 1..(i - 1) : vs[j] # vs[i]
      keep(i) == IF ok(i) THEN <<vs[i]>> ELSE <<>>
  IN  IF n > 2^(Width - 1) - 1 \/ n > r[2] THEN <<>>
      ELSE keep(1) \o keep(2) \o keep(3) \o keep(4) \o keep(5)

\* Ancestors are walked while they are constants.
RECURSIVE inWrapSensitiveConstant(_, _)
inWrapSensitiveConstant(g, p) ==
  LET up == At(g.e, Parent(p))
  IN  /\ p # <<>> /\ IsConst(up)
      /\ up.op \in {"/", "%", ">>"} \cup Cmps \/ inWrapSensitiveConstant(g, Parent(p))

-----------------------------------------------------------------------------
(* Zero values: ReturnZero and StructFieldZero. *)

\* "" where the type is not supported: only plain int, string and bool, and
\* types that take nil.
returnZeroMutant(t) == CASE t = "int" -> "0" [] t = "string" -> "empty" [] t = "bool" -> "false"
                         [] t \in {"ptr", "slice"} -> "nil" [] OTHER -> ""

returnZeroCandidate(t, e, slot) ==
  /\ e.k \notin {"bin", "not", "recovered", "lit", "strlit", "boollit"}
  /\ e.k # "recv"            \* a UnaryExpr
  /\ ~IsErr(e)
  /\ returnZeroMutant(t) # ""
  /\ ~(returnZeroMutant(t) = "nil" /\ slot # "same")

-----------------------------------------------------------------------------
(* Switches. *)

Text(c) == <<c.body, c.fall>>

\* Not an empty last clause when no default would run instead.
Droppable(cl) == {i \in DOMAIN cl :
  /\ ~cl[i].dflt
  /\ Text(cl[i]) = <<0, FALSE>> /\ i = Len(cl) => \E j \in DOMAIN cl : cl[j].dflt}
Swappable(cl) == {i \in 1..(Len(cl) - 1) : Text(cl[i]) # Text(cl[i + 1])}

-----------------------------------------------------------------------------
(* Find: the candidates an operator reports when it visits node p of g. *)

Cand(op, p, to, v) == <<[op |-> op, at |-> p, to |-> to, v |-> v]>>
When(cond, cands)  == IF cond THEN cands ELSE <<>>
InOrder(S)         == SelectSeq([i \in 1..(IF S = {} THEN 0 ELSE Max(S)) |-> i], LAMBDA i : i \in S)

\* Off-by-one candidates on an index or a bound.
PlusMinus(op, p) == Cand(op, p, "+", 1) \o Cand(op, p, "-", 1)

IntArith(g, p, e) ==
  When(e.k = "bin" /\ e.op \in DOMAIN sibling /\ IntPair(g, p),
       Cand("int_arith", p, sibling[e.op], 0))

IntBitwise(g, p, e) ==
  When(e.k = "bin" /\ e.op \in DOMAIN bitwiseSibling /\ IntPair(g, p),
       Cand("int_bitwise", p, bitwiseSibling[e.op], 0))

IntCmpBoundary(g, p, e) ==
  When(e.k = "bin" /\ e.op \in DOMAIN boundarySibling /\ IntPair(g, p) /\ isPlainBoolResult(g, p),
       Cand("int_cmp_boundary", p, boundarySibling[e.op], 0))

IntCmpNegate(g, p, e) ==
  When(e.k = "bin" /\ e.op \in DOMAIN negateMap /\ IntPair(g, p) /\ isPlainBoolResult(g, p),
       Cand("int_cmp_negate", p, negateMap[e.op], 0))

\* Mutant: the right operand may call recover.
BoolLogicAny(g, p, e) ==
  When(/\ e.k = "bin" /\ e.op \in DOMAIN logicSibling /\ boolOperands(e.a[1], e.a[2])
       /\ boolResultInferable(g, p, e.a[1]),
       Cand("bool_logic", p, logicSibling[e.op], 0))

BoolLogic(g, p, e) ==
  When(/\ e.k = "bin" /\ e.op \in DOMAIN logicSibling /\ boolOperands(e.a[1], e.a[2])
       /\ boolResultInferable(g, p, e.a[1]) /\ ~containsRecover(e.a[2]),
       Cand("bool_logic", p, logicSibling[e.op], 0))

BoolNot(g, p, e) ==
  When(e.k = "not" /\ boolOperand(e.a[1]) /\ boolResultInferable(g, p, e.a[1]),
       Cand("bool_not", p, "", 0))

ErrReturnNil(g, p, e) ==
  When(e.k = "return" /\ IsErr(e.a[1]), Cand("err_return_nil", Append(p, 1), "", 0))

\* The builtin recover is excluded, a call with recover in its arguments is not.
CallDelete(g, p, e) ==
  When(e.k = "exprstmt" /\ e.a[1].k = "call", Cand("call_delete", Append(p, 1), "", 0))

\* Usage: the usage argument of package flag's functions.
StringLiteral(g, p, e) ==
  When(/\ e.k = "strlit" /\ e.n # 0 /\ ~inConstantPosition(g, p)
       /\ TypeOf(g, p) = "string" /\ At(g.e, Parent(p)).k # "usage",
       Cand("string_literal", p, "", 0))

SliceIndex(g, p, e) ==
  When(e.k = "index" /\ intOperand(e.a[1]), PlusMinus("slice_index", p))

SliceRange(g, p, e) ==
  When(e.k = "slice", FlattenSeq([i \in DOMAIN e.a |->
    When(intOperand(e.a[i]), PlusMinus("slice_range", Append(p, i)))]))

IncDecs(g, p, e) == When(e.k = "incdec", Cand("inc_dec", p, incDecSibling[e.op], 0))

IntCompoundAssign(g, p, e) ==
  When(e.k = "assign" /\ intOperands(g.t, Var, TypeOf(g, Append(p, 1)), e.a[1]),
       Cand("int_compound_assign", p, compoundSibling[e.op], 0))

IntLiteral(g, p, e) ==
  When(/\ e.k = "lit" /\ TypeOf(g, p) # "untyped"
       /\ ~inConstantPosition(g, p) /\ ~inWrapSensitiveConstant(g, p),
       LET vs == intLitMutants(TypeOf(g, p), e.n)
       IN  FlattenSeq([i \in DOMAIN vs |-> Cand("int_literal", p, "", vs[i])]))

ReturnZero(g, p, e) ==
  When(e.k = "return" /\ returnZeroCandidate(TypeOf(g, Append(p, 1)), e.a[1], e.op),
       Cand("return_zero", Append(p, 1), "", 0))

BoolLiteral(g, p, e) ==
  When(e.k = "boollit" /\ TypeOf(g, p) # "untyped" /\ ~inConstantPosition(g, p),
       Cand("bool_literal", p, "", 1 - e.n))

StructFieldZero(g, p, e) ==
  When(e.k = "field" /\ returnZeroCandidate(TypeOf(g, Append(p, 1)), e.a[1], e.op),
       Cand("struct_field_zero", Append(p, 1), "", 0))

\* CommaOk stands for the comma-ok receive and the communication of a select case.
ChanOp(g, p, e) ==
  When(e.k = "send" \/ (e.k = "recv" /\ At(g.e, Parent(p)).k # "commaok"),
       Cand("chan_op", p, "", 0))

SwitchCase(g, p, e) ==
  When(e.k = "switch" /\ ~containsRecover(e),
       LET drops == InOrder(Droppable(e.cl))
           swaps == InOrder(Swappable(e.cl))
       IN  FlattenSeq([i \in DOMAIN drops |-> Cand("switch_case", p, "drop", drops[i])])
           \o FlattenSeq([i \in DOMAIN swaps |-> Cand("switch_case", p, "swap", swaps[i])]))

Visit(g, op, p) ==
  LET e == At(g.e, p)
  IN  CASE op = "int_arith"           -> IntArith(g, p, e)
        [] op = "int_cmp_boundary"    -> IntCmpBoundary(g, p, e)
        [] op = "int_cmp_negate"      -> IntCmpNegate(g, p, e)
        [] op = "bool_logic"          -> BoolLogic(g, p, e)
        [] op = "bool_not"            -> BoolNot(g, p, e)
        [] op = "err_return_nil"      -> ErrReturnNil(g, p, e)
        [] op = "call_delete"         -> CallDelete(g, p, e)
        [] op = "string_literal"      -> StringLiteral(g, p, e)
        [] op = "slice_index"         -> SliceIndex(g, p, e)
        [] op = "slice_range"         -> SliceRange(g, p, e)
        [] op = "inc_dec"             -> IncDecs(g, p, e)
        [] op = "int_compound_assign" -> IntCompoundAssign(g, p, e)
        [] op = "int_bitwise"         -> IntBitwise(g, p, e)
        [] op = "int_literal"         -> IntLiteral(g, p, e)
        [] op = "return_zero"         -> ReturnZero(g, p, e)
        [] op = "bool_literal"        -> BoolLiteral(g, p, e)
        [] op = "struct_field_zero"   -> StructFieldZero(g, p, e)
        [] op = "chan_op"             -> ChanOp(g, p, e)
        [] op = "switch_case"         -> SwitchCase(g, p, e)

RECURSIVE Find(_, _, _, _)
Find(g, op, ps, i) == IF i > Len(ps) THEN <<>> ELSE Visit(g, op, ps[i]) \o Find(g, op, ps, i + 1)

\* The candidates of the operators from the n-th on.
RECURSIVE FindAll(_, _, _)
FindAll(g, ps, n) == IF n > Len(Registry) THEN <<>>
                     ELSE Find(g, Registry[n], ps, 1) \o FindAll(g, ps, n + 1)

\* Every candidate of g; the position of one is its mutant ID.
Candidates(g) == FindAll(g, Preorder(g.e, <<>>), 1)
=============================================================================
