------------------------------- MODULE GoLang -------------------------------
(***************************************************************************)
(* The part of Go the mutation operators look at: expressions and          *)
(* statements as trees, the static types go/types records for them, and    *)
(* the meaning of integer operations at a given width.                     *)
(*                                                                         *)
(* A node has a kind k, an operator op, a number n, children a, and, for a *)
(* switch, clauses cl.  A program g is a tree g.e whose variables have one *)
(* integer type g.t ("int", "uint", or "sized": any other signed type);    *)
(* g.named says that its bool and string types are defined types.          *)
(***************************************************************************)
EXTENDS Integers, Sequences
LOCAL INSTANCE Bitwise

CONSTANT Width   \* bits of every integer type

ASSUME WidthAssumption == Width \in Nat \ {0, 1}

Node(k, op, n, a) == [k |-> k, op |-> op, n |-> n, a |-> a, cl |-> <<>>]

Lit(n)        == Node("lit", "", n, <<>>)      \* integer literal
Named(n)      == Node("named", "", n, <<>>)    \* constant declared with type g.t
BoolLit(n)    == Node("boollit", "", n, <<>>)  \* true (1) or false (0)
StrLit(n)     == Node("strlit", "", n, <<>>)   \* "" (0) or not (1)
Var           == Node("var", "", 0, <<>>)      \* the integer variable x
BoolVar       == Node("boolvar", "", 0, <<>>)
StrVar        == Node("strvar", "", 1, <<>>)   \* a string variable, not ""
Ptr           == Node("ptr", "", 0, <<>>)      \* a non-nil pointer, map, channel or func
ErrVal        == Node("err", "", 1, <<>>)      \* a non-nil error
Call(n)       == Node("call", "", n, <<>>)     \* an integer function with an effect
CallOf(n, e)  == Node("call", "", n, <<e>>)    \* one that takes an argument
Recovered     == Node("recovered", "", 0, <<>>) \* recover() != nil, as a panic unwinds
Recv(elem)    == Node("recv", elem, 0, <<>>)   \* <-ch, of ints or of errors
Neg(e)        == Node("not", "!", 0, <<e>>)
Bin(op, x, y) == Node("bin", op, 0, <<x, y>>)
Index(i)      == Node("index", "", 0, <<i>>)          \* a[i]
Slice(lo, hi) == Node("slice", "", 0, <<lo, hi>>)     \* s[lo:hi]
Const(e)      == Node("const", "", 0, <<e>>)          \* where Go wants a constant
Usage(e)      == Node("usage", "", 0, <<e>>)          \* usage argument of package flag
Return(e)     == Node("return", "same", 0, <<e>>)
ReturnIface(e) == Node("return", "iface", 0, <<e>>)   \* the result is an interface
Field(e)      == Node("field", "same", 0, <<e>>)      \* keyed field of a struct literal
IncDec(op)    == Node("incdec", op, 0, <<>>)          \* x++, x--
Assign(op, e) == Node("assign", op, 0, <<e>>)         \* x op= e
ExprStmt(e)   == Node("exprstmt", "", 0, <<e>>)
CommaOk(e)    == Node("commaok", "", 0, <<e>>)        \* v, ok := e; case v := e
Send(e)       == Node("send", "", 0, <<e>>)
Nop           == Node("nop", "", 0, <<>>)
\* a[1] is the tag (Nop: none), the other children the case expressions.  A
\* clause names the children it compares (none: default), the mark its body
\* leaves in the trace (0: an empty body), whether it ends in fallthrough, the
\* clause whose body a value it matches enters, and the mutant that drops it.
Switch(a, cl) == [Node("switch", "", 0, a) EXCEPT !.cl = cl]
Clause(i, at, body, fall) ==
  [at |-> at, dflt |-> at = <<>>, body |-> body, fall |-> fall, to |-> i, drop |-> 0]

Arith  == {"+", "-", "*", "/", "%"}
Shifts == {"<<", ">>"}
Bits   == {"&", "|", "^", "&^"} \cup Shifts
Cmps   == {"<", "<=", ">", ">=", "==", "!="}
Logic  == {"&&", "||"}

IsBool(e) == \/ e.k \in {"boollit", "boolvar", "recovered", "not"}
             \/ e.k = "bin" /\ e.op \in Cmps \cup Logic
IsErr(e)  == e.k = "err" \/ (e.k = "recv" /\ e.op = "error")
IsInt(e)  == \/ e.k \in {"lit", "named", "var", "call", "index"}
             \/ e.k = "recv" /\ ~IsErr(e)
             \/ e.k = "bin" /\ e.op \in Arith \cup Bits

\* types.TypeAndValue.Value # nil: a compile-time constant
RECURSIVE IsConst(_)
IsConst(e) ==
  \/ e.k \in {"lit", "named", "boollit", "strlit"}
  \/ e.k \in {"bin", "not"} /\ \A i \in DOMAIN e.a : IsConst(e.a[i])

RECURSIVE At(_, _)
At(e, p) == IF p = <<>> THEN e ELSE At(e.a[Head(p)], Tail(p))

RECURSIVE Put(_, _, _)
Put(e, p, new) == IF p = <<>> THEN new
                  ELSE [e EXCEPT !.a[Head(p)] = Put(@, Tail(p), new)]

Parent(p) == SubSeq(p, 1, Len(p) - 1)
Place(p)  == p[Len(p)]

\* The nodes of a tree in the order ast.Inspect visits them.
RECURSIVE Preorder(_, _)
RECURSIVE PreorderFrom(_, _, _)
PreorderFrom(e, p, i) == IF i > Len(e.a) THEN <<>>
                         ELSE Preorder(e.a[i], Append(p, i)) \o PreorderFrom(e, p, i + 1)
Preorder(e, p) == <<p>> \o PreorderFrom(e, p, 1)

-----------------------------------------------------------------------------
(* What go/types records for the expression at p of g: constants and        *)
(* comparisons are untyped until their context gives them a type.           *)

RECURSIVE Typed(_)
Typed(e) == \/ e.k \in {"named", "var", "boolvar", "strvar", "call", "recv", "index", "ptr", "err"}
            \/ e.k = "not" /\ Typed(e.a[1])
            \/ e.k = "bin" /\ e.op \notin Cmps /\ Typed(e.a[1])
            \/ e.k = "bin" /\ e.op \notin Cmps \cup Shifts /\ Typed(e.a[2])

BoolType(g)   == IF g.named THEN "named" ELSE "bool"
StrType(g)    == IF g.named THEN "namedstr" ELSE "string"
Defaults(e)   == IF IsBool(e) THEN "bool" ELSE IF IsInt(e) THEN "int"
                 ELSE IF e.k = "strlit" THEN "string" ELSE e.k
Declared(g, e) == IF IsBool(e) THEN BoolType(g)
                  ELSE IF IsInt(e) THEN g.t
                  ELSE IF e.k \in {"strlit", "strvar"} THEN StrType(g)
                  ELSE IF IsErr(e) THEN "error" ELSE e.k

RECURSIVE TypeOf(_, _)
TypeOf(g, p) ==
  LET e   == At(g.e, p)
      up  == At(g.e, Parent(p))
      sib == up.a[3 - Place(p)]
      isCount == up.op \in Shifts /\ (up.k = "assign" \/ Place(p) = 2)
  IN  IF Typed(e) \/ p = <<>> THEN Declared(g, e)
      ELSE CASE up.k = "const" \/ isCount               -> "untyped"
             [] up.k \in {"index", "slice"}             -> "int"
             [] up.k \in {"return", "field"}            ->
                  IF up.op = "iface" THEN Defaults(e) ELSE Declared(g, e)
             [] up.k = "switch"                         ->
                  IF Place(p) > 1 /\ Typed(up.a[1]) THEN Declared(g, e) ELSE Defaults(e)
             [] up.k = "not"                            ->
                  IF IsConst(up) THEN "untyped" ELSE TypeOf(g, Parent(p))
             [] up.k = "bin" /\ up.op \notin Shifts /\ Typed(sib) -> Declared(g, e)
             [] up.k = "bin" /\ IsConst(up)             -> "untyped"
             [] up.k = "bin" /\ up.op \in Cmps          -> Defaults(e)
             [] up.k = "bin"                            -> TypeOf(g, Parent(p))
             [] OTHER                                   -> Declared(g, e)

-----------------------------------------------------------------------------
(* Values are pairs of a kind and a number. *)

IntV(n)  == <<"int", n>>
BoolV(c) == <<"bool", IF c THEN 1 ELSE 0>>
Panic    == <<"panic", 0>>
NilV     == <<"nil", 0>>
Unit     == <<"unit", 0>>

Wrap(t, n) == LET u == n % 2^Width
              IN  IF t # "uint" /\ u >= 2^(Width - 1) THEN u - 2^Width ELSE u

Abs(n)    == IF n < 0 THEN -n ELSE n
Quo(a, b) == IF (a < 0) = (b < 0) THEN Abs(a) \div Abs(b) ELSE -(Abs(a) \div Abs(b))
Scale(b)  == 2^(IF b > Width THEN Width ELSE b)
Pattern(n) == n % 2^Width

\* The exact result of an operation (its bits, for a bitwise one); the caller wraps it.
Exact(op, a, b) ==
  CASE op = "+"  -> a + b
    [] op = "-"  -> a - b
    [] op = "*"  -> a * b
    [] op = "/"  -> Quo(a, b)
    [] op = "%"  -> a - b * Quo(a, b)
    [] op = "&"  -> Pattern(a) & Pattern(b)
    [] op = "|"  -> Pattern(a) | Pattern(b)
    [] op = "^"  -> Pattern(a) ^^ Pattern(b)
    [] op = "&^" -> Pattern(a) - (Pattern(a) & Pattern(b))
    [] op = "<<" -> a * Scale(b)
    [] op = ">>" -> a \div Scale(b)

Undefined(op, b) == (op \in {"/", "%"} /\ b = 0) \/ (op \in Shifts /\ b < 0)

Compare(op, a, b) ==
  CASE op = "<"  -> a < b
    [] op = "<=" -> a <= b
    [] op = ">"  -> a > b
    [] op = ">=" -> a >= b
    [] op = "==" -> a = b
    [] op = "!=" -> a # b

BinOp(t, op, x, y) ==
  IF op \in Cmps THEN BoolV(Compare(op, x[2], y[2]))
  ELSE IF Undefined(op, y[2]) THEN Panic
  ELSE IntV(Wrap(t, Exact(op, x[2], y[2])))
=============================================================================
