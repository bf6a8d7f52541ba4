------------------------------ MODULE MCSchema ------------------------------
EXTENDS Schema

\* Small programs of every shape the operators tell apart.
Leaves  == {Var, Lit(1), Lit(2), Named(2), Call(1)}
\* The largest literals int and uint hold in Narrow bits, and their neighbours.
Limits  == {Lit(2^(Narrow - 1) - 1), Lit(2^(Narrow - 1)), Lit(2^(Width - 1) - 1), Lit(0)}
\* Calls with an argument, among them one that hands on what recover returns.
Handed  == {CallOf(1, x) : x \in {Var, Lit(2), Call(2), Bin("+", Var, Lit(1)), Recovered}}
Small   == {Var, Lit(2), Call(1)}
Ops     == Arith \cup Bits
Sums    == {Bin(op, x, y) : op \in Ops, x \in Leaves, y \in Leaves}
Nested  == {Bin(op, Bin(q, x, Lit(1)), y) :
              op \in {"+", "/", "<<"}, q \in {"-", "<<"}, x \in {Lit(2), Call(1), Named(2)}, y \in {Var, Lit(2)}}
           \cup {Bin(op, Bin("<<", Lit(1), Var), y) : op \in {"-", "&", "<"}, y \in Small}
Conds   == {Bin(op, x, y) : op \in Cmps, x \in {Var, Call(1)}, y \in Small}
Bools   == {BoolVar, BoolLit(1), Bin("<", Call(1), Var), Recovered}
Logics  == {Bin(op, x, y) : op \in Logic, x \in Bools, y \in Bools}
Negs    == {Neg(x) : x \in Bools \cup Logics}
Indexes == {Index(x) : x \in {Var, Lit(1), Call(2), Bin("-", Var, Lit(1)), Bin("<<", Lit(1), Var), Index(Var)}}
Slices  == {Slice(x, y) : x \in {Var, Lit(0), Index(Var)}, y \in {Lit(2), Call(2), Bin("+", Var, Lit(1))}}
Values  == Leaves \cup Limits \cup Handed \cup {Bin("-", Var, x) : x \in Limits} \cup Sums \cup Nested \cup Conds \cup Bools \cup Logics \cup Negs \cup Indexes
           \cup Slices \cup {Ptr, ErrVal, StrVar, StrLit(1), StrLit(0), Recv("int"), Recv("error")}
Stmts   == {IncDec(op) : op \in {"++", "--"}}
           \cup {Assign(op, x) : op \in Ops, x \in Small \cup {CallOf(1, Recovered)}}
           \cup {ExprStmt(x) : x \in {Call(1), Recv("int"), Recovered} \cup Handed}
           \cup {Send(x) : x \in Small \cup {Recv("int"), Recovered, CallOf(1, Recovered)}}
           \cup {CommaOk(Recv("int")), Const(Lit(2)), Const(StrLit(1)), Usage(StrLit(1))}
           \cup {Field(x) : x \in Leaves \cup {Ptr, BoolVar, StrVar, StrLit(1), Slice(Var, Lit(2))}}
           \cup {ReturnIface(x) : x \in Leaves \cup {Ptr, StrVar, Slice(Var, Lit(2)), BoolLit(0), Bin("<<", Lit(1), Var)}}

\* Switches: which clause is the default, which fall through, what is empty.
Clauses(d, ats) == [i \in 1..3 |-> IF i = d THEN <<>> ELSE ats[i]]
Switches == {Switch(<<tag, Call(1), Lit(2), Var>>,
                    [i \in 1..3 |-> Clause(i, Clauses(d, <<<<2>>, <<3, 4>>, <<4>>>>)[i], body[i], i = f)]) :
               tag \in {Var, Call(2), Lit(1)}, d \in 0..3, f \in 0..2,
               body \in {<<1, 2, 3>>, <<1, 1, 0>>}}
Tagless  == {Switch(<<Nop, Bin("<", Var, Call(1)), BoolVar, Recovered>>,
                    <<Clause(1, <<2>>, 1, FALSE), Clause(2, at, 2, FALSE), Clause(3, <<>>, 3, FALSE)>>) :
               at \in {<<3>>, <<3, 4>>}}

\* Programs that compile: constants are defined and fit every type.
RECURSIVE ConstOK(_)
ConstOK(e) == /\ \A i \in DOMAIN e.a : ConstOK(e.a[i])
              /\ e.k = "bin" /\ IsConst(e.a[2]) /\ IsInt(e.a[2]) /\ e.a[2].k \in {"lit", "named"}
                   => ~Undefined(e.op, e.a[2].n)
              /\ e.k = "bin" /\ IsConst(e) /\ ~IsBool(e) =>
                   \A i \in 1..2 : e.a[i].k \in {"lit", "named"}
                   /\ Exact(e.op, e.a[1].n, e.a[2].n) \in 0..(2^(Narrow - 1) - 1)

MCPrograms ==
  {p \in {[t |-> t, named |-> nm, e |-> e] :
            t \in {"int", "sized", "uint"}, nm \in BOOLEAN,
            e \in {x \in {Return(v) : v \in Values} \cup Stmts \cup Switches \cup Tagless : ConstOK(x)}} :
     Own(p, <<>>, p.e) # "bad"}

MCInputs == [x : {0, 1, 2^(Width - 1) - 1}, b : BOOLEAN]
=============================================================================
