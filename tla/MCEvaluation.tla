---------------------------- MODULE MCEvaluation ----------------------------
(***************************************************************************)
(* The statements: every form of expression around every other.            *)
(***************************************************************************)
EXTENDS Evaluation

Names == <<"x", "p", "f", "g", "s">>
Effectful == Call(Ident("g"), <<>>)

\* The forms with one part e, the others being o.
Targets(e, o) == <<MemberDot(e, "m"), MemberIndex(e, <<o>>), MemberIndex(o, <<e>>)>>
OnTarget(t, o) ==
  <<Unary("++_", t), Unary("_--", t), Assign("=", t, o), Assign("+", t, o),
    Unary("delete", t), Unary("typeof", t), Call(t, <<o>>), t>>
Forms(e, o) ==
  OnTarget(Targets(e, o)[1], o) \o OnTarget(Targets(e, o)[2], o) \o OnTarget(Targets(e, o)[3], o)
  \o << Assign("=", Ident("x"), e), Assign("=", Ident("p"), e), Assign("=", Ident("f"), e),
        Assign("=", Ident("g"), e), Assign("=", Ident("s"), e),
        Assign("+", Ident("x"), e), Assign("+", Ident("p"), e), Assign("+", Ident("f"), e),
        Assign("+", Ident("g"), e), Assign("+", Ident("s"), e),
        Unary("delete", e), Unary("typeof", e), Unary("void", e), Unary("!", e), Unary("-", e),
        Binary("+", e, o), Binary("-", e, o), Binary("==", e, o), Binary("!=", e, o),
        Binary("in", e, o), Binary("===", e, o), Binary("&&", e, o), Binary("||", e, o),
        Binary("+", o, e), Binary("&&", o, e), Binary("||", o, e),
        Ternary(e, o, o), Ternary(o, e, o), Ternary(o, o, e),
        Call(e, <<o>>), Call(o, <<e>>), Call(Ident("eval"), <<e>>),
        New(e), New(Call(e, <<o>>)), New(Call(o, <<e>>)),
        Paren(<<e>>), Paren(<<e, o>>), Paren(<<o, e>>),
        ArrayLiteral(<<e>>), ArrayLiteral(<<o, Missing, e>>), ArrayLiteral(<<e, Missing, Missing>>),
        ObjectLiteral(<<Property("name", "m", <<e>>), Property("literal", "k", <<o>>),
                        Property("get", "n", <<>>), Property("set", "n", <<>>)>>),
        Cast("I32", e) >>

\* F(a, b) for all elements a of A and b of B, tabulated.
Cross(F(_, _), A, B) ==
  [n \in 1..(Len(A) * Len(B)) |-> F(A[1 + (n - 1) \div Len(B)], B[1 + ((n - 1) % Len(B))])] \o <<>>
FormsOf(es, o) ==
  Cross(LAMBDA e, n : Forms(e, o)[n], es, [n \in DOMAIN Forms(This, This) |-> n])
OnNames(o, kinds) ==
  Cross(LAMBDA n, k : OnTarget(Ident(n), o)[k], Names, [k \in 1..kinds |-> k])

Simple ==
  [n \in DOMAIN Names |-> Ident(Names[n])] \o <<Literal("1"), This, Function("h")>>
  \o OnNames(Literal("1"), 6)
Small == FormsOf(<<Ident("s")>>, Effectful) \o OnNames(Effectful, 4) \o <<Effectful>>
Bodies == Simple \o FormsOf(Simple, Ident("x")) \o FormsOf(Simple, Effectful) \o FormsOf(Small, Ident("x"))
MCPrograms ==
  Cross(LAMBDA e, leave : IF leave THEN ExprStmt(<<e>>) ELSE DroppedStmt(<<e>>), Bodies, <<TRUE, FALSE>>)
  \o Cross(LAMBDA e, o : ExprStmt(<<e, o>>), Small, Simple)
  \o Cross(VarDecl, Names, Simple \o <<Effectful>>)
  \o Cross(LAMBDA e, o : If(<<e, o>>), Small, Simple)
  \o Cross(LAMBDA e, more : Throw(<<e>> \o more), Simple, << <<>> >>)
MCCompiled == LET compiled == CompiledOf(MCPrograms) IN compiled
=============================================================================
