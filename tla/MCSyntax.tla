------------------------------ MODULE MCSyntax ------------------------------
(***************************************************************************)
(* Every form of expression in every place of every other, and every       *)
(* statement in every place of every other and in front of every other.    *)
(***************************************************************************)
EXTENDS Syntax

A == Ident("a")
X == Ident("x")
Y == Ident("y")
One == Number("1", "10")
Zero == Number("0", "10")
Only(e) == ExprSeq(<<e>>)
Do1(e) == ExprStmt(Only(e))
Lambda(name, params, ss) ==
  Code(name, "", [i \in DOMAIN params |-> Ident(params[i])], <<>>, ss)
UseStrictStmt(exact) == Do1(Text("use strict", exact))

PerLevel == {"||", "&&", "|", "^", "&", "===", "in", ">>>", "+", "-", "/"}
Assigning == {"=", "/=", ">>>="}
PrefixOps == {"typeof", "++_", "-_", "+_", "!_"}

\* The forms of expressions around e.
Around(e) ==
  {Binary(op, e, Y) : op \in PerLevel} \cup {Binary(op, X, e) : op \in PerLevel}
  \cup {Assign(op, X, e) : op \in Assigning} \cup {Assign("=", MemberIndex(X, <<e>>), Y)}
  \cup {Unary(op, e) : op \in PrefixOps}
  \cup {Unary("_++", MemberDot(e, "x"))}
  \cup {Ternary(e, X, Y), Ternary(X, e, Y), Ternary(X, Y, e),
        Call(e, <<>>), Call(X, <<e, Y>>), New(e), New(Call(e, <<X>>)), New(New(Call(Call(e, <<>>), <<>>))),
        MemberDot(e, "if"), MemberIndex(e, <<X, Y>>), Paren(<<X, e>>),
        ArrayLiteral(<<e, Missing>>), ArrayLiteral(<<Missing, e, X>>),
        ObjectLiteral(<<Property("named", "", <<Literal("get"), e>>),
                        Property("keyed", "", <<One, X>>)>>)}
Ways == {Binary(op, X, Y) : op \in UNION Range(Operators)}
  \cup {Assign(op, X, Y) : op \in AssignOps} \cup {Unary(op, X) : op \in Prefix}
  \cup {Unary("-_", Zero), Binary("-", Zero, Unary("-_", Zero))}
Atoms == {Ident("let"), Ident("arguments"), One, Number("1f", "16"), Number(".5", "10"), Text("a", "exact"), Regexp("a", "g"),
          Regexp("'", ""), This, Literal("null"),
          Call(Ident("eval"), <<>>), Call(X, <<>>), New(X), New(Call(X, <<>>)), Unary("_--", X),
          Unary("-_", One), Unary("-_", X), Unary("++_", X), Ternary(X, Y, A), Assign("=", X, Y),
          ArrayLiteral(<<>>), ObjectLiteral(<<>>), Lambda("", <<>>, <<>>)}
  \cup {Binary(op, X, Y) : op \in PerLevel}
Accessors == {ObjectLiteral(<<Property("get", "if", <<Lambda("", <<>>, <<Return(Only(X))>>)>>),
                Property("set", "x", <<Lambda("", <<"y">>, <<UseStrictStmt("exact")>>)>>),
                Property("named", "", <<Literal("set"), Ident("let")>>)>>)}
Expressions == UNION {Around(e) : e \in Atoms} \cup Ways \cup Accessors

Call1 == Do1(Call(X, <<>>))
B(s) == Block("", <<s>>)
\* The forms of statements around s, and around e.
StmtsAround(s) ==
  {If(Only(X), s, None), If(Only(X), s, Call1), If(Only(X), Call1, s), If(Only(X), If(Only(Y), s, None), Call1),
   Do("", X, s), While("a", X, s), For("", None, None, None, s),
   For("a", Only(X), Only(Y), Only(A), s), ForIn("", X, Only(Y), s), ForVarIn("", Ident("b"), Only(Y), s),
   ForVar("", Vars(<<Var(Ident("b"), X), Var(Ident("c"), None)>>), None, Only(Unary("_++", X)), s),
   With(Only(X), s), B(s), Block("a", <<s, s>>), Try(B(s), None, B(Call1)), Try(B(Call1), Catch(Ident("c"), B(s)), None),
   Try(B(Call1), Catch(Ident("c"), B(Call1)), B(s)),
   Switch("", Only(X), <<Case(Only(One), <<s, Break("")>>), Default(<<s>>)>>),
   Do1(Lambda("", <<"a", "arguments">>, <<UseStrictStmt("escaped"), s>>))}
ExprIn(e) ==
  {Do1(e), VarDecl(Vars(<<Var(X, e), Var(Y, None)>>)), If(Only(e), Empty, None), While("", e, Empty),
   Do("", e, Empty), For("", Only(e), Only(e), Only(e), Empty), ForVar("", Vars(<<Var(X, e)>>), None, None, Empty),
   ForIn("", MemberIndex(X, <<e>>), Only(e), Empty), ForVarIn("", X, Only(e), Empty), With(Only(e), Empty),
   Switch("", Only(e), <<Case(Only(e), <<>>)>>), Throw(Only(e)),
   Do1(Lambda("", <<>>, <<Return(Only(e))>>))}
Simple == {Call1, Empty, Break(""), Continue("a"), Debugger, Throw(Only(X)), VarDecl(Vars(<<Var(Ident("b"), X)>>)),
           Do("", X, Call1), Declaration(Lambda("c", <<"a">>, <<Return(None)>>)),
           Do1(Unary("++_", X)), Do1(Unary("_--", X)), Do1(Paren(<<X>>)), Do1(Regexp("a", "g")), Do1(ArrayLiteral(<<>>)),
           Do1(Call(Ident("eval"), <<>>)), Do1(Ident("arguments")), Do1(Unary("-_", One)),
           Do1(Lambda("", <<>>, <<UseStrictStmt("exact"), Call1>>)), 
           If(Only(X), Call1, None), B(Call1), Do1(Text("use strict", "exact")), Do1(Text("use strict", "escaped")),
           Declaration(Lambda("c", <<"a">>, <<UseStrictStmt("escaped"), UseStrictStmt("exact"), Return(Only(X))>>))}
Nested == UNION {StmtsAround(s) : s \in {t \in Simple : t.k # "declaration"}}

MCPrograms ==
  {<<Do1(e)>> : e \in Expressions}
  \cup {<<s>> : s \in UNION {ExprIn(e) : e \in {Ident("let"), Regexp("a", ""), Binary("in", X, Y), Assign("=", X, Y), Unary("-_", X)}}}
  \cup {<<s>> : s \in Nested}
  \cup {<<s, t>> : s \in Simple, t \in Simple}
  \cup {<<s, Do1(Ident("let"))>> : s \in {t \in Simple : ~Strict(<<t>>)}}
  \cup {<<s, t>> : s \in UNION {StmtsAround(r) : r \in {Call1}}, t \in Simple}

ToInt(e) == Cast("int", e)
MCCastings == {<<Do1(e)>> : e \in UNION {Around(ToInt(f)) : f \in {X, Paren(<<X>>), Unary("-_", X), Binary("*", X, Y), ToInt(X)}}}
MCEvals == {<<s>> : s \in Nested} \cup {<<s, Call1>> : s \in Simple}
MCOutcome(c) == LET outcome == OutcomeOf(c) IN outcome
=============================================================================
