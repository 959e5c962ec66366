--------------------------------- MODULE Ast ---------------------------------
(***************************************************************************)
(* The expressions of syntax/ast/mod.rs: what the parser builds and the    *)
(* code generator reads.                                                   *)
(***************************************************************************)
EXTENDS Integers, Sequences

\* Expr: its kind, its operator or name, its parts in the order of the text.
Node(k, op, a) == [k |-> k, op |-> op, a |-> a]

Ident(n)          == Node("ident", n, <<>>)
Literal(n)        == Node("literal", n, <<>>)
This              == Node("this", "", <<>>)
Function(n)       == Node("function", n, <<>>)
Missing           == Node("missing", "", <<>>)
Assign(op, l, r)  == Node("assign", op, <<l, r>>)
Binary(op, l, r)  == Node("binary", op, <<l, r>>)
Unary(op, e)      == Node("unary", op, <<e>>)
Cast(ty, e)       == Node("cast", ty, <<e>>)
Call(f, args)     == Node("call", "", <<f>> \o args)
New(e)            == Node("new", "", <<e>>)
MemberDot(e, n)   == Node("dot", n, <<e>>)
MemberIndex(e, i) == Node("index", "", <<e>> \o i)
Paren(es)         == Node("paren", "", es)
Ternary(t, a, b)  == Node("ternary", "", <<t, a, b>>)
ArrayLiteral(es)  == Node("array", "", es)
ObjectLiteral(ps) == Node("object", "", ps)
\* Property: its key is a name or a literal.
Property(kind, key, es) == Node(kind, key, es)
=============================================================================
