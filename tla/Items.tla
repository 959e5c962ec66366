-------------------------------- MODULE Items --------------------------------
(***************************************************************************)
(* The statements (Item), functions and literals of syntax/ast/mod.rs.     *)
(***************************************************************************)
EXTENDS Ast

None == Node("none", "", <<>>)
ExprSeq(es) == Node("seq", "", es)

\* Lit: a number is its text and radix, a regular expression its body and flags.
Number(digits, radix)    == Node("number", radix, <<Literal(digits)>>)
Text(s, exact)           == Node("string", exact, <<Literal(s)>>)
Regexp(body, flags)      == Node("regexp", flags, <<Literal(body)>>)

Block(l, ss)             == Node("block", l, ss)
Break(l)                 == Node("break", l, <<>>)
Continue(l)              == Node("continue", l, <<>>)
Debugger                 == Node("debugger", "", <<>>)
Do(l, test, s)           == Node("do", l, <<test, s>>)
Empty                    == Node("empty", "", <<>>)
ExprStmt(seq)            == Node("expr", "", <<seq>>)
For(l, init, test, incr, s)   == Node("for", l, <<init, test, incr, s>>)
ForIn(l, lhs, seq, s)    == Node("forin", l, <<lhs, seq, s>>)
ForVar(l, vars, test, incr, s) == Node("forvar", l, <<vars, test, incr, s>>)
ForVarIn(l, id, seq, s)  == Node("forvarin", l, <<id, seq, s>>)
Declaration(f)           == Node("declaration", "", <<f>>)
If(seq, then, else)      == Node("if", "", <<seq, then, else>>)
Leave(s)                 == Node("leave", "", <<s>>)
Return(seq)              == Node("return", "", <<seq>>)
Switch(l, seq, clauses)  == Node("switch", l, <<seq>> \o clauses)
Case(seq, ss)            == Node("case", "", <<seq>> \o ss)
Default(ss)              == Node("default", "", ss)
Throw(seq)               == Node("throw", "", <<seq>>)
Try(b, catch, finally)   == Node("try", "", <<b, catch, finally>>)
Catch(id, b)             == Node("catch", "", <<id, b>>)
Var(id, e)               == Node("var", "", <<id, e>>)
Vars(vs)                 == Node("vars", "", vs)
VarDecl(vars)            == Node("vardecl", "", <<vars>>)
While(l, test, s)        == Node("while", l, <<test, s>>)
With(seq, s)             == Node("with", "", <<seq, s>>)

\* A function (and the program): its name, what is known of it (strict, and
\* whether names in it must be looked up at run time), its parameters, the names
\* it has slots for and its statements.
Flags(strict, deopt) ==
  IF strict THEN (IF deopt THEN "strict deopt" ELSE "strict")
  ELSE IF deopt THEN "deopt" ELSE ""
Code(name, flags, params, slots, ss) ==
  Node("function", name, <<Node("flags", flags, <<>>), Node("params", "", params),
                           Node("slots", "", slots), Node("stmts", "", ss)>>)
\* An identifier that stands for the arguments object.
Arguments == Node("arguments", "arguments", <<>>)
=============================================================================
