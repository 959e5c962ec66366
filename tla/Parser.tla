-------------------------------- MODULE Parser --------------------------------
(***************************************************************************)
(* syntax/parser/mod.rs: recursive descent over the lexer's look-ahead.    *)
(*                                                                         *)
(* Each operator is the method of that name: it takes the parser's record  *)
(* (Lexer) and returns it with the node that was read as v.  The parser    *)
(* adds to the record                                                      *)
(*   privileged      whether casts are allowed                             *)
(*   scopes          the functions that are being read, the innermost last *)
(***************************************************************************)
EXTENDS Items, Lexer

CastTypes == {"int"}             \* CastType::from_name
InOrder(names) == SelectSeq(NameOrder, LAMBDA n : n \in names)

\* A scope: the names of its blocks, the first of them the function's own.
NewScope(param) == [blocks |-> <<>>, param |-> param, arguments |-> FALSE, deopt |-> FALSE]
PushScope(p, param) == [p EXCEPT !.scopes = Append(@, NewScope(param))]
PopScope(p) == [p EXCEPT !.scopes = Front(@)]
TopScope(p) == Last(p.scopes)
Top(p, scope) == [p EXCEPT !.scopes = Append(Front(@), scope)]
PushBlockScope(p, names) == Top(p, [TopScope(p) EXCEPT !.blocks = Append(@, names)])
PopBlockScope(p) == Top(p, [TopScope(p) EXCEPT !.blocks = Front(@)])
MarkDeopt(p) == [p EXCEPT !.scopes = [i \in DOMAIN @ |-> [@[i] EXCEPT !.deopt = TRUE]]]
AtGlobal(p) == Len(p.scopes) = 1

Declare(p, block, name) == Top(p, [TopScope(p) EXCEPT !.blocks[block] = @ \cup {name}])
\* A name that is registered twice in one block (`var arguments`) gets two slots
\* in the code, of which the block keeps the later one.
RegisterLocal(p, name, arguments, throwarg) ==
  LET blocks == TopScope(p).blocks IN
  IF arguments THEN Declare(p, 1, name)
  ELSE IF throwarg THEN Declare(p, Len(blocks), name)
  ELSE IF \E i \in DOMAIN blocks : name \in blocks[i] THEN p
  ELSE Declare(p, 1, name)

RECURSIVE ParseStmt(_, _), ParseExpr(_), ParseCast(_), ParseFunction(_),
          ParseFunctionBlock(_, _)

-----------------------------------------------------------------------------
(* Names and literals.                                                     *)

ParseName(p) ==
  Then(Next_(p), LAMBDA q : IF q.v.t = "ident" THEN Yield(q, q.v.v[1]) ELSE Fatal(q))
ParseOptName(p) ==
  Then(Peek(p), LAMBDA q :
    IF q.v.t = "ident" THEN Yield(Bump(q), q.v.v[1]) ELSE Yield(q, ""))

ParseIdent(p) ==
  Then(ParseName(p), LAMBDA q :
    LET scope == TopScope(q)
        arguments == ~scope.param /\ q.v = "arguments"
    IN Yield(IF arguments /\ ~scope.arguments
             THEN RegisterLocal(Top(q, [scope EXCEPT !.arguments = TRUE]), q.v, TRUE, FALSE)
             ELSE q,
             IF arguments THEN Arguments ELSE Ident(q.v)))

\* A name or any reserved word; "" if there is none.
ParseIdentName(p) ==
  Then(Peek(p), LAMBDA q :
    CASE q.v.t = "ident" -> Yield(Bump(q), q.v.v[1])
      [] q.v.t \in ReservedWords \cup StrictWords -> Yield(Bump(q), q.v.t)
      [] OTHER -> Yield(q, ""))

Literals == {"null", "true", "false", "number", "string", "regexp"}
LiteralOf(tok) ==
  CASE tok.t = "number" -> Number(Concat(tok.v), tok.x)
    [] tok.t = "string" -> Text(Concat(tok.v), tok.x)
    [] tok.t = "regexp" -> Regexp(Concat(tok.v), tok.x)
    [] OTHER -> Literal(tok.t)

ParseExprLiteral(p) ==
  Then(Next_(SetAllowRegexp(p, TRUE)), LAMBDA q :
    IF q.v.t \in Literals THEN Yield(SetAllowRegexp(q, FALSE), LiteralOf(q.v))
    ELSE Fatal(q))
\* The literal that is the key of a property; none if there is none.
ParseLit(p) ==
  Then(Peek(SetAllowRegexp(p, TRUE)), LAMBDA q :
    LET off == SetAllowRegexp(q, FALSE) IN
    IF q.v.t \in Literals THEN Yield(Bump(off), LiteralOf(q.v)) ELSE Yield(off, None))

-----------------------------------------------------------------------------
(* Expressions.                                                            *)

\* parse_expr_logical_or ... parse_expr_multiplicative
Levels == << {"||"}, {"&&"}, {"|"}, {"^"}, {"&"}, {"==", "!=", "===", "!=="},
             {"<", ">", "<=", ">=", "instanceof", "in"}, {"<<", ">>", ">>>"},
             {"+", "-"}, {"*", "/", "%"} >>
RECURSIVE ParseLevel(_, _), MoreOperands(_, _)
ParseLevel(p, n) ==
  IF n > Len(Levels) THEN ParseCast(p)
  ELSE Then(ParseLevel(p, n + 1), LAMBDA q : MoreOperands(q, n))
MoreOperands(p, n) ==
  Then(Peek(p), LAMBDA q :
    IF q.v.t \notin Levels[n] THEN Yield(q, p.v)
    ELSE Then(ParseLevel(Bump(q), n + 1), LAMBDA r :
           MoreOperands(Yield(r, Binary(q.v.t, p.v, r.v)), n)))

AssignOps == {"=", "*=", "/=", "%=", "+=", "-=", "<<=", ">>=", ">>>=", "&=", "^=", "|="}
ParseExprTernary(p, e) ==
  Then(ParseExpr(Bump(p)), LAMBDA then_ :
  Then(ParseExpr(Expect(then_, ":")), LAMBDA else_ :
    Yield(else_, Ternary(e, then_.v, else_.v))))
ParseExprBinaryAssign(p, e, op) ==
  Then(ParseExpr(Bump(p)), LAMBDA right : Yield(right, Assign(op, e, right.v)))
ParseExpr(p) ==
  Then(ParseLevel(p, 1), LAMBDA e :
  Then(Peek(e), LAMBDA q :
    CASE q.v.t = "?" -> ParseExprTernary(q, e.v)
      [] q.v.t \in AssignOps -> ParseExprBinaryAssign(q, e.v, q.v.t)
      [] OTHER -> Yield(q, e.v)))

\* Expressions up to the token that ends them, with commas between.
RECURSIVE MoreExprs(_, _)
MoreExprs(p, es) ==
  Then(Consume(p, ","), LAMBDA q :
    IF q.v THEN Then(ParseExpr(q), LAMBDA e : MoreExprs(e, Append(es, e.v)))
    ELSE Yield(q, es))
Exprs(p) == Then(ParseExpr(p), LAMBDA e : MoreExprs(e, <<e.v>>))
ParseExprSeq(p) == Then(Exprs(p), LAMBDA q : Yield(q, ExprSeq(q.v)))

\* An expression sequence in parentheses, after a keyword.
Bracketed(p) ==
  Then(ParseExprSeq(Expect(p, "(")), LAMBDA seq : Yield(Expect(seq, ")"), seq.v))

RECURSIVE MoreArguments(_, _)
MoreArguments(p, es) ==
  Then(ParseExpr(p), LAMBDA e :
  Then(Consume(e, ")"), LAMBDA q :
    IF q.v THEN Yield(q, Append(es, e.v))
    ELSE MoreArguments(Expect(q, ","), Append(es, e.v))))
ParseArguments(p) ==
  Then(Consume(Expect(p, "("), ")"), LAMBDA q :
    IF q.v THEN Yield(q, <<>>) ELSE MoreArguments(q, <<>>))

\* The rest of an array literal: elisions, and elements with commas between.
RECURSIVE MoreElements(_, _), MoreProps(_, _)
MoreElements(p, es) ==
  Then(Peek(p), LAMBDA q :
    CASE q.v.t = "]" -> Yield(Bump(q), ArrayLiteral(Append(es, Missing)))
      [] q.v.t = "," -> MoreElements(Bump(q), Append(es, Missing))
      [] OTHER ->
           Then(ParseExpr(q), LAMBDA e :
           Then(Consume(e, "]"), LAMBDA end :
             IF end.v THEN Yield(end, ArrayLiteral(Append(es, e.v)))
             ELSE MoreElements(Expect(end, ","), Append(es, e.v)))))
ParseArrayLiteral(p) ==
  Then(Consume(Bump(p), "]"), LAMBDA q :
    IF q.v THEN Yield(q, ArrayLiteral(<<>>)) ELSE MoreElements(q, <<>>))

\* get name() { } and set name(x) { }
ParseAccessor(p, kind, name) ==
  LET Accessor(q, params) ==
        Then(ParseFunctionBlock(Expect(q, ")"), params), LAMBDA f :
          Yield(f, Property(kind, name, <<f.v>>)))
  IN CASE name = "" -> Fatal(p)
       [] name # "" /\ kind = "get" -> Accessor(p, <<>>)
       [] name # "" /\ kind = "set" -> Then(ParseName(p), LAMBDA x : Accessor(x, <<x.v>>))
       [] OTHER -> Fatal(p)
ParseValue(p, kind, key) ==
  Then(Consume(p, ":"), LAMBDA q :
  Then(ParseExpr(q), LAMBDA e : Yield(e, Property(kind, "", <<key, e.v>>))))
ParseProp(p) ==
  Then(ParseIdentName(p), LAMBDA name :
    IF name.v # "" THEN
      Then(ParseIdentName(name), LAMBDA second :
      Then(Consume(second, "("), LAMBDA q :
        IF q.v THEN ParseAccessor(q, name.v, second.v)
        ELSE IF second.v # "" THEN Fatal(q)
        ELSE ParseValue(q, "named", Literal(name.v))))
    ELSE Then(ParseLit(name), LAMBDA lit :
      IF lit.v.k \in {"string", "number"} THEN ParseValue(lit, "keyed", lit.v)
      ELSE Fatal(lit)))
MoreProps(p, ps) ==
  Then(ParseProp(p), LAMBDA prop :
  Then(Consume(prop, "}"), LAMBDA end :
    IF end.v THEN Yield(end, ObjectLiteral(Append(ps, prop.v)))
    ELSE Then(Consume(Expect(end, ","), "}"), LAMBDA last :
      IF last.v THEN Yield(last, ObjectLiteral(Append(ps, prop.v)))
      ELSE MoreProps(last, Append(ps, prop.v)))))
ParseObjectLiteral(p) ==
  Then(Consume(Bump(p), "}"), LAMBDA empty :
    IF empty.v THEN Yield(empty, ObjectLiteral(<<>>))
    ELSE Then(Consume(empty, ","), LAMBDA q :
      IF q.v THEN Yield(Expect(q, "}"), ObjectLiteral(<<>>)) ELSE MoreProps(q, <<>>)))

\* A minus sign becomes part of the number that follows it; 0 becomes MINUS_ZERO,
\* which is the name of "-0".
ParseUnaryPre(p, op) ==
  Then(ParseCast(Bump(p)), LAMBDA e :
    Yield(e, IF op = "-_" /\ e.v.k = "number" /\ SubSeq(e.v.a[1].op, 1, 1) # "-"
             THEN Number("-" \o e.v.a[1].op, e.v.op) ELSE Unary(op, e.v)))
ParsePrimary(p) ==
  Then(Peek(p), LAMBDA q :
    CASE q.v.t = "function" -> ParseFunction(Bump(q))
      [] q.v.t \in {"delete", "void", "typeof"} -> ParseUnaryPre(q, q.v.t)
      [] q.v.t \in {"++", "--", "+", "-", "~", "!"} -> ParseUnaryPre(q, q.v.t \o "_")
      [] q.v.t = "this" -> Yield(Bump(q), This)
      [] q.v.t = "ident" -> ParseIdent(q)
      [] q.v.t = "(" ->
           Then(Exprs(Bump(q)), LAMBDA es : Yield(Expect(es, ")"), Paren(es.v)))
      [] q.v.t = "[" -> ParseArrayLiteral(q)
      [] q.v.t = "{" -> ParseObjectLiteral(q)
      [] OTHER -> ParseExprLiteral(q))

RECURSIVE CountNews(_, _), NewAll(_, _), ParsePostfix(_, _)
CountNews(p, n) ==
  Then(Peek(p), LAMBDA q : IF q.v.t = "new" THEN CountNews(Bump(q), n + 1) ELSE Yield(q, n))
NewAll(e, n) == IF n = 0 THEN e ELSE NewAll(New(e), n - 1)
ParseExprCall(p, e) ==
  Then(ParseArguments(p), LAMBDA args :
    Yield(IF e = Ident("eval") THEN MarkDeopt(args) ELSE args, Call(e, args.v)))
\* What follows p.v, an expression with so many new tokens in front: every call
\* uses up one of them, and what is left over applies to the whole.
ParsePostfix(p, news) ==
  Then(IsEos(p), LAMBDA eos :
  Then(Peek(eos), LAMBDA q :
    CASE q.v.t = "[" ->
           Then(Exprs(Bump(q)), LAMBDA i :
             ParsePostfix(Yield(Expect(i, "]"), MemberIndex(p.v, i.v)), news))
      [] q.v.t = "." ->
           Then(ParseIdentName(Bump(q)), LAMBDA n :
             IF n.v = "" THEN Fatal(n) ELSE ParsePostfix(Yield(n, MemberDot(p.v, n.v)), news))
      [] q.v.t = "(" ->
           Then(ParseExprCall(q, p.v), LAMBDA call :
             IF news > 0 THEN ParsePostfix(Yield(call, New(call.v)), news - 1)
             ELSE ParsePostfix(call, 0))
      [] q.v.t \in {"++", "--"} /\ ~eos.v ->
           ParsePostfix(Yield(Bump(q), Unary("_" \o q.v.t, p.v)), news)
      [] OTHER -> Yield(q, NewAll(p.v, news))))
ParseUnary(p) ==
  Then(CountNews(p, 0), LAMBDA news :
  Then(ParsePrimary(news), LAMBDA e : ParsePostfix(e, news.v)))

\* The type in parentheses that p begins with, "" if it is no cast.
CastAhead(p) ==
  IF ~p.privileged THEN Yield(p, "")
  ELSE Then(Peek(p), LAMBDA open :
    IF open.v.t # "(" THEN Yield(open, "")
    ELSE Then(PeekAt(open, 2), LAMBDA close :
      IF close.v.t # ")" THEN Yield(close, "")
      ELSE Then(PeekAt(close, 1), LAMBDA ty :
        Yield(ty, IF ty.v.t = "ident" /\ ty.v.v[1] \in CastTypes THEN ty.v.v[1] ELSE ""))))
ParseCast(p) ==
  Then(CastAhead(p), LAMBDA ty :
    IF ty.v = "" THEN ParseUnary(ty)
    ELSE Then(ParseCast(Bump(Bump(Bump(ty)))), LAMBDA e : Yield(e, Cast(ty.v, e.v))))

-----------------------------------------------------------------------------
(* Functions.                                                              *)

RECURSIVE Directives(_, _, _)
\* Whether 'use strict' is among the literals that are statements of their own.
Directives(p, offset, strict) ==
  Then(PeekAt(p, offset), LAMBDA lit :
    IF lit.v.t # "string" THEN Yield(lit, strict)
    ELSE Then(IsEosAt(lit, offset + 1), LAMBDA eos :
      IF ~eos.v THEN Yield(eos, strict)
      ELSE Then(PeekAt(eos, offset + 1), LAMBDA next :
        Directives(next, IF next.v.t = ";" THEN offset + 2 ELSE offset + 1,
                   strict \/ lit.v = Token("string", UseStrict, "exact")))))
\* Yields whether the code around was strict.
ParseStrict(p) ==
  Then(Directives(p, 0, FALSE), LAMBDA q :
    Yield(IF q.v THEN SetStrict(q, TRUE) ELSE q, p.strict))

RECURSIVE MoreParameters(_, _), StmtsUpTo(_, _, _)
MoreParameters(p, ps) ==
  Then(ParseName(p), LAMBDA name :
  Then(Next_(name), LAMBDA q :
    CASE q.v.t = "," -> MoreParameters(q, Append(ps, name.v))
      [] q.v.t = ")" -> Yield(q, Append(ps, name.v))
      [] OTHER -> Fatal(q)))
ParseParameterList(p) ==
  Then(Consume(Expect(p, "("), ")"), LAMBDA q :
    IF q.v THEN Yield(q, <<>>) ELSE MoreParameters(q, <<>>))

\* The statements up to a token, which is bumped, or up to the end of the text.
StmtsUpTo(p, t, ss) ==
  Then(IF t = "eof" THEN Then(Peek(p), LAMBDA q : Yield(q, q.v = Eof)) ELSE Consume(p, t),
    LAMBDA end :
      IF end.v THEN Yield(end, ss)
      ELSE Then(ParseStmt(end, ""), LAMBDA s : StmtsUpTo(s, t, Append(ss, s.v))))

\* The function that was read, whose scope is still the innermost.
CodeOf(p, name, strict, params, ss) ==
  LET scope == TopScope(p) IN
  Code(name, Flags(strict, scope.deopt), [i \in DOMAIN params |-> Ident(params[i])],
       [i \in DOMAIN InOrder(scope.blocks[1]) |-> Ident(InOrder(scope.blocks[1])[i])], ss)
ParseFunctionBlock(p, params) ==
  Then(Expect(PushScope(p, "arguments" \in Range(params)), "{"), LAMBDA open :
  Then(ParseStrict(open), LAMBDA was :
  Then(StmtsUpTo(PushBlockScope(was, Range(params)), "}", <<>>), LAMBDA body :
    LET out == SetStrict(body, was.v) IN
    Yield(PopScope(out), CodeOf(body, "", was.strict, params, body.v)))))
ParseFunction(p) ==
  Then(ParseOptName(p), LAMBDA name :
  Then(ParseParameterList(name), LAMBDA params :
  Then(ParseFunctionBlock(params, params.v), LAMBDA f :
    IF f.v.a[1].op \in {"strict", "strict deopt"} /\ ~IsInjective(params.v) THEN Fatal(f)
    ELSE Yield(f, [f.v EXCEPT !.op = name.v]))))

-----------------------------------------------------------------------------
(* Statements.                                                             *)

RECURSIVE ParseStmtList(_, _)
\* The statements of a block or of a clause of a switch.
ParseStmtList(p, ss) ==
  Then(Peek(p), LAMBDA q :
    IF q.v.t \in {"eof", "}", "case", "default"} THEN Yield(q, ss)
    ELSE Then(ParseStmt(q, ""), LAMBDA s : ParseStmtList(s, Append(ss, s.v))))
ParseBlock(p, label) ==
  Then(ParseStmtList(Expect(p, "{"), <<>>), LAMBDA ss : Yield(Expect(ss, "}"), Block(label, ss.v)))

RECURSIVE MoreVars(_, _)
MoreVars(p, vs) ==
  Then(ParseIdent(p), LAMBDA id :
  Then(Consume(RegisterLocal(id, id.v.op, id.v = Arguments, FALSE), "="), LAMBDA q :
  Then(IF q.v THEN ParseExpr(q) ELSE Yield(q, None), LAMBDA e :
  Then(Consume(e, ","), LAMBDA more :
    IF more.v THEN MoreVars(more, Append(vs, Var(id.v, e.v)))
    ELSE Yield(more, Append(vs, Var(id.v, e.v)))))))
ParseVarDecl(p) == MoreVars(p, <<>>)

ParseVarStmt(p) ==
  Then(ParseVarDecl(Bump(p)), LAMBDA vs : Yield(ExpectEos(vs), VarDecl(Vars(vs.v))))

ParseIf(p) ==
  Then(Bracketed(Bump(p)), LAMBDA test :
  Then(ParseStmt(test, ""), LAMBDA then_ :
  Then(Consume(then_, "else"), LAMBDA q :
  Then(IF q.v THEN ParseStmt(q, "") ELSE Yield(q, None), LAMBDA else_ :
    Yield(else_, If(test.v, then_.v, else_.v))))))

\* The conditions of do and while are no sequences.
ParseDo(p, label) ==
  Then(ParseStmt(Bump(p), ""), LAMBDA s :
  Then(ParseExpr(Expect(Expect(s, "while"), "(")), LAMBDA test :
    Yield(ExpectEos(Expect(test, ")")), Do(label, test.v, s.v))))
ParseWhile(p, label) ==
  Then(ParseExpr(Expect(Bump(p), "(")), LAMBDA test :
  Then(ParseStmt(Expect(test, ")"), ""), LAMBDA s : Yield(s, While(label, test.v, s.v))))

\* An expression sequence up to the token that ends it, or none.
OptSeq(p, t) ==
  Then(Consume(p, t), LAMBDA q :
    IF q.v THEN Yield(q, None)
    ELSE Then(ParseExprSeq(q), LAMBDA seq : Yield(Expect(seq, t), seq.v)))
\* kind and init tell the statement that this is the tail of.
ParseForTail(p, kind, label, init) ==
  Then(OptSeq(p, ";"), LAMBDA test :
  Then(OptSeq(test, ")"), LAMBDA incr :
  Then(ParseStmt(incr, ""), LAMBDA s : Yield(s, Node(kind, label, <<init, test.v, incr.v, s.v>>)))))
ParseForVar(p, label) ==
  Then(ParseVarDecl(p), LAMBDA vs :
  Then(Next_(vs), LAMBDA q :
    CASE q.v.t = ";" -> ParseForTail(q, "forvar", label, Vars(vs.v))
      [] q.v.t = "in" /\ Len(vs.v) = 1 /\ vs.v[1].a[2] = None ->
           Then(ParseExprSeq(q), LAMBDA seq :
           Then(ParseStmt(Expect(seq, ")"), ""), LAMBDA s :
             Yield(s, ForVarIn(label, vs.v[1].a[1], seq.v, s.v))))
      [] OTHER -> Fatal(q)))
\* A for-in was read as the expression x in y.
ParseForExpr(p, label) ==
  Then(ParseExprSeq(p), LAMBDA seq :
    LET e == seq.v.a[1] IN
    IF Len(seq.v.a) = 1 /\ e.k = "binary" /\ e.op = "in"
    THEN Then(ParseStmt(Expect(seq, ")"), ""), LAMBDA s :
           Yield(s, ForIn(label, e.a[1], ExprSeq(<<e.a[2]>>), s.v)))
    ELSE ParseForTail(Expect(seq, ";"), "for", label, seq.v))
ParseFor(p, label) ==
  Then(Consume(Expect(Bump(p), "("), "var"), LAMBDA var :
    IF var.v THEN ParseForVar(var, label)
    ELSE Then(Consume(var, ";"), LAMBDA q :
      IF q.v THEN ParseForTail(q, "for", label, None)
      ELSE ParseForExpr(q, label)))

\* break and continue: the label must be on the line of the keyword.
ParseJump(p, kind) ==
  Then(IsEos(Bump(p)), LAMBDA eos :
  Then(IF eos.v THEN Yield(eos, "") ELSE ParseOptName(eos), LAMBDA l :
    Yield(ExpectEos(l), Node(kind, l.v, <<>>))))
\* A slip: the value may be on the next line.
ReturnsNextLine(p) ==
  IF AtGlobal(p) THEN Fatal(p)
  ELSE Then(Peek(Bump(p)), LAMBDA q :
       Then(IF q.v.t \in {"eof", ";", "}"} THEN Yield(q, None) ELSE ParseExprSeq(q), LAMBDA seq :
         Yield(ExpectEos(seq), Return(seq.v))))
ParseReturn(p) ==
  IF AtGlobal(p) THEN Fatal(p)
  ELSE Then(IsEos(Bump(p)), LAMBDA eos :
       Then(IF eos.v THEN Yield(eos, None) ELSE ParseExprSeq(eos), LAMBDA seq :
         Yield(ExpectEos(seq), Return(seq.v))))
ParseThrow(p) ==
  Then(IsEos(Bump(p)), LAMBDA eos :
    IF eos.v THEN Fatal(eos)
    ELSE Then(ParseExprSeq(eos), LAMBDA seq : Yield(ExpectEos(seq), Throw(seq.v))))

ParseWith(p) ==
  IF p.strict THEN Fatal(p)
  ELSE Then(Bracketed(Bump(MarkDeopt(p))), LAMBDA seq :
       Then(ParseStmt(seq, ""), LAMBDA s : Yield(s, With(seq.v, s.v))))

RECURSIVE MoreClauses(_, _)
MoreClauses(p, cs) ==
  Then(Next_(p), LAMBDA q :
    CASE q.v.t = "}" -> Yield(q, cs)
      [] q.v.t = "case" ->
           Then(ParseExprSeq(q), LAMBDA seq :
           Then(ParseStmtList(Expect(seq, ":"), <<>>), LAMBDA ss :
             MoreClauses(ss, Append(cs, Case(seq.v, ss.v)))))
      [] q.v.t = "default" ->
           Then(Expect(q, ":"), LAMBDA colon :
             IF \E i \in DOMAIN cs : cs[i].k = "default" THEN Fatal(colon)
             ELSE Then(ParseStmtList(colon, <<>>), LAMBDA ss :
                    MoreClauses(ss, Append(cs, Default(ss.v)))))
      [] OTHER -> Fatal(q))
ParseSwitch(p, label) ==
  Then(Bracketed(Bump(p)), LAMBDA seq :
  Then(MoreClauses(Expect(seq, "{"), <<>>), LAMBDA cs : Yield(cs, Switch(label, seq.v, cs.v))))

ParseCatch(p) ==
  Then(ParseIdent(Expect(PushBlockScope(p, {}), "(")), LAMBDA id :
  Then(ParseBlock(Expect(RegisterLocal(id, id.v.op, FALSE, TRUE), ")"), ""), LAMBDA b :
    Yield(PopBlockScope(b), Catch(id.v, b.v))))
ParseTry(p) ==
  Then(ParseBlock(Bump(p), ""), LAMBDA try :
  Then(Consume(try, "catch"), LAMBDA q :
  Then(IF q.v THEN ParseCatch(q) ELSE Yield(q, None), LAMBDA catch :
  Then(Consume(catch, "finally"), LAMBDA r :
  Then(IF r.v THEN ParseBlock(r, "") ELSE Yield(r, None), LAMBDA finally :
    IF catch.v = None /\ finally.v = None THEN Fatal(finally)
    ELSE Yield(finally, Try(try.v, catch.v, finally.v)))))))

\* A call of a function that begins a statement is refused.
ParseExprStmt(p) ==
  Then(ParseExprSeq(p), LAMBDA seq :
  Then(ExpectEos(seq), LAMBDA q :
    IF seq.v.a[1].k = "call" /\ seq.v.a[1].a[1].k = "function" THEN Fatal(q)
    ELSE Yield(q, ExprStmt(seq.v))))
\* A name and a colon make a label, anything else an expression.
ParseLabelled(p) ==
  Then(Peek(p), LAMBDA first :
    IF first.v.t # "ident" THEN ParseExprStmt(first)
    ELSE Then(PeekAt(first, 1), LAMBDA second :
      IF second.v.t # ":" THEN ParseExprStmt(second)
      ELSE ParseStmt(Bump(Bump(second)), first.v.v[1])))
ParseDeclaration(p) ==
  Then(ParseFunction(Bump(p)), LAMBDA f :
    Yield(RegisterLocal(f, f.v.op, FALSE, FALSE), Declaration(f.v)))

ParseStmt(p, label) ==
  Then(Peek(p), LAMBDA q :
  Then(IF q.v.t = "function" THEN PeekAt(q, 1) ELSE q, LAMBDA r :
    CASE q.v.t = "function" /\ r.v.t = "ident" -> ParseDeclaration(r)
      [] q.v.t = "{" -> ParseBlock(r, label)
      [] q.v.t = "var" -> ParseVarStmt(r)
      [] q.v.t = ";" -> Yield(Bump(r), Empty)
      [] q.v.t = "if" -> ParseIf(r)
      [] q.v.t = "do" -> ParseDo(r, label)
      [] q.v.t = "while" -> ParseWhile(r, label)
      [] q.v.t = "for" -> ParseFor(r, label)
      [] q.v.t = "continue" -> ParseJump(r, "continue")
      [] q.v.t = "break" -> ParseJump(r, "break")
      [] q.v.t = "return" -> ParseReturn(r)
      [] q.v.t = "with" -> ParseWith(r)
      [] q.v.t = "switch" -> ParseSwitch(r, label)
      [] q.v.t = "throw" -> ParseThrow(r)
      [] q.v.t = "try" -> ParseTry(r)
      [] q.v.t = "debugger" -> Yield(ExpectEos(Bump(r)), Debugger)
      [] OTHER -> ParseLabelled(r)))

\* The program is deoptimised from the start in an eval, and never otherwise.
ParseProgram(text, privileged, eval) ==
  LET start == [text |-> text, at |-> 1, look |-> <<>>, regexp |-> FALSE, strict |-> FALSE,
                privileged |-> privileged, ok |-> TRUE, v |-> None,
                scopes |-> <<[NewScope(FALSE) EXCEPT !.deopt = eval]>>]
  IN Then(ParseStrict(PushBlockScope(start, {})), LAMBDA strict :
     Then(StmtsUpTo(strict, "eof", <<>>), LAMBDA ss :
       LET out == IF eval THEN ss ELSE Top(ss, [TopScope(ss) EXCEPT !.deopt = FALSE])
           n == Len(ss.v)
       IN Yield(out, CodeOf(out, "", ss.strict, <<>>,
                            [i \in 1..n |-> IF i = n THEN Leave(ss.v[i]) ELSE ss.v[i]]))))
=============================================================================
