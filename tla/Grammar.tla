------------------------------- MODULE Grammar -------------------------------
(***************************************************************************)
(* ECMA-262 5.1 chapters 7 and 11 to 14, the other way round: how a tree   *)
(* is written.  A tree of Ast and Items, whose functions tell nothing but  *)
(* their name, parameters and statements, is put in parentheses where the  *)
(* grammar wants them (Canonical), written as tokens (Written), and the    *)
(* tokens as a text in some layout (Layout); Decorated says what is to be  *)
(* known of the functions, and is what the parser must make of the text.   *)
(***************************************************************************)
EXTENDS Items, Lexer

RECURSIVE Parts(_), AllParts(_), Level(_), Canonical(_), Decorated(_, _, _), Written(_), Declared(_)

\* The parts of e, without and with what is inside the functions among them.
Parts(e) == {e} \cup IF e.k = "function" THEN {} ELSE UNION {Parts(e.a[i]) : i \in DOMAIN e.a}
AllParts(e) == {e} \cup UNION {AllParts(e.a[i]) : i \in DOMAIN e.a}

-----------------------------------------------------------------------------
(* Precedence: the production an expression is an instance of.             *)
Operators == << {"||"}, {"&&"}, {"|"}, {"^"}, {"&"}, {"==", "!=", "===", "!=="},
                {"<", ">", "<=", ">=", "instanceof", "in"}, {"<<", ">>", ">>>"},
                {"+", "-"}, {"*", "/", "%"} >>
Relational == 9
Prefix == {"delete", "void", "typeof", "++_", "--_", "+_", "-_", "~_", "!_"}
UnaryLevel == 13
CallLevel == 15
NewLevel == 16                \* new without arguments
MemberLevel == 17
Level(e) ==
  CASE e.k = "assign" -> 1
    [] e.k = "ternary" -> 2
    [] e.k = "binary" -> 2 + CHOOSE n \in DOMAIN Operators : e.op \in Operators[n]
    [] e.k = "unary" -> IF e.op \in Prefix THEN UnaryLevel ELSE UnaryLevel + 1
    [] e.k = "cast" -> UnaryLevel
    [] e.k = "call" -> CallLevel
    [] e.k = "new" -> IF e.a[1].k = "call" THEN MemberLevel ELSE NewLevel
    [] e.k \in {"dot", "index"} -> IF Level(e.a[1]) = CallLevel THEN CallLevel ELSE MemberLevel
    [] OTHER -> MemberLevel + 1

\* c may stand as part i of e as it is.
Fits(e, i, c) ==
  CASE e.k = "assign" -> i = 2 \/ Level(c) >= CallLevel
    [] e.k = "ternary" -> i > 1 \/ Level(c) > 2
    [] e.k = "binary" -> IF i = 1 THEN Level(c) >= Level(e) ELSE Level(c) > Level(e)
    [] e.k = "unary" -> Level(c) >= IF e.op \in Prefix THEN UnaryLevel ELSE CallLevel
    [] e.k = "cast" -> Level(c) >= UnaryLevel
    [] e.k \in {"call", "dot", "index"} -> i > 1 \/ (Level(c) >= CallLevel /\ Level(c) # NewLevel)
    [] e.k = "new" -> c.k = "call" \/ Level(c) >= NewLevel
    [] OTHER -> TRUE
Wrapped(c) == Paren(<<c>>)

\* 12.5: an else belongs to the nearest if.
RECURSIVE OpenIf(_)
OpenIf(s) ==
  \/ s.k = "if" /\ (s.a[3] = None \/ OpenIf(s.a[3]))
  \/ s.k \in {"while", "for", "forin", "forvar", "forvarin", "with"} /\ OpenIf(Last(s.a))
HasIn(e) == \E x \in Parts(e) : x.k = "binary" /\ x.op = "in"
FirstWord(e) == Written(e)[1].c
Wrap(seq, P(_)) == [seq EXCEPT !.a = [i \in DOMAIN @ |-> IF P(@[i]) THEN Wrapped(@[i]) ELSE @[i]]]

\* The same tree, in parentheses (and blocks) where it would be read otherwise.
Canonical(e) ==
  LET c == [e EXCEPT !.a = [i \in DOMAIN @ |-> Canonical(@[i])]]
      fit == [c EXCEPT !.a = [i \in DOMAIN @ |-> IF Fits(c, i, @[i]) THEN @[i] ELSE Wrapped(@[i])]]
  IN CASE e.k = "new" /\ e.a[1].k = "call" /\ Level(c.a[1].a[1]) < MemberLevel ->
            [c EXCEPT !.a[1].a[1] = Wrapped(@)]
       [] e.k = "expr" /\ FirstWord(c.a[1]) \in {<<"{">>, <<"function">>} ->
            [c EXCEPT !.a[1].a[1] = Wrapped(@)]
       [] e.k = "if" /\ e.a[3] # None /\ OpenIf(c.a[2]) -> [c EXCEPT !.a[2] = Block("", <<@>>)]
       [] e.k = "for" -> [c EXCEPT !.a[1] = Wrap(@, HasIn)]
       [] e.k = "forvar" ->
            [c EXCEPT !.a[1].a = [i \in DOMAIN @ |-> Wrap(@[i], LAMBDA x : x.k # "ident" /\ HasIn(x))]]
       [] e.k = "forin" ->
            [c EXCEPT !.a[1] = IF Level(@) >= CallLevel THEN @ ELSE Wrapped(@),
                      !.a[2] = Wrap(@, LAMBDA x : Level(x) <= Relational)]
       [] OTHER -> fit

-----------------------------------------------------------------------------
(* What is known of functions: 10.4.2, 10.5, 10.6, 14.1.                   *)
Dynamic(f) == \E x \in AllParts(f.a[4]) :
                x.k = "with" \/ (x.k = "call" /\ x.a[1] = Ident("eval"))

Declared(e) ==
  CASE e.k = "function" -> {}
    [] e.k = "declaration" -> {e.a[1].op}
    [] e.k \in {"var", "forvarin"} -> {e.a[1].op} \cup UNION {Declared(e.a[i]) : i \in DOMAIN e.a}
    [] OTHER -> UNION {Declared(e.a[i]) : i \in DOMAIN e.a}

Params(f) == f.a[2].a
Stmts(f) == f.a[4].a
\* A directive: a statement that is nothing but a string.
Directive(s) == s.k = "expr" /\ Len(s.a[1].a) = 1 /\ s.a[1].a[1].k = "string"
Strict(ss) == \E i \in DOMAIN ss :
                /\ \A j \in 1..i : Directive(ss[j])
                /\ ss[i].a[1].a[1] = Text("use strict", "exact")
FunctionKnown(f, strict, dynamic) ==
  LET own == strict \/ Strict(Stmts(f))
      param == Ident("arguments") \in Range(Params(f))
      slots == {Params(f)[i].op : i \in DOMAIN Params(f)} \cup Declared(f.a[4])
               \cup IF Ident("arguments") \in Parts(f.a[4]) THEN {"arguments"} ELSE {}
  IN Code(f.op, Flags(own, dynamic), Params(f),
          [i \in 1..Cardinality(slots) |-> Ident(SelectSeq(NameOrder, LAMBDA n : n \in slots)[i])],
          [i \in DOMAIN Stmts(f) |-> Decorated(Stmts(f)[i], own, param)])
\* 11.4.7 of a number is the negative number; param: arguments is a parameter.
Decorated(e, strict, param) ==
  CASE e.k = "function" -> FunctionKnown(e, strict, Dynamic(e))
    [] e = Ident("arguments") /\ ~param -> Arguments
    [] e.k = "unary" /\ e.op = "-_" /\ e.a[1].k = "number" ->
         Number("-" \o e.a[1].a[1].op, e.a[1].op)
    [] OTHER -> [e EXCEPT !.a = [i \in DOMAIN @ |-> Decorated(@[i], strict, param)]]
\* A program: what its last statement yields is its result.
Program(ss, eval) ==
  FunctionKnown(Code("", "", <<>>, <<>>, [i \in DOMAIN ss |-> IF i = Len(ss) THEN Leave(ss[i]) ELSE ss[i]]),
                Strict(ss), eval)

-----------------------------------------------------------------------------
(* Tokens: their characters, whether a new line may stand before them, and *)
(* whether they are a semicolon that may be left out.                      *)
Tok(c) == <<[c |-> c, line |-> TRUE, auto |-> FALSE]>>
W(word) == Tok(<<word>>)
P(punctuator) == Tok(Chars(punctuator))
SameLine(tokens) == [tokens EXCEPT ![1].line = FALSE]
End == <<[c |-> <<";">>, line |-> FALSE, auto |-> TRUE]>>

Flat(seqs) == FlattenSeq(seqs)
Each(es) == Flat([i \in DOMAIN es |-> Written(es[i])])
Commas(es) ==
  Flat([i \in DOMAIN es |-> IF i = 1 THEN Written(es[i]) ELSE P(",") \o Written(es[i])])
Labelled(l) == IF l = "" THEN <<>> ELSE W(l) \o P(":")
To(l) == IF l = "" THEN <<>> ELSE SameLine(W(l))
Bracket(tokens) == P("(") \o tokens \o P(")")
Braces(tokens) == P("{") \o tokens \o P("}")
Optional(e) == IF e = None THEN <<>> ELSE Written(e)
FunctionRest(f) == Bracket(Commas(Params(f))) \o Braces(Each(Stmts(f)))
Word(w) == IF w \in Words THEN W(w) ELSE P(w)

Body(s) ==
  IF s = "use strict" THEN UseStrict ELSE <<s>>
Quoted(e) ==
  LET s == Body(e.a[1].op) IN
  Tok(<<"'">> \o (IF e.op = "exact" THEN s ELSE <<"\\", Newline>> \o s) \o <<"'">>)

WrittenExpr(e) ==
  CASE e.k \in {"ident", "arguments", "literal"} -> W(e.op)
    [] e.k = "number" -> P((IF e.op = "16" THEN "0x" ELSE "") \o e.a[1].op)
    [] e.k = "string" -> Quoted(e)
    [] e.k = "regexp" -> Tok(<<"/", e.a[1].op, "/">> \o IF e.op = "" THEN <<>> ELSE <<e.op>>)
    [] e.k = "this" -> W("this")
    [] e.k = "function" -> W("function") \o (IF e.op = "" THEN <<>> ELSE W(e.op)) \o FunctionRest(e)
    [] e.k \in {"assign", "binary"} -> Written(e.a[1]) \o Word(e.op) \o Written(e.a[2])
    [] e.k = "unary" /\ e.op \in {"_++", "_--"} ->
         Written(e.a[1]) \o SameLine(P(IF e.op = "_++" THEN "++" ELSE "--"))
    [] e.k = "unary" /\ e.op \in Prefix ->
         (IF e.op \in Words THEN W(e.op) ELSE P(SubSeq(e.op, 1, Len(e.op) - 1))) \o Written(e.a[1])
    [] e.k = "cast" -> Bracket(W(e.op)) \o Written(e.a[1])
    [] e.k = "call" -> Written(e.a[1]) \o Bracket(Commas(Tail(e.a)))
    [] e.k = "new" -> W("new") \o Written(e.a[1])
    [] e.k = "dot" -> Written(e.a[1]) \o P(".") \o W(e.op)
    [] e.k = "index" -> Written(e.a[1]) \o P("[") \o Commas(Tail(e.a)) \o P("]")
    [] e.k = "paren" -> Bracket(Commas(e.a))
    [] e.k = "ternary" -> Written(e.a[1]) \o P("?") \o Written(e.a[2]) \o P(":") \o Written(e.a[3])
    [] e.k = "array" -> P("[") \o Commas(e.a) \o P("]")
    [] e.k = "missing" -> <<>>
    [] e.k = "object" -> Braces(Commas(e.a))
    [] e.k \in {"named", "keyed"} -> Written(e.a[1]) \o P(":") \o Written(e.a[2])
    [] e.k \in {"get", "set"} -> W(e.k) \o W(e.op) \o FunctionRest(e.a[1])
    [] e.k = "seq" -> Commas(e.a)
    [] e.k = "none" -> <<>>

WrittenVar(v) ==
  Written(v.a[1]) \o IF v.a[2] = None THEN <<>> ELSE P("=") \o Written(v.a[2])
WrittenVars(vs) ==
  W("var") \o Flat([i \in DOMAIN vs.a |-> (IF i = 1 THEN <<>> ELSE P(",")) \o WrittenVar(vs.a[i])])
Tail3(s) == Optional(s.a[2]) \o P(";") \o Optional(s.a[3]) 
WrittenClause(c) ==
  IF c.k = "default" THEN W("default") \o P(":") \o Each(c.a)
  ELSE W("case") \o Written(c.a[1]) \o P(":") \o Each(Tail(c.a))

WrittenStmt(s) ==
  CASE s.k = "block" -> Labelled(s.op) \o Braces(Each(s.a))
    [] s.k \in {"break", "continue"} -> W(s.k) \o To(s.op) \o End
    [] s.k = "debugger" -> W("debugger") \o End
    [] s.k = "do" -> Labelled(s.op) \o W("do") \o Written(s.a[2]) \o W("while")
                     \o Bracket(Written(s.a[1])) \o End
    [] s.k = "empty" -> P(";")
    [] s.k = "expr" -> Written(s.a[1]) \o End
    [] s.k = "for" -> Labelled(s.op) \o W("for")
                      \o Bracket(Optional(s.a[1]) \o P(";") \o Tail3(s)) \o Written(s.a[4])
    [] s.k = "forvar" -> Labelled(s.op) \o W("for")
                         \o Bracket(WrittenVars(s.a[1]) \o P(";") \o Tail3(s)) \o Written(s.a[4])
    [] s.k \in {"forin", "forvarin"} ->
         Labelled(s.op) \o W("for")
         \o Bracket((IF s.k = "forvarin" THEN W("var") ELSE <<>>)
                    \o Written(s.a[1]) \o W("in") \o Written(s.a[2])) \o Written(s.a[3])
    [] s.k = "declaration" -> Written(s.a[1])
    [] s.k = "if" -> W("if") \o Bracket(Written(s.a[1])) \o Written(s.a[2])
                     \o IF s.a[3] = None THEN <<>> ELSE W("else") \o Written(s.a[3])
    [] s.k \in {"return", "throw"} ->
         W(s.k) \o (IF s.a[1] = None THEN <<>> ELSE SameLine(Written(s.a[1]))) \o End
    [] s.k = "switch" -> Labelled(s.op) \o W("switch") \o Bracket(Written(s.a[1]))
                         \o Braces(Flat([i \in DOMAIN Tail(s.a) |-> WrittenClause(s.a[i + 1])]))
    [] s.k = "try" ->
         W("try") \o Written(s.a[1])
         \o (IF s.a[2] = None THEN <<>>
             ELSE W("catch") \o Bracket(Written(s.a[2].a[1])) \o Written(s.a[2].a[2]))
         \o IF s.a[3] = None THEN <<>> ELSE W("finally") \o Written(s.a[3])
    [] s.k = "vardecl" -> WrittenVars(s.a[1]) \o End
    [] s.k = "while" -> Labelled(s.op) \o W("while") \o Bracket(Written(s.a[1])) \o Written(s.a[2])
    [] s.k = "with" -> W("with") \o Bracket(Written(s.a[1])) \o Written(s.a[2])

Statements == {"block", "break", "continue", "debugger", "do", "empty", "expr", "for", "forvar",
  "forin", "forvarin", "declaration", "if", "return", "throw", "switch", "try", "vardecl", "while", "with"}
Written(e) == IF e.k \in Statements THEN WrittenStmt(e) ELSE WrittenExpr(e)

-----------------------------------------------------------------------------
(* Layouts: 7.2 to 7.4, and the semicolons of 7.9.                         *)
Layouts == {"tight", "lines", "comments", "auto"}

Brackets == {"(", ")", "[", "]", "{", "}", ";", ",", "?", ":", "~"}
Wordy(c) == c \in Words \cup Decimals
\* Two characters that may touch without becoming part of one token.
MayTouch(c, d) ==
  \/ c \in Brackets \/ d \in Brackets
  \/ "." \notin {c, d} /\ Wordy(c) # Wordy(d) /\ "'" \notin {c, d}
Gap(prev, tok, layout) ==
  CASE layout = "tight"    -> IF MayTouch(Last(prev.c), Head(tok.c)) /\ Len(prev.c) < 3 THEN <<>> ELSE <<" ">>
    [] layout = "lines"    -> IF tok.line THEN <<" ", Newline>> ELSE <<" ">>
    [] layout = "comments" -> <<" ", "/", "*", "*", "'", "/", "*", "/", " ">>
    [] OTHER               -> <<" ">>

\* 7.9.1: what stands for a semicolon that is left out, before the token next.
Continues == {"(", "[", "+", "-", "/", ";"}
Inserted(next) ==
  IF next.c = <<"}">> THEN <<>>
  ELSE IF Head(next.c) \in Continues /\ next.c \notin {<<"+", "+">>, <<"-", "-">>} THEN <<";">>
  ELSE <<Newline>>

Layout(tokens, layout) ==
  Flat([i \in DOMAIN tokens |->
    IF layout = "auto" /\ tokens[i].auto
    THEN (IF i = Len(tokens) THEN <<>> ELSE Inserted(tokens[i + 1]))
    ELSE (IF i = 1 THEN <<>> ELSE Gap(tokens[i - 1], tokens[i], layout)) \o tokens[i].c])

\* 7.9.1, restricted productions: a new line where none may stand is a semicolon.
Broken(tokens, with) ==
  Flat([i \in DOMAIN tokens |->
    (IF i = 1 THEN <<>> ELSE IF tokens[i].line \/ tokens[i].auto THEN <<" ">> ELSE with)
    \o tokens[i].c])
=============================================================================
