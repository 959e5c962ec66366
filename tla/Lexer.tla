-------------------------------- MODULE Lexer --------------------------------
(***************************************************************************)
(* syntax/lexer.rs over syntax/reader.rs: the tokens of a text, read on    *)
(* demand into a look-ahead that is thrown away when the parser changes    *)
(* what a slash or a word means.                                           *)
(*                                                                         *)
(* A text is a sequence of characters; a whole word (an identifier, a      *)
(* reserved word, what stands between blanks in a string) is one of them.  *)
(* The parser and its lexer are one record:                                *)
(*   text, at        the reader                                            *)
(*   look            look_ahead: tokens and the places they were read at   *)
(*   regexp, strict  allow_regexp and strict                               *)
(*   ok, v           whether no error was met, and the last result         *)
(* and what the parser adds (privileged, scopes).  Every operator leaves a *)
(* record that is not ok as it is.                                         *)
(***************************************************************************)
EXTENDS Numerals

\* A token: its kind (for a punctuator or a reserved word, its text), its value,
\* and the radix of a number, the flags of a regular expression, or whether a
\* string was written as it is.
Token(t, v, x) == [t |-> t, v |-> v, x |-> x]
Plain(t) == Token(t, <<>>, "")
Eof == Plain("eof")

Punctuators ==
  {"{", "}", "(", ")", "[", "]", ".", ";", ",", "?", ":", "~",
   "<", ">", "<=", ">=", "==", "!=", "===", "!==", "<<", ">>", ">>>",
   "+", "-", "*", "/", "%", "++", "--", "&", "|", "^", "!", "&&", "||",
   "=", "+=", "-=", "*=", "/=", "%=", "<<=", ">>=", ">>>=", "&=", "|=", "^="}
ReservedWords ==
  {"break", "do", "instanceof", "typeof", "case", "else", "new", "var", "catch",
   "finally", "return", "void", "continue", "for", "switch", "while", "debugger",
   "function", "this", "with", "default", "if", "throw", "delete", "in", "try",
   "class", "enum", "extends", "super", "const", "export", "import",
   "null", "true", "false"}
StrictWords == {"implements", "let", "private", "public", "interface", "package",
                "protected", "static", "yield"}
NameOrder == <<"a", "b", "c", "x", "y", "g", "eval", "arguments", "let", "get", "set", "int">>
Identifiers == Range(NameOrder)
UseStrict == <<"use", " ", "strict">>
Words == (ReservedWords \cup StrictWords \cup Identifiers \cup Range(UseStrict)) \ {" "}
Newline == "\n"
Hidden == {"whitespace", "newline", "comment"}

Concat(s) == FoldLeft(LAMBDA a, c : a \o c, "", s)
\* The text from place i on holds these characters.
Has(p, i, s) ==
  i + Len(s) - 1 <= Len(p.text) /\ SubSeq(p.text, i, i + Len(s) - 1) = s

\* A token and the place after it; "illegal" is an error.
Lexed(tok, next) == [tok |-> tok, next |-> next]
Illegal == Lexed(Plain("illegal"), 0)

\* The first place from i on whose character is in cs, or the place after the text.
UpTo(text, i, cs) ==
  LET js == {j \in i..Len(text) : text[j] \in cs} IN
  IF js = {} THEN Len(text) + 1 ELSE CHOOSE j \in js : \A k \in js : j <= k

BlockComment(p) ==
  LET ends == {j \in p.at + 2 .. Len(p.text) - 1 : Has(p, j, <<"*", "/">>)} IN
  IF ends = {} THEN Illegal
  ELSE Lexed(Plain("comment"), 2 + CHOOSE j \in ends : \A k \in ends : j <= k)

Identifier(p) ==
  LET w == p.text[p.at] IN
  Lexed(IF w \in ReservedWords \/ (p.strict /\ w \in StrictWords)
        THEN Plain(w) ELSE Token("ident", <<w>>, ""), p.at + 1)

\* What a character after a backslash stands for, and how many are read.
Point(n) == "#" \o ToString(n)
Digit(c) == CHOOSE n \in 0..15 :
  c \in {Chars("0123456789abcdef")[n + 1], Chars("0123456789ABCDEF")[n + 1]}
RECURSIVE ValueIn(_, _)
ValueIn(radix, s) == IF s = <<>> THEN 0 ELSE radix * ValueIn(radix, Front(s)) + Digit(Last(s))
\* The end of a run of octal digits from i on, of at most n of them.
OctalEnd(text, i, n) ==
  CHOOSE j \in i..i + n :
    /\ \A k \in i..j - 1 : k <= Len(text) /\ text[k] \in Octals
    /\ j = i + n \/ j > Len(text) \/ text[j] \notin Octals
Escape(p, i) ==
  LET c == p.text[i]
      hex(n) == SubSeq(p.text, i + 1, i + n)
      Hex(n) == IF Len(hex(n)) = n /\ All(hex(n), Decimals \cup HexLetters)
                THEN [ok |-> TRUE, c |-> Point(ValueIn(16, hex(n))), next |-> i + 1 + n]
                ELSE [ok |-> FALSE]
      end == OctalEnd(p.text, i, IF c \in {"0", "1", "2", "3"} THEN 3 ELSE 2)
  IN CASE c = "x" -> Hex(2)
       [] c = "u" -> Hex(4)
       [] c \in Octals ->
            IF p.strict THEN [ok |-> FALSE]
            ELSE [ok |-> TRUE, c |-> Point(ValueIn(8, SubSeq(p.text, i, end - 1))), next |-> end]
       [] OTHER -> [ok |-> TRUE, c |-> IF c \in {"b", "f", "n", "r", "t", "v"} THEN "\\" \o c ELSE c,
                    next |-> i + 1]

RECURSIVE StringFrom(_, _, _, _)
\* The rest of a string from place i on.  A text may end before the string does.
StringFrom(p, i, s, exact) ==
  IF i > Len(p.text) THEN Lexed(Token("string", s, exact), i)
  ELSE LET c == p.text[i] IN
    CASE c = Newline -> Illegal
      [] c = p.text[p.at] -> Lexed(Token("string", s, exact), i + 1)
      [] c = "\\" /\ i = Len(p.text) -> Illegal        \* the reader panics
      [] c = "\\" /\ Has(p, i + 1, <<Newline>>) -> StringFrom(p, i + 2, s, "escaped")
      [] c = "\\" /\ i < Len(p.text) /\ ~Has(p, i + 1, <<Newline>>) ->
           LET e == Escape(p, i + 1) IN
           IF e.ok THEN StringFrom(p, e.next, Append(s, e.c), "escaped") ELSE Illegal
      [] OTHER -> StringFrom(p, i + 1, Append(s, c), exact)

RECURSIVE RegexFrom(_, _, _, _)
\* The body of a regular expression from place i on; not ok if there is none.
RegexFrom(p, i, s, class) ==
  IF i > Len(p.text) THEN [ok |-> FALSE]
  ELSE LET c == p.text[i] IN
    CASE c = "/" /\ ~class -> [ok |-> TRUE, s |-> s, next |-> i + 1]
      [] c = "\\" /\ i = Len(p.text) -> [ok |-> FALSE]
      [] c = "\\" /\ i < Len(p.text) ->
           IF Has(p, i + 1, <<"/">>) THEN RegexFrom(p, i + 2, Append(s, "/"), class)
                                     ELSE RegexFrom(p, i + 1, Append(s, c), class)
      [] c = Newline -> [ok |-> FALSE]
      [] OTHER -> RegexFrom(p, i + 1, Append(s, c),
                            IF c = "[" THEN TRUE ELSE IF c = "]" THEN FALSE ELSE class)
Regex(p) ==
  LET r == RegexFrom(p, p.at + 1, <<>>, FALSE)
      flags == r.next <= Len(p.text) /\ p.text[r.next] \in Words
  IN IF ~r.ok THEN [ok |-> FALSE]
     ELSE [ok |-> TRUE,
           l |-> Lexed(Token("regexp", r.s, IF flags THEN p.text[r.next] ELSE ""),
                       IF flags THEN r.next + 1 ELSE r.next)]

\* The longest punctuator at the reader's place.
Punctuator(p) ==
  LET Text(n) == Concat(SubSeq(p.text, p.at, p.at + n - 1))
      ns == {n \in 1..4 : p.at + n - 1 <= Len(p.text) /\ Text(n) \in Punctuators}
  IN IF ns = {} THEN Illegal
     ELSE LET n == CHOOSE n \in ns : \A m \in ns : m <= n IN Lexed(Plain(Text(n)), p.at + n)

NumberToken(p) ==
  LET n == ReadNumber(p.text, p.at, TRUE, p.strict) IN
  IF n.ok THEN Lexed(Token("number", n.digits, ToString(n.radix)), n.next) ELSE Illegal

\* The token at the reader's place.
Lex(p) ==
  LET c == p.text[p.at]
      regex == IF p.regexp THEN Regex(p) ELSE [ok |-> FALSE]
  IN CASE Has(p, p.at, <<"/", "*">>) -> BlockComment(p)
       [] Has(p, p.at, <<"/", "/">>) ->
            Lexed(Plain("comment"), UpTo(p.text, p.at, {Newline}))
       [] c = "/" /\ ~Has(p, p.at, <<"/", "*">>) /\ ~Has(p, p.at, <<"/", "/">>) ->
            IF regex.ok THEN regex.l ELSE Punctuator(p)
       [] c \in Decimals -> NumberToken(p)
       [] c = "." -> IF p.at < Len(p.text) /\ p.text[p.at + 1] \in Decimals
                     THEN NumberToken(p) ELSE Punctuator(p)
       [] c \in {"'", "\""} -> StringFrom(p, p.at + 1, <<>>, "exact")
       [] c = Newline -> Lexed(Plain("newline"), p.at + 1)
       [] c = " " -> Lexed(Plain("whitespace"), CHOOSE j \in p.at + 1 .. Len(p.text) + 1 :
                                                    /\ \A k \in p.at .. j - 1 : p.text[k] = " "
                                                    /\ ~Has(p, j, <<" ">>))
       [] c \in Words -> Identifier(p)
       [] OTHER -> Punctuator(p)

-----------------------------------------------------------------------------
(* The look-ahead.                                                         *)
Then(p, K(_)) == IF p.ok THEN K(p) ELSE p
Yield(p, v) == [p EXCEPT !.v = v]
Fatal(p) == [p EXCEPT !.ok = FALSE, !.v = "error"]

RECURSIVE Fill(_, _)
\* Read until there are n tokens, or the text ends.
Fill(p, n) ==
  IF ~p.ok \/ Len(p.look) >= n \/ p.at > Len(p.text) THEN p
  ELSE LET l == Lex(p) IN
       IF l.tok.t = "illegal" THEN Fatal(p)
       ELSE Fill([p EXCEPT !.look = Append(@, [tok |-> l.tok, at |-> p.at]), !.at = l.next], n)

PeekAnyAt(p, index) ==
  Then(Fill(p, index + 1), LAMBDA q :
    Yield(q, IF Len(q.look) > index THEN q.look[index + 1].tok ELSE Eof))
PeekAny(p) == PeekAnyAt(p, 0)

RECURSIVE PeekFrom(_, _, _)
PeekFrom(p, index, from) ==
  Then(PeekAnyAt(p, from), LAMBDA q :
    IF q.v.t \in Hidden THEN PeekFrom(q, index, from + 1)
    ELSE IF q.v = Eof \/ index = 0 THEN q
    ELSE PeekFrom(q, index - 1, from + 1))
\* The token at index, hidden ones not counted.
PeekAt(p, index) == PeekFrom(p, index, 0)
Peek(p) == PeekAt(p, 0)

\* next_any, and bump_any
NextAny(p) ==
  Then(PeekAny(p), LAMBDA q :
    IF q.v = Eof THEN Fatal(q) ELSE [q EXCEPT !.look = Tail(@)])
RECURSIVE Next_(_)
\* next, and bump: hidden tokens are dropped, too.
Next_(p) == Then(NextAny(p), LAMBDA q : IF q.v.t \in Hidden THEN Next_(q) ELSE q)
Bump(p) == Next_(p)

Expect(p, t) == Then(Next_(p), LAMBDA q : IF q.v.t = t THEN q ELSE Fatal(q))
Consume(p, t) ==
  Then(Peek(p), LAMBDA q : IF q.v.t = t THEN Yield(Bump(q), TRUE) ELSE Yield(q, FALSE))

\* A slip: the tokens looked at under the old rules stay.
KeepsLookAhead(p) == p
ResetLookAhead(p) ==
  IF p.look = <<>> THEN p ELSE [p EXCEPT !.at = p.look[1].at, !.look = <<>>]
SetStrict(p, strict) == [ResetLookAhead(p) EXCEPT !.strict = strict]
SetAllowRegexp(p, allow) == [ResetLookAhead(p) EXCEPT !.regexp = allow]

RECURSIVE EosFrom(_, _)
\* Whether a statement may end before the token at index, of any kind.
EosFrom(p, index) ==
  Then(PeekAnyAt(p, index), LAMBDA q :
    IF q.v.t \in {"eof", ";", "newline", "}"} THEN Yield(q, TRUE)
    ELSE IF q.v.t \in Hidden THEN EosFrom(q, index + 1)
    ELSE Yield(q, FALSE))
RECURSIVE EosPast(_, _, _)
EosPast(p, offset, index) ==
  IF offset = 0 THEN EosFrom(p, index)
  ELSE Then(PeekAnyAt(p, index), LAMBDA q :
    IF q.v = Eof THEN Yield(q, TRUE)
    ELSE EosPast(q, IF q.v.t \in Hidden THEN offset ELSE offset - 1, index + 1))
IsEosAt(p, offset) == EosPast(p, offset, 0)
IsEos(p) == IsEosAt(p, 0)

RECURSIVE ExpectEos(_)
ExpectEos(p) ==
  Then(PeekAny(p), LAMBDA q :
    CASE q.v.t \in {"eof", "}"} -> q
      [] q.v.t \in {";", "newline"} -> NextAny(q)
      [] q.v.t \in Hidden \ {"newline"} -> ExpectEos(NextAny(q))
      [] OTHER -> Fatal(q))
=============================================================================
