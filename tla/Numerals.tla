------------------------------ MODULE Numerals ------------------------------
(***************************************************************************)
(* util/matchers.rs: DecimalMatcher, the automaton that reads the numbers  *)
(* of programs, of JSON and of parseFloat, and the grammar of numbers that *)
(* ECMA-262 5.1 gives (7.8.3, 9.3.1, 15.1.2.3, B.1.1).                     *)
(*                                                                         *)
(* A text is a sequence of characters.                                     *)
(***************************************************************************)
EXTENDS Integers, Sequences, SequencesExt

Chars(s) == [i \in 1..Len(s) |-> SubSeq(s, i, i)]
Decimals == Range(Chars("0123456789"))
Octals == Range(Chars("01234567"))
HexLetters == Range(Chars("abcdefABCDEF"))
Space == {" ", "\t", "\n"}          \* is_whitespace and is_line_terminator
Names == [Infinity |-> Chars("Infinity"), NaN |-> Chars("NaN")]

\* The fields of DecimalMatcher; at counts the letters of a name that matched.
Matcher == [state |-> "Before", ty |-> "Unknown", at |-> 0, any |-> FALSE,
            exponent |-> FALSE, value |-> <<>>]

\* mutant: no octal numbers
AlwaysNormal(m, c, octal) == IF m.ty = "Unknown" /\ c = "0" THEN "SingleZero" ELSE "Normal"

\* A second digit after a zero makes an octal number, where there are any.
MoreDigits(m, c, octal) ==
  CASE m.ty = "Unknown"    -> IF c = "0" THEN "SingleZero" ELSE "Normal"
    [] m.ty = "SingleZero" -> IF octal THEN "Octal" ELSE "Normal"
    [] OTHER               -> m.ty

\* The matcher after c was offered, and whether c was allowed.
Allowed(m, c, hex, octal) ==
  LET To(s) == [m EXCEPT !.state = s]
      Named(n, k) == [To(n) EXCEPT !.at = k]
      next ==
        CASE m.state \in {"Before", "HadSign"} /\ c \in Decimals ->
               [To("HadSign") EXCEPT !.any = TRUE, !.ty = MoreDigits(m, c, octal)]
          [] m.state = "Before" /\ c \in {"+", "-"} -> To("HadSign")
          [] m.state \in {"Before", "HadSign"} /\ c = "I" -> Named("Infinity", 1)
          [] m.state = "Before" /\ c = "N" -> Named("NaN", 1)
          [] \/ m.state = "Before" /\ c = "."
             \/ m.state = "HadSign" /\ c = "." /\ m.ty \in {"Unknown", "Normal", "SingleZero"} ->
               [To("HadDecimal") EXCEPT !.ty = "Normal"]
          [] m.state = "HadSign" /\ c \in {"x", "X"} /\ hex /\ m.ty = "SingleZero" ->
               [m EXCEPT !.ty = "Hex", !.any = FALSE]
          [] m.state = "HadSign" /\ c \in HexLetters /\ m.ty = "Hex" -> [m EXCEPT !.any = TRUE]
          [] m.state = "HadSign" /\ c \in {"e", "E"} /\ m.ty \in {"Normal", "SingleZero"} ->
               [To("HadExponent") EXCEPT !.ty = "Normal"]
          [] m.state \in DOMAIN Names /\ m.at < Len(Names[m.state])
                                      /\ c = Names[m.state][m.at + 1] ->
               [m EXCEPT !.at = @ + 1]
          [] m.state = "HadDecimal" /\ c \in Decimals -> [m EXCEPT !.any = TRUE]
          [] m.state = "HadDecimal" /\ c \in {"e", "E"} /\ m.any -> To("HadExponent")
          [] m.state = "HadExponent" /\ c \in {"+", "-"} -> To("HadExponentSign")
          [] m.state \in {"HadExponent", "HadExponentSign"} /\ c \in Decimals ->
               [To("HadExponentSign") EXCEPT !.exponent = TRUE]
          [] OTHER -> To("Stop")
  IN [m |-> [next EXCEPT !.value = Append(@, c)], allowed |-> next.state # "Stop"]

\* What was read: its kind and its text.
Complete(m) ==
  LET As(kind) == [kind |-> kind, value |-> m.value]
      Trim(n) == SubSeq(m.value, 1, Len(m.value) - n)
  IN CASE m.ty = "SingleZero" -> As("Integer")
       [] m.ty = "Hex" -> IF m.any THEN As("Hex") ELSE As("Error")
       [] m.ty = "Octal" -> As("Octal")
       [] m.ty \in {"Unknown", "Normal"} ->
            CASE m.state = "HadSign" /\ m.any -> As("Integer")
              [] m.state = "HadDecimal" /\ m.any -> As("Decimal")
              [] m.state \in {"HadExponent", "HadExponentSign"} ->
                   IF m.exponent THEN As("Decimal")
                   ELSE [kind |-> "IncompleteDecimal",
                         value |-> Trim(IF m.state = "HadExponentSign" THEN 2 ELSE 1)]
              [] OTHER -> As("Error")

RECURSIVE Scan(_, _, _, _, _)
\* Offer the characters of text from place i on: the matcher, and the place
\* of the first that was not allowed.
Scan(m, text, i, hex, octal) ==
  IF i > Len(text) THEN [m |-> m, next |-> i]
  ELSE LET r == Allowed(m, text[i], hex, octal) IN
       IF r.allowed THEN Scan(r.m, text, i + 1, hex, octal) ELSE [m |-> m, next |-> i]

RECURSIVE SkipSpace(_)
SkipSpace(text) ==
  IF text # <<>> /\ Head(text) \in Space THEN SkipSpace(Tail(text)) ELSE text

FromStr(text, hex, octal) == Complete(Scan(Matcher, SkipSpace(text), 1, hex, octal).m)

\* as_f64 unwraps what from_str_radix makes of the text: whether it is a number
\* of that radix.  (The width of the number is not modelled.)
Panics(d) ==
  LET Wrong(digits) == \E i \in DOMAIN d.value :
                         d.value[i] \notin digits /\ ~(i = 1 /\ d.value[i] \in {"+", "-"})
  IN \/ d.kind = "Integer" /\ Wrong(Decimals)
     \/ d.kind = "Octal" /\ Wrong(Octals)
     \/ d.kind = "Hex"               \* its text begins with 0x

\* parseFloat, global.rs: the text of the number, or nothing for NaN.
ParseFloat(text) ==
  LET d == FromStr(text, FALSE, FALSE) IN
  IF d.kind # "Error" \/ d.value \in {p \o Chars("Infinity") : p \in {<<>>, <<"+">>, <<"-">>}}
  THEN d.value ELSE <<>>

\* Lexer::parse_number: the token's text and radix, or no token.
ReadNumber(text, i, octal, strict) ==
  LET s == Scan(Matcher, text, i, TRUE, octal)
      d == Complete(s.m)
      Token(radix, digits) == [ok |-> TRUE, radix |-> radix, digits |-> digits, next |-> s.next]
  IN CASE d.kind \in {"Integer", "Decimal"} -> Token(10, d.value)
       [] d.kind = "Octal" /\ ~strict       -> Token(8, d.value)
       [] d.kind = "Hex"                    -> Token(16, SubSeq(d.value, 3, Len(d.value)))
       [] OTHER                             -> [ok |-> FALSE, next |-> s.next]

-----------------------------------------------------------------------------
(* The grammar.                                                            *)

All(s, chars) == Range(s) \subseteq chars
Digits(s) == s # <<>> /\ All(s, Decimals)
Unsigned(s) == IF s # <<>> /\ Head(s) \in {"+", "-"} THEN Tail(s) ELSE s
\* Cut(s, k, A, B): s is an A of length k and then a B.
Cut(s, k, A(_), B(_)) == A(SubSeq(s, 1, k)) /\ B(SubSeq(s, k + 1, Len(s)))

Fraction(s) == s = <<>> \/ (Head(s) = "." /\ All(Tail(s), Decimals))
Exponent(s) == s = <<>> \/ (Head(s) \in {"e", "E"} /\ Digits(Unsigned(Tail(s))))
\* StrUnsignedDecimalLiteral with digits before the point that are a Whole.
Mantissa(s, Whole(_)) ==
  \/ \E k \in 1..Len(s) : Cut(s, k, Whole, Fraction)
  \/ Len(s) > 1 /\ Head(s) = "." /\ Digits(Tail(s))
UnsignedDecimal(s, Whole(_)) ==
  \E k \in 1..Len(s) : Mantissa(SubSeq(s, 1, k), Whole) /\ Exponent(SubSeq(s, k + 1, Len(s)))

\* 15.1.2.3
StrDecimalLiteral(s) ==
  UnsignedDecimal(Unsigned(s), Digits) \/ Unsigned(s) = Chars("Infinity")

\* 7.8.3 and B.1.1
DecimalIntegerLiteral(s) == Digits(s) /\ (Len(s) > 1 => Head(s) # "0")
HexIntegerLiteral(s) ==
  /\ Len(s) > 2 /\ s[1] = "0" /\ s[2] \in {"x", "X"}
  /\ \A i \in 3..Len(s) : s[i] \in Decimals \cup HexLetters
LegacyOctal(s) == Len(s) > 1 /\ Head(s) = "0" /\ All(s, Octals)
NumericLiteral(s, strict) ==
  \/ UnsignedDecimal(s, DecimalIntegerLiteral) \/ HexIntegerLiteral(s)
  \/ ~strict /\ LegacyOctal(s)

\* The longest beginning of s that is a G, or nothing.
Longest(s, G(_)) ==
  LET ks == {k \in 1..Len(s) : G(SubSeq(s, 1, k))} IN
  IF ks = {} THEN <<>> ELSE SubSeq(s, 1, CHOOSE k \in ks : \A j \in ks : j <= k)
=============================================================================
