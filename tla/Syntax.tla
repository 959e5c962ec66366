-------------------------------- MODULE Syntax --------------------------------
(***************************************************************************)
(* A program is written down and parsed, or a number is typed.             *)
(***************************************************************************)
EXTENDS Parser, Grammar

CONSTANTS Programs,     \* sequences of statements
          Castings,     \* sequences of statements with casts in them
          Evals,        \* sequences of statements that are given to eval
          Outcome(_),   \* OutcomeOf
          Keys,         \* the characters of numbers,
          MaxDigits     \* and a bound on how many are typed

VARIABLES given,        \* what is written, and how, or Typing
          parsed        \* what became of it, or what was typed

vars == <<given, parsed>>

\* Statements, their layout, and how they are parsed.
Cases ==
  [program : Programs, layout : Layouts, privileged : {FALSE}, eval : {FALSE}]
  \cup [program : Evals, layout : {"tight"}, privileged : {FALSE}, eval : {TRUE}]
  \cup [program : Castings, layout : Layouts, privileged : {TRUE}, eval : {FALSE}]

Result(text, c) ==
  LET p == ParseProgram(text, c.privileged, c.eval) IN
  [ok |-> p.ok, v |-> IF p.ok THEN p.v ELSE None]

\* What a case parses to, the tree it was written for, and what it parses to with
\* new lines, and with semicolons, where no new line may stand.
OutcomeOf(c) ==
  LET tree == [i \in DOMAIN c.program |-> Canonical(c.program[i])]
      tokens == Each(tree)
      restricted == c.layout = "tight" /\ \E i \in DOMAIN tokens : ~tokens[i].line /\ ~tokens[i].auto
      Filled(filler) == IF restricted THEN Result(Broken(tokens, filler), c) ELSE [ok |-> FALSE]
  IN [parsed |-> Result(Layout(tokens, c.layout), c), tree |-> Program(tree, c.eval),
      line |-> Filled(<<Newline>>), semicolon |-> Filled(<<";">>)]

Typing == [typing |-> TRUE]

Init ==
  /\ given = Typing \/ given \in Cases
  /\ parsed = <<>>

Parse ==
  /\ given # Typing /\ parsed = <<>>
  /\ parsed' = <<Outcome(given)>>
  /\ UNCHANGED given

Type ==
  /\ given = Typing /\ Len(parsed) < MaxDigits
  /\ \E c \in Keys : parsed' = Append(parsed, c)
  /\ UNCHANGED given

Next == Parse \/ Type
Spec == Init /\ [][Next]_vars

-----------------------------------------------------------------------------
\* Whatever the layout, and with semicolons left out wherever they may be, a
\* program is parsed to the tree it is written for: operators group as the grammar
\* says, a slash begins a regular expression where one may stand and nowhere else,
\* the words that strict code reserves are names outside of it, and every function
\* knows whether it is strict, what names it has slots for and whether eval or
\* with reach into it.
ParsedAsWritten ==
  given # Typing /\ parsed # <<>> => parsed[1].parsed = [ok |-> TRUE, v |-> parsed[1].tree]

\* A new line after return, break, continue or throw, or before ++ and --, is the
\* end of the statement: the text means what it means with a semicolon there.
NewLineEnds ==
  given # Typing /\ parsed # <<>> => parsed[1].line = parsed[1].semicolon

\* parseFloat reads the longest beginning that is a StrDecimalLiteral (15.1.2.3)
\* and makes a number of it, and the lexer reads the longest that is a
\* NumericLiteral (7.8.3, B.1.1), in its radix.
\* Left out: an I after a digit, which the matcher takes for the beginning of
\* Infinity, and a literal followed by a letter or a digit, which 7.8.3 forbids.
AfterDigit(c) == \E i \in DOMAIN parsed : i > 1 /\ parsed[i] = c /\ parsed[i - 1] \in Decimals
StartsNumber ==
  /\ parsed # <<>>
  /\ parsed[1] \in Decimals \/ (parsed[1] = "." /\ Len(parsed) > 1 /\ parsed[2] \in Decimals)
Adjoins(literal) ==
  Len(literal) < Len(parsed) /\ parsed[Len(literal) + 1] \in Keys \ {".", "+", "-"}
Read(literal, n) ==
  /\ n.ok /\ n.next = Len(literal) + 1
  /\ n.radix = CASE HexIntegerLiteral(literal) -> 16 [] LegacyOctal(literal) -> 8 [] OTHER -> 10
  /\ n.digits = IF n.radix = 16 THEN SubSeq(literal, 3, Len(literal)) ELSE literal

NumbersAsWritten ==
  given = Typing /\ ~AfterDigit("I") =>
    /\ ~Panics(FromStr(parsed, FALSE, FALSE))
    /\ ParseFloat(parsed) = Longest(parsed, StrDecimalLiteral)
    /\ StartsNumber => \A strict \in BOOLEAN :
         LET literal == Longest(parsed, LAMBDA s : NumericLiteral(s, strict))
         IN Adjoins(literal) \/ Read(literal, ReadNumber(parsed, 1, TRUE, strict))
=============================================================================
