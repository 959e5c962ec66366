------------------------------ MODULE MCUnwind ------------------------------
(***************************************************************************)
(* Function bodies for Unwind: every nest of statements of a given depth   *)
(* around one mark, return, break or continue.                             *)
(***************************************************************************)
EXTENDS Unwind

CONSTANTS
  Families,     \* sets of statements that nest in each other
  Depth,        \* how deep
  LongLeaves,   \* break, continue and return may cross several exception blocks
  BusyFinally,  \* a finally clause may contain exception blocks even if its try
                \* part can throw or be left
  BlockBreak    \* the target of a break without a label may be a labelled block

Leaves == {Mark, Return, Break(NoLabel), Continue(NoLabel), Break("a")}

Empty == Block(NoLabel, <<>>)

\* One statement around s, followed by a mark.
Around(shape, s) ==
  LET b == Block(NoLabel, <<s, Mark>>) IN
  CASE shape = "if"      -> If(b, None)
    [] shape = "else"    -> If(Mark, b)
    [] shape = "label"   -> Block("a", <<s, Mark>>)
    [] shape = "while"   -> While(NoLabel, b)
    [] shape = "whilea"  -> While("a", b)
    [] shape = "do"      -> Do("a", b)
    [] shape = "for"     -> For(NoLabel, b, TRUE)
    [] shape = "for_ever" -> For(NoLabel, b, FALSE)
    [] shape = "forin"   -> ForIn(NoLabel, b)
    [] shape = "with"    -> With(b)
    [] shape = "switch"  -> Switch(NoLabel, <<Mark, s, Mark>>, 0)
    [] shape = "default" -> Switch(NoLabel, <<Mark, s, Mark>>, 2)
    [] shape = "try_c"   -> Try(b, Mark, None)
    [] shape = "try_f"   -> Try(b, None, Mark)
    [] shape = "try_cf"  -> Try(b, Mark, Mark)
    [] shape = "catch"   -> Try(Mark, b, None)
    [] shape = "catch_f" -> Try(Mark, b, Mark)
    [] shape = "e_finally" -> Try(Empty, None, b)
    [] shape = "finally" -> Try(Mark, None, b)
    [] shape = "c_finally" -> Try(Mark, Mark, b)

Nests(shapes) ==
  LET Nest[d \in 0 .. Depth] ==
        IF d = 0 THEN Leaves
        ELSE LET inner == Nest[d - 1]
             IN inner \union {Around(sh, s) : sh \in shapes, s \in inner}
  IN Nest[Depth]

Loops == {"while", "do", "for", "forin"}

\* The bodies that the parser accepts (every break and continue has a target,
\* no label is nested in itself) and that the switches above let in.  brk and
\* cont are the targets around s, blocks the exception blocks around it.
RECURSIVE Legal(_, _, _, _, _)
Legal(s, thick, brk, cont, blocks) ==
  LET depth  == Len(SelectSeq(blocks, LAMBDA b : b # "forin"))
      Here(k) == [label |-> s.label, depth |-> depth, kind |-> k]
      Fresh  == s.label = NoLabel \/ \A i \in DOMAIN brk : brk[i].label # s.label
      In(part, inner) == Legal(part, thick, brk, cont, blocks \o inner)
      Plain  == "finally" \in Range(blocks) => BusyFinally
      Exits(to) == to = depth \/ Len(blocks) <= 1 \/ LongLeaves
      Reaches(ts) ==
        LET i == IF s.label = NoLabel THEN Len(ts)
                 ELSE SelectLastInSeq(ts, LAMBDA t : t.label = s.label)
        IN /\ i # 0 /\ Exits(ts[i].depth)
           /\ s.label = NoLabel => \E j \in DOMAIN ts : ts[j].kind # "block"
           /\ s.label = NoLabel /\ ts[i].kind = "block" => BlockBreak
  IN CASE s.kind \in {"mark", "none"} -> TRUE
       [] s.kind = "return"   -> Exits(0)
       [] s.kind = "break"    -> Reaches(brk)
       [] s.kind = "continue" -> Reaches(cont)
       [] s.kind = "if"       -> In(s.body, <<>>) /\ In(s.else, <<>>)
       [] s.kind = "with"     -> Plain /\ In(s.body, <<"with">>)
       [] s.kind = "block" /\ s.label = NoLabel -> \A i \in DOMAIN s.stmts : In(s.stmts[i], <<>>)
       [] s.kind \in {"block", "switch"} /\ (s.kind = "switch" \/ s.label # NoLabel) ->
            Fresh /\ \A i \in DOMAIN s.stmts :
              Legal(s.stmts[i], thick, Append(brk, Here(s.kind)), cont, blocks)
       [] s.kind \in Loops ->
            /\ Fresh /\ (s.kind = "forin" => Plain)
            /\ Legal(s.body, thick, Append(brk, Here("loop")), Append(cont, Here("loop")),
                     IF s.kind = "forin" THEN Append(blocks, "forin") ELSE blocks)
       [] s.kind = "try" ->
            /\ Plain
            /\ In(s.try, <<"try">>)
            /\ In(s.finally, IF s.try = Empty THEN <<"e_finally">> ELSE <<"finally">>)
            /\ In(s.catch, IF thick THEN <<"catch", "catchenv">> ELSE <<"catch">>)

\* A with statement makes the scope thick, and so does a direct eval.
RECURSIVE HasWith(_)
HasWith(s) ==
  CASE s.kind = "with" -> TRUE
    [] s.kind \in {"block", "switch"} -> \E i \in DOMAIN s.stmts : HasWith(s.stmts[i])
    [] s.kind = "try" -> HasWith(s.try) \/ HasWith(s.catch) \/ HasWith(s.finally)
    [] s.kind = "if" -> HasWith(s.body) \/ HasWith(s.else)
    [] s.kind \in Loops -> HasWith(s.body)
    [] OTHER -> FALSE

MCFunctions ==
  {f \in [body : UNION {Nests(shapes) : shapes \in Families}, thick : BOOLEAN] :
     (HasWith(f.body) => f.thick) /\ Legal(f.body, f.thick, <<>>, <<>>, <<>>)}
=============================================================================
