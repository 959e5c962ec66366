---------------------------- MODULE MCProperties ----------------------------
(* Two elements, a length up to two and one other name.  Each name is      *)
(* offered the descriptors that reach the branches it is there for.        *)
EXTENDS Properties

CONSTANTS f, g  \* a getter and a setter

MCData == Lengths \cup {Undefined, f, g}

Opt(S) == S \cup {None}

DataOffers(vs, ws, es, cs) ==
  [value : vs, get : {None}, set : {None}, writable : ws, enumerable : es,
   configurable : cs]

AccessorOffers(es, cs) ==
  {d \in [value : {None}, get : {None, f}, set : {None, g}, writable : {None},
          enumerable : es, configurable : cs] : IsAccessor(d)}

MCOffers ==
  [p \in Names |->
     IF p = LengthName
       THEN DataOffers(Opt(Lengths), Opt(BOOLEAN), {None}, {None})
     ELSE IF p = 0
       THEN DataOffers(Opt({1}), Opt(BOOLEAN), {None}, Opt(BOOLEAN))
              \cup DataOffers({1}, {None}, {TRUE}, {None})
              \cup AccessorOffers({None}, Opt(BOOLEAN))
     ELSE DataOffers({1}, {TRUE}, {TRUE}, {FALSE})]

Flags == [NoFields EXCEPT !.enumerable = TRUE, !.configurable = TRUE]

MCInherits ==
  {None, [Flags EXCEPT !.value = 1, !.writable = FALSE],
   [Flags EXCEPT !.get = f, !.set = Undefined],
   [Flags EXCEPT !.get = Undefined, !.set = g]}
=============================================================================
