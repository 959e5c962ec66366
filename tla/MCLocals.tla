------------------------------ MODULE MCLocals ------------------------------
(* Instances of Locals with two names.                                     *)
EXTENDS Locals

CONSTANTS x, y

Renamings == Permutations(Names)

(* Functions with a parameter, with and without an arguments object, with  *)
(* a local and an eval, and strict ones that have a name.                  *)
Declarations ==
  UNION {{[Global EXCEPT !.params = {n}],
          [Global EXCEPT !.params = {n}, !.arguments = TRUE],
          [Global EXCEPT !.locals = {n}, !.deopt = TRUE],
          [Global EXCEPT !.self = n, !.strict = TRUE]} : n \in Names}

(* Functions that have at most a parameter.                                *)
Parameters == {[Global EXCEPT !.params = ps] : ps \in {{}} \cup {{n} : n \in Names}}
=============================================================================
