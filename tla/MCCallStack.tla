---------------------------- MODULE MCCallStack ----------------------------
(***************************************************************************)
(* Functions for CallStack: main, a strict function inc of one parameter,  *)
(* a native function map and a bound function bnd of inc.                  *)
(***************************************************************************)
EXTENDS CallStack

CONSTANTS main, inc, map, bnd

MCKind   == [f \in Functions |->
              CASE f = map -> "native" [] f = bnd -> "bound" [] OTHER -> "ir"]
MCParams == [f \in Functions |-> IF f = inc THEN 1 ELSE 0]
MCLocals == [f \in Functions |-> 1]
MCTarget == [f \in Functions |-> [fn |-> inc, this |-> Global, args |-> <<Undefined>>]]
MCPassed == {[this |-> Undefined, args |-> <<>>], [this |-> inc, args |-> <<Undefined>>]}
=============================================================================
