------------------------------ MODULE MCForIn ------------------------------
(***************************************************************************)
(* Objects for ForIn: 0 and 3 share an ideal position in a table of three. *)
(***************************************************************************)
EXTENDS ForIn

P(name, value) == [name |-> name, value |-> value]
MCStart == <<<<P(0, TRUE), P(3, TRUE), P(1, FALSE)>>, <<P(1, TRUE), P(4, TRUE), P(0, TRUE)>>>>
=============================================================================
