------------------------------ MODULE MCArrays ------------------------------
(***************************************************************************)
(* A run takes one part of Arrays: the stores of an array, or the methods  *)
(* called on an object.                                                    *)
(***************************************************************************)
EXTENDS Arrays, TLC

VARIABLE part

\* An element that objects inherit.
MCInherited == 1 :> 2

methodVars == <<object, answer, loop>>

ArraysInit ==
  /\ StoreInit /\ Methods!Init
  /\ part \in {"stores", "methods"}
  /\ IF part = "methods" THEN using = "both" ELSE object.array

ArraysNext ==
  \/ part = "stores" /\ StoreNext /\ UNCHANGED <<methodVars, part>>
  \/ part = "methods" /\ Methods!Next /\ UNCHANGED <<storeVars, part>>

ArraysSpec == ArraysInit /\ [][ArraysNext]_<<storeVars, methodVars, part>>
=============================================================================
