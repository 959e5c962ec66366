----------------------------- MODULE MCCopying -----------------------------
(* Constants for model-checking Copying: a one-pointer type (a JsString)    *)
(* and a two-pointer type (an ArrayStore), sizes in words.                  *)
EXTENDS Copying

CONSTANTS c1, c2, string, store

MCCells == {c1, c2}
MCTypes == {string, store}
MCPayloadSize == [t \in Types |-> IF t = string THEN 2 ELSE 3]
MCPtrWords == [t \in Types |-> IF t = string THEN 1 ELSE 2]

(* Arrays of a few megabytes without pointers (GC_U16), for the run with    *)
(* the sizes of GcOpts::default.                                            *)
MCArraySize == [t \in Types |-> IF t = string THEN 850000 ELSE 1200000]
MCNoPtrWords == [t \in Types |-> 0]
=============================================================================
