-------------------------------- MODULE Arrays --------------------------------
(***************************************************************************)
(* Arrays, from the stores of their properties to the methods that a       *)
(* program calls on them, or on another object.                            *)
(***************************************************************************)
EXTENDS ArrayStore

CONSTANTS Inherited, Values, Undefined, None, MaxLength, MaxLoop, MaxChanges

VARIABLES object, answer, loop

Methods == INSTANCE ArrayLibrary

\* See ArrayLibrary.
CallsAsSpecified == Methods!CallsAsSpecified
LoopVisits == Methods!LoopVisits
LoopResult == Methods!LoopResult
=============================================================================
