----------------------------- MODULE PropertyMap -----------------------------
(***************************************************************************)
(* What the Store trait (rt/object/mod.rs) promises: a map from names to   *)
(* descriptors.  add is for a name that has none, remove and replace are   *)
(* for one that has.                                                       *)
(***************************************************************************)
CONSTANTS Names, Values, Absent

VARIABLE props

Init == props = [n \in Names |-> Absent]

Add(n)     == props[n] = Absent /\ props'[n] \in Values
Replace(n) == props[n] # Absent /\ props'[n] \in Values
Remove(n)  == props[n] # Absent /\ props'[n] = Absent

Next ==
  LET changed == {n \in Names : props'[n] # props[n]} IN
  \E n \in changed : changed = {n} /\ (Add(n) \/ Replace(n) \/ Remove(n))

Spec == Init /\ [][Next]_props
=============================================================================
