---------------------------- MODULE Descriptors ----------------------------
(***************************************************************************)
(* Property descriptors and the ordinary [[DefineOwnProperty]].            *)
(*                                                                         *)
(* A descriptor has six optional fields, each a value or None.  A property *)
(* of an object is kept as an Entry of flags and two words and read back   *)
(* as a descriptor; Stored is that round trip, so an object's properties   *)
(* are a function from names to stored descriptors, None where there is no *)
(* property.                                                               *)
(***************************************************************************)
EXTENDS Integers

CONSTANTS
  None,        \* Option::None
  Undefined,   \* the value undefined
  Data         \* the values of the program (bound)

(* A descriptor has all six fields, each of them a value or None.          *)
Fields == [value : Data \cup {None}, get : Data \cup {None},
           set : Data \cup {None}, writable : BOOLEAN \cup {None},
           enumerable : BOOLEAN \cup {None}, configurable : BOOLEAN \cup {None}]

ASSUME NoneAssumption ==
  Undefined \in Data /\ None \notin Data /\ None \notin BOOLEAN /\ None \notin Fields

NoFields == [value |-> None, get |-> None, set |-> None, writable |-> None,
             enumerable |-> None, configurable |-> None]

SomeOr(field, other) == IF field = None THEN other ELSE field

IsAccessor(d) == d.get # None \/ d.set # None
IsData(d) == d.writable # None \/ d.value # None
IsGeneric(d) == ~(IsAccessor(d) \/ IsData(d))

Writable(d) == SomeOr(d.writable, FALSE)
Enumerable(d) == SomeOr(d.enumerable, FALSE)
Configurable(d) == SomeOr(d.configurable, FALSE)

Merge(d, other) ==
  [value |-> SomeOr(d.value, other.value),
   get |-> SomeOr(d.get, other.get),
   set |-> SomeOr(d.set, other.set),
   writable |-> SomeOr(d.writable, other.writable),
   enumerable |-> SomeOr(d.enumerable, other.enumerable),
   configurable |-> SomeOr(d.configurable, other.configurable)]

(* The descriptors to_property_descriptor lets a program make: none is for *)
(* data and for accessors.                                                 *)
IsDescriptor(d) == d \in Fields /\ ~(IsData(d) /\ IsAccessor(d))

(* What an object keeps: all of a data or an accessor property. *)
IsStored(d) ==
  /\ d \in Fields /\ IsData(d) # IsAccessor(d)
  /\ d.enumerable \in BOOLEAN /\ d.configurable \in BOOLEAN
  /\ IsData(d) => d.writable \in BOOLEAN /\ d.value # None
                  /\ d.get = None /\ d.set = None
  /\ IsAccessor(d) => d.get # None /\ d.set # None

(* What an entry made from d reads back as: the flags default to FALSE and *)
(* the words to undefined; an accessor entry has no writable field.        *)
Stored(d) ==
  [value |-> IF IsAccessor(d) THEN None ELSE SomeOr(d.value, Undefined),
   get |-> IF IsAccessor(d) THEN SomeOr(d.get, Undefined) ELSE None,
   set |-> IF IsAccessor(d) THEN SomeOr(d.set, Undefined) ELSE None,
   writable |-> IF IsAccessor(d) THEN None ELSE Writable(d),
   enumerable |-> Enumerable(d),
   configurable |-> Configurable(d)]

SimpleValue(v) == [value |-> v, get |-> None, set |-> None, writable |-> TRUE,
                   enumerable |-> TRUE, configurable |-> TRUE]
ValueOnly(v) == [NoFields EXCEPT !.value = v]

(* An object's own part that a definition changes. *)
With(obj, p, d) == [obj EXCEPT !.props[p] = d]

-----------------------------------------------------------------------------
(* define_own_object_property, on a property that exists.                  *)

\* Mutant of Refuses: a read-only value may be given another value as long as
\* the property stays read-only.
RefusesWritableOnly(cur, d) ==
  \/ /\ ~Configurable(cur)
     /\ \/ Configurable(d)
        \/ d.enumerable # None /\ Enumerable(d) # Enumerable(cur)
  \/ /\ ~IsGeneric(d) /\ ~Configurable(cur)
     /\ \/ IsData(cur) # IsData(d)
        \/ IsData(cur) /\ IsData(d) /\ ~Writable(cur) /\ Writable(d)
        \/ /\ ~IsData(cur) /\ ~IsData(d)
           /\ \/ d.set # None /\ d.set # cur.set
              \/ d.get # None /\ d.get # cur.get

Refuses(cur, d) ==
  \/ /\ ~Configurable(cur)
     /\ \/ Configurable(d)
        \/ d.enumerable # None /\ Enumerable(d) # Enumerable(cur)
  \/ /\ ~IsGeneric(d) /\ ~Configurable(cur)
     /\ \/ IsData(cur) # IsData(d)
        \/ /\ IsData(cur) /\ IsData(d) /\ ~Writable(cur)
           /\ \/ Writable(d)
              \/ d.value # None /\ d.value # cur.value
        \/ /\ ~IsData(cur) /\ ~IsData(d)
           /\ \/ d.set # None /\ d.set # cur.set
              \/ d.get # None /\ d.get # cur.get

(* The old value, accessors and writable flag go when the kind changes. *)
Redefined(cur, d) ==
  LET base == IF ~IsGeneric(d) /\ IsData(cur) # IsData(d)
                THEN [NoFields EXCEPT !.enumerable = cur.enumerable,
                                      !.configurable = cur.configurable]
                ELSE cur
  IN  Stored(Merge(d, base))

(* [ok, obj]: whether the definition was accepted, and the object then. *)
DefineObject(obj, p, d) ==
  LET cur == obj.props[p]
      idle == cur # None /\ (d = NoFields \/ d = cur)
      ok == IF cur = None THEN obj.extensible ELSE idle \/ ~Refuses(cur, d)
  IN  [ok |-> ok,
       obj |-> IF idle \/ ~ok THEN obj
               ELSE With(obj, p, IF cur = None THEN Stored(d)
                                               ELSE Redefined(cur, d))]

-----------------------------------------------------------------------------
(* What 8.12.9 of the language promises of one definition, said without    *)
(* its steps: a property that is not configurable keeps every field, but   *)
(* for a writable value that may change or become read-only.               *)
MayBecome(cur, new) ==
  \/ Configurable(cur)
  \/ new = cur
  \/ /\ IsData(cur) /\ Writable(cur)
     /\ new.get = cur.get /\ new.set = cur.set
     /\ new.enumerable = cur.enumerable /\ new.configurable = cur.configurable

(* The fields d asks for, the others as they were or by default. *)
Asked(cur, d) ==
  LET old == IF cur = None THEN NoFields ELSE cur
      accessor == IsAccessor(d) \/ (IsGeneric(d) /\ IsAccessor(old))
      Field(new, kept, default) == SomeOr(new, SomeOr(kept, default))
  IN  [value |-> IF accessor THEN None
                 ELSE Field(d.value, old.value, Undefined),
       get |-> IF accessor THEN Field(d.get, old.get, Undefined) ELSE None,
       set |-> IF accessor THEN Field(d.set, old.set, Undefined) ELSE None,
       writable |-> IF accessor THEN None
                    ELSE Field(d.writable, old.writable, FALSE),
       enumerable |-> Field(d.enumerable, old.enumerable, FALSE),
       configurable |-> Field(d.configurable, old.configurable, FALSE)]

(* The definition 8.12.9 describes: all of d or nothing. *)
Specified(obj, p, d) ==
  LET cur == obj.props[p]
      ok == IF cur = None THEN obj.extensible ELSE MayBecome(cur, Asked(cur, d))
  IN  [ok |-> ok, obj |-> IF ok THEN With(obj, p, Asked(cur, d)) ELSE obj]
=============================================================================
