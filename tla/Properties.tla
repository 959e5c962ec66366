----------------------------- MODULE Properties -----------------------------
(***************************************************************************)
(* The own properties of one array: [[DefineOwnProperty]] of arrays, put,  *)
(* delete, freeze, seal and preventExtensions.  The conversion of a new    *)
(* length may run the program's valueOf, so setting a length is two steps  *)
(* and any other operation on the array may come between them.             *)
(***************************************************************************)
EXTENDS Descriptors, SequencesExt

CONSTANTS
  LengthName,  \* the name "length"
  Others,      \* names that are neither "length" nor an array index
  MaxLength,   \* lengths are 0 .. MaxLength and indices below that (bound)
  Offers,      \* Offers[p]: the descriptors the program defines p with
  Inherits     \* what the prototype chain may hold under a name

Lengths == 0 .. MaxLength
Indices == 0 .. MaxLength - 1
Names == Indices \cup Others \cup {LengthName}

ASSUME NamesAssumption ==
  /\ MaxLength \in Nat /\ LengthName \notin Indices /\ IsFiniteSet(Others)
  /\ Lengths \subseteq Data

(* A length that a definition offers has been converted to a number.       *)
ASSUME OffersAssumption ==
  /\ DOMAIN Offers = Names
  /\ \A p \in Names : \A d \in Offers[p] : IsDescriptor(d)
  /\ \A d \in Offers[LengthName] : d.value \in Lengths \cup {None}

VARIABLES
  array,      \* [props, extensible]
  pending,    \* define_own_array_property while it converts a length
  outdated    \* some length was set by a call whose old length was outdated

vars == <<array, pending, outdated>>

NoCall == [active |-> FALSE]

Has(obj, p) == obj.props[p] # None
Length(obj) == obj.props[LengthName].value
OwnIndices(obj) == {i \in Indices : Has(obj, i)}

NewLength == [value |-> 0, get |-> None, set |-> None, writable |-> TRUE,
              enumerable |-> FALSE, configurable |-> FALSE]

(* create_array *)
Init ==
  /\ array = [props |-> [p \in Names |-> IF p = LengthName THEN NewLength
                                         ELSE None],
              extensible |-> TRUE]
  /\ pending = NoCall
  /\ outdated = FALSE

-----------------------------------------------------------------------------
\* Mutant of Delete: the configurable flag is not looked at.
DeleteAlways(obj, p) == [ok |-> TRUE, obj |-> With(obj, p, None)]

(* delete *)
Delete(obj, p) ==
  IF ~Has(obj, p) THEN [ok |-> TRUE, obj |-> obj]
  ELSE IF Configurable(obj.props[p])
    THEN [ok |-> TRUE, obj |-> With(obj, p, None)]
    ELSE [ok |-> FALSE, obj |-> obj]

\* Mutant of Round: an element that cannot be deleted is stepped over.
RoundPast(before, i, new) ==
  IF ~before.going \/ ~Has(before.obj, i) THEN before
  ELSE IF i < new THEN [before EXCEPT !.going = FALSE]
  ELSE [before EXCEPT !.obj = Delete(before.obj, i).obj]

(* The loop that deletes the elements from the last one down to new.  It   *)
(* stops at the first element below new, or at one that cannot be deleted. *)
Round(before, i, new) ==
  IF ~before.going \/ ~Has(before.obj, i) THEN before
  ELSE IF i < new THEN [before EXCEPT !.going = FALSE]
  ELSE LET del == Delete(before.obj, i) IN
       [going |-> del.ok, ok |-> del.ok, stuck |-> i, obj |-> del.obj]

Shrink(obj, new) ==
  LET at[i \in 0 .. MaxLength] ==
        IF i = MaxLength
          THEN [going |-> TRUE, ok |-> TRUE, stuck |-> 0, obj |-> obj]
          ELSE Round(at[i + 1], i, new)
  IN  at[0]

(* define_own_array_property on "length" with a value, from the point      *)
(* where the value is the number new; old is the descriptor read before.   *)
SetLength(obj, d, old, new) ==
  LET lower == new < old.value
      readOnly == lower /\ d.writable = FALSE
      wanted == [d EXCEPT !.value = new,
                          !.writable = IF readOnly THEN TRUE ELSE d.writable]
      set == DefineObject(obj, LengthName, wanted)
      shrunk == Shrink(set.obj, new)
      final == [d EXCEPT !.value = shrunk.stuck + 1,
                         !.writable = IF readOnly THEN FALSE ELSE d.writable]
  IN  IF lower /\ ~Writable(old) THEN [ok |-> FALSE, obj |-> obj]
      ELSE IF ~lower \/ ~set.ok THEN set
      ELSE IF ~shrunk.ok
        THEN [ok |-> FALSE,
              obj |-> DefineObject(shrunk.obj, LengthName, final).obj]
      ELSE IF readOnly
        THEN [ok |-> TRUE,
              obj |-> DefineObject(shrunk.obj, LengthName,
                                   [NoFields EXCEPT !.writable = FALSE]).obj]
      ELSE [ok |-> TRUE, obj |-> shrunk.obj]

\* Mutant of SetElement: the new length is the index.
SetElementShort(obj, i, d) ==
  LET old == obj.props[LengthName]
      first == DefineObject(obj, i, d)
  IN  IF ~first.ok \/ (i >= old.value /\ ~Writable(old))
        THEN [ok |-> FALSE, obj |-> obj]
      ELSE IF i >= old.value
        THEN [ok |-> TRUE, obj |-> DefineObject(first.obj, LengthName,
                                     [old EXCEPT !.value = i]).obj]
      ELSE DefineObject(first.obj, i, d)

(* define_own_array_property on an array index.  Below the length the      *)
(* element is defined twice.                                               *)
SetElement(obj, i, d) ==
  LET old == obj.props[LengthName]
      first == DefineObject(obj, i, d)
  IN  IF ~first.ok \/ (i >= old.value /\ ~Writable(old))
        THEN [ok |-> FALSE, obj |-> obj]
      ELSE IF i >= old.value
        THEN [ok |-> TRUE, obj |-> DefineObject(first.obj, LengthName,
                                     [old EXCEPT !.value = i + 1]).obj]
      ELSE DefineObject(first.obj, i, d)

(* define_own_property of an array whose new length, if any, is a number.  *)
Define(obj, p, d) ==
  IF p = LengthName /\ d.value # None
    THEN SetLength(obj, d, obj.props[LengthName], d.value)
    ELSE IF p \in Indices THEN SetElement(obj, p, d)
                          ELSE DefineObject(obj, p, d)

-----------------------------------------------------------------------------
(* put, with throw: [how, obj], how the call ends.  inherited is what      *)
(* get_property finds on the prototype chain, None where there is nothing. *)
Found(obj, inherited, p) == IF Has(obj, p) THEN obj.props[p] ELSE inherited

CanPut(obj, inherited, p) ==
  LET found == Found(obj, inherited, p) IN
    IF found = None THEN obj.extensible
    ELSE IF IsAccessor(found) THEN found.set # Undefined
    ELSE Writable(found) /\ (Has(obj, p) \/ obj.extensible)

\* Mutant of Put: only the object's own accessors are looked for.
PutOwn(obj, inherited, p, v) ==
  LET defined == Define(obj, p, IF Has(obj, p) THEN ValueOnly(v)
                                               ELSE SimpleValue(v))
  IN  IF ~CanPut(obj, inherited, p) THEN [how |-> "throws", obj |-> obj]
      ELSE IF Has(obj, p) /\ IsAccessor(obj.props[p])
        THEN [how |-> "calls", obj |-> obj]
      ELSE [how |-> IF defined.ok THEN "stores" ELSE "throws",
            obj |-> defined.obj]

Put(obj, inherited, p, v) ==
  LET found == Found(obj, inherited, p)
      defined == Define(obj, p, IF Has(obj, p) THEN ValueOnly(v)
                                               ELSE SimpleValue(v))
  IN  IF ~CanPut(obj, inherited, p) THEN [how |-> "throws", obj |-> obj]
      ELSE IF found # None /\ IsAccessor(found)
        THEN [how |-> "calls", obj |-> obj]
      ELSE [how |-> IF defined.ok THEN "stores" ELSE "throws",
            obj |-> defined.obj]

ReadOnly(d) == IF IsData(d) THEN [d EXCEPT !.writable = FALSE] ELSE d

\* Mutant of Fixed: freezing makes a property read-only and leaves it
\* configurable.
FixedOpen(obj, p, readOnly) ==
  LET d == obj.props[p] IN
    IF readOnly \/ Configurable(d)
      THEN Define(obj, p, IF readOnly THEN ReadOnly(d) ELSE d)
      ELSE [ok |-> TRUE, obj |-> obj]

(* One round of the loop of freeze (readOnly) or seal.                     *)
Fixed(obj, p, readOnly) ==
  LET d == obj.props[p] IN
    IF readOnly \/ Configurable(d)
      THEN Define(obj, p, [(IF readOnly THEN ReadOnly(d) ELSE d)
                             EXCEPT !.configurable = FALSE])
      ELSE [ok |-> TRUE, obj |-> obj]

(* Object.freeze and Object.seal: the elements from the first to the last, *)
(* then the other names; a property that cannot be changed ends the call.  *)
FixOrder == [k \in 1 .. MaxLength |-> k - 1] \o SetToSeq(Names \ Indices)

FixNext(before, p, readOnly) ==
  IF before.ok /\ Has(before.obj, p) THEN Fixed(before.obj, p, readOnly)
                                     ELSE before

FixAll(obj, readOnly) ==
  LET at[k \in 0 .. Len(FixOrder)] ==
        IF k = 0 THEN [ok |-> TRUE, obj |-> obj]
                 ELSE FixNext(at[k - 1], FixOrder[k], readOnly)
      rest == at[Len(FixOrder)]
  IN  IF rest.ok THEN [rest EXCEPT !.obj.extensible = FALSE] ELSE rest

-----------------------------------------------------------------------------
(* The program's operations.  Only Convert and Converted look at pending:  *)
(* the others may run inside the conversion.                               *)
DefineOwn(p, d) ==
  /\ array' = Define(array, p, d).obj
  /\ UNCHANGED <<pending, outdated>>

PutValue(p, v) ==
  /\ \E inherited \in Inherits : array' = Put(array, inherited, p, v).obj
  /\ UNCHANGED <<pending, outdated>>

DeleteOwn(p) ==
  /\ array' = Delete(array, p).obj
  /\ UNCHANGED <<pending, outdated>>

Freeze ==
  /\ array' = FixAll(array, TRUE).obj
  /\ UNCHANGED <<pending, outdated>>

Seal ==
  /\ array' = FixAll(array, FALSE).obj
  /\ UNCHANGED <<pending, outdated>>

PreventExtensions ==
  /\ array' = [array EXCEPT !.extensible = FALSE]
  /\ UNCHANGED <<pending, outdated>>

(* define_own_array_property reads the length's descriptor and converts    *)
(* the new length, an object with a valueOf of the program's.  One         *)
(* conversion is under way at a time (bound).                              *)
Convert(d) ==
  /\ ~pending.active /\ d.value # None
  /\ pending' = [active |-> TRUE, d |-> [d EXCEPT !.value = None],
                 old |-> array.props[LengthName]]
  /\ UNCHANGED <<array, outdated>>

(* valueOf has returned twice, for to_uint32 and for to_number; different  *)
(* answers are a RangeError.                                               *)
Converted(first, second) ==
  /\ pending.active
  /\ IF first # second
       THEN UNCHANGED <<array, outdated>>
       ELSE /\ array' = SetLength(array, pending.d, pending.old, first).obj
            /\ outdated' = (outdated \/ pending.old # array.props[LengthName])
  /\ pending' = NoCall

Values(p) == {d.value : d \in Offers[p]} \ {None}

Next ==
  \/ \E p \in Names : \E d \in Offers[p] : DefineOwn(p, d)
  \/ \E p \in Names : \E v \in Values(p) : PutValue(p, v)
  \/ \E p \in Names : DeleteOwn(p)
  \/ Freeze
  \/ Seal
  \/ PreventExtensions
  \/ \E d \in Offers[LengthName] : Convert(d)
  \/ \E first, second \in Lengths : Converted(first, second)

Spec == Init /\ [][Next]_vars

-----------------------------------------------------------------------------
(* Every property reads back as a whole data or accessor descriptor, and   *)
(* "length" is an own data property that is neither enumerable nor         *)
(* configurable and holds a number.                                        *)
IsArray(obj) ==
  /\ obj \in [props : [Names -> Fields \cup {None}], extensible : BOOLEAN]
  /\ \A p \in Names : Has(obj, p) => IsStored(obj.props[p])
  /\ Has(obj, LengthName) /\ Length(obj) \in Lengths
  /\ ~Enumerable(obj.props[LengthName]) /\ ~Configurable(obj.props[LengthName])

TypeOK == IsArray(array)

(* Every definition the program may ask for ends as 8.12.9 says: refused   *)
(* with the object untouched, or carried out in full.                      *)
DefinesAsSpecified ==
  \A p \in Names : \A d \in Offers[p] :
    DefineObject(array, p, d) = Specified(array, p, d)

(* What 15.4.5.1 says of defining an element and of setting the length,    *)
(* without the loop: the length goes down to just above the last element   *)
(* that cannot be deleted.                                                 *)
SpecifiedElement(obj, i, d) ==
  LET len == obj.props[LengthName]
      one == Specified(obj, i, d)
  IN  IF ~one.ok \/ (i >= len.value /\ ~Writable(len))
        THEN [ok |-> FALSE, obj |-> obj]
        ELSE [ok |-> TRUE,
              obj |-> IF i < len.value THEN one.obj
                      ELSE [one.obj EXCEPT !.props[LengthName].value = i + 1]]

Cut(obj, end) ==
  [obj EXCEPT !.props = [p \in Names |->
     IF p \in Indices /\ p >= end THEN None ELSE obj.props[p]]]

StuckFrom(obj, new) ==
  {i \in OwnIndices(obj) : i >= new /\ ~Configurable(obj.props[i])}

SpecifiedLength(obj, d) ==
  LET len == obj.props[LengthName]
      fixed == StuckFrom(obj, d.value)
      end == IF fixed = {} THEN d.value ELSE Max(fixed) + 1
      last == [d EXCEPT !.value = end]
  IN  IF d.value >= len.value THEN Specified(obj, LengthName, d)
      ELSE IF ~Specified(obj, LengthName, d).ok
        THEN [ok |-> FALSE, obj |-> obj]
      ELSE [ok |-> fixed = {}, obj |-> Specified(Cut(obj, end), LengthName, last).obj]

(* Defining an element twice, and the loop that shortens the array, have   *)
(* the effect and the answer 15.4.5.1 asks for.                            *)
ArrayAsSpecified ==
  /\ \A i \in Indices : \A d \in Offers[i] :
       Define(array, i, d) = SpecifiedElement(array, i, d)
  /\ \A d \in Offers[LengthName] : d.value # None =>
       Define(array, LengthName, d) = SpecifiedLength(array, d)

(* The length of an array is greater than every index it holds, unless a   *)
(* conversion made a call set the length by an outdated one.               *)
LengthCovers == outdated \/ \A i \in OwnIndices(array) : i < Length(array)

(* LengthCovers without the exception. *)
LengthAlwaysCovers == \A i \in OwnIndices(array) : i < Length(array)

(* A put that asks for exceptions tells the truth: when it returns, it has *)
(* called a setter and left the array alone, or the array holds the value  *)
(* itself and no read-only property, own or inherited, stood in the way.   *)
PutTells ==
  \A inherited \in Inherits : \A p \in Names : \A v \in Values(p) :
    LET put == Put(array, inherited, p, v)
        found == Found(array, inherited, p)
    IN  /\ put.how = "stores" =>
             /\ Has(put.obj, p) /\ put.obj.props[p].value = v
             /\ found = None \/ Writable(found)
        /\ put.how = "calls" => put.obj = array /\ IsAccessor(found)

IsFrozen(obj) ==
  /\ ~obj.extensible
  /\ \A p \in Names : Has(obj, p) =>
       ~Configurable(obj.props[p]) /\ ~Writable(obj.props[p])

IsSealed(obj) ==
  ~obj.extensible /\ \A p \in Names : Has(obj, p) => ~Configurable(obj.props[p])

(* Freezing or sealing works from every state, half-way through a change   *)
(* of the length too, and loses no property and no value - but for an      *)
(* array whose length an outdated one replaced.                            *)
Fixes ==
  \A readOnly \in BOOLEAN :
    LET fixed == FixAll(array, readOnly) IN
      \/ outdated
      \/ /\ fixed.ok
         /\ IF readOnly THEN IsFrozen(fixed.obj) ELSE IsSealed(fixed.obj)
         /\ \A p \in Names : LET new == fixed.obj.props[p] IN
              /\ Has(array, p) <=> new # None
              /\ Has(array, p) => new.value = array.props[p].value

(* 8.6.2: no operation, and no order of operations, brings back what was   *)
(* given up.  A non-extensible array gains no property, a property that is *)
(* not configurable stays, and changes only its value and only while that  *)
(* is writable.                                                            *)
Keeps(old, new) ==
  /\ ~old.extensible =>
       ~new.extensible /\ \A p \in Names : Has(new, p) => Has(old, p)
  /\ \A p \in Names : Has(old, p) /\ ~Configurable(old.props[p]) =>
       Has(new, p) /\ MayBecome(old.props[p], new.props[p])

Permanent == [][Keeps(array, array')]_vars
=============================================================================
