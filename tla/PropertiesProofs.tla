------------------------- MODULE PropertiesProofs -------------------------
(***************************************************************************)
(* The ordinary [[DefineOwnProperty]] of the code is that of 8.12.9, for   *)
(* every property and every descriptor, and it is permanent where 8.6.2    *)
(* says so.  For arrays of any size: elements and the length are defined   *)
(* as 15.4.5.1 says, the length covers the elements, freezing and sealing  *)
(* do what they are for, and no order of operations undoes them.           *)
(*                                                                         *)
(* The two loops of the model are recursive functions.  Each is shown to   *)
(* exist (ShrinkLoop, FixLoop) and to keep what it is for (ShrinkEffect,   *)
(* FixAllEffect) by induction over the set of the numbers it has done.     *)
(***************************************************************************)
EXTENDS Properties, FiniteSetTheorems, SequenceTheorems,
        WellFoundedInduction, TLAPS

(* A new property is the defaults of its kind with the fields given. *)
LEMMA StoredIsAsked ==
  ASSUME NEW d, IsDescriptor(d)
  PROVE  Stored(d) = Asked(None, d)
BY NoneAssumption DEF IsDescriptor, Fields, Stored, Asked, IsData,
   IsAccessor, IsGeneric, NoFields, SomeOr, Writable, Enumerable, Configurable

(* An empty descriptor, or the property as it is, asks for no change. *)
LEMMA IdleAsksNothing ==
  ASSUME NEW cur, cur # None, IsStored(cur), NEW d, d = NoFields \/ d = cur
  PROVE  Asked(cur, d) = cur
<1>. USE NoneAssumption DEF IsStored, Fields, Asked, IsData, IsAccessor,
                            IsGeneric, SomeOr
<1>1. CASE d = NoFields
  BY <1>1 DEF NoFields
<1>2. CASE d = cur
  BY <1>2
<1>. QED BY <1>1, <1>2

(* The fields a definition writes are the ones it asks for. *)
LEMMA RedefinedIsAsked ==
  ASSUME NEW cur, cur # None, IsStored(cur), NEW d, IsDescriptor(d)
  PROVE  Redefined(cur, d) = Asked(cur, d)
<1>. USE NoneAssumption DEF IsStored, Fields, IsDescriptor, Asked, IsData,
         IsAccessor, IsGeneric, SomeOr, Redefined, Stored, Merge, Writable,
         Enumerable, Configurable
<1>1. CASE ~IsGeneric(d) /\ IsData(cur) # IsData(d)
  <2>1. CASE IsData(d)
    BY <1>1, <2>1 DEF NoFields
  <2>2. CASE IsAccessor(d)
    BY <1>1, <2>2 DEF NoFields
  <2>. QED BY <1>1, <2>1, <2>2
<1>2. CASE ~(~IsGeneric(d) /\ IsData(cur) # IsData(d))
  BY <1>2
<1>. QED BY <1>1, <1>2

(* What the code refuses is what the property may not become. *)
LEMMA RefusesWhatMayNotBe ==
  ASSUME NEW cur, cur # None, IsStored(cur), NEW d, IsDescriptor(d)
  PROVE  Refuses(cur, d) <=> ~MayBecome(cur, Asked(cur, d))
<1>1. PICK new : new = Asked(cur, d)
  OBVIOUS
<1>. DEFINE accessor == IsAccessor(d) \/ (IsGeneric(d) /\ IsAccessor(cur))
<1>2. /\ new = [value |-> new.value, get |-> new.get, set |-> new.set,
                writable |-> new.writable, enumerable |-> new.enumerable,
                configurable |-> new.configurable]
      /\ new.value = IF accessor THEN None
                     ELSE SomeOr(d.value, SomeOr(cur.value, Undefined))
      /\ new.get = IF accessor THEN SomeOr(d.get, SomeOr(cur.get, Undefined))
                   ELSE None
      /\ new.set = IF accessor THEN SomeOr(d.set, SomeOr(cur.set, Undefined))
                   ELSE None
      /\ new.writable = IF accessor THEN None
                        ELSE SomeOr(d.writable, SomeOr(cur.writable, FALSE))
      /\ new.enumerable = SomeOr(d.enumerable, cur.enumerable)
      /\ new.configurable = SomeOr(d.configurable, cur.configurable)
  BY <1>1, NoneAssumption DEF Asked, IsStored, SomeOr
<1>3. new = cur <=> /\ new.value = cur.value /\ new.get = cur.get
                    /\ new.set = cur.set /\ new.writable = cur.writable
                    /\ new.enumerable = cur.enumerable
                    /\ new.configurable = cur.configurable
  BY <1>2 DEF IsStored, Fields
<1>4. CASE Configurable(cur)
  BY <1>1, <1>4 DEF Refuses, MayBecome
<1>5. CASE ~Configurable(cur)
  <2>1. /\ cur.configurable = FALSE /\ cur.enumerable \in BOOLEAN
        /\ {d.writable, d.enumerable, d.configurable} \subseteq
             BOOLEAN \cup {None}
    BY <1>5, NoneAssumption DEF Configurable, SomeOr, IsStored, IsDescriptor, Fields
  <2>2. new.configurable = cur.configurable <=> ~Configurable(d)
    BY <1>2, <2>1, NoneAssumption DEF Configurable, SomeOr
  <2>3. new.enumerable = cur.enumerable <=>
          d.enumerable = None \/ Enumerable(d) = Enumerable(cur)
    BY <1>2, <2>1, NoneAssumption DEF Enumerable, SomeOr
  <2>4. CASE IsData(cur)
    <3>1. /\ cur.get = None /\ cur.set = None /\ cur.writable \in BOOLEAN
          /\ cur.value # None /\ ~IsAccessor(cur)
      BY <2>4 DEF IsStored
    <3>2. CASE IsAccessor(d)
      <4>1. (new.get # cur.get \/ new.set # cur.set) /\ ~IsData(d)
        BY <1>2, <3>1, <3>2, NoneAssumption
          DEF SomeOr, IsAccessor, IsDescriptor
      <4>. QED BY <1>1, <1>3, <1>5, <2>4, <3>2, <4>1
                 DEF Refuses, MayBecome, IsGeneric
    <3>3. CASE ~IsAccessor(d)
      <4>1. /\ new.get = cur.get /\ new.set = cur.set
            /\ new.value = SomeOr(d.value, cur.value)
            /\ new.writable = SomeOr(d.writable, cur.writable)
        BY <1>2, <3>1, <3>3, NoneAssumption DEF SomeOr
      <4>2. IsGeneric(d) => d.value = None /\ d.writable = None
        BY DEF IsGeneric, IsData
      <4>3. CASE Writable(cur)
        BY <1>1, <1>5, <2>2, <2>3, <2>4, <3>1, <3>3, <4>1, <4>3
          DEF Refuses, MayBecome, IsGeneric
      <4>4. CASE ~Writable(cur)
        <5>1. /\ new.value = cur.value <=> d.value = None \/ d.value = cur.value
              /\ new.writable = cur.writable <=> ~Writable(d)
          BY <2>1, <3>1, <4>1, <4>4, NoneAssumption DEF Writable, SomeOr
        <5>2. Refuses(cur, d) <=> ~(/\ new.configurable = cur.configurable
                                    /\ new.enumerable = cur.enumerable
                                    /\ new.value = cur.value
                                    /\ new.writable = cur.writable)
          BY <1>5, <2>2, <2>3, <2>4, <3>3, <4>2, <4>4, <5>1
            DEF Refuses, IsGeneric, Writable, SomeOr
        <5>. QED BY <1>1, <1>3, <1>5, <4>1, <4>4, <5>2 DEF MayBecome
      <4>. QED BY <4>3, <4>4
    <3>. QED BY <3>2, <3>3
  <2>5. CASE ~IsData(cur)
    <3>1. /\ cur.get # None /\ cur.set # None /\ IsAccessor(cur)
          /\ cur.value = None /\ cur.writable = None
      BY <2>5 DEF IsStored, IsData, IsAccessor
    <3>2. CASE IsData(d)
      <4>1. new.get # cur.get /\ ~IsAccessor(d)
        BY <1>2, <3>1, <3>2, NoneAssumption
          DEF SomeOr, IsDescriptor, IsGeneric
      <4>. QED BY <1>1, <1>3, <1>5, <2>5, <3>2, <4>1
                 DEF Refuses, MayBecome, IsGeneric
    <3>3. CASE ~IsData(d)
      <4>1. /\ new.value = cur.value /\ new.writable = cur.writable
            /\ new.get = SomeOr(d.get, cur.get)
            /\ new.set = SomeOr(d.set, cur.set)
        BY <1>2, <3>1, <3>3, NoneAssumption DEF SomeOr, IsGeneric
      <4>2. /\ new.get = cur.get <=> d.get = None \/ d.get = cur.get
            /\ new.set = cur.set <=> d.set = None \/ d.set = cur.set
        BY <4>1 DEF SomeOr
      <4>3. Refuses(cur, d) <=> ~(/\ new.configurable = cur.configurable
                                  /\ new.enumerable = cur.enumerable
                                  /\ new.get = cur.get /\ new.set = cur.set)
        BY <1>5, <2>2, <2>3, <2>5, <3>3, <4>2
          DEF Refuses, IsGeneric, IsData, IsAccessor
      <4>. QED BY <1>1, <1>3, <1>5, <2>5, <4>1, <4>3 DEF MayBecome
    <3>. QED BY <3>2, <3>3
  <2>. QED BY <2>4, <2>5
<1>. QED BY <1>4, <1>5

-----------------------------------------------------------------------------
(* An object of the model: its properties and whether it is extensible.    *)
IsObject(obj) ==
  /\ obj = [props |-> obj.props, extensible |-> obj.extensible]
  /\ obj.props = [q \in DOMAIN obj.props |-> obj.props[q]]
  /\ \A q \in DOMAIN obj.props :
       obj.props[q] # None => IsStored(obj.props[q])

(* define_own_object_property accepts what 8.12.9 accepts, and leaves the  *)
(* object 8.12.9 leaves, for every object, name and descriptor.            *)
THEOREM DefineObjectAsSpecified ==
  ASSUME NEW obj, IsObject(obj), NEW p \in DOMAIN obj.props,
         NEW d, IsDescriptor(d)
  PROVE  DefineObject(obj, p, d) = Specified(obj, p, d)
<1>. DEFINE cur == obj.props[p]
<1>1. CASE cur = None
  BY <1>1, StoredIsAsked DEF DefineObject, Specified
<1>2. CASE cur # None /\ (d = NoFields \/ d = cur)
  <2>1. Asked(cur, d) = cur
    BY <1>2, IdleAsksNothing DEF IsObject
  <2>2. With(obj, p, cur) = obj
    BY DEF With, IsObject
  <2>. QED BY <1>2, <2>1, <2>2 DEF DefineObject, Specified, MayBecome
<1>3. CASE cur # None /\ ~(d = NoFields \/ d = cur)
  <2>1. IsStored(cur)
    BY <1>3 DEF IsObject
  <2>2. /\ Redefined(cur, d) = Asked(cur, d)
        /\ Refuses(cur, d) <=> ~MayBecome(cur, Asked(cur, d))
    BY <1>3, <2>1, RedefinedIsAsked, RefusesWhatMayNotBe
  <2>3. MayBecome(cur, Asked(cur, d)) \in BOOLEAN
    BY DEF MayBecome
  <2>4. MayBecome(cur, Asked(cur, d)) = ~Refuses(cur, d)
    BY <2>2, <2>3
  <2>. QED BY <1>3, <2>2, <2>4 DEF DefineObject, Specified
<1>. QED BY <1>1, <1>2, <1>3

(* The property of the run, for any names, lengths and offers: it follows  *)
(* from the type invariant alone.                                          *)
THEOREM AlwaysDefinesAsSpecified ==
  TypeOK => DefinesAsSpecified
<1>. SUFFICES ASSUME TypeOK, NEW p \in Names, NEW d \in Offers[p]
              PROVE  DefineObject(array, p, d) = Specified(array, p, d)
  BY DEF DefinesAsSpecified
<1>1. IsObject(array) /\ p \in DOMAIN array.props
  BY DEF TypeOK, IsArray, IsObject, Has
<1>2. IsDescriptor(d)
  BY OffersAssumption
<1>. QED BY <1>1, <1>2, DefineObjectAsSpecified

(* One definition never takes back what a property gave up, and adds       *)
(* nothing to an object that is not extensible.                            *)
THEOREM DefineObjectIsPermanent ==
  ASSUME NEW obj, IsObject(obj), NEW p \in DOMAIN obj.props,
         NEW d, IsDescriptor(d), NEW q \in DOMAIN obj.props
  PROVE  LET new == DefineObject(obj, p, d).obj IN
           /\ new.extensible = obj.extensible
           /\ ~obj.extensible => (Has(new, q) => Has(obj, q))
           /\ Has(obj, q) => MayBecome(obj.props[q], new.props[q])
<1>. DEFINE asked == Asked(obj.props[p], d)
            ok == Specified(obj, p, d).ok
            new == DefineObject(obj, p, d).obj
<1>1. new = IF ok THEN With(obj, p, asked) ELSE obj
  BY DefineObjectAsSpecified DEF Specified
<1>2. ok <=> IF obj.props[p] = None THEN obj.extensible
             ELSE MayBecome(obj.props[p], asked)
  BY DEF Specified
<1>3. ASSUME NEW a
      PROVE  /\ With(obj, p, a).extensible = obj.extensible
             /\ With(obj, p, a).props[q] = IF q = p THEN a ELSE obj.props[q]
  BY DEF With, IsObject
<1>4. new.extensible = obj.extensible
  BY <1>1, <1>3
<1>5. new.props[q] = IF ok /\ q = p THEN asked ELSE obj.props[q]
  BY <1>1, <1>3
<1>. HIDE DEF new, asked, ok
<1>6. ~obj.extensible => (Has(new, q) => Has(obj, q))
  BY <1>2, <1>5 DEF Has
<1>7. Has(obj, q) => MayBecome(obj.props[q], new.props[q])
  BY <1>2, <1>5 DEF Has, MayBecome
<1>. QED BY <1>4, <1>6, <1>7 DEF new

-----------------------------------------------------------------------------
(* Induction over a set of numbers: a set that holds 0 and, with a number  *)
(* below n, the next one holds every number up to n.                       *)
LEMMA UpInduction ==
  ASSUME NEW n \in Nat, NEW S, 0 \in S,
         \A i \in 0 .. n - 1 : i \in S => i + 1 \in S
  PROVE  \A i \in 0 .. n : i \in S
<1>. DEFINE T == {i \in 0 .. n : i \notin S}
<1>. SUFFICES ASSUME T # {} PROVE FALSE
  OBVIOUS
<1>1. T \subseteq Nat
  OBVIOUS
<1>. HIDE DEF T
<1>2. PICK t \in T : \A y \in T : ~(<<y, t>> \in OpToRel(<, Nat))
  BY <1>1, NatLessThanWellFounded, WFMin
<1>3. OpToRel(<, Nat) = {ss \in Nat \X Nat : ss[1] < ss[2]}
  BY Zenon DEF OpToRel
<1>4. t \in 0 .. n /\ t \notin S
  BY DEF T
<1>5. t - 1 \in 0 .. n - 1 /\ t - 1 \notin S
  BY <1>4
<1>6. t - 1 \in T
  BY <1>5 DEF T
<1>7. <<t - 1, t>> \in {ss \in Nat \X Nat : ss[1] < ss[2]}
  BY <1>4, <1>5
<1>. QED BY <1>2, <1>3, <1>6, <1>7

(* The same from n down to 0.                                              *)
LEMMA DownInduction ==
  ASSUME NEW n \in Nat, NEW S, n \in S,
         \A i \in 0 .. n - 1 : i + 1 \in S => i \in S
  PROVE  \A i \in 0 .. n : i \in S
<1>. DEFINE T == {i \in 0 .. n : n - i \in S}
<1>1. 0 \in T
  OBVIOUS
<1>2. ASSUME NEW i \in 0 .. n - 1, i \in T PROVE i + 1 \in T
  <2>1. n - (i + 1) \in 0 .. n - 1 /\ n - (i + 1) + 1 = n - i
    OBVIOUS
  <2>2. n - i \in S
    BY <1>2
  <2>. QED BY <2>1, <2>2
<1>. HIDE DEF T
<1>3. \A i \in 0 .. n : i \in T
  BY <1>1, <1>2, UpInduction
<1>4. ASSUME NEW i \in 0 .. n PROVE i \in S
  <2>1. n - i \in 0 .. n /\ n - (n - i) = i
    OBVIOUS
  <2>. QED BY <1>3, <2>1 DEF T
<1>. QED BY <1>4

-----------------------------------------------------------------------------
(* The value of "length": a number, in a data property that is neither     *)
(* enumerable nor configurable.                                            *)
IsLength(e) ==
  /\ IsStored(e) /\ IsData(e) /\ e.value \in Lengths
  /\ e.enumerable = FALSE /\ e.configurable = FALSE

(* What may stand under p in an array. *)
Slot(p, e) ==
  /\ e = None \/ IsStored(e)
  /\ p = LengthName => IsLength(e)

(* A stored descriptor is not None. *)
LEMMA StoredIsSome ==
  ASSUME NEW e, IsStored(e)
  PROVE  e # None /\ e \in Fields
BY NoneAssumption DEF IsStored

(* The type invariant, slot by slot. *)
LEMMA ArraySlots ==
  ASSUME NEW obj
  PROVE  IsArray(obj) <=>
           /\ obj \in [props : [Names -> Fields \cup {None}],
                       extensible : BOOLEAN]
           /\ \A p \in Names : Slot(p, obj.props[p])
<1>1. LengthName \in Names
  BY DEF Names
<1>2. ASSUME IsArray(obj) PROVE IsLength(obj.props[LengthName])
  <2>. DEFINE e == obj.props[LengthName]
  <2>1. /\ IsStored(e) /\ e.value \in Lengths /\ ~Enumerable(e)
        /\ ~Configurable(e)
    BY <1>1, <1>2 DEF IsArray, Length
  <2>. HIDE DEF e
  <2>2. e.enumerable = FALSE /\ e.configurable = FALSE
    BY <2>1, NoneAssumption DEF IsStored, Enumerable, Configurable, SomeOr
  <2>3. e.value # None
    BY <2>1, NamesAssumption, NoneAssumption
  <2>. QED BY <2>1, <2>2, <2>3 DEF IsLength, IsData, e
<1>3. ASSUME NEW e, IsLength(e)
      PROVE  e # None /\ ~Enumerable(e) /\ ~Configurable(e)
  BY <1>3, StoredIsSome, NoneAssumption
    DEF IsLength, Enumerable, Configurable, SomeOr
<1>. QED BY <1>1, <1>2, <1>3 DEF IsArray, Slot, Has, Length, IsLength

(* Arrays with the same properties are the same.                           *)
LEMMA SameObject ==
  ASSUME NEW a, NEW b, IsArray(a), IsArray(b), a.extensible = b.extensible,
         \A p \in Names : a.props[p] = b.props[p]
  PROVE  a = b
<1>1. /\ a \in [props : [Names -> Fields \cup {None}], extensible : BOOLEAN]
      /\ b \in [props : [Names -> Fields \cup {None}], extensible : BOOLEAN]
  BY DEF IsArray
<1>2. a.props = b.props
  BY <1>1
<1>. QED BY <1>1, <1>2

(* Writing one slot. *)
LEMMA WithSlot ==
  ASSUME NEW obj, IsArray(obj), NEW p \in Names, NEW e, Slot(p, e)
  PROVE  /\ IsArray(With(obj, p, e))
         /\ With(obj, p, e).extensible = obj.extensible
         /\ With(obj, p, e).props = [q \in Names |-> IF q = p THEN e
                                                     ELSE obj.props[q]]
<1>. DEFINE new == With(obj, p, e)
<1>1. /\ obj \in [props : [Names -> Fields \cup {None}], extensible : BOOLEAN]
      /\ \A q \in Names : Slot(q, obj.props[q])
  BY ArraySlots
<1>2. /\ new = [props |-> new.props, extensible |-> obj.extensible]
      /\ new.props = [q \in Names |-> IF q = p THEN e ELSE obj.props[q]]
  BY <1>1 DEF With
<1>. HIDE DEF new
<1>3. e \in Fields \cup {None}
  BY StoredIsSome DEF Slot
<1>4. \A q \in Names : Slot(q, new.props[q])
  BY <1>1, <1>2
<1>5. new \in [props : [Names -> Fields \cup {None}], extensible : BOOLEAN]
  BY <1>1, <1>2, <1>3
<1>. QED BY <1>2, <1>4, <1>5, ArraySlots DEF new

(* What a definition asks for is a whole property. *)
LEMMA AskedIsStored ==
  ASSUME NEW cur, cur = None \/ IsStored(cur), NEW d, IsDescriptor(d)
  PROVE  IsStored(Asked(cur, d))
<1>1. CASE cur = None
  <2>1. Asked(cur, d) = Stored(d)
    BY <1>1, StoredIsAsked
  <2>2. IsStored(Stored(d))
    BY NoneAssumption DEF Stored, IsStored, IsDescriptor, Fields, IsData,
      IsAccessor, SomeOr, Writable, Enumerable, Configurable
  <2>. QED BY <2>1, <2>2
<1>2. CASE cur # None /\ IsStored(cur)
  <2>1. PICK e : e = Asked(cur, d)
    OBVIOUS
  <2>. DEFINE accessor == IsAccessor(d) \/ (IsGeneric(d) /\ IsAccessor(cur))
  <2>2. e = [value |-> IF accessor THEN None
                       ELSE SomeOr(d.value, SomeOr(cur.value, Undefined)),
             get |-> IF accessor THEN SomeOr(d.get, SomeOr(cur.get, Undefined))
                     ELSE None,
             set |-> IF accessor THEN SomeOr(d.set, SomeOr(cur.set, Undefined))
                     ELSE None,
             writable |-> IF accessor THEN None
                          ELSE SomeOr(d.writable, SomeOr(cur.writable, FALSE)),
             enumerable |-> SomeOr(d.enumerable, SomeOr(cur.enumerable, FALSE)),
             configurable |->
               SomeOr(d.configurable, SomeOr(cur.configurable, FALSE))]
    BY <1>2, <2>1 DEF Asked
  <2>3. /\ d.writable \in BOOLEAN \cup {None} /\ d.enumerable \in BOOLEAN \cup {None}
        /\ d.configurable \in BOOLEAN \cup {None} /\ d.value \in Data \cup {None}
        /\ d.get \in Data \cup {None} /\ d.set \in Data \cup {None}
    BY DEF IsDescriptor, Fields
  <2>4. /\ cur.writable \in BOOLEAN \cup {None} /\ cur.enumerable \in BOOLEAN
        /\ cur.configurable \in BOOLEAN /\ cur.value \in Data \cup {None}
        /\ cur.get \in Data \cup {None} /\ cur.set \in Data \cup {None}
    BY <1>2 DEF IsStored, Fields
  <2>. HIDE DEF accessor
  <2>5. CASE accessor
    <3>1. /\ e \in Fields /\ e.value = None /\ e.writable = None
          /\ e.get # None /\ e.set # None /\ e.enumerable \in BOOLEAN
          /\ e.configurable \in BOOLEAN
      BY <2>2, <2>3, <2>4, <2>5, NoneAssumption DEF SomeOr, Fields
    <3>. QED BY <2>1, <3>1 DEF IsStored, IsData, IsAccessor
  <2>6. CASE ~accessor
    <3>1. /\ e \in Fields /\ e.value # None /\ e.writable \in BOOLEAN
          /\ e.get = None /\ e.set = None /\ e.enumerable \in BOOLEAN
          /\ e.configurable \in BOOLEAN
      BY <2>2, <2>3, <2>4, <2>6, NoneAssumption DEF SomeOr, Fields
    <3>. QED BY <2>1, <3>1 DEF IsStored, IsData, IsAccessor
  <2>. QED BY <2>5, <2>6
<1>. QED BY <1>1, <1>2

-----------------------------------------------------------------------------
(* What was given up stays given up from step to step. *)
LEMMA KeepsIsTransitive ==
  ASSUME NEW a, NEW b, NEW c, Keeps(a, b), Keeps(b, c)
  PROVE  Keeps(a, c)
<1>1. ASSUME NEW p \in Names, Has(a, p), ~Configurable(a.props[p])
      PROVE  Has(c, p) /\ MayBecome(a.props[p], c.props[p])
  <2>1. Has(b, p) /\ MayBecome(a.props[p], b.props[p])
    BY <1>1 DEF Keeps
  <2>2. ~Configurable(b.props[p])
    BY <1>1, <2>1 DEF MayBecome, Configurable
  <2>3. Has(c, p) /\ MayBecome(b.props[p], c.props[p])
    BY <2>1, <2>2 DEF Keeps
  <2>. QED BY <1>1, <2>1, <2>2, <2>3 DEF MayBecome
<1>. QED BY <1>1 DEF Keeps

(* Nothing is lost where nothing happens. *)
LEMMA KeepsItself ==
  ASSUME NEW a
  PROVE  Keeps(a, a)
BY DEF Keeps, MayBecome

(* Writing one slot takes nothing back if the slot may become what is      *)
(* written.                                                                *)
LEMMA WithKeeps ==
  ASSUME NEW obj, IsArray(obj), NEW p \in Names, NEW e, Slot(p, e),
         Has(obj, p) => \/ Configurable(obj.props[p])
                        \/ e # None /\ MayBecome(obj.props[p], e),
         ~Has(obj, p) => obj.extensible \/ e = None
  PROVE  Keeps(obj, With(obj, p, e))
<1>. DEFINE new == With(obj, p, e)
<1>2. /\ new.extensible = obj.extensible
      /\ new.props = [q \in Names |-> IF q = p THEN e ELSE obj.props[q]]
  BY WithSlot
<1>. HIDE DEF new
<1>3. \A q \in Names : new.props[q] = IF q = p THEN e ELSE obj.props[q]
  BY <1>2
<1>4. Keeps(obj, new)
  BY <1>2, <1>3 DEF Keeps, Has, MayBecome
<1>. QED BY <1>4 DEF new

(* A descriptor that p of an array may be defined with. *)
Fits(p, d) == IsDescriptor(d) /\ (p = LengthName => d.value \in Lengths \cup {None})

(* The length stays a length. *)
LEMMA AskedOfLength ==
  ASSUME NEW cur, IsLength(cur), NEW d, Fits(LengthName, d),
         MayBecome(cur, Asked(cur, d))
  PROVE  IsLength(Asked(cur, d))
<1>1. PICK e : e = Asked(cur, d)
  OBVIOUS
<1>2. IsStored(e)
  BY <1>1, AskedIsStored DEF IsLength, Fits
<1>3. ~Configurable(cur)
  BY DEF IsLength, Configurable, SomeOr
<1>4. CASE e = cur
  BY <1>1, <1>4
<1>5. CASE e # cur
  <2>1. e.get = cur.get /\ e.enumerable = FALSE /\ e.configurable = FALSE
    BY <1>1, <1>3, <1>5 DEF MayBecome, IsLength
  <2>2. cur.get = None /\ cur.value # None
    BY DEF IsLength, IsStored
  <2>3. IsData(e) /\ e.value # None
    BY <1>2, <2>1, <2>2 DEF IsStored, IsData, IsAccessor
  <2>4. cur # None
    BY StoredIsSome DEF IsLength
  <2>5. e.value = SomeOr(d.value, SomeOr(cur.value, Undefined))
    BY <1>1, <2>3, <2>4 DEF Asked
  <2>6. e.value \in Lengths
    BY <2>2, <2>5 DEF Fits, SomeOr, IsLength
  <2>. QED BY <1>1, <1>2, <2>1, <2>3, <2>6 DEF IsLength
<1>. QED BY <1>4, <1>5

(* One definition: what it answers, what it writes, and that it leaves an  *)
(* array that takes nothing back.                                          *)
LEMMA DefineEffect ==
  ASSUME NEW obj, IsArray(obj), NEW p \in Names, NEW d, Fits(p, d)
  PROVE  LET r == DefineObject(obj, p, d)
             a == Asked(obj.props[p], d)
         IN  /\ r = [ok |-> r.ok, obj |-> r.obj] /\ r.ok \in BOOLEAN
             /\ r.ok <=> IF Has(obj, p) THEN MayBecome(obj.props[p], a)
                         ELSE obj.extensible
             /\ r.obj = IF r.ok THEN With(obj, p, a) ELSE obj
             /\ r.ok => Slot(p, a)
             /\ IsArray(r.obj) /\ Keeps(obj, r.obj)
<1>. DEFINE cur == obj.props[p]
<1>1. PICK r : r = DefineObject(obj, p, d)
  OBVIOUS
<1>2. PICK a : a = Asked(cur, d)
  OBVIOUS
<1>3. IsObject(obj) /\ p \in DOMAIN obj.props
  BY DEF IsArray, IsObject, Has
<1>4. r = Specified(obj, p, d)
  BY <1>1, <1>3, DefineObjectAsSpecified DEF Fits
<1>5. obj.extensible \in BOOLEAN /\ MayBecome(cur, a) \in BOOLEAN
  BY DEF IsArray, MayBecome
<1>6. /\ r = [ok |-> r.ok, obj |-> r.obj] /\ r.ok \in BOOLEAN
      /\ r.ok <=> IF Has(obj, p) THEN MayBecome(cur, a) ELSE obj.extensible
      /\ r.obj = IF r.ok THEN With(obj, p, a) ELSE obj
  BY <1>2, <1>4, <1>5 DEF Specified, Has
<1>7. Slot(p, cur) /\ (p = LengthName => Has(obj, p))
  BY ArraySlots DEF IsArray
<1>8. IsStored(a) /\ a # None
  BY <1>2, <1>7, AskedIsStored, StoredIsSome DEF Slot, Fits
<1>9. r.ok => Slot(p, a)
  <2>1. SUFFICES ASSUME r.ok, p = LengthName PROVE IsLength(a)
    BY <1>8 DEF Slot
  <2>2. IsLength(cur) /\ MayBecome(cur, a)
    BY <1>6, <1>7, <2>1 DEF Slot
  <2>. QED BY <1>2, <2>1, <2>2, AskedOfLength
<1>10. IsArray(r.obj) /\ Keeps(obj, r.obj)
  <2>1. CASE r.ok
    <3>1. Slot(p, a)
      BY <1>9, <2>1
    <3>2. IsArray(With(obj, p, a))
      BY <3>1, WithSlot, Zenon
    <3>3. /\ Has(obj, p) => MayBecome(obj.props[p], a)
          /\ ~Has(obj, p) => obj.extensible
      BY <1>6, <2>1
    <3>4. Keeps(obj, With(obj, p, a))
      BY <1>8, <3>1, <3>3, WithKeeps, Zenon
    <3>. QED BY <1>6, <2>1, <3>2, <3>4
  <2>2. CASE ~r.ok
    BY <1>6, <2>2, KeepsItself
  <2>. QED BY <2>1, <2>2
<1>. QED BY <1>1, <1>2, <1>6, <1>9, <1>10

-----------------------------------------------------------------------------
(* What the names are. *)
LEMMA IndicesAreNumbers == Indices \subseteq Names /\ Indices \subseteq Nat
                           /\ LengthName \in Names /\ LengthName \notin Indices
                           /\ Lengths \subseteq Nat
BY NamesAssumption DEF Names, Indices, Lengths

(* Deleting one property. *)
LEMMA DeleteEffect ==
  ASSUME NEW obj, IsArray(obj), NEW p \in Names
  PROVE  LET r == Delete(obj, p) IN
           /\ r = [ok |-> r.ok, obj |-> r.obj] /\ r.ok \in BOOLEAN
           /\ r.ok <=> ~Has(obj, p) \/ Configurable(obj.props[p])
           /\ r.obj = IF r.ok THEN With(obj, p, None) ELSE obj
           /\ IsArray(r.obj) /\ Keeps(obj, r.obj)
<1>. DEFINE r == Delete(obj, p)
<1>1. CASE ~Has(obj, p)
  <2>1. obj.props[p] = None
    BY <1>1 DEF Has
  <2>2. obj \in [props : [Names -> Fields \cup {None}], extensible : BOOLEAN]
    BY DEF IsArray
  <2>3. With(obj, p, None) = obj
    BY <2>1, <2>2 DEF With
  <2>. QED BY <1>1, <2>3, KeepsItself DEF Delete
<1>2. CASE Has(obj, p) /\ Configurable(obj.props[p])
  <2>1. Slot(p, None)
    BY <1>2, IndicesAreNumbers DEF Slot, IsArray
  <2>2. IsArray(With(obj, p, None))
    BY <2>1, WithSlot, Zenon
  <2>3. Keeps(obj, With(obj, p, None))
    BY <1>2, <2>1, WithKeeps, Zenon
  <2>. QED BY <1>2, <2>2, <2>3 DEF Delete
<1>3. CASE Has(obj, p) /\ ~Configurable(obj.props[p])
  BY <1>3, KeepsItself DEF Delete
<1>. QED BY <1>1, <1>2, <1>3

(* Cutting elements that can be deleted. *)
LEMMA CutEffect ==
  ASSUME NEW obj, IsArray(obj), NEW n \in Nat
  PROVE  /\ Cut(obj, n).extensible = obj.extensible
         /\ \A p \in Names : Cut(obj, n).props[p] =
              IF p \in Indices /\ p >= n THEN None ELSE obj.props[p]
         /\ IsArray(Cut(obj, n))
         /\ StuckFrom(obj, n) = {} => Keeps(obj, Cut(obj, n))
<1>. DEFINE new == Cut(obj, n)
<1>1. /\ obj \in [props : [Names -> Fields \cup {None}], extensible : BOOLEAN]
      /\ \A q \in Names : Slot(q, obj.props[q])
  BY ArraySlots
<1>2. /\ new = [props |-> new.props, extensible |-> obj.extensible]
      /\ new.props = [p \in Names |->
           IF p \in Indices /\ p >= n THEN None ELSE obj.props[p]]
  BY <1>1 DEF Cut
<1>. HIDE DEF new
<1>3. \A q \in Names : Slot(q, new.props[q])
  BY <1>1, <1>2, IndicesAreNumbers DEF Slot
<1>4. new \in [props : [Names -> Fields \cup {None}], extensible : BOOLEAN]
  BY <1>1, <1>2
<1>5. ASSUME StuckFrom(obj, n) = {}
      PROVE  Keeps(obj, new)
  <2>1. ASSUME NEW p \in Names, Has(obj, p), ~Configurable(obj.props[p])
        PROVE  new.props[p] = obj.props[p]
    BY <1>2, <1>5, <2>1 DEF StuckFrom, OwnIndices
  <2>2. \A p \in Names : Has(new, p) => Has(obj, p)
    BY <1>2 DEF Has
  <2>. QED BY <1>2, <2>1, <2>2 DEF Keeps, Has, MayBecome
<1>. QED BY <1>2, <1>3, <1>4, <1>5, ArraySlots DEF new

(* ... leaves the length. *)
LEMMA CutLength ==
  ASSUME NEW obj, IsArray(obj), NEW n \in Nat
  PROVE  IsArray(Cut(obj, n)) /\ Cut(obj, n).props[LengthName]
                                  = obj.props[LengthName]
BY CutEffect, IndicesAreNumbers

(* Two cuts of an array are the same when they differ in no element.       *)
LEMMA SameCut ==
  ASSUME NEW obj, IsArray(obj), NEW m \in Nat, NEW n \in Nat,
         \A i \in OwnIndices(obj) : i >= m <=> i >= n
  PROVE  Cut(obj, m) = Cut(obj, n)
<1>1. \A p \in Names :
        (IF p \in Indices /\ p >= m THEN None ELSE obj.props[p])
          = IF p \in Indices /\ p >= n THEN None ELSE obj.props[p]
  BY DEF OwnIndices, Has
<1>. QED BY <1>1 DEF Cut

(* A cut of an array above its elements is the array.                      *)
LEMMA NoCut ==
  ASSUME NEW obj, IsArray(obj), NEW n \in Nat,
         \A i \in OwnIndices(obj) : i < n
  PROVE  Cut(obj, n) = obj
<1>1. obj \in [props : [Names -> Fields \cup {None}], extensible : BOOLEAN]
  BY DEF IsArray
<1>2. ASSUME NEW p \in Names
      PROVE  (IF p \in Indices /\ p >= n THEN None ELSE obj.props[p])
               = obj.props[p]
  <2>1. SUFFICES ASSUME p \in Indices, p >= n PROVE obj.props[p] = None
    OBVIOUS
  <2>2. p \in Nat /\ ~(p < n)
    BY <2>1, IndicesAreNumbers
  <2>. QED BY <2>1, <2>2 DEF OwnIndices, Has
<1>. QED BY <1>1, <1>2 DEF Cut

(* Deleting the last element of a cut is the next cut.                     *)
LEMMA DeleteIsCut ==
  ASSUME NEW obj, IsArray(obj), NEW i \in Indices
  PROVE  With(Cut(obj, i + 1), i, None) = Cut(obj, i)
<1>. DEFINE c == Cut(obj, i + 1)
            a == With(c, i, None)
            b == Cut(obj, i)
<1>1. i \in Nat /\ i + 1 \in Nat /\ i \in Names
  BY IndicesAreNumbers
<1>2. /\ IsArray(c) /\ c.extensible = obj.extensible
      /\ \A p \in Names : c.props[p] =
           IF p \in Indices /\ p >= i + 1 THEN None ELSE obj.props[p]
  BY <1>1, CutEffect
<1>3. /\ IsArray(b) /\ b.extensible = obj.extensible
      /\ \A p \in Names : b.props[p] =
           IF p \in Indices /\ p >= i THEN None ELSE obj.props[p]
  BY <1>1, CutEffect
<1>4. Slot(i, None)
  BY IndicesAreNumbers DEF Slot
<1>. HIDE DEF c, b
<1>5. /\ IsArray(a) /\ a.extensible = obj.extensible
      /\ a.props = [p \in Names |-> IF p = i THEN None ELSE c.props[p]]
  BY <1>1, <1>2, <1>4, WithSlot
<1>. HIDE DEF a
<1>6. ASSUME NEW p \in Names PROVE a.props[p] = b.props[p]
  <2>1. p \in Indices => p \in Nat
    BY IndicesAreNumbers
  <2>2. a.props[p] = IF p = i THEN None
                     ELSE IF p \in Indices /\ p >= i + 1 THEN None
                     ELSE obj.props[p]
    BY <1>2, <1>5
  <2>3. b.props[p] = IF p \in Indices /\ p >= i THEN None ELSE obj.props[p]
    BY <1>3
  <2>. QED BY <1>1, <2>1, <2>2, <2>3
<1>7. a = b
  BY <1>3, <1>5, <1>6, SameObject
<1>. QED BY <1>7 DEF a, b, c

(* The loop of Shrink, where it begins and with what the next round finds. *)
ShrinkStart(obj) == [going |-> TRUE, ok |-> TRUE, stuck |-> 0, obj |-> obj]

(* There is a function the loop defines, and Shrink is its last value.     *)
LEMMA ShrinkLoop ==
  ASSUME NEW obj, NEW new
  PROVE  \E at : /\ Shrink(obj, new) = at[0]
                 /\ at = [i \in 0 .. MaxLength |->
                      IF i = MaxLength THEN ShrinkStart(obj)
                                       ELSE Round(at[i + 1], i, new)]
<1>. DEFINE S == {n \in 0 .. MaxLength :
                   \E at : at = [i \in n .. MaxLength |->
                     IF i = MaxLength THEN ShrinkStart(obj)
                                      ELSE Round(at[i + 1], i, new)]}
<1>1. MaxLength \in Nat
  BY NamesAssumption
<1>2. MaxLength \in S
  <2>. DEFINE at == [i \in MaxLength .. MaxLength |-> ShrinkStart(obj)]
  <2>1. at = [i \in MaxLength .. MaxLength |->
               IF i = MaxLength THEN ShrinkStart(obj)
                                ELSE Round(at[i + 1], i, new)]
    <3>1. \A i \in MaxLength .. MaxLength : i = MaxLength
      BY <1>1
    <3>. HIDE DEF ShrinkStart
    <3>. QED BY <3>1
  <2>. HIDE DEF at
  <2>. QED BY <1>1, <2>1
<1>3. ASSUME NEW n \in 0 .. MaxLength - 1, n + 1 \in S
      PROVE  n \in S
  <2>1. PICK f : f = [i \in n + 1 .. MaxLength |->
                       IF i = MaxLength THEN ShrinkStart(obj)
                                        ELSE Round(f[i + 1], i, new)]
    BY <1>3
  <2>. DEFINE at == [i \in n .. MaxLength |-> IF i = n THEN Round(f[n + 1], n, new)
                                              ELSE f[i]]
  <2>2. /\ \A i \in n .. MaxLength : i # n => i \in n + 1 .. MaxLength
        /\ \A i \in n .. MaxLength : i # MaxLength =>
             i + 1 \in n .. MaxLength /\ i + 1 # n
        /\ n # MaxLength
    BY <1>1
  <2>3. \A i \in n .. MaxLength :
          (IF i = n THEN Round(f[n + 1], n, new) ELSE f[i])
            = IF i = MaxLength THEN ShrinkStart(obj)
                               ELSE Round(at[i + 1], i, new)
    <3>1. ASSUME NEW i \in n .. MaxLength, i # MaxLength
          PROVE  at[i + 1] = f[i + 1]
      BY <2>2, <3>1
    <3>. HIDE DEF at
    <3>2. ASSUME NEW i \in n .. MaxLength, i # n
          PROVE  f[i] = IF i = MaxLength THEN ShrinkStart(obj)
                                         ELSE Round(f[i + 1], i, new)
      BY <2>1, <2>2, <3>2
    <3>. QED BY <2>2, <3>1, <3>2
  <2>4. at = [i \in n .. MaxLength |-> IF i = MaxLength THEN ShrinkStart(obj)
                                       ELSE Round(at[i + 1], i, new)]
    BY <2>3
  <2>5. n \in 0 .. MaxLength
    BY <1>1
  <2>. HIDE DEF at
  <2>. QED BY <2>4, <2>5
<1>. HIDE DEF S
<1>4. 0 \in S
  BY <1>1, <1>2, <1>3, DownInduction
<1>. DEFINE P(at) == at = [i \in 0 .. MaxLength |->
                             IF i = MaxLength THEN ShrinkStart(obj)
                                              ELSE Round(at[i + 1], i, new)]
            chosen == CHOOSE at : P(at)
<1>5. P(chosen)
  BY <1>4 DEF S
<1>6. Shrink(obj, new) = chosen[0]
  BY DEF Shrink, ShrinkStart
<1>. QED BY <1>5, <1>6

(* Where the loop is when it comes to i: nothing above i stopped it and    *)
(* all of that is gone, or the last element that stays stopped it.         *)
Cutting(obj, new, i, a) ==
  /\ a = [going |-> a.going, ok |-> a.ok, stuck |-> a.stuck, obj |-> a.obj]
  /\ a.going \in BOOLEAN /\ a.ok \in BOOLEAN /\ (a.going => a.ok)
  /\ a.ok => /\ \A j \in StuckFrom(obj, new) : j < i
             /\ a.obj = Cut(obj, IF i > new THEN i ELSE new)
             /\ a.going \/ i < new
  /\ ~a.ok => /\ a.stuck \in StuckFrom(obj, new)
              /\ \A j \in StuckFrom(obj, new) : j <= a.stuck
              /\ a.obj = Cut(obj, a.stuck + 1)

(* One round. *)
LEMMA RoundCuts ==
  ASSUME NEW obj, IsArray(obj), NEW new \in Lengths, NEW i \in Indices,
         NEW a, Cutting(obj, new, i + 1, a)
  PROVE  Cutting(obj, new, i, Round(a, i, new))
<1>. DEFINE b == Round(a, i, new)
            stuck == StuckFrom(obj, new)
<1>1. i \in Nat /\ new \in Nat /\ i \in Names
  BY IndicesAreNumbers
<1>2. \A j \in stuck : j \in Nat /\ j \in Indices
  BY IndicesAreNumbers DEF StuckFrom, OwnIndices
<1>3. CASE ~a.ok
  <2>1. ~a.going /\ b = a
    BY <1>3 DEF Round, Cutting
  <2>. QED BY <1>3, <2>1 DEF Cutting
<1>4. CASE a.ok /\ i < new
  <2>1. b = a \/ b = [a EXCEPT !.going = FALSE]
    BY <1>4 DEF Round
  <2>2. /\ b = [going |-> b.going, ok |-> a.ok, stuck |-> a.stuck, obj |-> a.obj]
        /\ b.going \in BOOLEAN
    BY <2>1 DEF Cutting
  <2>. HIDE DEF b
  <2>3. /\ \A j \in stuck : j < i + 1
        /\ a.obj = Cut(obj, IF i + 1 > new THEN i + 1 ELSE new)
    BY <1>4 DEF Cutting
  <2>4. (IF i + 1 > new THEN i + 1 ELSE new) = (IF i > new THEN i ELSE new)
    BY <1>1, <1>4
  <2>5. \A j \in stuck : j < i
    BY <1>1, <1>2, <1>4, <2>3 DEF StuckFrom
  <2>6. a.obj = Cut(obj, IF i > new THEN i ELSE new)
    BY <2>3, <2>4
  <2>7. /\ b.ok /\ b.obj = a.obj /\ b.going \in BOOLEAN
        /\ b = [going |-> b.going, ok |-> b.ok, stuck |-> b.stuck, obj |-> b.obj]
    BY <1>4, <2>2
  <2>8. Cutting(obj, new, i, b)
    BY <1>4, <2>5, <2>6, <2>7 DEF Cutting
  <2>. QED BY <2>8 DEF b
<1>5. CASE a.ok /\ i >= new
  <2>1. /\ a.going /\ a.obj = Cut(obj, i + 1)
        /\ \A j \in stuck : j < i + 1
    BY <1>1, <1>5 DEF Cutting
  <2>2. IsArray(a.obj) /\ a.obj.props[i] = obj.props[i]
    BY <1>1, <2>1, CutEffect
  <2>3. (IF i > new THEN i ELSE new) = i
    BY <1>1, <1>5
  <2>4. CASE ~Has(obj, i)
    <3>1. b = a
      BY <2>2, <2>4 DEF Round, Has
    <3>2. i \notin OwnIndices(obj)
      BY <2>4 DEF OwnIndices
    <3>3. \A j \in OwnIndices(obj) : j \in Nat /\ j # i
      BY <3>2, IndicesAreNumbers DEF OwnIndices
    <3>4. Cut(obj, i + 1) = Cut(obj, i)
      BY <1>1, <3>3, SameCut
    <3>5. \A j \in stuck : j < i
      BY <1>1, <1>2, <2>1, <3>3 DEF StuckFrom
    <3>. QED BY <1>5, <2>1, <2>3, <3>1, <3>4, <3>5 DEF Cutting
  <2>5. CASE Has(obj, i)
    <3>. DEFINE del == Delete(a.obj, i)
    <3>1. b = [going |-> del.ok, ok |-> del.ok, stuck |-> i, obj |-> del.obj]
      BY <1>1, <1>5, <2>1, <2>2, <2>5 DEF Round, Has
    <3>2. /\ del.ok \in BOOLEAN
          /\ del.ok <=> Configurable(obj.props[i])
          /\ del.obj = IF del.ok THEN With(a.obj, i, None) ELSE a.obj
      BY <1>1, <2>2, <2>5, DeleteEffect DEF Has
    <3>3. i \in OwnIndices(obj)
      BY <2>5 DEF OwnIndices
    <3>. HIDE DEF del, b
    <3>4. CASE del.ok
      <4>1. del.obj = Cut(obj, i)
        BY <2>1, <3>2, <3>4, DeleteIsCut
      <4>2. \A j \in stuck : j < i
        BY <1>1, <1>2, <2>1, <3>2, <3>4 DEF StuckFrom
      <4>. QED BY <2>3, <3>1, <3>4, <4>1, <4>2 DEF Cutting, b
    <3>5. CASE ~del.ok
      <4>1. i \in stuck
        BY <1>5, <3>2, <3>3, <3>5 DEF StuckFrom
      <4>2. \A j \in stuck : j <= i
        BY <1>1, <1>2, <2>1
      <4>. QED BY <2>1, <3>1, <3>2, <3>5, <4>1, <4>2 DEF Cutting, b
    <3>. QED BY <3>4, <3>5
  <2>. QED BY <2>4, <2>5
<1>. QED BY <1>1, <1>3, <1>4, <1>5

(* The whole loop: it cuts the array at new, or above the last element     *)
(* that cannot be deleted.                                                 *)
LEMMA ShrinkEffect ==
  ASSUME NEW obj, IsArray(obj), NEW new \in Lengths
  PROVE  LET s == Shrink(obj, new) IN
           /\ s.ok <=> StuckFrom(obj, new) = {}
           /\ s.ok => s.obj = Cut(obj, new)
           /\ ~s.ok => /\ s.stuck \in StuckFrom(obj, new)
                       /\ \A j \in StuckFrom(obj, new) : j <= s.stuck
                       /\ s.obj = Cut(obj, s.stuck + 1)
<1>1. PICK at : /\ Shrink(obj, new) = at[0]
                /\ at = [i \in 0 .. MaxLength |->
                     IF i = MaxLength THEN ShrinkStart(obj)
                                      ELSE Round(at[i + 1], i, new)]
  BY ShrinkLoop
<1>. DEFINE S == {i \in 0 .. MaxLength : Cutting(obj, new, i, at[i])}
<1>2. MaxLength \in Nat /\ new \in Nat /\ new <= MaxLength
  BY NamesAssumption DEF Lengths
<1>3. \A j \in StuckFrom(obj, new) : j \in Nat /\ j < MaxLength
  BY <1>2 DEF StuckFrom, OwnIndices, Indices
<1>4. MaxLength \in S
  <2>1. at[MaxLength] = ShrinkStart(obj)
    BY <1>1, <1>2
  <2>2. Cut(obj, MaxLength) = obj
    BY <1>2, NoCut DEF OwnIndices, Indices
  <2>3. (IF MaxLength > new THEN MaxLength ELSE new) = MaxLength
    BY <1>2
  <2>4. PICK a : a = at[MaxLength]
    OBVIOUS
  <2>5. /\ a = [going |-> a.going, ok |-> a.ok, stuck |-> a.stuck, obj |-> a.obj]
        /\ a.going = TRUE /\ a.ok = TRUE /\ a.obj = obj
    BY <2>1, <2>4 DEF ShrinkStart
  <2>6. a.obj = Cut(obj, IF MaxLength > new THEN MaxLength ELSE new)
    BY <2>2, <2>3, <2>5
  <2>7. Cutting(obj, new, MaxLength, a)
    BY <1>3, <2>5, <2>6 DEF Cutting
  <2>. QED BY <1>2, <2>4, <2>7
<1>5. ASSUME NEW i \in 0 .. MaxLength - 1, i + 1 \in S
      PROVE  i \in S
  <2>1. i \in Indices /\ i \in 0 .. MaxLength /\ i # MaxLength
    BY <1>2 DEF Indices
  <2>2. at[i] = Round(at[i + 1], i, new)
    BY <1>1, <2>1
  <2>3. Cutting(obj, new, i, at[i])
    BY <1>5, <2>1, <2>2, RoundCuts
  <2>. QED BY <2>1, <2>3
<1>. HIDE DEF S
<1>6. 0 \in S
  BY <1>2, <1>4, <1>5, DownInduction
<1>7. Cutting(obj, new, 0, Shrink(obj, new))
  BY <1>1, <1>6 DEF S
<1>8. StuckFrom(obj, new) = {} \/ \E j \in StuckFrom(obj, new) : ~(j < 0)
  BY <1>3
<1>9. (IF 0 > new THEN 0 ELSE new) = new
  BY <1>2
<1>. QED BY <1>7, <1>8, <1>9 DEF Cutting

-----------------------------------------------------------------------------
(* The property "length" with this value and this writable flag.           *)
LengthOf(v, w) ==
  [value |-> v, get |-> None, set |-> None, writable |-> w,
   enumerable |-> FALSE, configurable |-> FALSE]

(* The properties that may stand under "length" are these.                 *)
LEMMA LengthsAre ==
  ASSUME NEW e
  PROVE  IsLength(e) <=> /\ e.value \in Lengths /\ e.writable \in BOOLEAN
                         /\ e = LengthOf(e.value, e.writable)
<1>1. ASSUME IsLength(e)
      PROVE  e.writable \in BOOLEAN /\ e = LengthOf(e.value, e.writable)
  BY <1>1 DEF IsLength, IsStored, Fields, LengthOf
<1>2. ASSUME NEW v \in Lengths, NEW w \in BOOLEAN
      PROVE  IsLength(LengthOf(v, w))
  <2>1. v \in Data /\ v # None /\ w # None
    BY NamesAssumption, NoneAssumption
  <2>. QED BY <2>1 DEF LengthOf, IsLength, IsStored, Fields, IsData, IsAccessor
<1>3. IsLength(e) => e.value \in Lengths
  BY DEF IsLength
<1>. QED BY <1>1, <1>2, <1>3

(* The length of an array, field by field. *)
LEMMA LengthOfArray ==
  ASSUME NEW obj, IsArray(obj)
  PROVE  LET cur == obj.props[LengthName] IN
           /\ IsLength(cur) /\ cur # None /\ cur.value \in Lengths
           /\ cur.value # None /\ cur.writable \in BOOLEAN
           /\ cur = LengthOf(cur.value, cur.writable)
           /\ Writable(cur) = cur.writable /\ ~Configurable(cur) /\ IsData(cur)
           /\ cur.get = None /\ cur.set = None /\ ~IsAccessor(cur)
           /\ cur.enumerable = FALSE /\ cur.configurable = FALSE
<1>. DEFINE cur == obj.props[LengthName]
<1>1. IsLength(cur)
  BY ArraySlots, IndicesAreNumbers DEF Slot
<1>2. cur # None
  BY <1>1, StoredIsSome DEF IsLength
<1>. HIDE DEF cur
<1>3. /\ cur.value \in Lengths /\ cur.writable \in BOOLEAN
      /\ cur = LengthOf(cur.value, cur.writable)
  BY <1>1, LengthsAre
<1>4. cur.value # None /\ Writable(cur) = cur.writable
  BY <1>3, NamesAssumption, NoneAssumption DEF Writable, SomeOr
<1>5. /\ cur.get = None /\ cur.set = None /\ IsData(cur)
      /\ cur.enumerable = FALSE /\ cur.configurable = FALSE
  BY <1>1 DEF IsLength, IsStored
<1>6. ~IsAccessor(cur) /\ ~Configurable(cur)
  BY <1>5, NoneAssumption DEF IsAccessor, Configurable, SomeOr
<1>. QED BY <1>1, <1>2, <1>3, <1>4, <1>5, <1>6 DEF cur

(* A definition of "length" that asks for no accessor. *)
LengthAsked(d) ==
  IsDescriptor(d) /\ ~IsAccessor(d) /\ d.value \in Lengths \cup {None}

(* What becomes of it. *)
LEMMA LengthDefinition ==
  ASSUME NEW obj, IsArray(obj), NEW d, LengthAsked(d)
  PROVE  LET cur == obj.props[LengthName]
             v == SomeOr(d.value, cur.value)
             w == SomeOr(d.writable, cur.writable)
             r == DefineObject(obj, LengthName, d)
         IN  /\ v \in Lengths /\ w \in BOOLEAN
             /\ r = Specified(obj, LengthName, d)
             /\ r = [ok |-> r.ok, obj |-> r.obj] /\ r.ok \in BOOLEAN
             /\ r.ok <=> /\ ~Enumerable(d) /\ ~Configurable(d)
                         /\ cur.writable \/ (v = cur.value /\ w = cur.writable)
             /\ r.obj = IF r.ok THEN With(obj, LengthName, LengthOf(v, w))
                                ELSE obj
             /\ IsArray(r.obj) /\ Keeps(obj, r.obj)
<1>. DEFINE cur == obj.props[LengthName]
            v == SomeOr(d.value, cur.value)
            w == SomeOr(d.writable, cur.writable)
            r == DefineObject(obj, LengthName, d)
            a == Asked(cur, d)
<1>1. /\ cur # None /\ cur.value \in Lengths /\ cur.writable \in BOOLEAN
      /\ cur.value # None /\ cur = LengthOf(cur.value, cur.writable)
      /\ ~Configurable(cur) /\ Writable(cur) = cur.writable /\ IsData(cur)
      /\ cur.get = None /\ cur.set = None /\ ~IsAccessor(cur)
      /\ cur.enumerable = FALSE /\ cur.configurable = FALSE
  BY LengthOfArray
<1>2. /\ d.enumerable \in BOOLEAN \cup {None} /\ d.get = None /\ d.set = None
      /\ d.configurable \in BOOLEAN \cup {None}
      /\ d.writable \in BOOLEAN \cup {None}
  BY DEF LengthAsked, IsDescriptor, IsAccessor, Fields
<1>3. v \in Lengths /\ w \in BOOLEAN
  BY <1>1, <1>2 DEF LengthAsked, SomeOr
<1>4. /\ r = [ok |-> r.ok, obj |-> r.obj] /\ r.ok \in BOOLEAN
      /\ r.ok <=> IF Has(obj, LengthName) THEN MayBecome(cur, a)
                  ELSE obj.extensible
      /\ r.obj = IF r.ok THEN With(obj, LengthName, a) ELSE obj
      /\ IsArray(r.obj) /\ Keeps(obj, r.obj)
  <2>1. Fits(LengthName, d) /\ LengthName \in Names
    BY IndicesAreNumbers DEF Fits, LengthAsked
  <2>. QED BY <2>1, DefineEffect
<1>5. r = Specified(obj, LengthName, d)
  <2>1. IsObject(obj) /\ LengthName \in DOMAIN obj.props
    BY IndicesAreNumbers DEF IsArray, IsObject, Has
  <2>. QED BY <2>1, DefineObjectAsSpecified DEF LengthAsked
<1>6. a = [value |-> v, get |-> None, set |-> None, writable |-> w,
           enumerable |-> Enumerable(d), configurable |-> Configurable(d)]
  <2>1. ~IsAccessor(d) /\ ~IsAccessor(cur)
    BY <1>1, <1>2 DEF IsAccessor
  <2>2. FALSE # None
    BY NoneAssumption
  <2>3. SomeOr(cur.value, Undefined) = cur.value
        /\ SomeOr(cur.writable, FALSE) = cur.writable
    BY <1>1, NoneAssumption DEF SomeOr
  <2>. HIDE DEF cur
  <2>. QED BY <1>1, <2>1, <2>2, <2>3
         DEF Asked, SomeOr, Enumerable, Configurable
<1>7. Has(obj, LengthName)
  BY <1>1 DEF Has
<1>. HIDE DEF cur, a, v, w
<1>8. Enumerable(d) \in BOOLEAN /\ Configurable(d) \in BOOLEAN
  BY <1>2 DEF Enumerable, Configurable, SomeOr
<1>9. a = cur <=> /\ v = cur.value /\ w = cur.writable
                  /\ Enumerable(d) = FALSE /\ Configurable(d) = FALSE
  <2>1. PICK x, y : x = cur.value /\ y = cur.writable
    OBVIOUS
  <2>2. cur = [value |-> x, get |-> None, set |-> None, writable |-> y,
               enumerable |-> FALSE, configurable |-> FALSE]
    BY <1>1, <2>1 DEF LengthOf
  <2>3. PICK en, co : en = Enumerable(d) /\ co = Configurable(d)
    OBVIOUS
  <2>4. a = [value |-> v, get |-> None, set |-> None, writable |-> w,
             enumerable |-> en, configurable |-> co]
    BY <1>6, <2>3, Zenon
  <2>5. a = cur <=> v = x /\ w = y /\ en = FALSE /\ co = FALSE
    BY <2>2, <2>4
  <2>. QED BY <2>1, <2>3, <2>5
<1>11. MayBecome(cur, a) <=>
         /\ ~Enumerable(d) /\ ~Configurable(d)
         /\ cur.writable \/ (v = cur.value /\ w = cur.writable)
  BY <1>1, <1>3, <1>6, <1>8, <1>9 DEF MayBecome
<1>12. r.ok => a = LengthOf(v, w)
  BY <1>4, <1>6, <1>7, <1>8, <1>11 DEF LengthOf
<1>. HIDE DEF r
<1>13. /\ r.ok <=> /\ ~Enumerable(d) /\ ~Configurable(d)
                   /\ cur.writable \/ (v = cur.value /\ w = cur.writable)
       /\ r.obj = IF r.ok THEN With(obj, LengthName, LengthOf(v, w)) ELSE obj
  BY <1>4, <1>7, <1>11, <1>12
<1>. QED BY <1>3, <1>4, <1>5, <1>13 DEF cur, v, w, r

(* The loop leaves an array of the same length. *)
LEMMA ShrinkKeeps ==
  ASSUME NEW obj, IsArray(obj), NEW new \in Lengths
  PROVE  LET s == Shrink(obj, new) IN
           /\ IsArray(s.obj) /\ Keeps(obj, s.obj)
           /\ s.obj.props[LengthName] = obj.props[LengthName]
           /\ ~s.ok => s.stuck + 1 \in Lengths /\ s.stuck + 1 \in Nat
<1>. DEFINE s == Shrink(obj, new)
            n == IF s.ok THEN new ELSE s.stuck + 1
<1>1. /\ s.ok <=> StuckFrom(obj, new) = {}
      /\ s.ok => s.obj = Cut(obj, new)
      /\ ~s.ok => /\ s.stuck \in StuckFrom(obj, new)
                  /\ \A j \in StuckFrom(obj, new) : j <= s.stuck
                  /\ s.obj = Cut(obj, s.stuck + 1)
  BY ShrinkEffect
<1>. HIDE DEF s
<1>2. new \in Nat
  BY IndicesAreNumbers
<1>3. ASSUME ~s.ok
      PROVE  /\ s.stuck \in Nat /\ s.stuck + 1 \in Lengths
             /\ new <= s.stuck /\ StuckFrom(obj, s.stuck + 1) = {}
  <2>1. s.stuck \in Indices /\ s.stuck >= new /\ s.stuck \in Nat
    BY <1>1, <1>3, IndicesAreNumbers DEF StuckFrom, OwnIndices
  <2>2. s.stuck + 1 \in Lengths
    BY <2>1, NamesAssumption DEF Indices, Lengths
  <2>3. ASSUME NEW j \in StuckFrom(obj, s.stuck + 1) PROVE FALSE
    <3>1. j \in Nat /\ j >= s.stuck + 1 /\ j \in StuckFrom(obj, new)
      BY <1>2, <2>1, IndicesAreNumbers DEF StuckFrom, OwnIndices
    <3>. QED BY <1>1, <1>3, <2>1, <3>1
  <2>. QED BY <1>2, <2>1, <2>2, <2>3
<1>4. n \in Nat /\ StuckFrom(obj, n) = {} /\ s.obj = Cut(obj, n)
  BY <1>1, <1>2, <1>3
<1>. HIDE DEF n
<1>5. IsArray(s.obj) /\ Keeps(obj, s.obj)
  BY <1>4, CutEffect
<1>6. s.obj.props[LengthName] = obj.props[LengthName]
  BY <1>4, CutEffect, IndicesAreNumbers
<1>. QED BY <1>3, <1>5, <1>6 DEF s

(* The length of an array and its elements, where the length is written.   *)
LEMMA WithLength ==
  ASSUME NEW obj, IsArray(obj), NEW v \in Lengths, NEW w \in BOOLEAN
  PROVE  LET new == With(obj, LengthName, LengthOf(v, w)) IN
           /\ IsArray(new) /\ new.extensible = obj.extensible
           /\ new.props[LengthName] = LengthOf(v, w) /\ Length(new) = v
           /\ \A q \in Names : q # LengthName => new.props[q] = obj.props[q]
<1>. DEFINE e == LengthOf(v, w)
            new == With(obj, LengthName, e)
<1>1. e.value = v /\ e.writable = w
  BY DEF LengthOf
<1>2. IsLength(e)
  BY <1>1, LengthsAre
<1>. HIDE DEF e
<1>3. Slot(LengthName, e)
  BY <1>2 DEF Slot, IsLength
<1>4. /\ IsArray(new) /\ new.extensible = obj.extensible
      /\ new.props = [q \in Names |-> IF q = LengthName THEN e ELSE obj.props[q]]
  BY <1>3, WithSlot, IndicesAreNumbers
<1>. HIDE DEF new
<1>5. /\ new.props[LengthName] = e
      /\ \A q \in Names : q # LengthName => new.props[q] = obj.props[q]
  BY <1>4, IndicesAreNumbers
<1>. QED BY <1>1, <1>4, <1>5 DEF Length, new, e

(* The empty descriptor with a writable flag asks for no accessor.         *)
LEMMA ReadOnlyAsked ==
  LET d == [NoFields EXCEPT !.writable = FALSE] IN
    /\ LengthAsked(d) /\ d.value = None /\ d.writable = FALSE
    /\ ~Enumerable(d) /\ ~Configurable(d)
BY NoneAssumption DEF LengthAsked, NoFields, IsDescriptor, IsAccessor, IsData,
   Fields, Enumerable, Configurable, SomeOr

(* The descriptors SetLength makes of d ask for lengths, too.              *)
LEMMA WithValueAsked ==
  ASSUME NEW d, LengthAsked(d), NEW v \in Lengths, NEW w \in BOOLEAN \cup {None}
  PROVE  LET e == [d EXCEPT !.value = v, !.writable = w] IN
           /\ LengthAsked(e) /\ e.value = v /\ e.writable = w
           /\ Enumerable(e) = Enumerable(d)
           /\ Configurable(e) = Configurable(d)
<1>. DEFINE e == [d EXCEPT !.value = v, !.writable = w]
<1>1. d \in Fields /\ d.get = None /\ d.set = None
  BY DEF LengthAsked, IsDescriptor, IsAccessor
<1>2. v \in Data
  BY NamesAssumption
<1>3. /\ e \in Fields /\ e.value = v /\ e.writable = w /\ e.get = None
      /\ e.set = None /\ e.enumerable = d.enumerable
      /\ e.configurable = d.configurable
  BY <1>1, <1>2 DEF Fields
<1>. HIDE DEF e
<1>4. LengthAsked(e)
  BY <1>3 DEF LengthAsked, IsDescriptor, IsAccessor
<1>5. Enumerable(e) = Enumerable(d) /\ Configurable(e) = Configurable(d)
  BY <1>3 DEF Enumerable, Configurable
<1>. QED BY <1>3, <1>4, <1>5 DEF e

-----------------------------------------------------------------------------
(* Setting the length, by an old length that may be outdated, leaves an    *)
(* array, takes nothing back, and has set the length if it says so.        *)
LEMMA SetLengthKeeps ==
  ASSUME NEW obj, IsArray(obj), NEW d, LengthAsked(d), NEW old, IsLength(old),
         NEW new \in Lengths
  PROVE  LET r == SetLength(obj, d, old, new) IN
           /\ IsArray(r.obj) /\ Keeps(obj, r.obj)
           /\ r.ok => Length(r.obj) = new
<1>. DEFINE lower == new < old.value
            readOnly == lower /\ d.writable = FALSE
            ww == IF readOnly THEN TRUE ELSE d.writable
            fw == IF readOnly THEN FALSE ELSE d.writable
            wanted == [d EXCEPT !.value = new, !.writable = ww]
            set == DefineObject(obj, LengthName, wanted)
            shrunk == Shrink(set.obj, new)
            final == [d EXCEPT !.value = shrunk.stuck + 1, !.writable = fw]
            ro == [NoFields EXCEPT !.writable = FALSE]
            r == SetLength(obj, d, old, new)
<1>1. r = IF lower /\ ~Writable(old) THEN [ok |-> FALSE, obj |-> obj]
          ELSE IF ~lower \/ ~set.ok THEN set
          ELSE IF ~shrunk.ok
            THEN [ok |-> FALSE,
                  obj |-> DefineObject(shrunk.obj, LengthName, final).obj]
          ELSE IF readOnly
            THEN [ok |-> TRUE,
                  obj |-> DefineObject(shrunk.obj, LengthName, ro).obj]
          ELSE [ok |-> TRUE, obj |-> shrunk.obj]
  BY DEF SetLength
<1>2. d.writable \in BOOLEAN \cup {None}
  BY DEF LengthAsked, IsDescriptor, Fields
<1>3. ww \in BOOLEAN \cup {None} /\ fw \in BOOLEAN \cup {None}
  BY <1>2
<1>. HIDE DEF lower, readOnly, ww, fw, r
<1>4. LengthAsked(wanted) /\ wanted.value = new /\ new # None
  <2>1. new # None
    BY NamesAssumption, NoneAssumption
  <2>2. LengthAsked(wanted)
    BY <1>3, WithValueAsked
  <2>3. wanted.value = new
    BY DEF LengthAsked, IsDescriptor, Fields
  <2>. QED BY <2>1, <2>2, <2>3
<1>. HIDE DEF wanted
<1>5. /\ IsArray(set.obj) /\ Keeps(obj, set.obj)
      /\ set.ok => Length(set.obj) = new
  <2>. DEFINE w == SomeOr(wanted.writable, obj.props[LengthName].writable)
  <2>1. /\ IsArray(set.obj) /\ Keeps(obj, set.obj) /\ w \in BOOLEAN
        /\ set.ok => set.obj = With(obj, LengthName, LengthOf(new, w))
    BY <1>4, LengthDefinition DEF SomeOr
  <2>. QED BY <2>1, WithLength
<1>. HIDE DEF set
<1>6. /\ IsArray(shrunk.obj) /\ Keeps(set.obj, shrunk.obj)
      /\ shrunk.obj.props[LengthName] = set.obj.props[LengthName]
      /\ ~shrunk.ok => shrunk.stuck + 1 \in Lengths
  BY <1>5, ShrinkKeeps
<1>7. Keeps(obj, shrunk.obj) /\ (set.ok => Length(shrunk.obj) = new)
  BY <1>5, <1>6, KeepsIsTransitive DEF Length
<1>. HIDE DEF shrunk
<1>8. CASE (lower /\ ~Writable(old)) \/ ~lower \/ ~set.ok
  <2>1. r = set \/ r = [ok |-> FALSE, obj |-> obj]
    BY <1>1, <1>8
  <2>. QED BY <1>5, <2>1, KeepsItself DEF r
<1>9. CASE lower /\ Writable(old) /\ set.ok /\ ~shrunk.ok
  <2>1. LengthAsked(final)
    BY <1>3, <1>6, <1>9, WithValueAsked
  <2>. DEFINE last == DefineObject(shrunk.obj, LengthName, final)
  <2>. HIDE DEF final
  <2>2. IsArray(last.obj) /\ Keeps(shrunk.obj, last.obj)
    BY <1>6, <2>1, LengthDefinition
  <2>3. r = [ok |-> FALSE, obj |-> last.obj]
    BY <1>1, <1>9 DEF final
  <2>. QED BY <1>7, <2>2, <2>3, KeepsIsTransitive DEF r
<1>10. CASE lower /\ Writable(old) /\ set.ok /\ shrunk.ok /\ readOnly
  <2>. DEFINE last == DefineObject(shrunk.obj, LengthName, ro)
              cur == shrunk.obj.props[LengthName]
  <2>1. LengthAsked(ro) /\ ro.value = None
    BY ReadOnlyAsked
  <2>. HIDE DEF ro
  <2>2. /\ IsArray(last.obj) /\ Keeps(shrunk.obj, last.obj)
        /\ last.obj = IF last.ok
             THEN With(shrunk.obj, LengthName,
                       LengthOf(cur.value, SomeOr(ro.writable, cur.writable)))
             ELSE shrunk.obj
        /\ cur.value \in Lengths /\ SomeOr(ro.writable, cur.writable) \in BOOLEAN
    BY <1>6, <2>1, LengthDefinition DEF SomeOr
  <2>3. Length(last.obj) = Length(shrunk.obj)
    BY <1>6, <2>2, WithLength DEF Length
  <2>4. r = [ok |-> TRUE, obj |-> last.obj]
    BY <1>1, <1>10 DEF ro
  <2>. QED BY <1>7, <1>10, <2>2, <2>3, <2>4, KeepsIsTransitive DEF r
<1>11. CASE lower /\ Writable(old) /\ set.ok /\ shrunk.ok /\ ~readOnly
  BY <1>1, <1>6, <1>7, <1>11 DEF r
<1>. QED BY <1>8, <1>9, <1>10, <1>11 DEF r

-----------------------------------------------------------------------------
(* A definition asks for nothing more the second time. *)
LEMMA AskedTwice ==
  ASSUME NEW cur, cur = None \/ IsStored(cur), NEW d, IsDescriptor(d)
  PROVE  Asked(Asked(cur, d), d) = Asked(cur, d)
<1>1. PICK a : a = Asked(cur, d)
  OBVIOUS
<1>2. IsStored(a) /\ a # None
  BY <1>1, AskedIsStored, StoredIsSome
<1>3. PICK b : b = Asked(a, d)
  OBVIOUS
<1>. DEFINE kind == IsAccessor(d) \/ (IsGeneric(d) /\ IsAccessor(a))
<1>4. b = [value |-> IF kind THEN None
                     ELSE SomeOr(d.value, SomeOr(a.value, Undefined)),
           get |-> IF kind THEN SomeOr(d.get, SomeOr(a.get, Undefined)) ELSE None,
           set |-> IF kind THEN SomeOr(d.set, SomeOr(a.set, Undefined)) ELSE None,
           writable |-> IF kind THEN None
                        ELSE SomeOr(d.writable, SomeOr(a.writable, FALSE)),
           enumerable |-> SomeOr(d.enumerable, SomeOr(a.enumerable, FALSE)),
           configurable |-> SomeOr(d.configurable, SomeOr(a.configurable, FALSE))]
  BY <1>2, <1>3 DEF Asked
<1>5. /\ d.value # None => a.value = d.value \/ a.value = None
      /\ d.writable # None => a.writable = d.writable \/ a.writable = None
      /\ d.get # None => a.get = d.get \/ a.get = None
      /\ d.set # None => a.set = d.set \/ a.set = None
      /\ d.enumerable # None => a.enumerable = d.enumerable
      /\ d.configurable # None => a.configurable = d.configurable
      /\ IsAccessor(d) => a.value = None /\ a.writable = None
      /\ IsData(d) /\ ~IsAccessor(d) => a.get = None /\ a.set = None
  BY <1>1 DEF Asked, SomeOr, IsGeneric
<1>6. ~(IsData(d) /\ IsAccessor(d))
  BY DEF IsDescriptor
<1>7. kind <=> IsAccessor(a)
  BY <1>2, <1>5, <1>6 DEF IsGeneric, IsStored, IsData, IsAccessor
<1>8. a = [value |-> a.value, get |-> a.get, set |-> a.set,
           writable |-> a.writable, enumerable |-> a.enumerable,
           configurable |-> a.configurable]
  BY <1>2 DEF IsStored, Fields
<1>. HIDE DEF kind
<1>9. /\ b.value = a.value /\ b.get = a.get /\ b.set = a.set
      /\ b.writable = a.writable /\ b.enumerable = a.enumerable
      /\ b.configurable = a.configurable
  <2>1. CASE kind
    <3>1. /\ a.value = None /\ a.writable = None /\ a.get # None /\ a.set # None
          /\ a.enumerable # None /\ a.configurable # None
      BY <1>2, <1>7, <2>1, NoneAssumption DEF IsStored, IsData
    <3>. QED BY <1>4, <1>5, <2>1, <3>1 DEF SomeOr
  <2>2. CASE ~kind
    <3>1. /\ a.value # None /\ a.writable # None /\ a.get = None /\ a.set = None
          /\ a.enumerable # None /\ a.configurable # None
      BY <1>2, <1>7, <2>2, NoneAssumption DEF IsStored, IsData, IsAccessor
    <3>. QED BY <1>4, <1>5, <2>2, <3>1 DEF SomeOr
  <2>. QED BY <2>1, <2>2
<1>10. b = a
  BY <1>4, <1>8, <1>9
<1>. QED BY <1>1, <1>3, <1>10

(* Giving a writable length another value. *)
LEMMA LongerLength ==
  ASSUME NEW obj, IsArray(obj), obj.props[LengthName].writable = TRUE,
         NEW n \in Lengths
  PROVE  LET longer == [obj.props[LengthName] EXCEPT !.value = n]
             r == DefineObject(obj, LengthName, longer)
         IN  /\ IsArray(r.obj) /\ Keeps(obj, r.obj)
             /\ r.obj = With(obj, LengthName, LengthOf(n, TRUE))
             /\ r.obj = [obj EXCEPT !.props[LengthName].value = n]
<1>. DEFINE old == obj.props[LengthName]
            longer == [old EXCEPT !.value = n]
            r == DefineObject(obj, LengthName, longer)
<1>1. /\ old \in Fields /\ old.get = None /\ old.set = None
      /\ old.writable = TRUE /\ old.enumerable = FALSE
      /\ old.configurable = FALSE
  BY LengthOfArray, StoredIsSome DEF IsLength
<1>. HIDE DEF old
<1>2. /\ longer \in Fields /\ longer.value = n /\ longer.writable = TRUE
      /\ longer.get = None /\ longer.set = None
      /\ longer.enumerable = FALSE /\ longer.configurable = FALSE
  BY <1>1, NamesAssumption DEF Fields
<1>. HIDE DEF longer
<1>3. longer = LengthOf(n, TRUE)
  BY <1>2 DEF Fields, LengthOf
<1>4. /\ longer.value = n /\ longer.writable = TRUE /\ longer.get = None
      /\ longer.set = None /\ longer.enumerable = FALSE
      /\ longer.configurable = FALSE
  BY <1>3 DEF LengthOf
<1>5. IsLength(longer)
  BY <1>3, <1>4, LengthsAre
<1>6. LengthAsked(longer) /\ ~Enumerable(longer) /\ ~Configurable(longer)
  BY <1>4, <1>5, NoneAssumption DEF LengthAsked, IsLength, IsStored,
     IsDescriptor, IsAccessor, Enumerable, Configurable, SomeOr
<1>7. n # None /\ TRUE # None
  BY NamesAssumption, NoneAssumption
<1>8. /\ SomeOr(longer.value, old.value) = n
      /\ SomeOr(longer.writable, old.writable) = TRUE
  BY <1>4, <1>7 DEF SomeOr
<1>9. old.writable = TRUE
  BY DEF old
<1>10. /\ IsArray(r.obj) /\ Keeps(obj, r.obj)
       /\ r.ok <=> /\ ~Enumerable(longer) /\ ~Configurable(longer)
                   /\ \/ old.writable
                      \/ /\ SomeOr(longer.value, old.value) = old.value
                         /\ SomeOr(longer.writable, old.writable) = old.writable
       /\ r.obj = IF r.ok THEN With(obj, LengthName,
                                    LengthOf(SomeOr(longer.value, old.value),
                                       SomeOr(longer.writable, old.writable)))
                          ELSE obj
  BY <1>6, LengthDefinition DEF old
<1>. HIDE DEF r
<1>11. r.ok
  BY <1>6, <1>9, <1>10
<1>12. r.obj = With(obj, LengthName, LengthOf(n, TRUE))
  BY <1>8, <1>10, <1>11
<1>13. With(obj, LengthName, longer) = [obj EXCEPT !.props[LengthName].value = n]
  BY DEF With, longer, old
<1>. QED BY <1>3, <1>10, <1>12, <1>13 DEF r, longer, old

(* Defining an element does what 15.4.5.1 asks for, and keeps an array.    *)
LEMMA SetElementEffect ==
  ASSUME NEW obj, IsArray(obj), NEW i \in Indices, NEW d, IsDescriptor(d)
  PROVE  LET r == SetElement(obj, i, d) IN
           /\ r = SpecifiedElement(obj, i, d)
           /\ IsArray(r.obj) /\ Keeps(obj, r.obj) /\ r.ok \in BOOLEAN
           /\ r.obj.extensible = obj.extensible
           /\ r.ok <=> /\ DefineObject(obj, i, d).ok
                       /\ i < Length(obj) \/ Writable(obj.props[LengthName])
           /\ ~r.ok => r.obj = obj
           /\ r.ok => /\ r.obj.props[i] = Asked(obj.props[i], d)
                      /\ Length(r.obj) = IF i >= Length(obj) THEN i + 1
                                         ELSE Length(obj)
                      /\ i < Length(obj) =>
                           r.obj.props[LengthName] = obj.props[LengthName]
                      /\ \A q \in Names \ {i, LengthName} :
                           r.obj.props[q] = obj.props[q]
<1>. DEFINE old == obj.props[LengthName]
            first == DefineObject(obj, i, d)
            a == Asked(obj.props[i], d)
            longer == [old EXCEPT !.value = i + 1]
            r == SetElement(obj, i, d)
            s == SpecifiedElement(obj, i, d)
<1>1. /\ IsLength(old) /\ old # None /\ old.value \in Lengths
      /\ old.writable \in BOOLEAN /\ Writable(old) = old.writable
      /\ old = LengthOf(old.value, old.writable) /\ old.value # None
      /\ old.get = None /\ old.set = None /\ old.enumerable = FALSE
      /\ old.configurable = FALSE /\ old \in Fields
  BY LengthOfArray, StoredIsSome DEF IsLength
<1>2. /\ i \in Names /\ i \in Nat /\ i # LengthName /\ LengthName \in Names
      /\ old.value \in Nat /\ i + 1 \in Lengths
  BY <1>1, IndicesAreNumbers, NamesAssumption DEF Indices, Lengths
<1>3. IsObject(obj) /\ i \in DOMAIN obj.props
  BY <1>2 DEF IsArray, IsObject, Has
<1>4. /\ first = Specified(obj, i, d)
      /\ first = [ok |-> first.ok, obj |-> first.obj] /\ first.ok \in BOOLEAN
      /\ first.obj = IF first.ok THEN With(obj, i, a) ELSE obj
      /\ first.ok => Slot(i, a)
      /\ IsArray(first.obj) /\ Keeps(obj, first.obj)
  BY <1>2, <1>3, DefineEffect, DefineObjectAsSpecified DEF Fits
<1>5. r = IF ~first.ok \/ (i >= old.value /\ ~Writable(old))
            THEN [ok |-> FALSE, obj |-> obj]
          ELSE IF i >= old.value
            THEN [ok |-> TRUE,
                  obj |-> DefineObject(first.obj, LengthName, longer).obj]
          ELSE DefineObject(first.obj, i, d)
  BY DEF SetElement
<1>6. s = IF ~first.ok \/ (i >= old.value /\ ~Writable(old))
            THEN [ok |-> FALSE, obj |-> obj]
            ELSE [ok |-> TRUE,
                  obj |-> IF i < old.value THEN first.obj ELSE
                    [first.obj EXCEPT !.props[LengthName].value = i + 1]]
  BY <1>4 DEF SpecifiedElement
<1>. HIDE DEF first, old, a, r, s
<1>7. first.ok => /\ first.obj.extensible = obj.extensible
                  /\ first.obj.props[LengthName] = old
                  /\ first.obj.props[i] = a /\ Has(first.obj, i)
                  /\ \A q \in Names \ {i} : first.obj.props[q] = obj.props[q]
  <2>1. SUFFICES ASSUME first.ok PROVE
             /\ first.obj.extensible = obj.extensible
             /\ first.obj.props = [q \in Names |-> IF q = i THEN a ELSE obj.props[q]]
             /\ a # None
    BY <1>2 DEF Has, old
  <2>2. Slot(i, a) /\ first.obj = With(obj, i, a)
    BY <1>4, <2>1
  <2>3. a # None
    <3>1. IsStored(a)
      BY <1>2, ArraySlots, AskedIsStored DEF Slot, a
    <3>. QED BY <3>1, StoredIsSome
  <2>. QED BY <1>2, <2>2, <2>3, WithSlot
<1>8. CASE ~first.ok \/ (i >= old.value /\ ~Writable(old))
  <2>1. r = [ok |-> FALSE, obj |-> obj] /\ s = r
    BY <1>5, <1>6, <1>8
  <2>2. ~(first.ok /\ (i < Length(obj) \/ Writable(obj.props[LengthName])))
    BY <1>2, <1>8 DEF Length, old
  <2>. QED BY <2>1, <2>2, KeepsItself DEF r, s, first
<1>9. CASE first.ok /\ i >= old.value /\ Writable(old)
  <2>. DEFINE last == DefineObject(first.obj, LengthName, longer)
              e == LengthOf(i + 1, TRUE)
  <2>1. first.obj.props[LengthName] = old /\ old.writable = TRUE
    BY <1>1, <1>7, <1>9
  <2>2. /\ IsArray(last.obj) /\ Keeps(first.obj, last.obj)
        /\ last.obj = With(first.obj, LengthName, e)
        /\ last.obj = [first.obj EXCEPT !.props[LengthName].value = i + 1]
    <3>1. first.obj.props[LengthName].writable = TRUE
      BY <2>1
    <3>. DEFINE l == [first.obj.props[LengthName] EXCEPT !.value = i + 1]
                t == DefineObject(first.obj, LengthName, l)
    <3>2. /\ IsArray(t.obj) /\ Keeps(first.obj, t.obj)
          /\ t.obj = With(first.obj, LengthName, e)
          /\ t.obj = [first.obj EXCEPT !.props[LengthName].value = i + 1]
      BY <1>2, <1>4, <3>1, LongerLength
    <3>3. l = longer
      BY <2>1
    <3>. QED BY <3>2, <3>3
  <2>3. r = [ok |-> TRUE, obj |-> last.obj]
    BY <1>5, <1>9
  <2>. HIDE DEF last
  <2>4. ~(i < old.value)
    BY <1>2, <1>9
  <2>5. s = r
    BY <1>6, <1>9, <2>2, <2>3, <2>4
  <2>6. /\ last.obj.extensible = first.obj.extensible /\ Length(last.obj) = i + 1
        /\ \A q \in Names : q # LengthName => last.obj.props[q] = first.obj.props[q]
    <3>. DEFINE new == With(first.obj, LengthName, e)
    <3>1. /\ new.extensible = first.obj.extensible /\ Length(new) = i + 1
          /\ \A q \in Names : q # LengthName => new.props[q] = first.obj.props[q]
      BY <1>2, <1>4, WithLength
    <3>. QED BY <2>2, <3>1
  <2>7. Keeps(obj, last.obj)
    BY <1>4, <2>2, KeepsIsTransitive
  <2>8. r.ok = TRUE /\ r.obj = last.obj
    BY <2>3
  <2>9. /\ last.obj.extensible = obj.extensible /\ last.obj.props[i] = a
        /\ \A q \in Names \ {i, LengthName} : last.obj.props[q] = obj.props[q]
    BY <1>2, <1>7, <1>9, <2>6
  <2>10. Length(obj) = old.value /\ ~(i < Length(obj)) /\ i >= Length(obj)
    BY <1>2, <1>9, <2>4 DEF Length, old
  <2>. HIDE DEF r, s
  <2>. QED BY <1>9, <2>2, <2>5, <2>6, <2>7, <2>8, <2>9, <2>10
         DEF r, s, first, a, old
<1>10. CASE first.ok /\ i < old.value
  <2>. DEFINE again == DefineObject(first.obj, i, d)
  <2>1. Asked(a, d) = a
    BY <1>2, ArraySlots, AskedTwice DEF Slot, a
  <2>2. /\ again = [ok |-> again.ok, obj |-> again.obj] /\ again.ok \in BOOLEAN
        /\ again.ok <=> MayBecome(a, Asked(a, d))
        /\ again.obj = IF again.ok THEN With(first.obj, i, a) ELSE first.obj
    BY <1>2, <1>4, <1>7, <1>10, <2>1, DefineEffect DEF Fits
  <2>3. With(first.obj, i, a) = first.obj
    <3>1. first.obj \in [props : [Names -> Fields \cup {None}], extensible : BOOLEAN]
      BY <1>4 DEF IsArray
    <3>. QED BY <1>7, <1>10, <3>1 DEF With
  <2>. HIDE DEF again
  <2>4. again = [ok |-> TRUE, obj |-> first.obj]
    BY <2>1, <2>2, <2>3 DEF MayBecome
  <2>5. r = again
    BY <1>2, <1>5, <1>10 DEF again
  <2>7. s = r
    BY <1>2, <1>6, <1>10, <2>4, <2>5
  <2>. QED BY <1>2, <1>4, <1>7, <1>10, <2>4, <2>5, <2>7
         DEF Length, r, s, first, a, old
<1>. QED BY <1>1, <1>2, <1>8, <1>9, <1>10

-----------------------------------------------------------------------------
(* Cutting the elements and writing the length come in either order, and   *)
(* the length written last counts.                                         *)
LEMMA CutThenWrite ==
  ASSUME NEW obj, IsArray(obj), NEW n \in Nat, NEW a, IsLength(a),
         NEW b, IsLength(b)
  PROVE  LET o == With(obj, LengthName, a) IN
           /\ Cut(o, n) = With(Cut(obj, n), LengthName, a)
           /\ With(Cut(o, n), LengthName, b) = With(Cut(obj, n), LengthName, b)
<1>1. Slot(LengthName, a) /\ Slot(LengthName, b)
  BY DEF Slot, IsLength
<1>. DEFINE o == With(obj, LengthName, a)
            c == Cut(obj, n)
            oc == Cut(o, n)
            ca == With(c, LengthName, a)
            ocb == With(oc, LengthName, b)
            cb == With(c, LengthName, b)
<1>2. /\ IsArray(o) /\ o.extensible = obj.extensible
      /\ o.props = [q \in Names |-> IF q = LengthName THEN a ELSE obj.props[q]]
  BY <1>1, WithSlot, IndicesAreNumbers
<1>3. /\ IsArray(c) /\ c.extensible = obj.extensible
      /\ \A p \in Names : c.props[p] =
           IF p \in Indices /\ p >= n THEN None ELSE obj.props[p]
  BY CutEffect
<1>. HIDE DEF o, c
<1>4. /\ IsArray(oc) /\ oc.extensible = obj.extensible
      /\ \A p \in Names : oc.props[p] =
           IF p \in Indices /\ p >= n THEN None ELSE o.props[p]
  BY <1>2, CutEffect
<1>5. /\ IsArray(ca) /\ ca.extensible = obj.extensible
      /\ ca.props = [q \in Names |-> IF q = LengthName THEN a ELSE c.props[q]]
  BY <1>1, <1>3, WithSlot, IndicesAreNumbers
<1>6. /\ IsArray(cb) /\ cb.extensible = obj.extensible
      /\ cb.props = [q \in Names |-> IF q = LengthName THEN b ELSE c.props[q]]
  BY <1>1, <1>3, WithSlot, IndicesAreNumbers
<1>. HIDE DEF oc
<1>7. /\ IsArray(ocb) /\ ocb.extensible = obj.extensible
      /\ ocb.props = [q \in Names |-> IF q = LengthName THEN b ELSE oc.props[q]]
  BY <1>1, <1>4, WithSlot, IndicesAreNumbers
<1>. HIDE DEF ca, cb, ocb
<1>8. \A p \in Names : oc.props[p] = ca.props[p]
  BY <1>2, <1>3, <1>4, <1>5, IndicesAreNumbers
<1>9. \A p \in Names : ocb.props[p] = cb.props[p]
  BY <1>2, <1>3, <1>4, <1>6, <1>7, IndicesAreNumbers
<1>10. oc = ca
  BY <1>4, <1>5, <1>8, SameObject
<1>11. ocb = cb
  BY <1>6, <1>7, <1>9, SameObject
<1>. QED BY <1>10, <1>11 DEF o, c, oc, ca, cb, ocb

(* What setting the length comes to: refused, or the elements are cut down *)
(* to the number asked for or above the last one that stays.               *)
LengthAllowed(obj, d) ==
  LET cur == obj.props[LengthName] IN
    /\ ~Enumerable(d) /\ ~Configurable(d)
    /\ \/ cur.writable
       \/ d.value = cur.value /\ SomeOr(d.writable, cur.writable) = cur.writable

EndOf(obj, new) ==
  IF StuckFrom(obj, new) = {} THEN new ELSE Max(StuckFrom(obj, new)) + 1

LengthSet(obj, d) ==
  LET w == SomeOr(d.writable, obj.props[LengthName].writable)
      end == EndOf(obj, d.value)
  IN  IF ~LengthAllowed(obj, d) THEN [ok |-> FALSE, obj |-> obj]
      ELSE IF d.value >= Length(obj)
        THEN [ok |-> TRUE, obj |-> With(obj, LengthName, LengthOf(d.value, w))]
      ELSE [ok |-> StuckFrom(obj, d.value) = {},
            obj |-> With(Cut(obj, end), LengthName, LengthOf(end, w))]

(* The end is a length above every element that stays.                     *)
LEMMA EndIsLength ==
  ASSUME NEW obj, IsArray(obj), NEW new \in Lengths
  PROVE  /\ EndOf(obj, new) \in Lengths /\ EndOf(obj, new) >= new
         /\ \A s \in StuckFrom(obj, new) :
              (\A j \in StuckFrom(obj, new) : j <= s) => EndOf(obj, new) = s + 1
<1>. DEFINE S == StuckFrom(obj, new)
<1>1. new \in Nat /\ \A j \in S : j \in Nat /\ j + 1 \in Lengths /\ j >= new
  BY IndicesAreNumbers, NamesAssumption
    DEF StuckFrom, OwnIndices, Indices, Lengths
<1>2. ASSUME NEW s \in S, \A j \in S : j <= s PROVE Max(S) = s
  <2>1. \A j \in S : s >= j
    BY <1>1, <1>2
  <2>2. Max(S) \in S /\ \A j \in S : Max(S) >= j
    BY <2>1 DEF Max
  <2>. HIDE DEF S
  <2>. QED BY <1>1, <2>1, <2>2
<1>3. S = {} \/ \E s \in S : \A j \in S : j <= s
  BY ShrinkEffect
<1>. HIDE DEF S
<1>4. ASSUME NEW s \in S, \A j \in S : j <= s PROVE EndOf(obj, new) = s + 1
  BY <1>2, <1>4 DEF EndOf, S
<1>5. CASE S = {}
  BY <1>1, <1>5 DEF EndOf, S
<1>6. CASE S # {}
  <2>1. PICK s \in S : \A j \in S : j <= s
    BY <1>3, <1>6
  <2>. QED BY <1>1, <1>4, <2>1 DEF S
<1>. QED BY <1>5, <1>6

(* A definition of the length of a writable array is only refused for the  *)
(* other flags it asks for.                                                *)
LEMMA WritableLength ==
  ASSUME NEW obj, IsArray(obj), NEW d, LengthAsked(d), NEW v \in Lengths,
         d.value = v, ~Enumerable(d), ~Configurable(d),
         obj.props[LengthName].writable = TRUE
  PROVE  LET r == DefineObject(obj, LengthName, d)
             w == IF d.writable = None THEN TRUE ELSE d.writable
         IN  /\ r = [ok |-> TRUE, obj |-> With(obj, LengthName, LengthOf(v, w))]
             /\ r = Specified(obj, LengthName, d)
<1>. DEFINE cur == obj.props[LengthName]
            w == SomeOr(d.writable, cur.writable)
            r == DefineObject(obj, LengthName, d)
<1>1. v # None
  BY NamesAssumption, NoneAssumption
<1>2. SomeOr(d.value, cur.value) = v
  BY <1>1 DEF SomeOr
<1>3. /\ r = Specified(obj, LengthName, d) /\ r = [ok |-> r.ok, obj |-> r.obj]
      /\ r.ok \in BOOLEAN
      /\ r.ok <=> /\ ~Enumerable(d) /\ ~Configurable(d)
                  /\ cur.writable \/ (v = cur.value /\ w = cur.writable)
      /\ r.obj = IF r.ok THEN With(obj, LengthName, LengthOf(v, w)) ELSE obj
  BY <1>2, LengthDefinition
<1>4. w = IF d.writable = None THEN TRUE ELSE d.writable
  BY DEF SomeOr
<1>5. cur.writable = TRUE
  OBVIOUS
<1>. HIDE DEF r, w, cur
<1>6. r.ok = TRUE
  BY <1>3, <1>5
<1>. QED BY <1>3, <1>4, <1>6 DEF r

(* 15.4.5.1 as stated is LengthSet. *)
LEMMA SpecifiedIsLengthSet ==
  ASSUME NEW obj, IsArray(obj), NEW d, LengthAsked(d), d.value \in Lengths
  PROVE  SpecifiedLength(obj, d) = LengthSet(obj, d)
<1>. DEFINE cur == obj.props[LengthName]
            new == d.value
            w == SomeOr(d.writable, cur.writable)
            one == Specified(obj, LengthName, d)
            end == EndOf(obj, new)
            last == [d EXCEPT !.value = end]
            cut == Cut(obj, end)
            s == SpecifiedLength(obj, d)
<1>1. /\ cur.value \in Lengths /\ cur.writable \in BOOLEAN /\ new # None
      /\ cur.value \in Nat /\ new \in Nat /\ end \in Lengths /\ end \in Nat
  BY LengthOfArray, EndIsLength, IndicesAreNumbers, NamesAssumption, NoneAssumption
<1>2. /\ one = [ok |-> one.ok, obj |-> one.obj] /\ one.ok \in BOOLEAN
      /\ one.ok <=> LengthAllowed(obj, d)
      /\ one.obj = IF one.ok THEN With(obj, LengthName, LengthOf(new, w)) ELSE obj
  <2>1. SomeOr(d.value, cur.value) = new
    BY <1>1 DEF SomeOr
  <2>. QED BY <2>1, LengthDefinition DEF LengthAllowed
<1>3. s = IF new >= cur.value THEN one
          ELSE IF ~one.ok THEN [ok |-> FALSE, obj |-> obj]
          ELSE [ok |-> StuckFrom(obj, new) = {},
                obj |-> Specified(cut, LengthName, last).obj]
  BY DEF SpecifiedLength, EndOf
<1>. HIDE DEF one, s
<1>4. CASE ~one.ok
  BY <1>2, <1>3, <1>4 DEF LengthSet, s
<1>5. CASE one.ok /\ new >= cur.value
  BY <1>2, <1>3, <1>5 DEF LengthSet, Length, s
<1>6. CASE one.ok /\ ~(new >= cur.value)
  <2>1. ~Enumerable(d) /\ ~Configurable(d) /\ cur.writable = TRUE
    BY <1>1, <1>2, <1>6 DEF LengthAllowed
  <2>2. d.writable \in BOOLEAN \cup {None}
    BY DEF LengthAsked, IsDescriptor, Fields
  <2>3. last = [d EXCEPT !.value = end, !.writable = d.writable]
    BY DEF LengthAsked, IsDescriptor, Fields
  <2>. HIDE DEF end
  <2>4. /\ LengthAsked(last) /\ last.value = end /\ last.writable = d.writable
        /\ Enumerable(last) = Enumerable(d)
        /\ Configurable(last) = Configurable(d)
    <3>. DEFINE e == [d EXCEPT !.value = end, !.writable = d.writable]
    <3>1. /\ LengthAsked(e) /\ e.value = end /\ e.writable = d.writable
          /\ Enumerable(e) = Enumerable(d)
          /\ Configurable(e) = Configurable(d)
      <4>1. end \in Lengths
        BY <1>1
      <4>. QED BY <2>2, <4>1, WithValueAsked, Zenon
    <3>. QED BY <2>3, <3>1
  <2>5. IsArray(cut) /\ cut.props[LengthName] = cur
    BY <1>1, CutLength
  <2>. HIDE DEF last, cut, cur
  <2>6. w = IF last.writable = None THEN TRUE ELSE last.writable
    BY <2>1, <2>4 DEF SomeOr
  <2>. HIDE DEF w
  <2>7. Specified(cut, LengthName, last)
          = [ok |-> TRUE, obj |-> With(cut, LengthName, LengthOf(end, w))]
    <3>. DEFINE t == DefineObject(cut, LengthName, last)
                x == IF last.writable = None THEN TRUE ELSE last.writable
    <3>1. t = [ok |-> TRUE, obj |-> With(cut, LengthName, LengthOf(end, x))]
          /\ t = Specified(cut, LengthName, last)
      <4>1. cut.props[LengthName].writable = TRUE
        BY <2>1, <2>5
      <4>2. ~Enumerable(last) /\ ~Configurable(last)
        BY <2>1, <2>4
      <4>3. IsArray(cut) /\ LengthAsked(last) /\ last.value = end /\ end \in Lengths
        BY <1>1, <2>4, <2>5
      <4>. QED BY <4>1, <4>2, <4>3, WritableLength
    <3>. QED BY <2>6, <3>1
  <2>8. s = [ok |-> StuckFrom(obj, new) = {},
             obj |-> With(cut, LengthName, LengthOf(end, w))]
    BY <1>3, <1>6, <2>7
  <2>. QED BY <1>2, <1>6, <2>8 DEF LengthSet, Length, s, cut, end, w, cur
<1>. QED BY <1>4, <1>5, <1>6

(* Setting the length in the code is LengthSet, too. *)
LEMMA SetLengthIsLengthSet ==
  ASSUME NEW obj, IsArray(obj), NEW d, LengthAsked(d), d.value \in Lengths
  PROVE  SetLength(obj, d, obj.props[LengthName], d.value) = LengthSet(obj, d)
<1>. DEFINE cur == obj.props[LengthName]
            new == d.value
            w == SomeOr(d.writable, cur.writable)
            end == EndOf(obj, new)
            lower == new < cur.value
            readOnly == lower /\ d.writable = FALSE
            ww == IF readOnly THEN TRUE ELSE d.writable
            fw == IF readOnly THEN FALSE ELSE d.writable
            wanted == [d EXCEPT !.value = new, !.writable = ww]
            set == DefineObject(obj, LengthName, wanted)
            shrunk == Shrink(set.obj, new)
            final == [d EXCEPT !.value = shrunk.stuck + 1, !.writable = fw]
            ro == [NoFields EXCEPT !.writable = FALSE]
            r == SetLength(obj, d, cur, new)
<1>1. r = IF lower /\ ~Writable(cur) THEN [ok |-> FALSE, obj |-> obj]
          ELSE IF ~lower \/ ~set.ok THEN set
          ELSE IF ~shrunk.ok
            THEN [ok |-> FALSE,
                  obj |-> DefineObject(shrunk.obj, LengthName, final).obj]
          ELSE IF readOnly
            THEN [ok |-> TRUE,
                  obj |-> DefineObject(shrunk.obj, LengthName, ro).obj]
          ELSE [ok |-> TRUE, obj |-> shrunk.obj]
  BY DEF SetLength
<1>2. /\ cur.value \in Lengths /\ cur.writable \in BOOLEAN /\ new # None
      /\ cur.value \in Nat /\ new \in Nat /\ end \in Lengths /\ end \in Nat
      /\ Writable(cur) = cur.writable
  BY LengthOfArray, EndIsLength, IndicesAreNumbers, NamesAssumption, NoneAssumption
<1>3. d.writable \in BOOLEAN \cup {None}
  BY DEF LengthAsked, IsDescriptor, Fields
<1>4. ww \in BOOLEAN \cup {None} /\ fw \in BOOLEAN \cup {None}
  BY <1>3
<1>. HIDE DEF ww, fw, r, cur
<1>5. /\ LengthAsked(wanted) /\ wanted.value = new /\ wanted.writable = ww
      /\ Enumerable(wanted) = Enumerable(d)
      /\ Configurable(wanted) = Configurable(d)
  BY <1>4, WithValueAsked
<1>. HIDE DEF wanted
<1>6. /\ set = [ok |-> set.ok, obj |-> set.obj] /\ set.ok \in BOOLEAN
      /\ set.ok <=> /\ ~Enumerable(d) /\ ~Configurable(d)
                    /\ \/ cur.writable
                       \/ /\ new = cur.value
                          /\ SomeOr(ww, cur.writable) = cur.writable
      /\ set.obj = IF set.ok THEN With(obj, LengthName,
                        LengthOf(new, SomeOr(ww, cur.writable))) ELSE obj
  <2>1. SomeOr(wanted.value, cur.value) = new
    BY <1>2, <1>5 DEF SomeOr
  <2>. QED BY <1>5, <2>1, LengthDefinition DEF cur
<1>. HIDE DEF set
<1>7. CASE ~lower
  <2>1. ww = d.writable /\ new >= cur.value
    BY <1>2, <1>7 DEF ww
  <2>2. r = set
    BY <1>1, <1>7
  <2>. QED BY <1>6, <2>1, <2>2 DEF LengthSet, LengthAllowed, Length, r, cur
<1>8. CASE lower /\ (~cur.writable \/ ~set.ok)
  <2>1. ~LengthAllowed(obj, d)
    BY <1>2, <1>6, <1>8 DEF LengthAllowed, cur
  <2>2. r = [ok |-> FALSE, obj |-> obj]
    BY <1>1, <1>2, <1>6, <1>8
  <2>. QED BY <2>1, <2>2 DEF LengthSet, r, cur
<1>9. CASE lower /\ cur.writable /\ set.ok
  <2>. DEFINE stuck == StuckFrom(obj, new)
              o == With(obj, LengthName, LengthOf(new, TRUE))
  <2>1. LengthAllowed(obj, d) /\ ~(new >= cur.value)
    BY <1>2, <1>6, <1>9 DEF LengthAllowed, cur
  <2>2. LengthSet(obj, d) = [ok |-> stuck = {},
                             obj |-> With(Cut(obj, end), LengthName, LengthOf(end, w))]
    BY <2>1 DEF LengthSet, Length, cur
  <2>3. cur.writable = TRUE /\ SomeOr(ww, cur.writable) = TRUE
    BY <1>2, <1>3, <1>9, NoneAssumption DEF ww, SomeOr
  <2>4. set.obj = o
    BY <1>6, <1>9, <2>3
  <2>5. /\ IsArray(o) /\ o.props[LengthName] = LengthOf(new, TRUE)
        /\ \A q \in Names : q # LengthName => o.props[q] = obj.props[q]
    BY WithLength
  <2>. HIDE DEF o
  <2>6. StuckFrom(o, new) = stuck
    <3>1. \A i \in Indices : o.props[i] = obj.props[i]
      BY <2>5, IndicesAreNumbers
    <3>2. OwnIndices(o) = OwnIndices(obj)
      BY <3>1 DEF OwnIndices, Has
    <3>. QED BY <3>1, <3>2 DEF StuckFrom, OwnIndices
  <2>7. /\ shrunk.ok <=> stuck = {}
        /\ shrunk.ok => shrunk.obj = Cut(o, new)
        /\ ~shrunk.ok => /\ shrunk.stuck \in stuck
                         /\ \A j \in stuck : j <= shrunk.stuck
                         /\ shrunk.obj = Cut(o, shrunk.stuck + 1)
    BY <2>4, <2>5, <2>6, ShrinkEffect
  <2>. HIDE DEF shrunk
  <2>8. /\ shrunk.ok => end = new
        /\ ~shrunk.ok => end = shrunk.stuck + 1
    <3>1. \A j \in stuck : j \in Nat
      BY IndicesAreNumbers DEF StuckFrom, OwnIndices
    <3>2. stuck = {} => end = new
      BY DEF EndOf
    <3>3. \A s \in stuck : (\A j \in stuck : j <= s) => end = s + 1
      BY EndIsLength
    <3>. HIDE DEF stuck, end
    <3>. QED BY <2>7, <3>1, <3>2, <3>3
  <2>. HIDE DEF end
  <2>9. shrunk.obj = Cut(o, end)
    BY <2>7, <2>8
  <2>10. /\ IsArray(Cut(o, end))
         /\ Cut(o, end).props[LengthName] = LengthOf(new, TRUE)
    <3>1. IsArray(Cut(o, end)) /\ Cut(o, end).props[LengthName] = o.props[LengthName]
      BY <1>2, <2>5, CutLength
    <3>. QED BY <2>5, <3>1
  <2>11. /\ Cut(o, end).props[LengthName].writable = TRUE
         /\ Cut(o, end).props[LengthName].value = new
    BY <2>10 DEF LengthOf
  <2>12. /\ Cut(o, end) = With(Cut(obj, end), LengthName, LengthOf(new, TRUE))
         /\ \A v \in Lengths, x \in BOOLEAN :
              With(Cut(o, end), LengthName, LengthOf(v, x))
                = With(Cut(obj, end), LengthName, LengthOf(v, x))
    <3>1. \A v \in Lengths, x \in BOOLEAN : IsLength(LengthOf(v, x))
      BY LengthsAre DEF LengthOf
    <3>2. \A a, b : IsLength(a) /\ IsLength(b) =>
            /\ Cut(With(obj, LengthName, a), end)
                 = With(Cut(obj, end), LengthName, a)
            /\ With(Cut(With(obj, LengthName, a), end), LengthName, b)
                 = With(Cut(obj, end), LengthName, b)
      BY <1>2, CutThenWrite
    <3>. QED BY <3>1, <3>2 DEF o
  <2>13. ~Enumerable(d) /\ ~Configurable(d)
    BY <1>6, <1>9
  <2>14. CASE ~shrunk.ok
    <3>1. /\ LengthAsked(final) /\ final.value = end /\ final.writable = fw
          /\ Enumerable(final) = Enumerable(d)
          /\ Configurable(final) = Configurable(d)
      <4>. DEFINE e == [d EXCEPT !.value = end, !.writable = fw]
      <4>1. /\ LengthAsked(e) /\ e.value = end /\ e.writable = fw
            /\ Enumerable(e) = Enumerable(d)
            /\ Configurable(e) = Configurable(d)
        <5>1. end \in Lengths /\ fw \in BOOLEAN \cup {None}
          BY <1>2, <1>4
        <5>. QED BY <5>1, WithValueAsked, Zenon
      <4>2. final = e
        BY <2>8, <2>14
      <4>. QED BY <4>1, <4>2
    <3>. HIDE DEF final
    <3>2. w = IF final.writable = None THEN TRUE ELSE final.writable
      BY <1>3, <1>9, <2>3, <3>1, NoneAssumption DEF fw, SomeOr
    <3>3. w \in BOOLEAN
      BY <1>2, <1>3 DEF SomeOr
    <3>. HIDE DEF w
    <3>4. DefineObject(shrunk.obj, LengthName, final).obj
            = With(Cut(o, end), LengthName, LengthOf(end, w))
      <4>. DEFINE c == Cut(o, end)
                  t == DefineObject(c, LengthName, final)
                  x == IF final.writable = None THEN TRUE ELSE final.writable
      <4>. HIDE DEF c
      <4>1. c.props[LengthName].writable = TRUE /\ IsArray(c)
        BY <2>10, <2>11 DEF c
      <4>2. ~Enumerable(final) /\ ~Configurable(final)
        BY <2>13, <3>1
      <4>3. LengthAsked(final) /\ final.value = end /\ end \in Lengths
        BY <1>2, <3>1
      <4>4. t = [ok |-> TRUE, obj |-> With(c, LengthName, LengthOf(end, x))]
        BY <4>1, <4>2, <4>3, WritableLength
      <4>. QED BY <2>9, <3>2, <4>4 DEF c
    <3>5. r = [ok |-> FALSE, obj |-> With(Cut(obj, end), LengthName, LengthOf(end, w))]
      BY <1>1, <1>2, <1>9, <2>3, <2>12, <2>14, <3>3, <3>4 DEF final
    <3>. QED BY <2>2, <2>7, <2>14, <3>5 DEF r, cur
  <2>15. CASE shrunk.ok /\ readOnly
    <3>1. /\ LengthAsked(ro) /\ ro.value = None /\ ro.writable = FALSE
          /\ ~Enumerable(ro) /\ ~Configurable(ro)
      BY ReadOnlyAsked
    <3>2. w = FALSE
      BY <2>15, NoneAssumption DEF SomeOr
    <3>. DEFINE c == Cut(o, end)
                t == DefineObject(c, LengthName, ro)
    <3>. HIDE DEF ro, c
    <3>3. t.obj = With(c, LengthName, LengthOf(end, FALSE))
      <4>1. SomeOr(ro.value, c.props[LengthName].value) = end
        BY <2>8, <2>11, <2>15, <3>1 DEF SomeOr, c
      <4>2. SomeOr(ro.writable, c.props[LengthName].writable) = FALSE
        BY <3>1, NoneAssumption DEF SomeOr
      <4>3. IsArray(c) /\ c.props[LengthName].writable = TRUE
        BY <2>10, <2>11 DEF c
      <4>4. /\ t.ok <=> /\ ~Enumerable(ro) /\ ~Configurable(ro)
                        /\ \/ c.props[LengthName].writable
                           \/ /\ SomeOr(ro.value, c.props[LengthName].value)
                                   = c.props[LengthName].value
                              /\ SomeOr(ro.writable, c.props[LengthName].writable)
                                   = c.props[LengthName].writable
            /\ t.obj = IF t.ok THEN With(c, LengthName,
                   LengthOf(SomeOr(ro.value, c.props[LengthName].value),
                            SomeOr(ro.writable, c.props[LengthName].writable)))
                       ELSE c
        BY <3>1, <4>3, LengthDefinition
      <4>. HIDE DEF t
      <4>5. t.ok
        BY <3>1, <4>3, <4>4
      <4>. QED BY <4>1, <4>2, <4>4, <4>5
    <3>4. r = [ok |-> TRUE, obj |-> t.obj]
      BY <1>1, <1>2, <1>9, <2>3, <2>9, <2>15 DEF ro, c
    <3>5. r = [ok |-> TRUE, obj |-> With(Cut(obj, end), LengthName, LengthOf(end, w))]
      BY <1>2, <2>12, <3>2, <3>3, <3>4 DEF c
    <3>. QED BY <2>2, <2>7, <2>15, <3>5 DEF r, cur
  <2>16. CASE shrunk.ok /\ ~readOnly
    <3>1. w = TRUE
      BY <1>3, <1>9, <2>3, <2>16, NoneAssumption DEF SomeOr
    <3>2. end = new
      BY <2>8, <2>16
    <3>3. r = [ok |-> TRUE, obj |-> shrunk.obj]
      BY <1>1, <1>2, <1>9, <2>3, <2>16
    <3>. HIDE DEF w
    <3>4. r = [ok |-> TRUE, obj |-> With(Cut(obj, end), LengthName, LengthOf(end, w))]
      BY <2>9, <2>12, <3>1, <3>2, <3>3
    <3>. QED BY <2>2, <2>7, <2>16, <3>4 DEF r, cur, w
  <2>. QED BY <2>14, <2>15, <2>16
<1>. QED BY <1>2, <1>7, <1>8, <1>9

-----------------------------------------------------------------------------
(* Every index the array holds is below its length. *)
Covers(obj) == \A i \in OwnIndices(obj) : i < Length(obj)

(* Setting the length leaves no element above it. *)
LEMMA LengthSetCovers ==
  ASSUME NEW obj, IsArray(obj), Covers(obj), NEW d, LengthAsked(d),
         d.value \in Lengths
  PROVE  Covers(LengthSet(obj, d).obj)
<1>. DEFINE cur == obj.props[LengthName]
            new == d.value
            w == SomeOr(d.writable, cur.writable)
            end == EndOf(obj, new)
            c == Cut(obj, end)
            s == LengthSet(obj, d)
<1>1. /\ new \in Nat /\ end \in Lengths /\ end \in Nat
      /\ cur.writable \in BOOLEAN /\ Length(obj) \in Nat
  BY LengthOfArray, EndIsLength, IndicesAreNumbers DEF Length
<1>2. w \in BOOLEAN
  BY <1>1 DEF LengthAsked, IsDescriptor, Fields, SomeOr
<1>3. ASSUME NEW o, IsArray(o), NEW v \in Lengths,
             \A i \in OwnIndices(o) : i < v
      PROVE  Covers(With(o, LengthName, LengthOf(v, w)))
  <2>. DEFINE t == With(o, LengthName, LengthOf(v, w))
  <2>1. /\ Length(t) = v
        /\ \A q \in Names : q # LengthName => t.props[q] = o.props[q]
    BY <1>2, <1>3, WithLength
  <2>. HIDE DEF t
  <2>2. OwnIndices(t) = OwnIndices(o)
    BY <2>1, IndicesAreNumbers DEF OwnIndices, Has
  <2>3. Covers(t)
    BY <1>3, <2>1, <2>2 DEF Covers
  <2>. QED BY <2>3 DEF t
<1>4. CASE s.obj = obj
  BY <1>4
<1>5. CASE s.obj = With(obj, LengthName, LengthOf(new, w)) /\ new >= Length(obj)
  <2>1. \A i \in OwnIndices(obj) : i \in Nat /\ i < Length(obj)
    BY IndicesAreNumbers DEF Covers, OwnIndices
  <2>2. \A i \in OwnIndices(obj) : i < new
    BY <1>1, <1>5, <2>1
  <2>. QED BY <1>3, <1>5, <2>2
<1>6. CASE s.obj = With(c, LengthName, LengthOf(end, w))
  <2>1. /\ IsArray(c)
        /\ \A p \in Names : c.props[p] =
             IF p \in Indices /\ p >= end THEN None ELSE obj.props[p]
    BY <1>1, CutEffect
  <2>. HIDE DEF c
  <2>2. \A i \in OwnIndices(c) : i \in Nat /\ i \in Indices /\ ~(i >= end)
    BY <2>1, IndicesAreNumbers DEF OwnIndices, Has
  <2>3. \A i \in OwnIndices(c) : i < end
    BY <1>1, <2>2
  <2>. QED BY <1>1, <1>3, <1>6, <2>1, <2>3
<1>. QED BY <1>4, <1>5, <1>6 DEF LengthSet

(* define_own_property of an array, for every name. *)
LEMMA DefineKeeps ==
  ASSUME NEW obj, IsArray(obj), NEW p \in Names, NEW d, Fits(p, d)
  PROVE  LET r == Define(obj, p, d) IN
           /\ IsArray(r.obj) /\ Keeps(obj, r.obj)
           /\ Covers(obj) => Covers(r.obj)
           /\ r.ok /\ d.value # None =>
                Has(r.obj, p) /\ r.obj.props[p].value = d.value
<1>. DEFINE r == Define(obj, p, d)
            cur == obj.props[p]
            a == Asked(cur, d)
<1>1. /\ IsDescriptor(d) /\ Slot(p, cur) /\ IsLength(obj.props[LengthName])
  BY ArraySlots, IndicesAreNumbers DEF Fits, Slot
<1>2. IsStored(a) /\ a # None
  BY <1>1, AskedIsStored, StoredIsSome DEF Slot
<1>3. d.value # None => ~IsAccessor(d) /\ a.value = d.value
  <2>1. d.value # None => ~IsAccessor(d) /\ ~IsGeneric(d)
    BY <1>1 DEF IsDescriptor, IsData, IsGeneric
  <2>. QED BY <2>1 DEF Asked, SomeOr
<1>. HIDE DEF a
<1>4. CASE p = LengthName /\ d.value # None
  <2>1. LengthAsked(d) /\ d.value \in Lengths
    BY <1>1, <1>3, <1>4 DEF LengthAsked, Fits
  <2>2. r = SetLength(obj, d, obj.props[LengthName], d.value)
    BY <1>4 DEF Define
  <2>3. r = LengthSet(obj, d)
    BY <2>1, <2>2, SetLengthIsLengthSet
  <2>4. Covers(obj) => Covers(r.obj)
    BY <2>1, <2>3, LengthSetCovers
  <2>5. /\ IsArray(r.obj) /\ Keeps(obj, r.obj)
        /\ r.ok => Length(r.obj) = d.value
    BY <1>1, <2>1, <2>2, SetLengthKeeps
  <2>. QED BY <1>4, <2>4, <2>5 DEF IsArray, Length
<1>5. CASE p \in Indices
  <2>1. r = SetElement(obj, p, d)
    BY <1>5, IndicesAreNumbers DEF Define
  <2>2. /\ IsArray(r.obj) /\ Keeps(obj, r.obj)
        /\ ~r.ok => r.obj = obj
        /\ r.ok => /\ r.obj.props[p] = a
                   /\ Length(r.obj) = IF p >= Length(obj) THEN p + 1
                                      ELSE Length(obj)
                   /\ \A q \in Names \ {p, LengthName} :
                        r.obj.props[q] = obj.props[q]
    BY <1>1, <1>5, <2>1, SetElementEffect DEF a
  <2>. HIDE DEF r
  <2>3. ASSUME Covers(obj), r.ok PROVE Covers(r.obj)
    <3>. SUFFICES ASSUME NEW i \in OwnIndices(r.obj) PROVE i < Length(r.obj)
      BY DEF Covers
    <3>1. /\ i \in Indices /\ i \in Names /\ i \in Nat /\ p \in Nat
          /\ i # LengthName /\ Length(obj) \in Nat
      BY <1>1, <1>5, IndicesAreNumbers DEF OwnIndices, Length, IsLength
    <3>2. i # p => i < Length(obj)
      BY <2>2, <2>3, <3>1 DEF OwnIndices, Has, Covers
    <3>. QED BY <2>2, <2>3, <3>1, <3>2
  <2>4. Covers(obj) => Covers(r.obj)
    BY <2>2, <2>3
  <2>. QED BY <1>2, <1>3, <2>2, <2>4 DEF Has, r
<1>6. CASE p \notin Indices /\ ~(p = LengthName /\ d.value # None)
  <2>1. r = DefineObject(obj, p, d)
    BY <1>6 DEF Define
  <2>2. /\ IsArray(r.obj) /\ Keeps(obj, r.obj)
        /\ r.obj = IF r.ok THEN With(obj, p, a) ELSE obj
        /\ r.ok => Slot(p, a)
    BY <2>1, DefineEffect DEF a
  <2>. HIDE DEF r
  <2>3. CASE ~r.ok
    BY <2>2, <2>3 DEF r
  <2>4. CASE r.ok
    <3>. DEFINE t == With(obj, p, a)
    <3>1. t.props = [q \in Names |-> IF q = p THEN a ELSE obj.props[q]]
      BY <2>2, <2>4, WithSlot
    <3>. HIDE DEF t
    <3>2. r.obj = t
      BY <2>2, <2>4 DEF t
    <3>3. t.props[p] = a /\ \A i \in Indices : t.props[i] = obj.props[i]
      BY <1>6, <3>1, IndicesAreNumbers
    <3>4. Length(t) = Length(obj)
      <4>1. CASE p # LengthName
        BY <3>1, <4>1, IndicesAreNumbers DEF Length
      <4>2. CASE p = LengthName
        <5>1. IsLength(a) /\ d.value = None /\ IsLength(cur)
          BY <1>1, <1>6, <2>2, <2>4, <4>2 DEF Slot
        <5>2. a.value # None /\ cur.value # None /\ cur # None
          BY <5>1, StoredIsSome, NamesAssumption, NoneAssumption DEF IsLength
        <5>3. a.value = cur.value
          BY <5>1, <5>2 DEF a, Asked, SomeOr
        <5>. QED BY <3>3, <4>2, <5>3 DEF Length
      <4>. QED BY <4>1, <4>2
    <3>5. OwnIndices(t) = OwnIndices(obj)
      BY <3>3 DEF OwnIndices, Has
    <3>6. Covers(obj) => Covers(t)
      BY <3>4, <3>5 DEF Covers
    <3>. QED BY <1>2, <1>3, <2>2, <3>2, <3>3, <3>6 DEF Has, r
  <2>. QED BY <2>3, <2>4
<1>. QED BY <1>4, <1>5, <1>6

-----------------------------------------------------------------------------
(* The values put may be given. *)
LEMMA ValuesFit ==
  ASSUME NEW p \in Names, NEW v \in Values(p)
  PROVE  /\ v # None /\ Fits(p, ValueOnly(v)) /\ ValueOnly(v).value = v
         /\ Fits(p, SimpleValue(v)) /\ SimpleValue(v).value = v
<1>1. PICK d \in Offers[p] : v = d.value /\ v # None
  BY DEF Values
<1>2. v \in Data /\ (p = LengthName => v \in Lengths)
  BY <1>1, OffersAssumption, NoneAssumption DEF IsDescriptor, Fields
<1>3. IsDescriptor(ValueOnly(v)) /\ ValueOnly(v).value = v
  BY <1>2 DEF ValueOnly, NoFields, IsDescriptor, Fields, IsData, IsAccessor
<1>4. IsDescriptor(SimpleValue(v)) /\ SimpleValue(v).value = v
  BY <1>2 DEF SimpleValue, IsDescriptor, Fields, IsData, IsAccessor
<1>. QED BY <1>1, <1>2, <1>3, <1>4 DEF Fits

(* put leaves an array and takes nothing back; when it stores, the value   *)
(* is there and nothing stood in the way, and when it calls a setter, the  *)
(* array is as it was.                                                     *)
LEMMA PutEffect ==
  ASSUME NEW obj, IsArray(obj), NEW inherited, NEW p \in Names, NEW v \in Values(p)
  PROVE  LET r == Put(obj, inherited, p, v)
             found == Found(obj, inherited, p)
         IN  /\ IsArray(r.obj) /\ Keeps(obj, r.obj)
             /\ Covers(obj) => Covers(r.obj)
             /\ r.how = "stores" =>
                  /\ Has(r.obj, p) /\ r.obj.props[p].value = v
                  /\ found = None \/ Writable(found)
             /\ r.how = "calls" => r.obj = obj /\ IsAccessor(found)
<1>. DEFINE found == Found(obj, inherited, p)
            d == IF Has(obj, p) THEN ValueOnly(v) ELSE SimpleValue(v)
            defined == Define(obj, p, d)
            r == Put(obj, inherited, p, v)
<1>1. Fits(p, d) /\ d.value = v /\ v # None
  BY ValuesFit
<1>2. r = IF ~CanPut(obj, inherited, p) THEN [how |-> "throws", obj |-> obj]
          ELSE IF found # None /\ IsAccessor(found)
            THEN [how |-> "calls", obj |-> obj]
          ELSE [how |-> IF defined.ok THEN "stores" ELSE "throws",
                obj |-> defined.obj]
  BY DEF Put
<1>. HIDE DEF d
<1>3. /\ IsArray(defined.obj) /\ Keeps(obj, defined.obj)
      /\ Covers(obj) => Covers(defined.obj)
      /\ defined.ok => Has(defined.obj, p) /\ defined.obj.props[p].value = v
  BY <1>1, DefineKeeps
<1>. HIDE DEF defined, r, found
<1>4. CanPut(obj, inherited, p) /\ ~(found # None /\ IsAccessor(found))
        => found = None \/ Writable(found)
  BY DEF CanPut, found
<1>5. CASE r = [how |-> "throws", obj |-> obj]
  BY <1>5, KeepsItself DEF r
<1>6. CASE r = [how |-> "calls", obj |-> obj] /\ IsAccessor(found)
  BY <1>6, KeepsItself DEF r, found
<1>7. CASE /\ r = [how |-> IF defined.ok THEN "stores" ELSE "throws",
                   obj |-> defined.obj]
           /\ found = None \/ Writable(found)
  <2>1. r.obj = defined.obj /\ (r.how = "stores" => defined.ok) /\ r.how # "calls"
    BY <1>7
  <2>. QED BY <1>3, <1>7, <2>1 DEF r, found
<1>. QED BY <1>2, <1>4, <1>5, <1>6, <1>7

-----------------------------------------------------------------------------
(* The names, each of them somewhere in the order of freeze and seal.      *)
LEMMA OrderHoldsAll ==
  /\ Len(FixOrder) \in Nat
  /\ \A k \in 1 .. Len(FixOrder) : FixOrder[k] \in Names
  /\ \A p \in Names : \E k \in 1 .. Len(FixOrder) : FixOrder[k] = p
<1>. DEFINE S == Names \ Indices
            n == Cardinality(S)
            f == SetToSeq(S)
            g == [k \in 1 .. MaxLength |-> k - 1]
<1>1. MaxLength \in Nat
  BY NamesAssumption
<1>2. IsFiniteSet(S) /\ n \in Nat
  <2>1. IsFiniteSet(Others \cup {LengthName})
    BY NamesAssumption, FS_AddElement
  <2>2. S \in SUBSET (Others \cup {LengthName})
    BY DEF Names
  <2>3. IsFiniteSet(S)
    BY <2>1, <2>2, FS_Subset
  <2>. QED BY <2>3, FS_CardinalityType
<1>3. f \in [1 .. n -> S] /\ IsInjective(f)
  <2>1. ExistsBijection(1 .. n, S)
    BY <1>2, FS_CardinalityType
  <2>2. \E h \in [1 .. n -> S] : IsInjective(h)
    BY <2>1 DEF ExistsBijection, Bijection, Injection
  <2>. QED BY <2>2 DEF SetToSeq
<1>. HIDE DEF f
<1>4. \A p \in S : \E k \in 1 .. n : f[k] = p
  <2>1. f \in Injection(1 .. n, S)
    BY <1>3 DEF Injection
  <2>2. Cardinality(1 .. n) = n
    <3>1. Cardinality(1 .. n) = IF 1 > n THEN 0 ELSE n - 1 + 1
      BY <1>2, FS_Interval
    <3>. QED BY <1>2, <3>1
  <2>3. f \in Surjection(1 .. n, S)
    BY <1>2, <2>1, <2>2, FS_Injection
  <2>. QED BY <2>3 DEF Surjection
<1>. HIDE DEF n, S
<1>5. /\ f \in Seq(Names) /\ Len(f) = n /\ g \in Seq(Names) /\ Len(g) = MaxLength
      /\ \A k \in 1 .. MaxLength : g[k] = k - 1 /\ k - 1 \in Indices
  <2>1. \A k \in 1 .. MaxLength : k - 1 \in Indices
    BY <1>1 DEF Indices
  <2>2. S \subseteq Names
    BY DEF S
  <2>3. f \in [1 .. n -> Names] /\ g \in [1 .. MaxLength -> Names]
    BY <1>3, <2>1, <2>2, IndicesAreNumbers
  <2>. QED BY <1>1, <1>2, <2>1, <2>3
<1>. HIDE DEF g
<1>6. /\ Len(FixOrder) = MaxLength + n
      /\ \A k \in 1 .. MaxLength + n :
           FixOrder[k] = IF k <= MaxLength THEN g[k] ELSE f[k - MaxLength]
  <2>1. FixOrder = g \o f
    BY DEF FixOrder, f, g, S
  <2>. QED BY <1>1, <1>2, <1>5, <2>1, ConcatProperties
<1>7. ASSUME NEW k \in 1 .. MaxLength + n PROVE FixOrder[k] \in Names
  <2>1. CASE k <= MaxLength
    <3>1. FixOrder[k] = k - 1 /\ k - 1 \in Indices
      BY <1>1, <1>5, <1>6, <2>1
    <3>. QED BY <3>1, IndicesAreNumbers
  <2>2. CASE ~(k <= MaxLength)
    <3>1. k - MaxLength \in 1 .. n
      BY <1>1, <1>2, <2>2
    <3>2. FixOrder[k] = f[k - MaxLength]
      BY <1>6, <2>2
    <3>. QED BY <1>3, <3>1, <3>2 DEF S
  <2>. QED BY <2>1, <2>2
<1>8. ASSUME NEW p \in Names PROVE \E k \in 1 .. MaxLength + n : FixOrder[k] = p
  <2>1. CASE p \in Indices
    <3>1. p + 1 \in 1 .. MaxLength /\ p + 1 - 1 = p
      BY <1>1, <2>1 DEF Indices
    <3>2. p + 1 \in 1 .. MaxLength + n /\ p + 1 <= MaxLength
      BY <1>1, <1>2, <3>1
    <3>3. PICK k \in 1 .. MaxLength + n : k = p + 1
      BY <3>2
    <3>4. k \in 1 .. MaxLength /\ k <= MaxLength /\ k - 1 = p
      BY <1>1, <2>1, <3>1, <3>2, <3>3, IndicesAreNumbers
    <3>5. FixOrder[k] = IF k <= MaxLength THEN g[k] ELSE f[k - MaxLength]
      BY <1>6
    <3>6. g[k] = k - 1
      BY <1>5, <3>4
    <3>. QED BY <3>4, <3>5, <3>6
  <2>2. CASE p \notin Indices
    <3>1. PICK k \in 1 .. n : f[k] = p
      BY <1>4, <2>2 DEF S
    <3>2. /\ k + MaxLength \in 1 .. MaxLength + n /\ ~(k + MaxLength <= MaxLength)
          /\ k + MaxLength - MaxLength = k
      BY <1>1, <1>2
    <3>3. PICK j \in 1 .. MaxLength + n : j = k + MaxLength
      BY <3>2
    <3>4. FixOrder[j] = IF j <= MaxLength THEN g[j] ELSE f[j - MaxLength]
      BY <1>6
    <3>5. ~(j <= MaxLength) /\ j - MaxLength = k
      BY <1>1, <1>2, <3>2, <3>3
    <3>. QED BY <3>1, <3>4, <3>5
  <2>. QED BY <2>1, <2>2
<1>. QED BY <1>1, <1>2, <1>6, <1>7, <1>8

-----------------------------------------------------------------------------
(* The property freeze or seal asks for. *)
Fix(d, readOnly) ==
  [(IF readOnly THEN ReadOnly(d) ELSE d) EXCEPT !.configurable = FALSE]

(* Descriptors with the same fields are the same. *)
LEMMA SameFields ==
  ASSUME NEW a \in Fields, NEW b \in Fields, a.value = b.value, a.get = b.get,
         a.set = b.set, a.writable = b.writable, a.enumerable = b.enumerable,
         a.configurable = b.configurable
  PROVE  a = b
BY DEF Fields

(* It differs from the property at most in its flags. *)
LEMMA FixIsStored ==
  ASSUME NEW cur, IsStored(cur), NEW readOnly \in BOOLEAN
  PROVE  LET d == Fix(cur, readOnly) IN
           /\ IsStored(d) /\ IsDescriptor(d) /\ d.value = cur.value
           /\ Asked(cur, d) = d /\ MayBecome(cur, d)
           /\ IsAccessor(d) = IsAccessor(cur)
           /\ ~Configurable(d) /\ (readOnly => ~Writable(d))
<1>. DEFINE d == Fix(cur, readOnly)
<1>1. cur \in Fields /\ cur.configurable \in BOOLEAN
  BY DEF IsStored
<1>2. /\ d \in Fields /\ d.value = cur.value /\ d.get = cur.get
      /\ d.set = cur.set /\ d.enumerable = cur.enumerable
      /\ d.configurable = FALSE
      /\ d.writable = IF readOnly /\ IsData(cur) THEN FALSE ELSE cur.writable
  BY <1>1 DEF Fix, ReadOnly, Fields
<1>. HIDE DEF d
<1>3. /\ IsData(d) = IsData(cur) /\ IsAccessor(d) = IsAccessor(cur)
      /\ IsData(cur) = ~IsAccessor(cur)
  BY <1>2, NoneAssumption DEF IsStored, IsData, IsAccessor
<1>4. IsStored(d)
  BY <1>2, <1>3 DEF IsStored
<1>5. IsDescriptor(d)
  BY <1>2, <1>3 DEF IsDescriptor
<1>6. Asked(cur, d) = d
  <2>1. IsStored(Asked(cur, d))
    BY <1>5, AskedIsStored
  <2>2. PICK a : a = Asked(cur, d)
    OBVIOUS
  <2>3. /\ a.value = d.value /\ a.get = d.get /\ a.set = d.set
        /\ a.writable = d.writable /\ a.enumerable = d.enumerable
        /\ a.configurable = d.configurable
    BY <1>2, <1>3, <1>4, <2>2, NoneAssumption
      DEF Asked, IsStored, SomeOr, IsData, IsAccessor, IsGeneric
  <2>. QED BY <1>2, <2>1, <2>2, <2>3, SameFields DEF IsStored
<1>7. MayBecome(cur, d)
  <2>1. CASE cur.configurable = TRUE
    BY <2>1, NoneAssumption DEF MayBecome, Configurable, SomeOr
  <2>2. CASE cur.configurable = FALSE /\ d.writable = cur.writable
    <3>1. d = cur
      BY <1>1, <1>2, <2>2, SameFields
    <3>. QED BY <3>1 DEF MayBecome
  <2>3. CASE cur.configurable = FALSE /\ d.writable # cur.writable
    <3>1. IsData(cur) /\ cur.writable = TRUE
      BY <1>2, <2>3 DEF IsStored
    <3>. QED BY <1>2, <2>3, <3>1, NoneAssumption DEF MayBecome, Writable, SomeOr
  <2>. QED BY <1>1, <2>1, <2>2, <2>3
<1>8. ~Configurable(d) /\ (readOnly => ~Writable(d))
  BY <1>2, NoneAssumption DEF Configurable, Writable, SomeOr, IsData, IsStored
<1>. QED BY <1>2, <1>3, <1>4, <1>5, <1>6, <1>7, <1>8 DEF d

(* What one round of freeze or seal does: in an array whose length covers  *)
(* its elements the property is fixed and nothing else changes.            *)
IsFixed(obj, p, readOnly) ==
  Has(obj, p) => /\ ~Configurable(obj.props[p])
                 /\ readOnly => ~Writable(obj.props[p])

(* One property fixed. *)
LEMMA FixedEffect ==
  ASSUME NEW obj, IsArray(obj), NEW p \in Names, Has(obj, p),
         NEW readOnly \in BOOLEAN
  PROVE  LET r == Fixed(obj, p, readOnly) IN
           /\ IsArray(r.obj) /\ Keeps(obj, r.obj)
           /\ Covers(obj) =>
                /\ r.ok /\ Covers(r.obj)
                /\ Has(r.obj, p) /\ r.obj.props[p].value = obj.props[p].value
                /\ IsFixed(r.obj, p, readOnly)
                /\ \A q \in Names \ {p} : r.obj.props[q] = obj.props[q]
<1>. DEFINE cur == obj.props[p]
            d == Fix(cur, readOnly)
            r == Fixed(obj, p, readOnly)
<1>1. cur # None /\ IsStored(cur) /\ Slot(p, cur)
  BY ArraySlots DEF Has, Slot
<1>2. /\ IsStored(d) /\ d # None /\ IsDescriptor(d) /\ d.value = cur.value
      /\ Asked(cur, d) = d /\ MayBecome(cur, d)
      /\ IsAccessor(d) = IsAccessor(cur)
      /\ ~Configurable(d) /\ (readOnly => ~Writable(d))
  BY <1>1, FixIsStored, StoredIsSome
<1>3. CASE ~readOnly /\ ~Configurable(cur)
  <2>1. r = [ok |-> TRUE, obj |-> obj]
    BY <1>3 DEF Fixed
  <2>. QED BY <1>3, <2>1, KeepsItself DEF IsFixed
<1>4. CASE readOnly \/ Configurable(cur)
  <2>1. r = Define(obj, p, d)
    BY <1>4 DEF Fixed, Fix
  <2>. HIDE DEF d
  <2>2. Fits(p, d)
    BY <1>1, <1>2 DEF Fits, Slot, IsLength
  <2>3. IsArray(r.obj) /\ Keeps(obj, r.obj) /\ (Covers(obj) => Covers(r.obj))
    BY <2>1, <2>2, DefineKeeps
  <2>4. ASSUME Covers(obj)
        PROVE  /\ r.ok /\ r.obj.props[p] = d
               /\ \A q \in Names \ {p} : r.obj.props[q] = obj.props[q]
    <3>1. DefineObject(obj, p, d).ok
      BY <1>1, <1>2, <2>2, DefineEffect DEF Has
    <3>2. CASE p \in Indices
      <4>1. r = SetElement(obj, p, d)
        BY <2>1, <3>2, IndicesAreNumbers DEF Define
      <4>2. p < Length(obj) /\ p # LengthName
        BY <2>4, <3>2, IndicesAreNumbers DEF Covers, OwnIndices
      <4>3. /\ r.ok <=> /\ DefineObject(obj, p, d).ok
                        /\ p < Length(obj) \/ Writable(obj.props[LengthName])
            /\ r.ok => /\ r.obj.props[p] = Asked(obj.props[p], d)
                       /\ p < Length(obj) =>
                            r.obj.props[LengthName] = obj.props[LengthName]
                       /\ \A q \in Names \ {p, LengthName} :
                            r.obj.props[q] = obj.props[q]
        BY <1>2, <3>2, <4>1, SetElementEffect
      <4>. QED BY <1>2, <3>1, <4>2, <4>3
    <3>3. CASE p = LengthName
      <4>1. IsLength(cur) /\ cur.value # None
        BY <3>3, LengthOfArray
      <4>2. /\ d.value \in Lengths /\ d.value # None /\ LengthAsked(d)
            /\ d.writable \in BOOLEAN /\ IsData(d)
        <5>1. ~IsAccessor(cur) /\ cur.value \in Lengths
          BY <3>3, LengthOfArray
        <5>2. IsData(d) /\ ~IsAccessor(d)
          BY <1>2, <5>1 DEF IsStored, IsData, IsAccessor
        <5>. QED BY <1>2, <4>1, <5>1, <5>2 DEF LengthAsked, IsStored
      <4>3. r = LengthSet(obj, d)
        BY <2>1, <3>3, <4>2, SetLengthIsLengthSet DEF Define
      <4>4. ~Enumerable(d) /\ d.enumerable = FALSE /\ d.configurable = FALSE
        BY <3>3, <4>1, NoneAssumption, <1>1
          DEF d, Fix, ReadOnly, IsLength, Enumerable, SomeOr, IsStored, Fields
      <4>5. cur.writable = FALSE => d.writable = FALSE
        BY <1>1 DEF d, Fix, ReadOnly, IsStored, Fields
      <4>6. SomeOr(d.writable, cur.writable) = d.writable
        BY <4>2, NoneAssumption DEF SomeOr
      <4>7. LengthAllowed(obj, d)
        BY <1>2, <3>3, <4>1, <4>2, <4>4, <4>5, <4>6, LengthOfArray DEF LengthAllowed
      <4>8. d.value >= Length(obj)
        BY <1>2, <3>3, <4>2, IndicesAreNumbers DEF Length
      <4>9. r = [ok |-> TRUE,
                 obj |-> With(obj, LengthName, LengthOf(d.value, d.writable))]
        BY <3>3, <4>3, <4>6, <4>7, <4>8 DEF LengthSet
      <4>10. LengthOf(d.value, d.writable) = d
        BY <1>2, <4>2, <4>4, LengthsAre DEF IsLength
      <4>. QED BY <3>3, <4>2, <4>9, <4>10, WithLength
    <3>4. CASE p \notin Indices /\ p # LengthName
      <4>1. r = DefineObject(obj, p, d)
        BY <2>1, <3>4 DEF Define
      <4>2. r.obj = With(obj, p, d) /\ Slot(p, d)
        BY <1>2, <2>2, <3>1, <4>1, DefineEffect
      <4>3. With(obj, p, d).props = [q \in Names |-> IF q = p THEN d
                                                     ELSE obj.props[q]]
        BY <4>2, WithSlot
      <4>. HIDE DEF r
      <4>. QED BY <3>1, <4>1, <4>2, <4>3
    <3>. QED BY <3>2, <3>3, <3>4
  <2>. HIDE DEF r
  <2>5. ASSUME Covers(obj)
        PROVE  /\ r.ok /\ Has(r.obj, p) /\ r.obj.props[p].value = cur.value
               /\ IsFixed(r.obj, p, readOnly)
               /\ \A q \in Names \ {p} : r.obj.props[q] = obj.props[q]
    BY <1>2, <2>4, <2>5 DEF Has, IsFixed
  <2>. QED BY <2>3, <2>5 DEF r
<1>. QED BY <1>3, <1>4

(* A round ends with an answer and an object. *)
LEMMA FixedRecord ==
  ASSUME NEW obj, NEW p, NEW readOnly
  PROVE  LET r == Fixed(obj, p, readOnly) IN r = [ok |-> r.ok, obj |-> r.obj]
<1>1. ASSUME NEW o, NEW q, NEW d
      PROVE  LET r == DefineObject(o, q, d) IN r = [ok |-> r.ok, obj |-> r.obj]
  BY DEF DefineObject
<1>2. ASSUME NEW o, NEW d, NEW old, NEW new
      PROVE  LET r == SetLength(o, d, old, new) IN r = [ok |-> r.ok, obj |-> r.obj]
  <2>1. LET wanted == [d EXCEPT !.value = new,
                         !.writable = IF new < old.value /\ d.writable = FALSE
                                      THEN TRUE ELSE d.writable]
            set == DefineObject(o, LengthName, wanted)
            r == SetLength(o, d, old, new)
        IN  r = set \/ \E ok, obj2 : r = [ok |-> ok, obj |-> obj2]
    BY DEF SetLength
  <2>. QED BY <1>1, <2>1
<1>3. ASSUME NEW o, NEW i, NEW d
      PROVE  LET r == SetElement(o, i, d) IN r = [ok |-> r.ok, obj |-> r.obj]
  <2>1. LET first == DefineObject(o, i, d)
            r == SetElement(o, i, d)
        IN  \/ r = DefineObject(first.obj, i, d)
            \/ \E ok, obj2 : r = [ok |-> ok, obj |-> obj2]
    BY DEF SetElement
  <2>. QED BY <1>1, <2>1
<1>4. ASSUME NEW o, NEW q, NEW d
      PROVE  LET r == Define(o, q, d) IN r = [ok |-> r.ok, obj |-> r.obj]
  BY <1>1, <1>2, <1>3 DEF Define
<1>5. PICK d : \/ Fixed(obj, p, readOnly) = Define(obj, p, d)
               \/ Fixed(obj, p, readOnly) = [ok |-> TRUE, obj |-> obj]
  BY DEF Fixed
<1>. QED BY <1>4, <1>5

(* The loop of freeze and seal as a function of the round. *)
LEMMA FixLoop ==
  ASSUME NEW obj, NEW readOnly
  PROVE  \E at :
           /\ at = [k \in 0 .. Len(FixOrder) |->
                 IF k = 0 THEN [ok |-> TRUE, obj |-> obj]
                          ELSE FixNext(at[k - 1], FixOrder[k], readOnly)]
           /\ LET rest == at[Len(FixOrder)] IN
               FixAll(obj, readOnly) =
                 IF rest.ok THEN [rest EXCEPT !.obj.extensible = FALSE] ELSE rest
<1>. DEFINE start == [ok |-> TRUE, obj |-> obj]
            n == Len(FixOrder)
            S == {m \in 0 .. n :
                   \E at : at = [k \in 0 .. m |->
                     IF k = 0 THEN start
                              ELSE FixNext(at[k - 1], FixOrder[k], readOnly)]}
<1>1. n \in Nat
  BY OrderHoldsAll
<1>. HIDE DEF n, start
<1>2. 0 \in S
  <2>. DEFINE at == [k \in 0 .. 0 |-> start]
  <2>1. at = [k \in 0 .. 0 |->
               IF k = 0 THEN start
                        ELSE FixNext(at[k - 1], FixOrder[k], readOnly)]
    OBVIOUS
  <2>. HIDE DEF at
  <2>. QED BY <1>1, <2>1
<1>3. ASSUME NEW m \in 0 .. n - 1, m \in S
      PROVE  m + 1 \in S
  <2>1. PICK f : f = [k \in 0 .. m |->
                       IF k = 0 THEN start
                                ELSE FixNext(f[k - 1], FixOrder[k], readOnly)]
    BY <1>3
  <2>. DEFINE at == [k \in 0 .. m + 1 |->
                      IF k = m + 1 THEN FixNext(f[m], FixOrder[m + 1], readOnly)
                                   ELSE f[k]]
  <2>2. /\ \A k \in 0 .. m + 1 : k # m + 1 => k \in 0 .. m
        /\ \A k \in 0 .. m + 1 : k # 0 => k - 1 \in 0 .. m + 1 /\ k - 1 # m + 1
        /\ m + 1 # 0 /\ m + 1 - 1 = m
    BY <1>1
  <2>3. \A k \in 0 .. m + 1 :
          (IF k = m + 1 THEN FixNext(f[m], FixOrder[m + 1], readOnly) ELSE f[k])
            = IF k = 0 THEN start
                       ELSE FixNext(at[k - 1], FixOrder[k], readOnly)
    <3>1. ASSUME NEW k \in 0 .. m + 1, k # 0
          PROVE  at[k - 1] = f[k - 1]
      BY <2>2, <3>1
    <3>. HIDE DEF at
    <3>2. ASSUME NEW k \in 0 .. m + 1, k # m + 1
          PROVE  f[k] = IF k = 0 THEN start
                        ELSE FixNext(f[k - 1], FixOrder[k], readOnly)
      BY <2>1, <2>2, <3>2
    <3>. QED BY <2>2, <3>1, <3>2
  <2>4. at = [k \in 0 .. m + 1 |->
               IF k = 0 THEN start
                        ELSE FixNext(at[k - 1], FixOrder[k], readOnly)]
    BY <2>3
  <2>5. m + 1 \in 0 .. n
    BY <1>1
  <2>. HIDE DEF at
  <2>. QED BY <2>4, <2>5
<1>. HIDE DEF S
<1>4. n \in S
  BY <1>1, <1>2, <1>3, UpInduction
<1>. DEFINE P(at) == at = [k \in 0 .. n |->
                      IF k = 0 THEN start
                               ELSE FixNext(at[k - 1], FixOrder[k], readOnly)]
            chosen == CHOOSE at : P(at)
<1>5. P(chosen)
  BY <1>4 DEF S
<1>6. LET rest == chosen[n] IN
        FixAll(obj, readOnly) =
          IF rest.ok THEN [rest EXCEPT !.obj.extensible = FALSE] ELSE rest
  BY DEF FixAll, n, start
<1>. QED BY <1>5, <1>6 DEF n, start

(* Where the loop is after k names: nothing that was permanent is gone,    *)
(* and in an array whose length covers its elements every property is      *)
(* still there with its value, and those come past are fixed.              *)
Fixing(obj, readOnly, k, r) ==
  /\ r = [ok |-> r.ok, obj |-> r.obj]
  /\ IsArray(r.obj) /\ Keeps(obj, r.obj)
  /\ Covers(obj) =>
       /\ r.ok /\ Covers(r.obj)
       /\ \A p \in Names :
            /\ Has(obj, p) <=> Has(r.obj, p)
            /\ Has(obj, p) => r.obj.props[p].value = obj.props[p].value
       /\ \A j \in 1 .. k : IsFixed(r.obj, FixOrder[j], readOnly)

(* One round. *)
LEMMA RoundFixes ==
  ASSUME NEW obj, IsArray(obj), NEW readOnly \in BOOLEAN,
         NEW k \in 1 .. Len(FixOrder), NEW a, Fixing(obj, readOnly, k - 1, a)
  PROVE  Fixing(obj, readOnly, k, FixNext(a, FixOrder[k], readOnly))
<1>. DEFINE p == FixOrder[k]
            b == FixNext(a, p, readOnly)
            r == Fixed(a.obj, p, readOnly)
<1>1. p \in Names /\ Len(FixOrder) \in Nat
  BY OrderHoldsAll
<1>2. \A j \in 1 .. k : j = k \/ j \in 1 .. k - 1
  BY <1>1
<1>. HIDE DEF p
<1>3. CASE ~a.ok
  <2>1. b = a /\ ~Covers(obj)
    BY <1>3 DEF FixNext, Fixing
  <2>. QED BY <2>1 DEF Fixing, p
<1>4. CASE a.ok /\ ~Has(a.obj, p)
  <2>1. b = a /\ IsFixed(a.obj, p, readOnly)
    BY <1>4 DEF FixNext, IsFixed
  <2>. QED BY <1>2, <2>1 DEF Fixing, p
<1>5. CASE a.ok /\ Has(a.obj, p)
  <2>1. b = r
    BY <1>5 DEF FixNext
  <2>2. IsArray(a.obj) /\ Keeps(obj, a.obj)
    BY DEF Fixing
  <2>3. /\ IsArray(r.obj) /\ Keeps(a.obj, r.obj)
        /\ r = [ok |-> r.ok, obj |-> r.obj]
        /\ Covers(a.obj) =>
             /\ r.ok /\ Covers(r.obj)
             /\ Has(r.obj, p) /\ r.obj.props[p].value = a.obj.props[p].value
             /\ IsFixed(r.obj, p, readOnly)
             /\ \A q \in Names \ {p} : r.obj.props[q] = a.obj.props[q]
    BY <1>1, <1>5, <2>2, FixedEffect, FixedRecord
  <2>. HIDE DEF r
  <2>4. Keeps(obj, r.obj)
    BY <2>2, <2>3, KeepsIsTransitive
  <2>5. ASSUME Covers(obj)
        PROVE  /\ r.ok /\ Covers(r.obj)
               /\ \A q \in Names :
                    /\ Has(obj, q) <=> Has(r.obj, q)
                    /\ Has(obj, q) => r.obj.props[q].value = obj.props[q].value
               /\ \A j \in 1 .. k : IsFixed(r.obj, FixOrder[j], readOnly)
    <3>1. /\ Covers(a.obj)
          /\ \A q \in Names :
               /\ Has(obj, q) <=> Has(a.obj, q)
               /\ Has(obj, q) => a.obj.props[q].value = obj.props[q].value
          /\ \A j \in 1 .. k - 1 : IsFixed(a.obj, FixOrder[j], readOnly)
      BY <2>5 DEF Fixing
    <3>2. ASSUME NEW q \in Names
          PROVE  /\ Has(obj, q) <=> Has(r.obj, q)
                 /\ Has(obj, q) => r.obj.props[q].value = obj.props[q].value
      BY <1>5, <2>3, <3>1 DEF Has
    <3>3. ASSUME NEW j \in 1 .. k
          PROVE  IsFixed(r.obj, FixOrder[j], readOnly)
      <4>1. FixOrder[j] \in Names
        BY <1>1, OrderHoldsAll
      <4>2. CASE FixOrder[j] = p
        BY <2>3, <3>1, <4>2
      <4>3. CASE FixOrder[j] # p
        <5>1. IsFixed(a.obj, FixOrder[j], readOnly)
          BY <1>2, <3>1, <4>3 DEF p
        <5>2. r.obj.props[FixOrder[j]] = a.obj.props[FixOrder[j]]
          BY <2>3, <3>1, <4>1, <4>3
        <5>. QED BY <5>1, <5>2 DEF IsFixed, Has
      <4>. QED BY <4>2, <4>3
    <3>. QED BY <2>3, <3>1, <3>2, <3>3
  <2>. QED BY <2>1, <2>3, <2>4, <2>5 DEF Fixing, p
<1>. QED BY <1>3, <1>4, <1>5 DEF p

(* preventExtensions alone. *)
LEMMA NoExtensions ==
  ASSUME NEW obj, IsArray(obj)
  PROVE  LET new == [obj EXCEPT !.extensible = FALSE] IN
           /\ IsArray(new) /\ Keeps(obj, new)
           /\ new.extensible = FALSE /\ new.props = obj.props
<1>. DEFINE new == [obj EXCEPT !.extensible = FALSE]
<1>1. /\ new.extensible = FALSE /\ new.props = obj.props
      /\ new \in [props : [Names -> Fields \cup {None}], extensible : BOOLEAN]
  BY DEF IsArray
<1>. HIDE DEF new
<1>2. IsArray(new)
  BY <1>1 DEF IsArray, Has, Length
<1>3. Keeps(obj, new)
  BY <1>1 DEF Keeps, Has, MayBecome
<1>. QED BY <1>1, <1>2, <1>3 DEF new

(* Freezing and sealing: nothing that was permanent is lost, and an array  *)
(* whose length covers its elements is frozen or sealed and loses nothing. *)
LEMMA FixAllEffect ==
  ASSUME NEW obj, IsArray(obj), NEW readOnly \in BOOLEAN
  PROVE  LET fixed == FixAll(obj, readOnly) IN
           /\ IsArray(fixed.obj) /\ Keeps(obj, fixed.obj)
           /\ Covers(obj) =>
                /\ fixed.ok /\ Covers(fixed.obj)
                /\ IF readOnly THEN IsFrozen(fixed.obj) ELSE IsSealed(fixed.obj)
                /\ \A p \in Names :
                     /\ Has(obj, p) <=> Has(fixed.obj, p)
                     /\ Has(obj, p) =>
                          fixed.obj.props[p].value = obj.props[p].value
<1>. DEFINE n == Len(FixOrder)
            fixed == FixAll(obj, readOnly)
<1>1. PICK at :
        /\ at = [k \in 0 .. n |->
              IF k = 0 THEN [ok |-> TRUE, obj |-> obj]
                       ELSE FixNext(at[k - 1], FixOrder[k], readOnly)]
        /\ LET rest == at[n] IN
            fixed = IF rest.ok THEN [rest EXCEPT !.obj.extensible = FALSE] ELSE rest
  BY FixLoop
<1>2. n \in Nat
  BY OrderHoldsAll
<1>. HIDE DEF n, fixed
<1>. DEFINE S == {k \in 0 .. n : Fixing(obj, readOnly, k, at[k])}
<1>3. 0 \in S
  <2>1. at[0] = [ok |-> TRUE, obj |-> obj] /\ 0 \in 0 .. n
    BY <1>1, <1>2
  <2>2. Fixing(obj, readOnly, 0, at[0])
    BY <2>1, KeepsItself DEF Fixing
  <2>. QED BY <2>1, <2>2
<1>4. ASSUME NEW i \in 0 .. n - 1, i \in S
      PROVE  i + 1 \in S
  <2>1. PICK k : k = i + 1
    OBVIOUS
  <2>2. k \in 0 .. n /\ k \in 1 .. n /\ k # 0 /\ k - 1 = i
    BY <1>2, <2>1
  <2>3. at[k] = FixNext(at[i], FixOrder[k], readOnly)
    BY <1>1, <2>2
  <2>4. Fixing(obj, readOnly, k - 1, at[i])
    BY <1>4, <2>2
  <2>5. Fixing(obj, readOnly, k, at[k])
    BY <2>2, <2>3, <2>4, RoundFixes DEF n
  <2>. QED BY <2>1, <2>2, <2>5
<1>. HIDE DEF S
<1>5. n \in S
  BY <1>2, <1>3, <1>4, UpInduction
<1>6. PICK rest : rest = at[n]
  OBVIOUS
<1>7. Fixing(obj, readOnly, n, rest)
  BY <1>5, <1>6 DEF S
<1>8. CASE ~rest.ok
  <2>1. fixed = rest /\ ~Covers(obj)
    BY <1>1, <1>6, <1>7, <1>8 DEF Fixing
  <2>. QED BY <1>7, <2>1 DEF Fixing, fixed
<1>9. CASE rest.ok
  <2>1. fixed = [rest EXCEPT !.obj.extensible = FALSE]
    BY <1>1, <1>6, <1>9
  <2>2. PICK o : o = rest.obj
    OBVIOUS
  <2>3. fixed.ok = rest.ok /\ fixed.obj = [o EXCEPT !.extensible = FALSE]
    <3>1. PICK answer : rest = [ok |-> answer, obj |-> o]
      BY <1>7, <2>2 DEF Fixing
    <3>2. fixed = [ok |-> answer, obj |-> [o EXCEPT !.extensible = FALSE]]
      BY <2>1, <3>1
    <3>. QED BY <3>1, <3>2
  <2>4. /\ IsArray(o) /\ Keeps(obj, o)
        /\ Covers(obj) =>
             /\ Covers(o)
             /\ \A p \in Names :
                  /\ Has(obj, p) <=> Has(o, p)
                  /\ Has(obj, p) => o.props[p].value = obj.props[p].value
             /\ \A j \in 1 .. n : IsFixed(o, FixOrder[j], readOnly)
    BY <1>7, <2>2 DEF Fixing
  <2>5. PICK c : c = fixed.obj
    OBVIOUS
  <2>6. /\ IsArray(c) /\ Keeps(o, c) /\ c.extensible = FALSE /\ c.props = o.props
    BY <2>3, <2>4, <2>5, NoExtensions
  <2>7. Keeps(obj, c)
    BY <2>4, <2>6, KeepsIsTransitive
  <2>8. ASSUME Covers(obj)
        PROVE  /\ Covers(c)
               /\ IF readOnly THEN IsFrozen(c) ELSE IsSealed(c)
               /\ \A p \in Names :
                    /\ Has(obj, p) <=> Has(c, p)
                    /\ Has(obj, p) => c.props[p].value = obj.props[p].value
    <3>1. \A p \in Names : IsFixed(c, p, readOnly)
      BY <2>4, <2>6, <2>8, OrderHoldsAll DEF IsFixed, Has, n
    <3>2. IF readOnly THEN IsFrozen(c) ELSE IsSealed(c)
      BY <2>6, <3>1 DEF IsFixed, IsFrozen, IsSealed
    <3>. QED BY <2>4, <2>6, <2>8, <3>2 DEF Covers, OwnIndices, Has, Length
  <2>. QED BY <1>9, <2>3, <2>5, <2>6, <2>7, <2>8 DEF fixed
<1>. QED BY <1>8, <1>9

-----------------------------------------------------------------------------
(* What a conversion under way has read. *)
PendingOK ==
  pending.active => /\ LengthAsked(pending.d) /\ pending.d.value = None
                    /\ IsLength(pending.old)

(* The invariant the proofs are by. *)
IInv == TypeOK /\ PendingOK /\ LengthCovers

(* The value a definition of the length has is the one the call is given.  *)
LEMMA SetLengthLooksAtNew ==
  ASSUME NEW obj, NEW d, LengthAsked(d), NEW old, NEW new \in Lengths
  PROVE  LET e == [d EXCEPT !.value = new] IN
           /\ LengthAsked(e) /\ e.value = new
           /\ SetLength(obj, d, old, new) = SetLength(obj, e, old, new)
<1>. DEFINE e == [d EXCEPT !.value = new]
<1>1. d \in Fields /\ d.writable \in BOOLEAN \cup {None}
  BY DEF LengthAsked, IsDescriptor, Fields
<1>2. /\ e.value = new /\ e.writable = d.writable
      /\ e = [d EXCEPT !.value = new, !.writable = d.writable]
  BY <1>1 DEF Fields
<1>3. PICK w : w = d.writable
  OBVIOUS
<1>4. LengthAsked([d EXCEPT !.value = new, !.writable = w])
  BY <1>1, <1>3, WithValueAsked
<1>5. LengthAsked(e)
  BY <1>2, <1>3, <1>4
<1>6. ASSUME NEW v, NEW u
      PROVE  [e EXCEPT !.value = v, !.writable = u]
               = [d EXCEPT !.value = v, !.writable = u]
  BY <1>1 DEF Fields
<1>. HIDE DEF e
<1>. DEFINE lower == new < old.value
            readOnly == lower /\ d.writable = FALSE
            Wanted(x) == [x EXCEPT !.value = new,
                            !.writable = IF readOnly THEN TRUE ELSE d.writable]
            Set(x) == DefineObject(obj, LengthName, Wanted(x))
            Shrunk(x) == Shrink(Set(x).obj, new)
            Final(x) == [x EXCEPT !.value = Shrunk(x).stuck + 1,
                           !.writable = IF readOnly THEN FALSE ELSE d.writable]
            Ends(x) ==
              IF lower /\ ~Writable(old) THEN [ok |-> FALSE, obj |-> obj]
              ELSE IF ~lower \/ ~Set(x).ok THEN Set(x)
              ELSE IF ~Shrunk(x).ok
                THEN [ok |-> FALSE,
                      obj |-> DefineObject(Shrunk(x).obj, LengthName, Final(x)).obj]
              ELSE IF readOnly
                THEN [ok |-> TRUE,
                      obj |-> DefineObject(Shrunk(x).obj, LengthName,
                                [NoFields EXCEPT !.writable = FALSE]).obj]
              ELSE [ok |-> TRUE, obj |-> Shrunk(x).obj]
<1>7. SetLength(obj, d, old, new) = Ends(d) /\ SetLength(obj, e, old, new) = Ends(e)
  BY <1>2 DEF SetLength
<1>8. Wanted(e) = Wanted(d)
  BY <1>6
<1>. HIDE DEF Wanted
<1>9. Set(e) = Set(d)
  BY <1>8
<1>. HIDE DEF Set
<1>10. Shrunk(e) = Shrunk(d)
  BY <1>9
<1>. HIDE DEF Shrunk
<1>11. Final(e) = Final(d)
  <2>1. PICK v : v = Shrunk(d).stuck + 1
    OBVIOUS
  <2>2. PICK u : u = IF readOnly THEN FALSE ELSE d.writable
    OBVIOUS
  <2>3. [e EXCEPT !.value = v, !.writable = u] = [d EXCEPT !.value = v, !.writable = u]
    BY <1>6
  <2>. QED BY <1>10, <2>1, <2>2, <2>3
<1>. HIDE DEF Final
<1>12. Ends(e) = Ends(d)
  BY <1>9, <1>10, <1>11
<1>. QED BY <1>2, <1>5, <1>7, <1>12 DEF e

(* Initially. *)
LEMMA InitIInv == Init => IInv
<1>. SUFFICES ASSUME Init PROVE IInv
  OBVIOUS
<1>1. IsLength(NewLength) /\ NewLength \in Fields /\ NewLength # None
  <2>1. NewLength = LengthOf(0, TRUE) /\ 0 \in Lengths
    BY NamesAssumption DEF NewLength, LengthOf, Lengths
  <2>2. IsLength(NewLength)
    BY <2>1, LengthsAre DEF LengthOf
  <2>. QED BY <2>2, StoredIsSome DEF IsLength
<1>2. /\ array.extensible = TRUE
      /\ \A p \in Names : array.props[p] = IF p = LengthName THEN NewLength ELSE None
      /\ array \in [props : [Names -> Fields \cup {None}], extensible : BOOLEAN]
  BY <1>1 DEF Init
<1>3. \A p \in Names : Slot(p, array.props[p])
  BY <1>1, <1>2 DEF Slot, IsLength
<1>4. TypeOK
  BY <1>2, <1>3, ArraySlots DEF TypeOK
<1>5. OwnIndices(array) = {}
  BY <1>2, IndicesAreNumbers DEF OwnIndices, Has
<1>. QED BY <1>4, <1>5 DEF IInv, LengthCovers, PendingOK, Init, NoCall

(* A step that changes the array alone. *)
LEMMA ArrayStep ==
  ASSUME IInv, UNCHANGED <<pending, outdated>>, IsArray(array'),
         Keeps(array, array'), Covers(array) => Covers(array')
  PROVE  IInv' /\ Keeps(array, array')
<1>1. TypeOK'
  BY DEF TypeOK, IsArray, Has, Length
<1>2. PendingOK'
  BY DEF IInv, PendingOK
<1>3. LengthCovers'
  BY DEF IInv, LengthCovers, Covers, OwnIndices, Has, Length
<1>. QED BY <1>1, <1>2, <1>3 DEF IInv

(* Every step keeps the invariant and what the array gave up. *)
LEMMA NextIInv ==
  ASSUME IInv, [Next]_vars
  PROVE  IInv' /\ Keeps(array, array')
<1>1. IsArray(array)
  BY DEF IInv, TypeOK
<1>2. ASSUME NEW p \in Names, NEW d \in Offers[p], DefineOwn(p, d)
      PROVE  IInv' /\ Keeps(array, array')
  <2>1. Fits(p, d)
    BY OffersAssumption DEF Fits
  <2>2. array' = Define(array, p, d).obj
    BY <1>2 DEF DefineOwn
  <2>. QED BY <1>1, <1>2, <2>1, <2>2, DefineKeeps, ArrayStep DEF DefineOwn
<1>3. ASSUME NEW p \in Names, NEW v \in Values(p), PutValue(p, v)
      PROVE  IInv' /\ Keeps(array, array')
  <2>1. PICK inherited \in Inherits : array' = Put(array, inherited, p, v).obj
    BY <1>3 DEF PutValue
  <2>. QED BY <1>1, <1>3, <2>1, PutEffect, ArrayStep DEF PutValue
<1>4. ASSUME NEW p \in Names, DeleteOwn(p)
      PROVE  IInv' /\ Keeps(array, array')
  <2>1. array' = Delete(array, p).obj
    BY <1>4 DEF DeleteOwn
  <2>2. /\ IsArray(array') /\ Keeps(array, array')
        /\ array' = With(array, p, None) \/ array' = array
    BY <1>1, <2>1, DeleteEffect
  <2>3. Covers(array) => Covers(array')
    <3>1. CASE array' = array
      BY <3>1
    <3>2. CASE array' = With(array, p, None)
      <4>1. p # LengthName
        BY <2>2, <3>2 DEF With, IsArray, Has
      <4>2. array'.props = [q \in Names |-> IF q = p THEN None ELSE array.props[q]]
        BY <3>2, <1>1 DEF With, IsArray
      <4>3. /\ OwnIndices(array') \subseteq OwnIndices(array)
            /\ Length(array') = Length(array)
        BY <4>1, <4>2, IndicesAreNumbers DEF OwnIndices, Has, Length
      <4>. QED BY <4>3 DEF Covers
    <3>. QED BY <2>2, <3>1, <3>2
  <2>. QED BY <1>4, <2>2, <2>3, ArrayStep DEF DeleteOwn
<1>5. ASSUME NEW readOnly \in BOOLEAN, array' = FixAll(array, readOnly).obj,
             UNCHANGED <<pending, outdated>>
      PROVE  IInv' /\ Keeps(array, array')
  BY <1>1, <1>5, FixAllEffect, ArrayStep
<1>6. CASE Freeze
  BY <1>5, <1>6 DEF Freeze
<1>7. CASE Seal
  BY <1>5, <1>7 DEF Seal
<1>8. CASE PreventExtensions
  <2>1. /\ IsArray(array') /\ Keeps(array, array') /\ array'.props = array.props
    BY <1>1, <1>8, NoExtensions DEF PreventExtensions
  <2>2. Covers(array) => Covers(array')
    BY <2>1 DEF Covers, OwnIndices, Has, Length
  <2>. QED BY <1>8, <2>1, <2>2, ArrayStep DEF PreventExtensions
<1>9. ASSUME NEW d \in Offers[LengthName], Convert(d)
      PROVE  IInv' /\ Keeps(array, array')
  <2>1. PICK e : e = [d EXCEPT !.value = None]
    OBVIOUS
  <2>2. PICK old : old = array.props[LengthName]
    OBVIOUS
  <2>3. /\ pending' = [active |-> TRUE, d |-> e, old |-> old]
        /\ array' = array /\ outdated' = outdated
    BY <1>9, <2>1, <2>2 DEF Convert
  <2>4. IsDescriptor(d) /\ d.value # None
    BY <1>9, IndicesAreNumbers, OffersAssumption DEF Convert
  <2>5. /\ e \in Fields /\ e.value = None /\ e.get = d.get /\ e.set = d.set
    BY <2>1, <2>4 DEF IsDescriptor, Fields
  <2>6. ~IsAccessor(e)
    BY <2>4, <2>5 DEF IsDescriptor, IsData, IsAccessor
  <2>7. LengthAsked(e)
    BY <2>5, <2>6 DEF LengthAsked, IsDescriptor
  <2>8. IsLength(old)
    BY <1>1, <2>2, LengthOfArray
  <2>9. PendingOK'
    BY <2>3, <2>5, <2>7, <2>8 DEF PendingOK, LengthAsked, IsDescriptor, IsData,
         IsAccessor, IsLength, IsStored
  <2>10. TypeOK' /\ LengthCovers' /\ Keeps(array, array')
    BY <2>3, KeepsItself DEF IInv, TypeOK, IsArray, Has, Length, LengthCovers, OwnIndices
  <2>. QED BY <2>9, <2>10 DEF IInv
<1>10. ASSUME NEW first \in Lengths, NEW second \in Lengths,
              Converted(first, second)
       PROVE  IInv' /\ Keeps(array, array')
  <2>1. PICK d : d = pending.d
    OBVIOUS
  <2>2. PICK old : old = pending.old
    OBVIOUS
  <2>3. LengthAsked(d) /\ IsLength(old) /\ ~pending'.active
    BY <1>10, <2>1, <2>2 DEF Converted, IInv, PendingOK, NoCall
  <2>4. CASE first # second
    <3>1. array' = array /\ outdated' = outdated
      BY <1>10, <2>4 DEF Converted
    <3>. QED BY <2>3, <3>1, KeepsItself DEF IInv, TypeOK, IsArray, Has, Length,
               LengthCovers, OwnIndices, PendingOK
  <2>5. CASE first = second
    <3>1. /\ array' = SetLength(array, d, old, first).obj
          /\ outdated' = (outdated \/ old # array.props[LengthName])
      BY <1>10, <2>1, <2>2, <2>5 DEF Converted
    <3>2. IsArray(array') /\ Keeps(array, array')
      BY <1>1, <2>3, <3>1, SetLengthKeeps
    <3>3. ASSUME ~outdated'
          PROVE  Covers(array')
      <4>1. Covers(array) /\ old = array.props[LengthName]
        BY <3>1, <3>3 DEF IInv, LengthCovers, Covers
      <4>2. PICK e : e = [d EXCEPT !.value = first]
        OBVIOUS
      <4>3. /\ LengthAsked(e) /\ e.value = first
            /\ SetLength(array, d, old, first) = SetLength(array, e, old, first)
        BY <2>3, <4>2, SetLengthLooksAtNew
      <4>4. SetLength(array, e, old, first) = LengthSet(array, e)
        BY <1>1, <4>1, <4>3, SetLengthIsLengthSet
      <4>. QED BY <1>1, <3>1, <4>1, <4>3, <4>4, LengthSetCovers
    <3>4. TypeOK'
      BY <3>2 DEF TypeOK, IsArray, Has, Length
    <3>5. LengthCovers'
      BY <3>3 DEF LengthCovers, Covers, OwnIndices, Has, Length
    <3>6. PendingOK'
      BY <2>3 DEF PendingOK
    <3>. QED BY <3>2, <3>4, <3>5, <3>6 DEF IInv
  <2>. QED BY <2>4, <2>5
<1>11. CASE UNCHANGED vars
  BY <1>1, <1>11, KeepsItself, ArrayStep DEF vars
<1>. QED BY <1>2, <1>3, <1>4, <1>6, <1>7, <1>8, <1>9, <1>10, <1>11 DEF Next

(* The invariant holds in every reachable state. *)
LEMMA SpecIInv == Spec => []IInv
<1>1. IInv /\ [Next]_vars => IInv'
  BY NextIInv
<1>. QED BY InitIInv, <1>1, PTL DEF Spec

-----------------------------------------------------------------------------
(* An array is always one: every property of it is whole, and its length   *)
(* is a number that is neither enumerable nor configurable.                *)
THEOREM TypeCorrect == Spec => []TypeOK
<1>1. IInv => TypeOK
  BY DEF IInv
<1>. QED BY SpecIInv, <1>1, PTL

(* The length is greater than every index, for arrays of any size: only a  *)
(* conversion that outdates the length a call has read can end that.       *)
THEOREM AlwaysLengthCovers == Spec => []LengthCovers
<1>1. IInv => LengthCovers
  BY DEF IInv
<1>. QED BY SpecIInv, <1>1, PTL

(* No definition of a property is carried out in part, in any state.       *)
THEOREM DefinesAsSpecifiedAlways == Spec => []DefinesAsSpecified
BY TypeCorrect, AlwaysDefinesAsSpecified, PTL

(* Defining an element, which the code does twice, and setting the length, *)
(* which it does in a loop, are the two clauses of 15.4.5.1, for arrays of *)
(* any size, in every state.                                               *)
THEOREM ArrayAsSpecifiedAlways == Spec => []ArrayAsSpecified
<1>1. ASSUME TypeOK PROVE ArrayAsSpecified
  <2>1. IsArray(array)
    BY <1>1 DEF TypeOK
  <2>2. ASSUME NEW i \in Indices, NEW d \in Offers[i]
        PROVE  Define(array, i, d) = SpecifiedElement(array, i, d)
    <3>1. i \in Names /\ i # LengthName /\ IsDescriptor(d)
      BY IndicesAreNumbers, OffersAssumption
    <3>2. Define(array, i, d) = SetElement(array, i, d)
      BY <3>1 DEF Define
    <3>. QED BY <2>1, <3>1, <3>2, SetElementEffect
  <2>3. ASSUME NEW d \in Offers[LengthName], d.value # None
        PROVE  Define(array, LengthName, d) = SpecifiedLength(array, d)
    <3>1. IsDescriptor(d) /\ d.value \in Lengths
      BY <2>3, IndicesAreNumbers, OffersAssumption
    <3>2. LengthAsked(d)
      BY <2>3, <3>1 DEF LengthAsked, IsDescriptor, IsData
    <3>3. Define(array, LengthName, d)
            = SetLength(array, d, array.props[LengthName], d.value)
      BY <2>3 DEF Define
    <3>. QED BY <2>1, <3>1, <3>2, <3>3, SetLengthIsLengthSet, SpecifiedIsLengthSet
  <2>. QED BY <2>2, <2>3 DEF ArrayAsSpecified
<1>. QED BY TypeCorrect, <1>1, PTL

(* A put never claims what it did not do, whatever is inherited.           *)
THEOREM AlwaysPutTells == Spec => []PutTells
<1>1. ASSUME TypeOK PROVE PutTells
  <2>1. IsArray(array)
    BY <1>1 DEF TypeOK
  <2>. QED BY <2>1, PutEffect DEF PutTells
<1>. QED BY TypeCorrect, <1>1, PTL

(* Freezing and sealing succeed in every state with a length that was not  *)
(* set by an outdated one, and lose nothing.                               *)
THEOREM AlwaysFixes == Spec => []Fixes
<1>1. ASSUME IInv PROVE Fixes
  <2>. SUFFICES ASSUME NEW readOnly \in BOOLEAN, ~outdated
                PROVE  LET fixed == FixAll(array, readOnly) IN
                         /\ fixed.ok
                         /\ IF readOnly THEN IsFrozen(fixed.obj)
                                        ELSE IsSealed(fixed.obj)
                         /\ \A p \in Names : LET new == fixed.obj.props[p] IN
                              /\ Has(array, p) <=> new # None
                              /\ Has(array, p) => new.value = array.props[p].value
    BY DEF Fixes
  <2>1. IsArray(array) /\ Covers(array)
    BY <1>1 DEF IInv, TypeOK, LengthCovers, Covers
  <2>2. PICK fixed : fixed = FixAll(array, readOnly)
    OBVIOUS
  <2>3. /\ fixed.ok
        /\ IF readOnly THEN IsFrozen(fixed.obj) ELSE IsSealed(fixed.obj)
        /\ \A p \in Names :
             /\ Has(array, p) <=> Has(fixed.obj, p)
             /\ Has(array, p) => fixed.obj.props[p].value = array.props[p].value
    BY <2>1, <2>2, FixAllEffect
  <2>4. \A p \in Names : Has(fixed.obj, p) <=> fixed.obj.props[p] # None
    BY DEF Has
  <2>. QED BY <2>2, <2>3, <2>4
<1>. QED BY SpecIInv, <1>1, PTL

(* No sequence of operations brings back what an array gave up, not even   *)
(* the ones that run inside the conversion of a length.                    *)
THEOREM AlwaysPermanent == Spec => Permanent
<1>1. IInv /\ [Next]_vars => [Keeps(array, array')]_vars
  BY NextIInv
<1>. QED BY SpecIInv, <1>1, PTL DEF Spec, Permanent
=============================================================================
