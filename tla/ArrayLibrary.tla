---------------------------- MODULE ArrayLibrary ----------------------------
(***************************************************************************)
(* The methods of arrays (rt/env/array.rs, ECMA-262 15.4.4) as a program   *)
(* calls them on one object: those that work in one go, each an action,    *)
(* and those that call back, one action for each call and return, between  *)
(* which the callback may change the object.  The object is an array or    *)
(* another object with a length, and inherits elements.  The attributes of *)
(* elements are those a plain write gives; Properties has the others.      *)
(***************************************************************************)
EXTENDS Integers, SequencesExt

CONSTANTS
  Inherited,   \* the elements of the prototype: a function on some indexes
  Values,      \* the values of elements, numbers
  Undefined, None,
  MaxLength,   \* bound on lengths,
  MaxLoop,     \* on the length that a loop starts with,
  MaxChanges   \* and on what the callbacks of one loop write

VARIABLES
  object,      \* [array, own, length]: whether its class is Array, its own
               \* elements, and its length
  answer,      \* the last call and what it returned, until the program takes it
  loop         \* the last call with a callback, until the program takes its result

vars == <<object, answer, loop>>

Places == 0 .. MaxLength - 1
Elements == Values \cup {Undefined}

-----------------------------------------------------------------------------
(* The property operations of JsItem that the methods use *)
Has(o, i) == i \in DOMAIN o.own \cup DOMAIN Inherited
Get(o, i) ==
  CASE i \in DOMAIN o.own -> o.own[i]
    [] i \in DOMAIN Inherited \ DOMAIN o.own -> Inherited[i]
    [] OTHER -> Undefined
Put(o, i, v) ==
  [o EXCEPT !.own = [j \in DOMAIN @ \cup {i} |-> IF j = i THEN v ELSE @[j]],
            !.length = IF o.array /\ i >= @ THEN i + 1 ELSE @]
Delete(o, i) == [o EXCEPT !.own = Restrict(@, DOMAIN @ \ {i})]
PutLength(o, n) ==
  [o EXCEPT !.length = n, !.own = IF o.array THEN Restrict(@, {i \in DOMAIN @ : i < n}) ELSE @]

EmptyArray == [array |-> TRUE, own |-> <<>>, length |-> 0]

\* mutant: an absent element is left where something else was
MoveStale(o, from, to) == IF Has(o, from) THEN Put(o, to, Get(o, from)) ELSE o

\* The step of shift, unshift and splice: an element, or its absence, goes on.
Move(o, from, to) == IF Has(o, from) THEN Put(o, to, Get(o, from)) ELSE Delete(o, to)

-----------------------------------------------------------------------------
(* The loops of the methods.  after[n] is the object they leave after n     *)
(* steps: elements put from a place on; taken away, the last first; moved   *)
(* down, the first first, or up, the last first; copied into another object.*)
PutAll(o, at, items) ==
  LET after[n \in 0 .. Len(items)] ==
        IF n = 0 THEN o ELSE Put(after[n - 1], at + n - 1, items[n])
  IN after[Len(items)]
DeleteAll(o, at, count) ==
  LET after[n \in 0 .. count] ==
        IF n = 0 THEN o ELSE Delete(after[n - 1], at + count - n)
  IN after[count]
MoveDown(o, at, count, by) ==
  LET after[n \in 0 .. count] ==
        IF n = 0 THEN o ELSE Move(after[n - 1], at + by + n - 1, at + n - 1)
  IN after[count]
MoveUp(o, at, count, by) ==
  LET after[n \in 0 .. count] ==
        IF n = 0 THEN o ELSE Move(after[n - 1], at + count - n, at + by + count - n)
  IN after[count]
CopyTo(part, index, o, from, count) ==
  LET after[n \in 0 .. count] ==
        IF n = 0 THEN part
        ELSE IF Has(o, from + n - 1)
          THEN Put(after[n - 1], index + n - 1, Get(o, from + n - 1)) ELSE after[n - 1]
  IN after[count]

\* The start and end that slice and splice are given, counted from the end
\* when they are negative.
Clamp(n, length) == IF n < 0 THEN Max({0, length + n}) ELSE Min({n, length})

-----------------------------------------------------------------------------
(* The methods that work in one go: the object and the answer they leave *)
Popped(o) ==
  IF o.length = 0 THEN <<PutLength(o, 0), Undefined>>
  ELSE <<PutLength(Delete(o, o.length - 1), o.length - 1), Get(o, o.length - 1)>>

Pushed(o, items) ==
  LET n == o.length + Len(items) IN <<PutLength(PutAll(o, o.length, items), n), n>>

Swap(o, lower, upper) ==
  LET low == Get(o, lower)
      up  == Get(o, upper)
  IN CASE Has(o, lower) /\ Has(o, upper)  -> Put(Put(o, lower, up), upper, low)
       [] ~Has(o, lower) /\ Has(o, upper) -> Delete(Put(o, lower, up), upper)
       [] Has(o, lower) /\ ~Has(o, upper) -> Put(Delete(o, lower), upper, low)
       [] OTHER                           -> o
Reversed(o) ==
  LET after[n \in 0 .. o.length \div 2] ==
        IF n = 0 THEN o ELSE Swap(after[n - 1], n - 1, o.length - n)
  IN <<after[o.length \div 2], None>>

Shifted(o) ==
  IF o.length = 0 THEN <<PutLength(o, 0), Undefined>>
  ELSE LET moved == MoveDown(o, 0, o.length - 1, 1)
       IN <<PutLength(Delete(moved, o.length - 1), o.length - 1), Get(o, 0)>>

Unshifted(o, items) ==
  LET argc  == Len(items)
      moved == MoveUp(o, 0, o.length, argc)
  IN <<PutLength(PutAll(moved, 0, items), o.length + argc), o.length + argc>>

\* A part of an array as a new array, with the holes it has.
Part(o, from, to) == CopyTo(EmptyArray, 0, o, from, Max({0, to - from}))

Sliced(o, start, end) ==
  <<o, Part(o, Clamp(start, o.length), Clamp(IF end = Undefined THEN o.length ELSE end, o.length))>>

Spliced(o, start, count, items) ==
  LET len   == o.length
      at    == Clamp(start, len)
      gone  == Min({Max({count, 0}), len - at})
      item_count == Len(items)
      moved ==
        CASE item_count < gone ->
               DeleteAll(MoveDown(o, at + item_count, len - gone - at, gone - item_count),
                         len - gone + item_count, gone - item_count)
          [] item_count > gone ->
               MoveUp(o, at + gone, len - gone - at, item_count - gone)
          [] OTHER -> o
  IN <<PutLength(PutAll(moved, at, items), len - gone + item_count), Part(o, at, at + gone)>>

\* sort: absent elements last, undefined before them, the others by a comparison.
Before(x, y) ==
  \/ x # None /\ y = None
  \/ x \in Values /\ y = Undefined
  \/ x \in Values /\ y \in Values /\ x < y
InOrder(values) ==
  LET order == CHOOSE p \in Bijection(DOMAIN values, DOMAIN values) :
                 \A m, n \in DOMAIN values : m < n => ~Before(values[p[n]], values[p[m]])
  IN [n \in DOMAIN values |-> values[order[n]]]
Sorted(o) ==
  LET values == [n \in 1 .. o.length |-> IF Has(o, n - 1) THEN Get(o, n - 1) ELSE None]
      sorted == InOrder(values)
      after[n \in 0 .. o.length] ==
        IF n = 0 THEN o
        ELSE IF sorted[n] = None THEN Delete(after[n - 1], n - 1)
        ELSE Put(after[n - 1], n - 1, sorted[n])
  IN <<after[o.length], None>>

\* concat of the object and of further arguments, each a value or the object.
Appended(result, index, o) ==
  LET copied == CopyTo(result, index, o, 0, o.length)
      set_length == IF o.length > 0 /\ Has(o, o.length - 1) THEN o.length ELSE 0
  IN IF o.length # set_length THEN PutLength(copied, index + o.length) ELSE copied
Gather(so_far, o, arg) ==
  IF arg = None
  THEN [result |-> Appended(so_far.result, so_far.index, o), index |-> so_far.index + o.length]
  ELSE [result |-> Put(so_far.result, so_far.index, arg), index |-> so_far.index + 1]
Concatenated(o, args) ==
  LET parts == <<None>> \o args
      after[n \in 0 .. Len(parts)] ==
        IF n = 0 THEN [result |-> EmptyArray, index |-> 0]
        ELSE Gather(after[n - 1], o, parts[n])
  IN <<o, after[Len(parts)].result>>

IndexOf(o, x, from) ==
  LET k     == IF from < 0 THEN Max({0, o.length + from}) ELSE from
      found == {i \in k .. o.length - 1 : Has(o, i) /\ Get(o, i) = x}
  IN <<o, IF found = {} THEN -1 ELSE Min(found)>>

LastIndexOf(o, x, from) ==
  LET k     == IF from < 0 THEN o.length + from ELSE Min({from, o.length - 1})
      found == {i \in 0 .. k : Has(o, i) /\ Get(o, i) = x}
  IN <<o, IF found = {} THEN -1 ELSE Max(found)>>

-----------------------------------------------------------------------------
(* The calls that work in one go.  A call is a name and its arguments.      *)
Call(method, args) == [method |-> method, args |-> args]
Items == BoundedSeq(Values, 2)
Positions == -(MaxLength + 1) .. MaxLength + 1

Calls ==
  {Call(m, <<>>) : m \in {"pop", "reverse", "shift", "sort"}}
    \cup {Call(m, <<items>>) : m \in {"push", "unshift"}, items \in Items}
    \cup {Call("slice", <<i, j>>) : i \in Positions, j \in Positions \cup {Undefined}}
    \cup {Call("splice", <<i, n, items>>) : i \in Positions, n \in -1 .. MaxLength, items \in Items}
    \cup {Call(m, <<x, i>>) : m \in {"indexOf", "lastIndexOf"}, x \in Elements, i \in Positions}
    \cup {Call("concat", <<args>>) : args \in BoundedSeq(Values \cup {None}, 1)}

Done(o, c) ==
  LET a == c.args IN
  CASE c.method = "pop"         -> Popped(o)
    [] c.method = "push"        -> Pushed(o, a[1])
    [] c.method = "reverse"     -> Reversed(o)
    [] c.method = "shift"       -> Shifted(o)
    [] c.method = "unshift"     -> Unshifted(o, a[1])
    [] c.method = "slice"       -> Sliced(o, a[1], a[2])
    [] c.method = "splice"      -> Spliced(o, a[1], a[2], a[3])
    [] c.method = "sort"        -> Sorted(o)
    [] c.method = "concat"      -> Concatenated(o, a[1])
    [] c.method = "indexOf"     -> IndexOf(o, a[1], a[2])
    [] c.method = "lastIndexOf" -> LastIndexOf(o, a[1], a[2])

Idle == answer = None /\ loop = None

DoCall ==
  /\ Idle
  /\ \E c \in Calls :
       LET done == Done(object, c) IN
       /\ c.method = "concat" => object.array
       /\ done[1].length <= MaxLength
       /\ object' = done[1] /\ answer' = [call |-> c, value |-> done[2]]
  /\ UNCHANGED loop

-----------------------------------------------------------------------------
(* The methods with a callback: at each index that has an element when its  *)
(* turn comes, among those below the length there was at the start.         *)
LoopMethods == {"every", "some", "forEach", "map", "filter", "reduce", "reduceRight"}
Backwards(l) == l.method = "reduceRight"

\* mutant: the length is read again
AheadNow(o, l) ==
  {i \in 0 .. o.length - 1 : Has(o, i) /\ (IF Backwards(l) THEN i <= l.k ELSE i >= l.k)}

Ahead(o, l) ==
  {i \in 0 .. l.len - 1 : Has(o, i) /\ (IF Backwards(l) THEN i <= l.k ELSE i >= l.k)}
Turn(o, l) == IF Backwards(l) THEN Max(Ahead(o, l)) ELSE Min(Ahead(o, l))
Past(l, i) == IF Backwards(l) THEN i - 1 ELSE i + 1

\* map gives the indexes it passes over the value undefined.
Holes(l, to) ==
  IF l.method = "map"
  THEN PutAll(l.acc, l.k, [n \in 1 .. Max({0, to - l.k}) |-> Undefined])
  ELSE l.acc

End(l) ==
  [l EXCEPT !.running = FALSE,
            !.acc = CASE l.method = "every" -> TRUE
                      [] l.method = "some"  -> FALSE
                      [] OTHER              -> Holes(l, l.len)]
\* The next turn of a loop, or its end.
GoOn(o, l) ==
  IF Ahead(o, l) = {} THEN End(l)
  ELSE LET i == Turn(o, l) IN
       [l EXCEPT !.k = Past(l, i), !.acc = Holes(l, i),
                 !.visits = Append(@, [at |-> i, value |-> Get(o, i), given |-> Holes(l, i),
                                       returned |-> None])]

\* mutant: and calls back for it too
WithFirstAgain(o, l) ==
  LET i == Turn(o, l) IN [l EXCEPT !.k = i, !.acc = Get(o, i), !.first = i]

\* Without an initial value reduce begins with the first element there is.
WithFirst(o, l) ==
  LET i == Turn(o, l) IN [l EXCEPT !.k = Past(l, i), !.acc = Get(o, i), !.first = i]

Begun(o, method, initial) ==
  [method |-> method, len |-> o.length, running |-> TRUE, writes |-> 0,
   k |-> IF method = "reduceRight" THEN o.length - 1 ELSE 0,
   acc |-> IF method \in {"map", "filter"} THEN EmptyArray ELSE initial,
   first |-> None,
   visits |-> <<>>,                    \* history: the calls of the callback,
   kept |-> [i \in {j \in 0 .. o.length - 1 : Has(o, j)} |-> Get(o, i)],
                                       \* elements that were always there,
   absent |-> {i \in Places : ~Has(o, i)}]     \* and never there

Begin ==
  /\ Idle /\ object.length \in 0 .. MaxLoop
  /\ \E method \in LoopMethods, initial \in {None} \cup Values :
       LET l == Begun(object, method, initial) IN
       /\ initial # None => method \in {"reduce", "reduceRight"}
       /\ IF method \in {"reduce", "reduceRight"} /\ initial = None
          THEN /\ Ahead(object, l) # {}                \* otherwise a TypeError
               /\ loop' = GoOn(object, WithFirst(object, l))
          ELSE loop' = GoOn(object, l)
  /\ UNCHANGED <<object, answer>>

InCallback == loop # None /\ loop.running
LastVisit == loop.visits[Len(loop.visits)]

Returned(v) == [loop EXCEPT !.visits[Len(loop.visits)].returned = v]

ReturnTest ==
  /\ InCallback /\ loop.method \in {"every", "some"}
  /\ \E v \in BOOLEAN :
       loop' = IF v = (loop.method = "some")
               THEN [Returned(v) EXCEPT !.running = FALSE, !.acc = v]
               ELSE GoOn(object, Returned(v))
  /\ UNCHANGED <<object, answer>>

ReturnEach ==
  /\ InCallback /\ loop.method = "forEach"
  /\ loop' = GoOn(object, Returned(Undefined))
  /\ UNCHANGED <<object, answer>>

ReturnMapped ==
  /\ InCallback /\ loop.method = "map"
  /\ \E v \in Values :
       loop' = GoOn(object, [Returned(v) EXCEPT !.acc = Put(@, LastVisit.at, v)])
  /\ UNCHANGED <<object, answer>>

ReturnSelected ==
  /\ InCallback /\ loop.method = "filter"
  /\ \E v \in BOOLEAN :
       loop' = GoOn(object, [Returned(v) EXCEPT
                               !.acc = IF v THEN Put(@, @.length, LastVisit.value) ELSE @])
  /\ UNCHANGED <<object, answer>>

ReturnReduced ==
  /\ InCallback /\ loop.method \in {"reduce", "reduceRight"}
  /\ \E v \in Values : loop' = GoOn(object, [Returned(v) EXCEPT !.acc = v])
  /\ UNCHANGED <<object, answer>>

Changed(o) ==
  /\ object' = o
  /\ loop' = [loop EXCEPT !.writes = @ + 1,
                !.kept = Restrict(@, {i \in DOMAIN @ : Has(o, i) /\ Get(o, i) = @[i]}),
                !.absent = {i \in @ : ~Has(o, i)}]

\* What the callback does to the object.
Writes ==
  /\ InCallback /\ loop.writes < MaxChanges
  /\ \/ \E i \in Places, v \in Values : Changed(Put(object, i, v))
     \/ \E i \in Places : Changed(Delete(object, i))
     \/ \E n \in 0 .. MaxLength : Changed(PutLength(object, n))
  /\ UNCHANGED answer

Throw == InCallback /\ loop' = None /\ UNCHANGED <<object, answer>>

-----------------------------------------------------------------------------
\* The program makes what object it likes, and takes what it is given.
Make ==
  /\ Idle
  /\ \/ \E i \in Places, v \in Elements : object' = Put(object, i, v)
     \/ \E i \in Places : object' = Delete(object, i)
     \/ \E n \in 0 .. MaxLength : object' = PutLength(object, n)
  /\ UNCHANGED <<answer, loop>>

Take ==
  /\ answer # None \/ (loop # None /\ ~loop.running)
  /\ answer' = None /\ loop' = None
  /\ UNCHANGED object

Init ==
  /\ object \in {[EmptyArray EXCEPT !.array = a] : a \in BOOLEAN}
  /\ answer = None /\ loop = None

Next ==
  \/ DoCall \/ Begin \/ Writes \/ Throw \/ Make \/ Take
  \/ ReturnTest \/ ReturnEach \/ ReturnMapped \/ ReturnSelected \/ ReturnReduced

Spec == Init /\ [][Next]_vars

-----------------------------------------------------------------------------
(* What 15.4.4 promises, element by element.  View and Own are the element  *)
(* at an index as a set of at most one.                                     *)
View(o, i) == IF Has(o, i) THEN {Get(o, i)} ELSE {}
Own(o, i) == IF i \in DOMAIN o.own THEN {o.own[i]} ELSE {}

\* o is left with this length and these elements of its own.
Left(p, length, Element(_)) ==
  p.length = length /\ \A i \in Places : Own(p, i) = Element(i)

\* The index that an argument means: a negative one counts from the end.
Meant(n, length) == IF n >= 0 THEN n ELSE length + n
InRange(from, i, to) == from <= i /\ i < to

RangeOf(o, from, to, part) ==
  \A i \in 0 .. MaxLength : Own(part, i) = IF from + i < to THEN View(o, from + i) ELSE {}

PopPromise(o, p, value) ==
  LET n == Max({o.length - 1, 0}) IN
  /\ Left(p, n, LAMBDA i : IF i = n THEN {} ELSE Own(o, i)) \/ (o.length = 0 /\ p = o)
  /\ value = IF o.length = 0 THEN Undefined ELSE Get(o, o.length - 1)

ShiftPromise(o, p, value) ==
  LET n == o.length IN
  IF n = 0 THEN p = o /\ value = Undefined
  ELSE /\ Left(p, n - 1, LAMBDA i : IF i < n - 1 THEN View(o, i + 1)
                                    ELSE IF i = n - 1 THEN {} ELSE Own(o, i))
       /\ value = Get(o, 0)

ReversePromise(o, p) ==
  Left(p, o.length, LAMBDA i : IF i < o.length /\ 2 * i + 1 # o.length
                               THEN View(o, o.length - 1 - i) ELSE Own(o, i))

UnshiftPromise(o, p, items, value) ==
  LET n == Len(items) IN
  /\ Left(p, o.length + n, LAMBDA i : IF i < n THEN {items[i + 1]}
                                      ELSE IF i < o.length + n THEN View(o, i - n) ELSE Own(o, i))
  /\ value = o.length + n

PushPromise(o, p, items, value) ==
  /\ Left(p, o.length + Len(items),
          LAMBDA i : IF InRange(o.length, i, o.length + Len(items))
                     THEN {items[i - o.length + 1]} ELSE Own(o, i))
  /\ value = o.length + Len(items)

\* The elements from start on make way for the items, as many as count says.
SplicePromise(o, p, start, count, items, value) ==
  LET len   == o.length
      at    == Max({0, Min({Meant(start, len), len})})
      rest  == Min({len, at + Max({count, 0})})       \* the first that stays
      moved == Len(items) - (rest - at)
  IN /\ Left(p, len + moved,
             LAMBDA i : CASE i < at -> Own(o, i)
                          [] InRange(at, i, at + Len(items)) -> {items[i - at + 1]}
                          [] InRange(at + Len(items), i, len + moved) ->
                               IF moved = 0 THEN Own(o, i) ELSE View(o, i - moved)
                          [] InRange(len + moved, i, len) -> {}
                          [] OTHER -> Own(o, i))
     /\ RangeOf(o, at, rest, value)

SlicePromise(o, p, start, end, value) ==
  LET to == IF end = Undefined THEN o.length ELSE Meant(end, o.length) IN
  p = o /\ RangeOf(o, Max({0, Meant(start, o.length)}), Min({to, o.length}), value)

\* As many of each value as before, in order: values, then undefined, then none.
SortPromise(o, p) ==
  LET at == 0 .. o.length - 1
      rank(i) == IF Own(p, i) = {} THEN 2 ELSE IF Own(p, i) = {Undefined} THEN 1 ELSE 0
  IN /\ p.length = o.length
     /\ \A v \in Elements : Cardinality({i \in at : View(o, i) = {v}})
                              = Cardinality({i \in at : Own(p, i) = {v}})
     /\ \A i, j \in at : i < j =>
          \/ rank(i) < rank(j)
          \/ rank(i) = rank(j) /\ (rank(i) = 0 => p.own[i] <= p.own[j])
     /\ \A i \in Places \ at : Own(p, i) = Own(o, i)

\* Where the first n of the parts end.
PartSize(o, arg) == IF arg = None THEN o.length ELSE 1
PartsEnd(o, parts) ==
  LET ends[n \in 0 .. Len(parts)] == IF n = 0 THEN 0 ELSE ends[n - 1] + PartSize(o, parts[n])
  IN ends

ConcatPromise(o, p, args, value) ==
  LET parts == <<None>> \o args
      ends  == PartsEnd(o, parts)
  IN /\ p = o /\ value.length = ends[Len(parts)]
     /\ \A n \in 1 .. Len(parts), i \in 0 .. MaxLength :
          i < PartSize(o, parts[n]) =>
            Own(value, ends[n - 1] + i) = IF parts[n] = None THEN View(o, i) ELSE {parts[n]}

FindPromise(o, p, x, matches, value, Best(_)) ==
  LET found == {i \in 0 .. o.length - 1 : View(o, i) = {x} /\ i \in matches} IN
  p = o /\ value = IF found = {} THEN -1 ELSE Best(found)

\* 15.4.4.4 to 15.4.4.15: each element goes where the standard says, holes stay
\* holes and inherited elements become own ones where they are moved, and the
\* call returns what it should.  Undefined positions of the result of concat
\* count (the code says that the standard forgets them).
CallsAsSpecified ==
  [][answer' # None /\ answer' # answer =>
       LET a == answer'.call.args
           m == answer'.call.method
           v == answer'.value
           n == object.length
       IN CASE m = "pop"     -> PopPromise(object, object', v)
            [] m = "push"    -> PushPromise(object, object', a[1], v)
            [] m = "shift"   -> ShiftPromise(object, object', v)
            [] m = "unshift" -> UnshiftPromise(object, object', a[1], v)
            [] m = "reverse" -> ReversePromise(object, object')
            [] m = "sort"    -> SortPromise(object, object')
            [] m = "slice"   -> SlicePromise(object, object', a[1], a[2], v)
            [] m = "splice"  -> SplicePromise(object, object', a[1], a[2], a[3], v)
            [] m = "concat"  -> ConcatPromise(object, object', a[1], v)
            [] m = "indexOf" ->
                 FindPromise(object, object', a[1], {i \in Places : i >= Meant(a[2], n)}, v, Min)
            [] m = "lastIndexOf" ->
                 FindPromise(object, object', a[1], {i \in Places : i <= Meant(a[2], n)}, v, Max)
    ]_vars

-----------------------------------------------------------------------------
Visited == {loop.visits[n].at : n \in DOMAIN loop.visits} \cup ({loop.first} \ {None})
Stopped == loop.method \in {"every", "some"} /\ loop.acc = (loop.method = "some")

\* 15.4.4.16 to 22: a loop calls back in order and for indexes below the first
\* length only, for no element that was never there, and, unless it stops
\* early, for each that was there all the time, with its value; whatever the
\* callback does to the object.
LoopVisits ==
  loop # None =>
    /\ \A m, n \in DOMAIN loop.visits : m < n =>
         IF Backwards(loop) THEN loop.visits[m].at > loop.visits[n].at
                            ELSE loop.visits[m].at < loop.visits[n].at
    /\ Visited \subseteq 0 .. loop.len - 1
    /\ Visited \cap loop.absent = {}
    /\ ~loop.running /\ ~Stopped => DOMAIN loop.kept \subseteq Visited
    /\ \A n \in DOMAIN loop.visits :
         loop.visits[n].at \in DOMAIN loop.kept => loop.visits[n].value = loop.kept[loop.visits[n].at]

\* How many of the first n calls select their element.
Chosen(n) == Cardinality({m \in 1 .. n : loop.visits[m].returned})

\* The result is what the calls of the callback make: a conjunction, a
\* disjunction, the values at their places, those selected, or the chain from
\* each call to the next.  (The code gives the places that map passes over the
\* value undefined, where the standard leaves holes: both read as undefined.)
LoopResult ==
  loop # None /\ ~loop.running =>
    LET visits == loop.visits
        last   == Len(visits)
    IN CASE loop.method = "every" -> loop.acc = \A n \in 1 .. last : visits[n].returned
         [] loop.method = "some"  -> loop.acc = \E n \in 1 .. last : visits[n].returned
         [] loop.method = "map"   ->
              /\ loop.acc.length = loop.len
              /\ \A i \in 0 .. loop.len - 1 :
                   IF \E n \in 1 .. last : visits[n].at = i
                   THEN \A n \in 1 .. last : visits[n].at = i => Get(loop.acc, i) = visits[n].returned
                   ELSE Get(loop.acc, i) = Undefined
         [] loop.method = "filter" ->
              /\ loop.acc.length = Chosen(last)
              /\ \A n \in 1 .. last :
                   visits[n].returned => Get(loop.acc, Chosen(n - 1)) = visits[n].value
         [] loop.method \in {"reduce", "reduceRight"} ->
              /\ \A n \in 2 .. last : visits[n].given = visits[n - 1].returned
              /\ last > 0 => loop.acc = visits[last].returned
              /\ loop.first # None => loop.first \notin {visits[n].at : n \in 1 .. last}
         [] OTHER -> TRUE
=============================================================================
