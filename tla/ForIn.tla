------------------------------- MODULE ForIn -------------------------------
(***************************************************************************)
(* A for-in statement: JsIterator::next (rt/iterator.rs) over an object    *)
(* and its prototype, whose properties are in hash stores, while the body  *)
(* of the loop adds and removes properties of the object.                  *)
(***************************************************************************)
EXTENDS HashTable, Sequences

CONSTANTS
  Start,        \* the objects at the start, the prototype second: a sequence
                \* of sequences of [name, value], in the order they are added
  CanAdd,       \* whether the body adds properties,
  CanDelete,    \* deletes the property it is at,
  CanDeleteAny  \* or deletes others

ASSUME StartAssumption ==
  /\ Start \in Seq(Seq([name : Names, value : BOOLEAN])) /\ Len(Start) >= 1
  /\ \A i \in DOMAIN Start : \A j, k \in DOMAIN Start[i] :
       Start[i][j].name = Start[i][k].name => j = k
ASSUME BodyAssumption == {CanAdd, CanDelete, CanDeleteAny} \subseteq BOOLEAN

VARIABLES
  objs,         \* the tables of the object and of its prototype
  target, offset,  \* of the iterator; target 0 is the null pointer
  seen,         \* the names it has come across
  pc,           \* "next" inside next(), "body", or "done"
  visited,      \* the names the body has run for (history)
  hidden,       \* the names found not to be enumerable (history)
  kept          \* the enumerable properties the object had at the start, until
                \* the body adds or deletes one (history)

iterator == <<target, offset, seen>>
vars == <<objs, iterator, pc, visited, hidden, kept>>

Filled(props) ==
  LET t[k \in 0 .. Len(props)] ==
        IF k = 0 THEN EmptyTable(InitialSize)
        ELSE LET so_far == t[k - 1] IN AddName(so_far, props[k].name, props[k].value)
  IN t[Len(props)]

Init ==
  /\ objs = [i \in DOMAIN Start |-> Filled(Start[i])]
  /\ target = 1 /\ offset = 0 /\ seen = {}
  /\ pc = "next"
  /\ visited = <<>> /\ hidden = {}
  /\ kept = {Start[1][k].name : k \in {j \in DOMAIN Start[1] : Start[1][j].value}}

-----------------------------------------------------------------------------
(* JsIterator::next: the arms of its loop over get_key *)
\* mutant: the last entry is taken for the end
AtEndEarly == offset + 1 >= Size(objs[target])

AtEnd == offset >= Size(objs[target])
At == objs[target].entries[offset]
InNext == pc = "next" /\ target # 0

Missing ==
  /\ InNext /\ ~AtEnd /\ ~At.valid
  /\ offset' = offset + 1
  /\ UNCHANGED <<objs, target, seen, pc, visited, hidden, kept>>

\* mutant: only the names visited are remembered
KeyForgetsHidden ==
  /\ InNext /\ ~AtEnd /\ At.valid
  /\ offset' = offset + 1
  /\ hidden' = IF At.value THEN hidden ELSE hidden \union {At.name}
  /\ IF At.name \notin seen /\ At.value
     THEN pc' = "body" /\ visited' = Append(visited, At.name) /\ seen' = seen \union {At.name}
     ELSE UNCHANGED <<pc, visited, seen>>
  /\ UNCHANGED <<objs, target, kept>>

\* mutant: what was seen is not looked up
KeyRepeats ==
  /\ InNext /\ ~AtEnd /\ At.valid
  /\ offset' = offset + 1
  /\ hidden' = IF At.value THEN hidden ELSE hidden \union {At.name}
  /\ seen' = seen \union {At.name}
  /\ IF At.value
     THEN pc' = "body" /\ visited' = Append(visited, At.name)
     ELSE UNCHANGED <<pc, visited>>
  /\ UNCHANGED <<objs, target, kept>>

\* A name seen before, or that is not enumerable, is passed over.
Key ==
  /\ InNext /\ ~AtEnd /\ At.valid
  /\ offset' = offset + 1
  /\ hidden' = IF At.value THEN hidden ELSE hidden \union {At.name}
  /\ seen' = seen \union {At.name}
  /\ IF At.name \notin seen /\ At.value
     THEN pc' = "body" /\ visited' = Append(visited, At.name)
     ELSE UNCHANGED <<pc, visited>>
  /\ UNCHANGED <<objs, target, kept>>

\* mutant: the end of the object is its beginning
EndRestarts ==
  /\ InNext /\ AtEnd
  /\ offset' = 0
  /\ UNCHANGED <<objs, target, seen, pc, visited, hidden, kept>>

End ==
  /\ InNext /\ AtEnd
  /\ offset' = 0
  /\ IF target < Len(objs)
     THEN target' = target + 1 /\ UNCHANGED pc
     ELSE target' = 0 /\ pc' = "done"
  /\ UNCHANGED <<objs, seen, visited, hidden, kept>>

-----------------------------------------------------------------------------
(* The body of the loop *)
InBody == pc = "body"
Current == visited[Len(visited)]

AddProperty ==
  /\ InBody /\ CanAdd
  /\ \E n \in Names, v \in BOOLEAN :
       ~Has(objs[1], n) /\ objs' = [objs EXCEPT ![1] = AddName(@, n, v)]
  /\ kept' = {}
  /\ UNCHANGED <<iterator, pc, visited, hidden>>

DeleteProperty ==
  /\ InBody
  /\ \E n \in Names :
       /\ (CanDelete /\ n = Current) \/ CanDeleteAny
       /\ Has(objs[1], n)
       /\ objs' = [objs EXCEPT ![1] = RemoveName(@, n)]
  /\ kept' = {}
  /\ UNCHANGED <<iterator, pc, visited, hidden>>

Continue ==                                  \* Ir::NextIter
  /\ InBody /\ pc' = "next"
  /\ UNCHANGED <<objs, iterator, visited, hidden, kept>>

Next == Missing \/ Key \/ End \/ AddProperty \/ DeleteProperty \/ Continue

\* next() runs on once it is called; of the body nothing is assumed.
Spec == Init /\ [][Next]_vars /\ WF_vars(Missing \/ Key \/ End)

-----------------------------------------------------------------------------
\* ECMA-262 12.6.4: "A property name must not be visited more than once in any
\* enumeration", whatever the body does to the table under the iterator.
VisitedOnce == \A i, j \in DOMAIN visited : visited[i] = visited[j] => i = j

\* ECMA-262 12.6.4: a property is visited while it is there and enumerable; one
\* that was found not to be enumerable shadows those of the prototype.
Visiting == visited'[Len(visited')]
VisitsWhatIsThere ==
  [][visited' # visited =>
       /\ Has(objs[target], Visiting) /\ EntryOf(objs[target], Visiting).value
       /\ Visiting \notin hidden]_vars

\* ECMA-262 12.6.4, step 6.a: the loop ends when there is no next property. If
\* the body leaves the object alone, every enumerable property was visited then.
VisitsAll == pc = "done" => \A n \in kept : \E k \in DOMAIN visited : visited[k] = n

\* Every call of next() comes to a name for the body or to the end of the loop:
\* its own loop passes over missing entries, names seen and names hidden, and
\* from the end of an object to its prototype, whatever the body has made of the
\* tables.  (The statement itself may run for ever: get_key is asked at an
\* offset that grows, so a body can add a property in every turn.)
NextReturns == pc = "next" ~> pc # "next"
=============================================================================
