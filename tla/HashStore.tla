------------------------------ MODULE HashStore ------------------------------
(***************************************************************************)
(* One HashStore used through the Store trait by the property operations   *)
(* of JsObject, which add a name only when get_own_property does not find  *)
(* it, and remove and replace only what it finds.                          *)
(***************************************************************************)
EXTENDS HashTable

VARIABLE table      \* [entries, count]

TableInit == table = EmptyTable(InitialSize)

AddNamed == \E n \in Names, v \in BOOLEAN : ~Has(table, n) /\ table' = AddName(table, n, v)
RemoveNamed == \E n \in Names : Has(table, n) /\ table' = RemoveName(table, n)
ReplaceNamed == \E n \in Names, v \in BOOLEAN : Has(table, n) /\ table' = ReplaceValue(table, n, v)

TableNext == AddNamed \/ RemoveNamed \/ ReplaceNamed

TableSpec == TableInit /\ [][TableNext]_table

-----------------------------------------------------------------------------
Offsets == DOMAIN table.entries
Valid == {i \in Offsets : table.entries[i].valid}

TableOK ==
  /\ table.count \in Nat
  /\ \A i \in Valid : /\ table.entries[i].name \in Names
                      /\ table.entries[i].next \in Offsets \union {-1}

\* Every valid entry is on the chain that begins at its ideal position, that
\* chain holds entries of one hash only and ends (the loops of find_entry, add
\* and remove do not check is_valid, for "the chain is always valid").
Chains ==
  \A i \in Valid :
    LET name == table.entries[i].name
        chain == Chain(table, name)
    IN /\ i \in chain
       /\ \A j \in chain : j \in Valid /\ Hash(table, table.entries[j].name) = Hash(table, name)
       /\ \E j \in chain : table.entries[j].next = -1
       /\ \A j, k \in chain : table.entries[j].next = table.entries[k].next => j = k

\* The count is that of the valid entries, no name has two, and an add that
\* does not grow finds a free entry: the scan for one has no other way to end.
Counts ==
  /\ TableOK
  /\ table.count = Cardinality(Valid)
  /\ \A i, j \in Valid : table.entries[i].name = table.entries[j].name => i = j
  /\ table.count <= MaxLoadFactor(table) => \E i \in Offsets : i \notin Valid
=============================================================================
