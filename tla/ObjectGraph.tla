---------------------------- MODULE ObjectGraph ----------------------------
(***************************************************************************)
(* What a garbage-collected heap promises to the program: a graph of       *)
(* objects with identities that do not change, read and written through    *)
(* handles, from which only unreachable objects disappear, each of them    *)
(* after its finaliser has run.                                            *)
(***************************************************************************)
EXTENDS Naturals, Sequences

CONSTANTS Cells, Types, PtrWords

VARIABLES
  edges,      \* the pointer words of each object of the heap, as object ids
  handles,    \* the object each root cell denotes
  finalized,  \* the objects whose finaliser ran
  ids         \* number of objects created so far

gvars == <<edges, handles, finalized, ids>>

Objects == DOMAIN edges

Successors(o) == {edges[o][w] : w \in DOMAIN edges[o]} \ {0}

Closed(S) ==
  /\ \A c \in Cells : handles[c] # 0 => handles[c] \in S
  /\ \A o \in S : Successors(o) \subseteq S

(* The least set that holds the handles' objects and all their successors. *)
Reachable == {o \in Objects : \A S \in SUBSET Objects : Closed(S) => o \in S}

(* The program runs only when no finalised object is left in the heap. *)
Running == finalized \cap Objects = {}

Init ==
  /\ edges = [o \in {} |-> << >>]
  /\ handles = [c \in Cells |-> 0]
  /\ finalized = {}
  /\ ids = 0

New(ty, c) ==
  /\ Running
  /\ ids' = ids + 1
  /\ edges' = [o \in Objects \cup {ids'} |->
                 IF o = ids' THEN [w \in 1 .. PtrWords[ty] |-> 0] ELSE edges[o]]
  /\ handles' = [handles EXCEPT ![c] = ids']
  /\ UNCHANGED finalized

SetHandle(c, o) ==
  /\ Running
  /\ handles' = [handles EXCEPT ![c] = o]
  /\ UNCHANGED <<edges, finalized, ids>>

Write(o, w, v) ==
  /\ Running
  /\ edges' = [edges EXCEPT ![o][w] = v]
  /\ UNCHANGED <<handles, finalized, ids>>

Finalize(o) ==
  /\ o \notin Reachable /\ o \notin finalized
  /\ finalized' = finalized \cup {o}
  /\ UNCHANGED <<edges, handles, ids>>

Reclaim ==
  /\ Objects \ Reachable \subseteq finalized
  /\ edges' = [o \in Reachable |-> edges[o]]
  /\ UNCHANGED <<handles, finalized, ids>>

Next ==
  \/ \E ty \in Types, c \in Cells : New(ty, c)
  \/ \E c, d \in Cells : SetHandle(c, handles[d])
  \/ \E c \in Cells : SetHandle(c, 0)
  \/ \E c, d \in Cells :
       /\ handles[d] # 0
       /\ \E w \in DOMAIN edges[handles[d]] : SetHandle(c, edges[handles[d]][w])
  \/ \E c, d \in Cells :
       /\ handles[c] # 0
       /\ \E w \in DOMAIN edges[handles[c]] : Write(handles[c], w, handles[d])
  \/ \E o \in Objects : Finalize(o)
  \/ Reclaim

Spec == Init /\ [][Next]_gvars
=============================================================================
