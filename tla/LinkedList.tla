----------------------------- MODULE LinkedList -----------------------------
(***************************************************************************)
(* The doubly linked list of kernel/src/processes/list.cpp, node by node,  *)
(* and reschedule_process of scheduler.cpp, which rearranges one.  A list  *)
(* is the record of its list_t and of the nodes; functions map it to the   *)
(* next one, as the C functions do.                                        *)
(***************************************************************************)
EXTENDS Lists

CONSTANTS
  Node,     \* the addresses kmalloc may return for a list_node_t
  Data,     \* what the elements may be
  NULL

\* kmalloc returns NULL for no memory only.
ASSUME NodesAreNotNull == NULL \notin Node

VARIABLES
  first, last, size,   \* the fields of list_t
  used,                \* the nodes that are allocated
  node                 \* the fields of every node

vars == <<first, last, size, used, node>>

NoNode == [data |-> NULL, prev |-> NULL, next |-> NULL]

list_t == [first |-> first, last |-> last, size |-> size,
           used |-> used, node |-> node]

Becomes(new) ==
  \E l \in {new} : /\ first' = l.first /\ last' = l.last /\ size' = l.size
                   /\ used' = l.used   /\ node' = l.node

-----------------------------------------------------------------------------
(* The functions of list.cpp *)

\* The node reached from the first one by following next i times.
At(l, i) ==
  LET at[k \in 0..i] == IF k = 0 THEN l.first ELSE l.node[at[k - 1]].next
  IN  at[i]

\* The elements, as every loop over the list meets them.
Elements(l) == [i \in 1..l.size |-> l.node[At(l, i - 1)].data]

\* Mutant: the old first node is not linked back.
AddFirstOneWay(l, n, d) ==
  IF l.first = NULL
  THEN [l EXCEPT !.used = @ \union {n}, !.size = @ + 1, !.first = n, !.last = n,
                 !.node[n] = [NoNode EXCEPT !.data = d]]
  ELSE [l EXCEPT !.used = @ \union {n}, !.size = @ + 1, !.first = n,
                 !.node[n] = [data |-> d, prev |-> NULL, next |-> l.first]]

list_add_first(l, n, d) ==
  IF l.first = NULL
  THEN [l EXCEPT !.used = @ \union {n}, !.size = @ + 1, !.first = n, !.last = n,
                 !.node[n] = [NoNode EXCEPT !.data = d]]
  ELSE [l EXCEPT !.used = @ \union {n}, !.size = @ + 1, !.first = n,
                 !.node[n] = [data |-> d, prev |-> NULL, next |-> l.first],
                 !.node[l.first].prev = n]

list_add_last(l, n, d) ==
  IF l.first = NULL
  THEN [l EXCEPT !.used = @ \union {n}, !.size = @ + 1, !.first = n, !.last = n,
                 !.node[n] = [NoNode EXCEPT !.data = d]]
  ELSE [l EXCEPT !.used = @ \union {n}, !.size = @ + 1, !.last = n,
                 !.node[n] = [data |-> d, prev |-> l.last, next |-> NULL],
                 !.node[l.last].next = n]

\* (The fields of a freed node are cleared so that dead data is not state.)
Freed(l, n) ==
  [l EXCEPT !.used = @ \ {n}, !.size = @ - 1, !.node[n] = NoNode]

\* An empty list keeps a last that points to the freed node.
Unlinked(l, n) ==
  LET p == l.node[n].prev
      s == l.node[n].next
  IN  IF n = l.first
      THEN IF s = NULL THEN [l EXCEPT !.first = NULL]
           ELSE [l EXCEPT !.first = s, !.node[s].prev = NULL]
      ELSE IF n = l.last
      THEN [l EXCEPT !.last = p, !.node[p].next = NULL]
      ELSE [l EXCEPT !.node[p].next = s, !.node[s].prev = p]

\* Mutant: the loop stops a node too early.
list_remove_before(l, i) ==
  IF i >= l.size THEN l
  ELSE LET n == At(l, IF i = 0 THEN 0 ELSE i - 1) IN Freed(Unlinked(l, n), n)

\* Mutant: counts the element before looking whether it exists.
list_remove_early_count(l, i) ==
  IF i >= l.size THEN [l EXCEPT !.size = @ - 1]
  ELSE LET n == At(l, i) IN Freed(Unlinked(l, n), n)

list_remove(l, i) ==
  IF i >= l.size THEN l
  ELSE LET n == At(l, i) IN Freed(Unlinked(l, n), n)

list_remove_data(l, d) ==
  LET found == {i \in 1..l.size : Elements(l)[i] = d}
  IN  IF found = {} THEN l
      ELSE list_remove(l, (CHOOSE i \in found : \A j \in found : i <= j) - 1)

-----------------------------------------------------------------------------
(* reschedule_process collects the elements to move, takes them out one after *)
(* the other and puts them in front, starting with the last.                  *)

FreeNode(l) == CHOOSE n \in Node \ l.used : TRUE

reschedule(l, S) ==
  LET moved == Only(Elements(l), S)
      n     == Len(moved)
      removed[i \in 0..n] ==
        IF i = 0 THEN l ELSE list_remove_data(removed[i - 1], moved[i])
      back[i \in 0..n] ==
        IF i = 0 THEN removed[n]
        ELSE list_add_first(back[i - 1], FreeNode(back[i - 1]), moved[n + 1 - i])
  IN  back[n]

-----------------------------------------------------------------------------

\* list_create
Init ==
  /\ first = NULL /\ last = NULL /\ size = 0 /\ used = {}
  /\ node = [n \in Node |-> NoNode]

\* Without memory for a node, the element is not added.
AddFirst(d) == \E n \in Node \ used : Becomes(list_add_first(list_t, n, d))

AddLast(d) == \E n \in Node \ used : Becomes(list_add_last(list_t, n, d))

RemoveIndex(i) == Becomes(list_remove(list_t, i))

Drop(d) == Becomes(list_remove_data(list_t, d))

\* The scheduler's lists hold a process once.
Reschedule(S) ==
  /\ IsInjective(Elements(list_t))
  /\ Becomes(reschedule(list_t, S))

Next ==
  \/ \E d \in Data : AddFirst(d) \/ AddLast(d) \/ Drop(d)
  \/ \E i \in 0..size : RemoveIndex(i)
  \/ \E S \in SUBSET Data : Reschedule(S)

Spec == Init /\ [][Next]_vars

-----------------------------------------------------------------------------
(* Properties *)

\* Type invariant.
TypeOK ==
  /\ first \in Node \union {NULL} /\ last \in Node \union {NULL}
  /\ size \in Nat /\ used \subseteq Node
  /\ node \in [Node -> [data : Data \union {NULL}, prev : Node \union {NULL},
                        next : Node \union {NULL}]]

\* The two chains agree: size nodes are reached from first by next, the last of
\* them is last, and prev leads back; so list_remove, which follows next to find
\* a node and prev to unlink it, finds both neighbours.  Every node that was
\* allocated is in the chain or was freed.
WellLinked ==
  /\ used = {At(list_t, i - 1) : i \in 1..size}
  /\ (first = NULL) = (size = 0)
  /\ size > 0 =>
       /\ At(list_t, size) = NULL /\ At(list_t, size - 1) = last
       /\ node[first].prev = NULL
       /\ \A i \in 1..(size - 1) : node[At(list_t, i)].prev = At(list_t, i - 1)

\* Seen from outside the nodes are a sequence, on which the operations do what
\* the scheduler's functions are written for; reschedule_process, which walks a
\* list while it takes the list apart, leaves the order Lists describes.
AsSequence == INSTANCE ListSpec WITH list <- Elements(list_t)
IsSequence == AsSequence!Spec
=============================================================================
