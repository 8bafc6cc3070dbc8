------------------------------- MODULE Lists -------------------------------
(***************************************************************************)
(* What the operations on a list_t do to its elements: the view the rest   *)
(* of the kernel has of list.cpp.  LinkedList implements it with nodes.    *)
(***************************************************************************)
EXTENDS Naturals, SequencesExt

\* list_remove_data: unlinks the first node that holds p, if there is one.
RemoveData(q, p) ==
  IF p \in Range(q)
  THEN RemoveAt(q, CHOOSE i \in DOMAIN q :
                     q[i] = p /\ \A j \in 1..(i - 1) : q[j] # p)
  ELSE q

\* The elements in S, in their order: what reschedule_process collects.
Only(q, S) ==
  LET found[i \in 0..Len(q)] ==
        IF i = 0 THEN <<>>
        ELSE IF q[i] \in S THEN Append(found[i - 1], q[i]) ELSE found[i - 1]
  IN  found[Len(q)]

\* The order reschedule_process leaves: f[i] is the old place of the element now
\* at place i; the elements in S come first and otherwise all keep their order.
IsRescheduling(f, q, S) ==
  \A i, j \in DOMAIN q : i < j =>
    /\ q[f[j]] \in S => q[f[i]] \in S
    /\ (q[f[i]] \in S) = (q[f[j]] \in S) => f[i] < f[j]

Reschedulings(q, S) ==
  {[i \in DOMAIN q |-> q[f[i]]] :
     f \in {g \in Bijection(DOMAIN q, DOMAIN q) : IsRescheduling(g, q, S)}}
=============================================================================
