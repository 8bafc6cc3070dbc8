------------------------------ MODULE ListSpec ------------------------------
(***************************************************************************)
(* A list_t as its users see it: a sequence.                               *)
(***************************************************************************)
EXTENDS Lists

CONSTANT Data      \* what the elements may be

VARIABLE list

Init == list = <<>>

AddFirst(d) == list' = Cons(d, list)

AddLast(d) == list' = Append(list, d)

RemoveIndex(i) == i < Len(list) /\ list' = RemoveAt(list, i + 1)

Drop(d) == list' = RemoveData(list, d)

\* Each element once at most, as in the scheduler's lists.
Reschedule(S) == IsInjective(list) /\ list' \in Reschedulings(list, S)

Next ==
  \/ \E d \in Data : AddFirst(d) \/ AddLast(d) \/ Drop(d)
  \/ \E i \in 0..Len(list) : RemoveIndex(i)
  \/ \E S \in SUBSET Data : Reschedule(S)

Spec == Init /\ [][Next]_list
=============================================================================
