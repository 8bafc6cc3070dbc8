----------------------------- MODULE Allocator -----------------------------
(***************************************************************************)
(* What kmalloc and malloc promise their callers: a piece of the heap that *)
(* nobody else has, for as long as it is not freed.  Heap implements it.   *)
(***************************************************************************)
EXTENDS Naturals

CONSTANTS
  Start, Size,   \* the heap occupies the addresses Start .. Start + Size - 1
  Request        \* the sizes callers ask for

VARIABLE owned   \* the size asked for, of every pointer callers hold

\* The bytes from p to p + n and those from q to q + m have none in common.
Apart(p, n, q, m) == p + n <= q \/ q + m <= p

\* p points to n bytes of the heap that are nobody's.
Fresh(p, n) ==
  /\ Start <= p /\ p + n <= Start + Size
  /\ \A q \in DOMAIN owned : q # p /\ Apart(p, n, q, owned[q])

Init == owned = [p \in {} |-> 0]

\* (A malloc that returns NULL changes nothing.)
Malloc(n) ==
  \E p \in Start..(Start + Size) :
    /\ Fresh(p, n)
    /\ owned' = [q \in DOMAIN owned \union {p} |-> IF q = p THEN n ELSE owned[q]]

Free(p) == owned' = [q \in DOMAIN owned \ {p} |-> owned[q]]

Next == (\E n \in Request : Malloc(n)) \/ (\E p \in DOMAIN owned : Free(p))

Spec == Init /\ [][Next]_owned
=============================================================================
