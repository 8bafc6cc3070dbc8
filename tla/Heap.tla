-------------------------------- MODULE Heap --------------------------------
(***************************************************************************)
(* The heap of kernel/src/mem/heap.cpp, which serves both the kernel and   *)
(* every process: first fit over a chain of blocks, each with a header in  *)
(* front.  A step is one call, or one round of the loop of heap_malloc.    *)
(***************************************************************************)
EXTENDS Naturals

CONSTANTS
  Start, Size,   \* heap->addr and heap->size
  Header,        \* sizeof(heap_block_t)
  Word,          \* 2^32: unsigned arithmetic wraps
  Request        \* the sizes callers ask for

ASSUME HeapAssumption ==
  /\ Start \in Nat \ {0} /\ Size \in Nat /\ Header \in Nat \ {0}
  /\ Header <= Size /\ Header <= Start
  /\ Word \in Nat /\ Start + Size < Word
  /\ Request \subseteq 0..(Word - 1)

NULL == 0
End == Start + Size
Address == Start..(End - 1)

\* heap_block_t
Block == [size : 0..Size, next : Address \union {NULL}, free : BOOLEAN]

VARIABLES
  heap,    \* the headers in the chain: address |-> [size, next, free]
  call,    \* heap_malloc's request and block while it runs
  owned    \* the size asked for, of every pointer callers hold

vars == <<heap, call, owned>>

NoCall == [request |-> 0, block |-> NULL, active |-> FALSE]

-----------------------------------------------------------------------------
(* Functions on a chain h *)

\* Mutant: merges whatever follows.
MergeAnything(h, b) ==
  LET n == h[b].next
  IN  IF h[b].free /\ n # NULL
      THEN [a \in DOMAIN h \ {n} |->
              IF a = b THEN [size |-> h[b].size + h[n].size,
                             next |-> h[n].next, free |-> TRUE]
              ELSE h[a]]
      ELSE h

\* Two adjacent free blocks become one; the second header is forgotten.
Merge(h, b) ==
  LET n == h[b].next
  IN  IF h[b].free /\ n # NULL /\ h[n].free
      THEN [a \in DOMAIN h \ {n} |->
              IF a = b THEN [size |-> h[b].size + h[n].size,
                             next |-> h[n].next, free |-> TRUE]
              ELSE h[a]]
      ELSE h

\* actual_size_needed
Needed(n) == (n + Header) % Word

Fits(h, b, needed) == h[b].free /\ h[b].size >= needed

\* Mutant: splits also when nothing is left for a second block.
TakeAlwaysSplit(h, b, needed) ==
  [a \in DOMAIN h \union {b + needed} |->
     IF a = b THEN [size |-> needed, next |-> b + needed, free |-> FALSE]
     ELSE IF a = b + needed
       THEN [size |-> h[b].size - needed, next |-> h[b].next, free |-> TRUE]
     ELSE h[a]]

\* Mutant: the rest keeps the size of the whole block.
TakeKeepSize(h, b, needed) ==
  IF h[b].size > (needed + Header) % Word
  THEN [a \in DOMAIN h \union {b + needed} |->
          IF a = b THEN [size |-> needed, next |-> b + needed, free |-> FALSE]
          ELSE IF a = b + needed
            THEN [size |-> h[b].size, next |-> h[b].next, free |-> TRUE]
          ELSE h[a]]
  ELSE [h EXCEPT ![b].free = FALSE]

\* The block is handed out; a rest with room for a header and a byte is split.
Take(h, b, needed) ==
  IF h[b].size > (needed + Header) % Word
  THEN [a \in DOMAIN h \union {b + needed} |->
          IF a = b THEN [size |-> needed, next |-> b + needed, free |-> FALSE]
          ELSE IF a = b + needed
            THEN [size |-> h[b].size - needed, next |-> h[b].next, free |-> TRUE]
          ELSE h[a]]
  ELSE [h EXCEPT ![b].free = FALSE]

-----------------------------------------------------------------------------

\* heap_init: one free block.
Init ==
  /\ heap = [a \in {Start} |-> [size |-> Size, next |-> NULL, free |-> TRUE]]
  /\ call = NoCall
  /\ owned = [p \in {} |-> 0]

\* heap_malloc is entered.
Malloc(n) ==
  /\ ~call.active
  /\ call' = [request |-> n, block |-> Start, active |-> TRUE]
  /\ UNCHANGED <<heap, owned>>

\* A round of its loop that finds a block and returns its address.
Found ==
  /\ call.active /\ call.block # NULL
  /\ LET b      == call.block
         merged == Merge(heap, b)
         needed == Needed(call.request)
         p      == b + Header
     IN  /\ Fits(merged, b, needed)
         /\ heap' = Take(merged, b, needed)
         /\ owned' = [q \in DOMAIN owned \union {p} |->
                        IF q = p THEN call.request ELSE owned[q]]
  /\ call' = NoCall

\* A round of its loop that moves on to the next block.
MoveOn ==
  /\ call.active /\ call.block # NULL
  /\ LET merged == Merge(heap, call.block)
     IN  /\ ~Fits(merged, call.block, Needed(call.request))
         /\ heap' = merged
         /\ call' = [call EXCEPT !.block = merged[call.block].next]
  /\ UNCHANGED owned

\* It returns NULL.
NotFound ==
  /\ call.active /\ call.block = NULL
  /\ call' = NoCall
  /\ UNCHANGED <<heap, owned>>

\* heap_free of a pointer its owner got from malloc.
Free(p) ==
  /\ ~call.active
  /\ heap' = IF p < Start \/ p > End THEN heap
             ELSE [heap EXCEPT ![p - Header].free = TRUE]
  /\ owned' = [q \in DOMAIN owned \ {p} |-> owned[q]]
  /\ UNCHANGED call

Next ==
  \/ \E n \in Request : Malloc(n)
  \/ Found \/ MoveOn \/ NotFound
  \/ \E p \in DOMAIN owned : Free(p)

Spec == Init /\ [][Next]_vars

-----------------------------------------------------------------------------
(* Properties *)

\* Type invariant.
TypeOK ==
  /\ DOMAIN heap \subseteq Address
  /\ heap \in [DOMAIN heap -> Block]
  /\ call \in [request : Request \union {0}, block : Address \union {NULL},
               active : BOOLEAN]
  /\ DOMAIN owned \subseteq Start..End
  /\ owned \in [DOMAIN owned -> Request]

\* The chain tiles the heap: following next from the first header visits blocks
\* that adjoin each other and end where the heap ends, through every split and
\* merge; no header lies inside another block.
Chain ==
  /\ Start \in DOMAIN heap
  /\ \A b \in DOMAIN heap :
       /\ b + heap[b].size <= End
       /\ heap[b].next = IF b + heap[b].size = End THEN NULL
                         ELSE b + heap[b].size
       /\ heap[b].next # NULL => heap[b].next \in DOMAIN heap
  /\ \A a, b \in DOMAIN heap : a < b => a + heap[a].size <= b

\* The blocks marked as taken are those callers hold pointers to, each with
\* room for its header and the bytes asked for: no block is lost, none is
\* handed out twice or too small, or more than a header too large, and free
\* finds the header of every pointer.
TakenBlocks ==
  /\ {b + Header : b \in {a \in DOMAIN heap : ~heap[a].free}} = DOMAIN owned
  /\ \A p \in DOMAIN owned :
       heap[p - Header].size \in (owned[p] + Header)..(owned[p] + 2 * Header)

\* What callers see is an allocator: nobody gets bytes somebody else holds.
Promise == INSTANCE Allocator
IsAllocator == Promise!Spec
=============================================================================
