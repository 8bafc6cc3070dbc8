----------------------------- MODULE HeapProofs -----------------------------
(***************************************************************************)
(* Proofs about the heap, for every size of heap and header, as long as no *)
(* request wraps around when headers are added to it.                      *)
(***************************************************************************)
EXTENDS Heap, TLAPS

NoWrap == \A n \in Request : n + Header + Header < Word

-----------------------------------------------------------------------------
(* Chains *)

ChainOK(h) ==
  /\ DOMAIN h \subseteq Address /\ h \in [DOMAIN h -> Block]
  /\ Start \in DOMAIN h
  /\ \A b \in DOMAIN h :
       /\ h[b].size > 0
       /\ b + h[b].size <= End
       /\ h[b].next = IF b + h[b].size = End THEN NULL ELSE b + h[b].size
       /\ h[b].next # NULL => h[b].next \in DOMAIN h
  /\ \A a, b \in DOMAIN h : a < b => a + h[a].size <= b

Taken(h) == {b \in DOMAIN h : ~h[b].free}

\* Addresses are positive, so NULL is none of them.
LEMMA Addresses ==
  /\ Address \subseteq Nat \ {0} /\ NULL \notin Address
  /\ Start \in Nat /\ End \in Nat /\ Size \in Nat /\ Header \in Nat \ {0} /\ Word \in Nat
  /\ End = Start + Size /\ End < Word /\ Header <= Size
  /\ \A a \in Address : Start <= a /\ a < End
  /\ \A a \in Nat : Start <= a /\ a < End => a \in Address
  BY HeapAssumption DEF Address, End, NULL

\* Merging two free blocks keeps the chain and the taken blocks.
LEMMA MergeChain ==
  ASSUME NEW h, ChainOK(h), NEW b \in DOMAIN h
  PROVE  LET m == Merge(h, b)
         IN  /\ ChainOK(m) /\ b \in DOMAIN m
             /\ m[b].free = h[b].free
             /\ Taken(m) = Taken(h) /\ \A a \in Taken(h) : m[a] = h[a]
  <1> DEFINE n == h[b].next
             m == Merge(h, b)
  <1>1. CASE h[b].free /\ n # NULL /\ h[n].free
    <2>1. /\ DOMAIN m = DOMAIN h \ {n}
          /\ \A a \in DOMAIN h \ {n} :
               m[a] = IF a = b THEN [size |-> h[b].size + h[n].size,
                                     next |-> h[n].next, free |-> TRUE]
                      ELSE h[a]
          /\ m \in [DOMAIN m -> {m[a] : a \in DOMAIN m}]
      BY <1>1 DEF Merge
    <2>2. /\ n \in DOMAIN h /\ n = b + h[b].size /\ h[b].size \in Nat \ {0}
          /\ h[n].size \in Nat \ {0} /\ b \in Nat /\ n # b /\ b < n
          /\ n + h[n].size <= End /\ n \in Nat
      BY <1>1, Addresses DEF ChainOK, Block
    <2>3. h[b].size + h[n].size \in 0..Size
      BY <2>2, Addresses DEF ChainOK
    <2> HIDE DEF m
    <2>4. /\ b \in DOMAIN m
          /\ m[b] = [size |-> h[b].size + h[n].size, next |-> h[n].next, free |-> TRUE]
          /\ \A a \in DOMAIN m : a # b => m[a] = h[a] /\ a \in DOMAIN h /\ a # n
      BY <2>1, <2>2
    <2>5. m[b] \in Block
      BY <2>2, <2>3, <2>4 DEF ChainOK, Block
    <2>6. DOMAIN m \subseteq Address /\ m \in [DOMAIN m -> Block]
      BY <2>1, <2>4, <2>5 DEF ChainOK
    <2>7. Start \in DOMAIN m
      BY <2>1, <2>2, Addresses DEF ChainOK
    <2>8. \A a \in DOMAIN m :
            /\ m[a].size > 0
            /\ a + m[a].size <= End
            /\ m[a].next = IF a + m[a].size = End THEN NULL ELSE a + m[a].size
            /\ m[a].next # NULL => m[a].next \in DOMAIN m
      <3> SUFFICES ASSUME NEW a \in DOMAIN m
                   PROVE  /\ m[a].size > 0
                          /\ a + m[a].size <= End
                          /\ m[a].next = IF a + m[a].size = End THEN NULL ELSE a + m[a].size
                          /\ m[a].next # NULL => m[a].next \in DOMAIN m
        OBVIOUS
      <3>1. CASE a = b
        <4>1. h[n].next # n /\ (h[n].next # NULL => h[n].next \in DOMAIN h)
          BY <2>2, Addresses DEF ChainOK
        <4> QED BY <3>1, <4>1, <2>1, <2>2, <2>4, Addresses DEF ChainOK
      <3>2. CASE a # b
        <4>1. m[a] = h[a] /\ a \in DOMAIN h /\ a # n /\ a \in Nat /\ h[a].size \in Nat
          BY <2>4, <3>2, Addresses DEF ChainOK, Block
        <4>2. h[a].next # n
          <5>1. a < b \/ a > b
            BY <3>2, <2>2, <4>1
          <5>2. a < b => a + h[a].size <= b
            BY <4>1 DEF ChainOK
          <5>3. a > b => n <= a
            BY <4>1, <2>2 DEF ChainOK
          <5> QED BY <1>1, <2>2, <4>1, <5>1, <5>2, <5>3 DEF ChainOK
        <4> QED BY <2>1, <4>1, <4>2 DEF ChainOK
      <3> QED BY <3>1, <3>2
    <2>9. \A a, c \in DOMAIN m : a < c => a + m[a].size <= c
      <3> SUFFICES ASSUME NEW a \in DOMAIN m, NEW c \in DOMAIN m, a < c
                   PROVE  a + m[a].size <= c
        OBVIOUS
      <3>1. a \in DOMAIN h /\ c \in DOMAIN h /\ c # n /\ a \in Nat /\ c \in Nat
        BY <2>1, Addresses DEF ChainOK
      <3>2. CASE a = b
        <4>1. n <= c
          BY <3>1, <3>2, <2>2 DEF ChainOK
        <4>2. n < c
          BY <3>1, <4>1, <2>2
        <4>3. n + h[n].size <= c
          BY <4>2, <2>2, <3>1 DEF ChainOK
        <4> QED BY <4>3, <3>2, <2>2, <2>4
      <3>3. CASE a # b
        BY <2>4, <3>1, <3>3 DEF ChainOK
      <3> QED BY <3>2, <3>3
    <2>10. ChainOK(m)
      BY <2>6, <2>7, <2>8, <2>9 DEF ChainOK
    <2>11. Taken(m) = Taken(h) /\ \A a \in Taken(h) : m[a] = h[a]
      BY <1>1, <2>1, <2>2, <2>4 DEF Taken
    <2> QED BY <1>1, <2>4, <2>10, <2>11 DEF m
  <1>2. CASE ~(h[b].free /\ n # NULL /\ h[n].free)
    BY <1>2 DEF Merge
  <1> QED BY <1>1, <1>2

\* A sum below 2^32 does not wrap.
LEMMA SmallMod == ASSUME NEW x \in Nat, x < Word PROVE x % Word = x
  BY HeapAssumption

\* Handing out a block keeps the chain and takes just that block.
LEMMA TakeChain ==
  ASSUME NEW h, ChainOK(h), NEW b \in DOMAIN h, NEW needed \in Nat \ {0},
         needed + Header < Word, Fits(h, b, needed)
  PROVE  LET t == Take(h, b, needed)
         IN  /\ ChainOK(t)
             /\ b \in DOMAIN t /\ Taken(t) = Taken(h) \union {b} /\ b \notin Taken(h)
             /\ needed <= t[b].size /\ t[b].size <= needed + Header
             /\ \A a \in Taken(h) : t[a] = h[a]
  <1> DEFINE t == Take(h, b, needed)
             r == b + needed
  <1>1. /\ b \in Nat /\ b \in Address /\ h[b].size \in Nat /\ h[b].size >= needed /\ h[b].free
        /\ b + h[b].size <= End /\ h[b].size <= Size
    BY Addresses DEF ChainOK, Block, Fits
  <1>2. (needed + Header) % Word = needed + Header
    BY SmallMod, Addresses
  <1>3. CASE h[b].size > needed + Header
    <2>1. /\ DOMAIN t = DOMAIN h \union {r}
          /\ \A a \in DOMAIN h \union {r} :
               t[a] = IF a = b THEN [size |-> needed, next |-> r, free |-> FALSE]
                      ELSE IF a = r
                        THEN [size |-> h[b].size - needed, next |-> h[b].next, free |-> TRUE]
                      ELSE h[a]
          /\ t \in [DOMAIN t -> {t[a] : a \in DOMAIN t}]
      BY <1>2, <1>3 DEF Take
    <2> HIDE DEF t
    <2>2. r \in Nat /\ r # b /\ b < r /\ r < b + h[b].size
      BY <1>1, <1>3, Addresses
    <2>3. r \in Address /\ r \notin DOMAIN h /\ r # NULL
      <3>1. r \in Address
        BY <1>1, <2>2, Addresses
      <3>2. r \notin DOMAIN h
        BY <1>1, <2>2 DEF ChainOK
      <3> QED BY <3>1, <3>2, Addresses
    <2>4. /\ t[b] = [size |-> needed, next |-> r, free |-> FALSE]
          /\ t[r] = [size |-> h[b].size - needed, next |-> h[b].next, free |-> TRUE]
          /\ \A a \in DOMAIN h : a # b => t[a] = h[a]
      BY <2>1, <2>2, <2>3
    <2>5. t[b] \in Block /\ t[r] \in Block
      <3>1. needed \in 0..Size /\ h[b].size - needed \in 0..Size
        BY <1>1, Addresses
      <3>2. h[b].next \in Address \union {NULL}
        BY DEF ChainOK, Block
      <3> QED BY <2>3, <2>4, <3>1, <3>2 DEF Block
    <2>6. DOMAIN t \subseteq Address /\ t \in [DOMAIN t -> Block] /\ Start \in DOMAIN t
      BY <2>1, <2>3, <2>4, <2>5 DEF ChainOK
    <2>7. \A a \in DOMAIN t :
            /\ t[a].size > 0
            /\ a + t[a].size <= End
            /\ t[a].next = IF a + t[a].size = End THEN NULL ELSE a + t[a].size
            /\ t[a].next # NULL => t[a].next \in DOMAIN t
      <3> SUFFICES ASSUME NEW a \in DOMAIN t
                   PROVE  /\ t[a].size > 0
                          /\ a + t[a].size <= End
                          /\ t[a].next = IF a + t[a].size = End THEN NULL ELSE a + t[a].size
                          /\ t[a].next # NULL => t[a].next \in DOMAIN t
        OBVIOUS
      <3>1. CASE a = b
        BY <3>1, <1>1, <2>1, <2>2, <2>4, Addresses
      <3>2. CASE a = r
        <4>1. r + (h[b].size - needed) = b + h[b].size /\ h[b].size - needed > 0
          BY <1>1, <1>3, Addresses
        <4>2. /\ h[b].next = IF b + h[b].size = End THEN NULL ELSE b + h[b].size
              /\ h[b].next # NULL => h[b].next \in DOMAIN h
          BY DEF ChainOK
        <4> QED BY <3>2, <4>1, <4>2, <1>1, <2>1, <2>4
      <3>3. CASE a # b /\ a # r
        BY <3>3, <2>1, <2>4 DEF ChainOK
      <3> QED BY <3>1, <3>2, <3>3
    <2>8. \A a, c \in DOMAIN t : a < c => a + t[a].size <= c
      <3> SUFFICES ASSUME NEW a \in DOMAIN t, NEW c \in DOMAIN t, a < c
                   PROVE  a + t[a].size <= c
        OBVIOUS
      <3>1. a \in Nat /\ c \in Nat
        BY <2>6, Addresses
      <3>2. CASE a = b
        <4>1. c = r \/ (c \in DOMAIN h /\ b + h[b].size <= c)
          BY <3>2, <2>1 DEF ChainOK
        <4> QED BY <4>1, <3>1, <3>2, <1>1, <2>2, <2>4
      <3>3. CASE a = r
        <4>1. c \in DOMAIN h /\ b < c
          BY <3>3, <3>1, <2>1, <2>2, <1>1
        <4>2. b + h[b].size <= c
          BY <4>1 DEF ChainOK
        <4>3. t[a].size = h[b].size - needed
          BY <3>3, <2>4
        <4> QED BY <4>2, <4>3, <3>3, <3>1, <1>1
      <3>4. CASE a # b /\ a # r
        <4>1. a \in DOMAIN h /\ t[a] = h[a] /\ h[a].size \in Nat
          BY <3>4, <2>1, <2>4 DEF ChainOK, Block
        <4>2. CASE c = r
          <5>1. a < b
            <6>1. a > b => b + h[b].size <= a
              BY <4>1 DEF ChainOK
            <6> QED BY <6>1, <4>2, <3>1, <3>4, <1>1, <2>2
          <5>2. a + h[a].size <= b
            BY <4>1, <5>1 DEF ChainOK
          <5> QED BY <4>1, <4>2, <5>2, <3>1, <1>1, <2>2
        <4>3. CASE c # r
          BY <4>1, <4>3, <2>1 DEF ChainOK
        <4> QED BY <4>2, <4>3
      <3> QED BY <3>2, <3>3, <3>4
    <2>9. ChainOK(t)
      BY <2>6, <2>7, <2>8 DEF ChainOK
    <2>10. Taken(t) = Taken(h) \union {b} /\ b \notin Taken(h) /\ \A a \in Taken(h) : t[a] = h[a]
      BY <1>1, <2>1, <2>3, <2>4 DEF Taken
    <2>11. needed <= t[b].size /\ t[b].size <= needed + Header
      BY <2>4, Addresses
    <2> QED BY <2>1, <2>9, <2>10, <2>11 DEF t
  <1>4. CASE ~(h[b].size > needed + Header)
    <2>1. t = [h EXCEPT ![b].free = FALSE]
      BY <1>2, <1>4 DEF Take
    <2>2. /\ DOMAIN t = DOMAIN h
          /\ t[b] = [h[b] EXCEPT !.free = FALSE]
          /\ \A a \in DOMAIN h : a # b => t[a] = h[a]
          /\ t \in [DOMAIN t -> {t[a] : a \in DOMAIN t}]
      BY <2>1 DEF ChainOK
    <2> HIDE DEF t
    <2>3. /\ t[b] \in Block /\ t[b].size = h[b].size /\ t[b].next = h[b].next
          /\ t[b].free = FALSE
      <3>1. h[b] \in Block
        BY DEF ChainOK
      <3>2. t[b] = [size |-> h[b].size, next |-> h[b].next, free |-> FALSE]
        BY <2>2, <3>1 DEF Block
      <3>3. h[b].size \in 0..Size /\ h[b].next \in Address \union {NULL}
        BY <3>1 DEF Block
      <3> QED BY <3>2, <3>3 DEF Block
    <2>4. t \in [DOMAIN t -> Block]
      BY <2>2, <2>3 DEF ChainOK
    <2>5. \A a \in DOMAIN h : t[a].size = h[a].size /\ t[a].next = h[a].next
      BY <2>2, <2>3
    <2>6. ChainOK(t)
      BY <2>2, <2>4, <2>5 DEF ChainOK
    <2>7. Taken(t) = Taken(h) \union {b} /\ b \notin Taken(h) /\ \A a \in Taken(h) : t[a] = h[a]
      BY <1>1, <2>2, <2>3 DEF Taken
    <2>8. needed <= t[b].size /\ t[b].size <= needed + Header
      BY <1>1, <1>4, <2>3, Addresses
    <2>9. b \in DOMAIN t
      BY <2>2
    <2> QED BY <2>6, <2>7, <2>8, <2>9 DEF t
  <1> QED BY <1>3, <1>4

\* heap_free of a block that is taken.
LEMMA FreeChain ==
  ASSUME NEW h, ChainOK(h), NEW b \in Taken(h)
  PROVE  LET t == [h EXCEPT ![b].free = TRUE]
         IN  /\ ChainOK(t) /\ Taken(t) = Taken(h) \ {b}
             /\ \A a \in Taken(t) : t[a] = h[a]
  <1> DEFINE t == [h EXCEPT ![b].free = TRUE]
  <1>1. /\ DOMAIN t = DOMAIN h /\ b \in DOMAIN h
        /\ t[b] = [h[b] EXCEPT !.free = TRUE]
        /\ \A a \in DOMAIN h : a # b => t[a] = h[a]
        /\ t \in [DOMAIN t -> {t[a] : a \in DOMAIN t}]
    BY DEF ChainOK, Taken
  <1> HIDE DEF t
  <1>2. /\ t[b] \in Block /\ t[b].size = h[b].size /\ t[b].next = h[b].next
        /\ t[b].free = TRUE
    <2>1. h[b] \in Block
      BY <1>1 DEF ChainOK
    <2> QED BY <1>1, <2>1 DEF Block
  <1>3. t \in [DOMAIN t -> Block]
    BY <1>1, <1>2 DEF ChainOK
  <1>4. \A a \in DOMAIN h : t[a].size = h[a].size /\ t[a].next = h[a].next
    BY <1>1, <1>2
  <1>5. ChainOK(t)
    <2>1. DOMAIN t \subseteq Address /\ Start \in DOMAIN t
      BY <1>1 DEF ChainOK
    <2>2. ASSUME NEW a \in DOMAIN t
          PROVE  /\ t[a].size > 0 /\ a + t[a].size <= End
                 /\ t[a].next = IF a + t[a].size = End THEN NULL ELSE a + t[a].size
                 /\ t[a].next # NULL => t[a].next \in DOMAIN t
      BY <1>1, <1>4 DEF ChainOK
    <2>3. ASSUME NEW a \in DOMAIN t, NEW c \in DOMAIN t, a < c
          PROVE  a + t[a].size <= c
      BY <1>1, <1>4, <2>3 DEF ChainOK
    <2> QED BY <1>3, <2>1, <2>2, <2>3 DEF ChainOK
  <1>6. Taken(t) = Taken(h) \ {b} /\ \A a \in Taken(t) : t[a] = h[a]
    BY <1>1, <1>2 DEF Taken
  <1> QED BY <1>5, <1>6 DEF t

-----------------------------------------------------------------------------
(* The inductive invariant *)

\* Of every pointer callers hold, the block.
Owners ==
  /\ {b + Header : b \in Taken(heap)} = DOMAIN owned
  /\ \A p \in DOMAIN owned :
       /\ owned[p] + Header <= heap[p - Header].size
       /\ heap[p - Header].size <= owned[p] + 2 * Header

IInv ==
  /\ TypeOK /\ ChainOK(heap) /\ Owners
  /\ call.active => /\ call.request \in Request
                    /\ call.block # NULL => call.block \in DOMAIN heap

\* heap_init's single free block is a chain.
LEMMA InitIInv == Init => IInv
  <1> SUFFICES ASSUME Init PROVE IInv
    OBVIOUS
  <1>1. /\ heap = [a \in {Start} |-> [size |-> Size, next |-> NULL, free |-> TRUE]]
        /\ call = NoCall /\ owned = [p \in {} |-> 0]
    BY DEF Init
  <1>2. ChainOK(heap) /\ Taken(heap) = {}
    <2>1. Start \in Address /\ Size > 0
      BY Addresses
    <2>2. DOMAIN heap = {Start} /\ heap[Start] = [size |-> Size, next |-> NULL, free |-> TRUE]
      BY <1>1
    <2>3. heap[Start] \in Block
      BY <2>2, Addresses DEF Block
    <2>4. heap \in [DOMAIN heap -> Block]
      BY <1>1, <2>2, <2>3
    <2> QED BY <2>1, <2>2, <2>4, Addresses DEF ChainOK, Taken
  <1>3. Owners
    BY <1>1, <1>2 DEF Owners
  <1>4. TypeOK
    BY <1>1, <1>2 DEF TypeOK, ChainOK, NoCall
  <1> QED BY <1>1, <1>2, <1>3, <1>4 DEF IInv, NoCall

\* The block a pointer belongs to.
LEMMA OwnedBlock ==
  ASSUME IInv, NEW p \in DOMAIN owned
  PROVE  /\ p - Header \in Taken(heap) /\ p \in Nat /\ p - Header \in Nat
         /\ p - Header + Header = p /\ owned[p] \in Request /\ owned[p] \in Nat
         /\ heap[p - Header].size \in Nat /\ p <= End /\ Start <= p
  <1>1. PICK b \in Taken(heap) : p = b + Header
    BY DEF IInv, Owners
  <1>2. b \in Nat /\ p - Header = b
    BY <1>1, Addresses DEF IInv, ChainOK, Taken
  <1>3. owned[p] \in Request /\ p \in Start..End
    BY DEF IInv, TypeOK
  <1>4. heap[p - Header].size \in Nat
    BY <1>1, <1>2 DEF IInv, ChainOK, Taken, Block
  <1> QED BY <1>1, <1>2, <1>3, <1>4, Addresses, HeapAssumption

\* What the request becomes, as long as it does not wrap.
LEMMA NeededIs ==
  ASSUME NoWrap, NEW n \in Request
  PROVE  /\ n \in Nat /\ Needed(n) = n + Header
         /\ Needed(n) \in Nat \ {0} /\ Needed(n) + Header < Word
  <1>1. n \in Nat /\ n + Header + Header < Word
    BY HeapAssumption DEF NoWrap
  <1>2. n + Header \in Nat /\ n + Header < Word
    BY <1>1, Addresses
  <1> QED BY <1>1, <1>2, SmallMod, Addresses DEF Needed

\* What a round of heap_malloc that returns a block does, seen by its caller.
LEMMA FoundStep ==
  ASSUME NoWrap, IInv, Found
  PROVE  /\ IInv'
         /\ \E n \in Request : Promise!Malloc(n)
  <1> DEFINE b == call.block
             n == call.request
             p == b + Header
             m == Merge(heap, b)
             t == Take(m, b, Needed(n))
  <1>1. /\ b \in DOMAIN heap /\ n \in Request /\ Fits(m, b, Needed(n))
        /\ heap' = t /\ call' = NoCall
        /\ owned' = [q \in DOMAIN owned \union {p} |-> IF q = p THEN n ELSE owned[q]]
    BY DEF Found, IInv
  <1>2. n \in Nat /\ Needed(n) = n + Header /\ Needed(n) \in Nat \ {0} /\ Needed(n) + Header < Word
    BY <1>1, NeededIs
  <1>3. /\ ChainOK(m) /\ b \in DOMAIN m /\ Taken(m) = Taken(heap)
        /\ \A a \in Taken(heap) : m[a] = heap[a]
    BY <1>1, MergeChain DEF IInv
  <1> HIDE DEF m
  <1>4. /\ ChainOK(t) /\ b \in DOMAIN t /\ Taken(t) = Taken(m) \union {b} /\ b \notin Taken(m)
        /\ Needed(n) <= t[b].size /\ t[b].size <= Needed(n) + Header
        /\ \A a \in Taken(m) : t[a] = m[a]
    BY <1>1, <1>2, <1>3, TakeChain
  <1> HIDE DEF t
  <1>5. /\ ChainOK(heap') /\ Taken(heap') = Taken(heap) \union {b} /\ b \notin Taken(heap)
        /\ n + Header <= heap'[b].size /\ heap'[b].size <= n + 2 * Header
        /\ \A a \in Taken(heap) : heap'[a] = heap[a]
    BY <1>1, <1>2, <1>3, <1>4, Addresses DEF ChainOK, Block
  <1>6. /\ b \in Nat /\ Start <= b /\ heap'[b].size \in Nat /\ b + heap'[b].size <= End
        /\ p \in Nat /\ p - Header = b
    BY <1>4, <1>1, Addresses DEF ChainOK, Block
  <1>7. p \notin DOMAIN owned
    BY <1>5, <1>6, OwnedBlock
  <1>8. /\ DOMAIN owned' = DOMAIN owned \union {p} /\ owned'[p] = n
        /\ \A q \in DOMAIN owned : owned'[q] = owned[q]
    BY <1>1, <1>7
  <1>9. Start <= p /\ p + n <= End /\ p \in Start..End
    BY <1>2, <1>5, <1>6, Addresses
  <1>10. Owners'
    <2>1. {a + Header : a \in Taken(heap')} = DOMAIN owned'
      BY <1>5, <1>8 DEF IInv, Owners
    <2>2. \A q \in DOMAIN owned' :
            /\ owned'[q] + Header <= heap'[q - Header].size
            /\ heap'[q - Header].size <= owned'[q] + 2 * Header
      <3> SUFFICES ASSUME NEW q \in DOMAIN owned'
                   PROVE  /\ owned'[q] + Header <= heap'[q - Header].size
                          /\ heap'[q - Header].size <= owned'[q] + 2 * Header
        OBVIOUS
      <3>1. CASE q = p
        BY <3>1, <1>5, <1>6, <1>8
      <3>2. CASE q # p
        <4>1. q \in DOMAIN owned /\ owned'[q] = owned[q] /\ heap'[q - Header] = heap[q - Header]
          BY <3>2, <1>5, <1>8, OwnedBlock
        <4> QED BY <4>1 DEF IInv, Owners
      <3> QED BY <3>1, <3>2
    <2> QED BY <2>1, <2>2 DEF Owners, Taken
  <1>11. TypeOK'
    <2>1. owned' \in [DOMAIN owned' -> Request]
      <3>1. \A q \in DOMAIN owned' : owned'[q] \in Request
        BY <1>1, <1>8, OwnedBlock
      <3> QED BY <1>1, <3>1
    <2>2. DOMAIN owned' \subseteq Start..End
      BY <1>8, <1>9 DEF IInv, TypeOK
    <2> QED BY <1>1, <1>5, <2>1, <2>2 DEF TypeOK, ChainOK, NoCall
  <1>12. IInv'
    BY <1>1, <1>5, <1>10, <1>11 DEF IInv, NoCall, ChainOK
  <1>13. Promise!Fresh(p, n)
    <2> SUFFICES ASSUME NEW q \in DOMAIN owned
                 PROVE  q # p /\ (p + n <= q \/ q + owned[q] <= p)
      BY <1>9, Addresses DEF Promise!Fresh, Promise!Apart
    <2> DEFINE a == q - Header
    <2>1. /\ a \in Taken(heap) /\ a \in Nat /\ owned[q] \in Nat /\ heap[a].size \in Nat /\ q = a + Header
          /\ owned[q] + Header <= heap[a].size
      BY OwnedBlock DEF IInv, Owners
    <2> HIDE DEF a
    <2>2. a \in DOMAIN heap' /\ a # b /\ b \in DOMAIN heap' /\ heap'[a] = heap[a]
      BY <1>5, <2>1 DEF Taken
    <2>3. CASE a < b
      <3>1. a + heap[a].size <= b
        BY <1>5, <2>2, <2>3 DEF ChainOK
      <3> QED BY <3>1, <2>1, <2>3, <1>6, Addresses
    <2>4. CASE b < a
      <3>1. b + heap'[b].size <= a
        BY <1>5, <2>2, <2>4 DEF ChainOK
      <3> QED BY <3>1, <2>1, <2>4, <1>2, <1>5, <1>6, Addresses
    <2> QED BY <2>1, <2>2, <2>3, <2>4, <1>6
  <1>14. Promise!Malloc(n)
    BY <1>1, <1>9, <1>13, Addresses DEF Promise!Malloc
  <1> QED BY <1>1, <1>12, <1>14

\* A round of the loop that only merges keeps the invariant.
LEMMA MoveOnStep == ASSUME IInv, MoveOn PROVE IInv'
  <1> DEFINE b == call.block
             m == Merge(heap, b)
  <1>1. /\ b \in DOMAIN heap /\ heap' = m /\ owned' = owned
        /\ call' = [call EXCEPT !.block = m[b].next]
    BY DEF MoveOn, IInv
  <1>2. /\ ChainOK(m) /\ b \in DOMAIN m /\ Taken(m) = Taken(heap)
        /\ \A a \in Taken(heap) : m[a] = heap[a]
    BY <1>1, MergeChain DEF IInv
  <1> HIDE DEF m
  <1>3. Owners'
    <2>1. \A q \in DOMAIN owned : heap'[q - Header] = heap[q - Header]
      BY <1>1, <1>2, OwnedBlock
    <2> QED BY <1>1, <1>2, <2>1 DEF IInv, Owners
  <1>4. /\ m[b].next \in Address \union {NULL}
        /\ m[b].next # NULL => m[b].next \in DOMAIN m
    BY <1>2 DEF ChainOK, Block
  <1>5. /\ call'.block = m[b].next /\ call'.request = call.request /\ call'.active = call.active
        /\ call' \in [request : Request \union {0}, block : Address \union {NULL}, active : BOOLEAN]
    <2>1. call \in [request : Request \union {0}, block : Address \union {NULL}, active : BOOLEAN]
      BY DEF IInv, TypeOK
    <2>2. call' = [request |-> call.request, block |-> m[b].next, active |-> call.active]
      BY <1>1, <2>1
    <2>3. call.request \in Request \union {0} /\ call.active \in BOOLEAN
      BY <2>1
    <2>4. call'.block = m[b].next /\ call'.request = call.request /\ call'.active = call.active
      BY <2>2
    <2>5. call' \in [request : Request \union {0}, block : Address \union {NULL}, active : BOOLEAN]
      BY <1>4, <2>2, <2>3
    <2> QED BY <2>4, <2>5
  <1>6. TypeOK'
    BY <1>1, <1>2, <1>5 DEF IInv, TypeOK, ChainOK
  <1> QED BY <1>1, <1>2, <1>3, <1>4, <1>5, <1>6 DEF IInv

\* free marks the block of a pointer its caller holds.
LEMMA FreeStep ==
  ASSUME IInv, NEW p \in DOMAIN owned, Free(p)
  PROVE  IInv' /\ Promise!Free(p)
  <1> DEFINE b == p - Header
  <1>1. /\ b \in Taken(heap) /\ p \in Nat /\ b + Header = p /\ p <= End /\ Start <= p /\ b \in Nat
    BY OwnedBlock
  <1>2. /\ heap' = [heap EXCEPT ![b].free = TRUE] /\ call' = call
        /\ owned' = [q \in DOMAIN owned \ {p} |-> owned[q]]
    BY <1>1, Addresses DEF Free
  <1>3. /\ ChainOK(heap') /\ Taken(heap') = Taken(heap) \ {b}
        /\ \A a \in Taken(heap') : heap'[a] = heap[a]
        /\ DOMAIN heap' = DOMAIN heap
    <2>1. ChainOK(heap)
      BY DEF IInv
    <2>2. DOMAIN heap' = DOMAIN heap
      BY <1>2
    <2>3. b \in Taken(heap) /\ heap' = [heap EXCEPT ![b].free = TRUE]
      BY <1>1, <1>2
    <2> HIDE DEF b
    <2>4. /\ ChainOK([heap EXCEPT ![b].free = TRUE])
          /\ Taken([heap EXCEPT ![b].free = TRUE]) = Taken(heap) \ {b}
          /\ \A a \in Taken([heap EXCEPT ![b].free = TRUE]) :
               [heap EXCEPT ![b].free = TRUE][a] = heap[a]
      BY <2>1, <2>3, FreeChain
    <2> QED BY <2>2, <2>3, <2>4
  <1>4. /\ DOMAIN owned' = DOMAIN owned \ {p}
        /\ \A q \in DOMAIN owned' : owned'[q] = owned[q] /\ q - Header \in Taken(heap')
    <2>1. \A q \in DOMAIN owned : q # p => q - Header # b
      BY <1>1, OwnedBlock
    <2> QED BY <1>2, <1>3, <2>1, OwnedBlock
  <1>5. Owners'
    <2>1. {a + Header : a \in Taken(heap')} = DOMAIN owned'
      <3>1. \A a \in Taken(heap') : a + Header \in DOMAIN owned /\ a + Header # p
        <4> SUFFICES ASSUME NEW a \in Taken(heap')
                     PROVE  a + Header \in DOMAIN owned /\ a + Header # p
          OBVIOUS
        <4>1. a \in Taken(heap) /\ a # b /\ a \in Nat
          BY <1>3, Addresses DEF Taken, ChainOK
        <4> QED BY <4>1, <1>1, Addresses DEF IInv, Owners
      <3>2. \A q \in DOMAIN owned' : \E a \in Taken(heap') : q = a + Header
        BY <1>4, OwnedBlock
      <3> QED BY <3>1, <3>2, <1>4
    <2>2. \A q \in DOMAIN owned' :
            /\ owned'[q] + Header <= heap'[q - Header].size
            /\ heap'[q - Header].size <= owned'[q] + 2 * Header
      BY <1>3, <1>4 DEF IInv, Owners
    <2> QED BY <2>1, <2>2 DEF Owners, Taken
  <1>6. TypeOK'
    <2>1. owned' \in [DOMAIN owned' -> Request]
      BY <1>2, <1>4, OwnedBlock
    <2> QED BY <1>2, <1>3, <1>4, <2>1 DEF IInv, TypeOK, ChainOK
  <1>7. IInv'
    BY <1>2, <1>3, <1>5, <1>6 DEF IInv
  <1> QED BY <1>2, <1>7 DEF Promise!Free

\* Every step keeps the invariant and is a step of the allocator, or none.
LEMMA Step ==
  ASSUME NoWrap, IInv, [Next]_vars
  PROVE  IInv' /\ [Promise!Next]_owned
  <1>1. ASSUME NEW n \in Request, Malloc(n) PROVE IInv' /\ owned' = owned
    <2>1. /\ call' = [request |-> n, block |-> Start, active |-> TRUE]
          /\ heap' = heap /\ owned' = owned
      BY <1>1 DEF Malloc
    <2>2. Start \in DOMAIN heap /\ Start \in Address
      BY DEF IInv, ChainOK
    <2>3. Owners' /\ ChainOK(heap')
      BY <2>1 DEF IInv, Owners
    <2>4. call' \in [request : Request \union {0}, block : Address \union {NULL},
                    active : BOOLEAN]
      BY <2>1, <2>2
    <2>5. TypeOK'
      BY <2>1, <2>4 DEF IInv, TypeOK
    <2> QED BY <2>1, <2>2, <2>3, <2>5 DEF IInv
  <1>2. CASE Found
    BY <1>2, FoundStep DEF Promise!Next
  <1>3. CASE MoveOn
    BY <1>3, MoveOnStep DEF MoveOn
  <1>4. ASSUME NotFound PROVE IInv' /\ owned' = owned
    <2>1. call' = NoCall /\ heap' = heap /\ owned' = owned
      BY <1>4 DEF NotFound
    <2>2. Owners' /\ ChainOK(heap')
      BY <2>1 DEF IInv, Owners
    <2>3. NoCall \in [request : Request \union {0}, block : Address \union {NULL},
                     active : BOOLEAN]
      BY DEF NoCall
    <2>4. TypeOK'
      BY <2>1, <2>3 DEF IInv, TypeOK
    <2> QED BY <2>1, <2>2, <2>4 DEF IInv, NoCall
  <1>5. ASSUME NEW p \in DOMAIN owned, Free(p) PROVE IInv' /\ Promise!Next
    BY <1>5, FreeStep DEF Promise!Next
  <1>6. CASE UNCHANGED vars
    <2>1. heap' = heap /\ call' = call /\ owned' = owned
      BY <1>6 DEF vars
    <2>2. TypeOK'
      BY <2>1 DEF IInv, TypeOK
    <2>3. Owners' /\ ChainOK(heap')
      BY <2>1 DEF IInv, Owners
    <2> QED BY <2>1, <2>2, <2>3 DEF IInv
  <1> QED BY <1>1, <1>2, <1>3, <1>4, <1>5, <1>6 DEF Next

-----------------------------------------------------------------------------
(* The theorems *)

\* Type correctness of the heap and of what its callers hold.
THEOREM TypeCorrect == ASSUME NoWrap PROVE Spec => []TypeOK
  <1>1. IInv => TypeOK
    BY DEF IInv
  <1>2. Init => IInv
    BY InitIInv
  <1>3. IInv /\ [Next]_vars => IInv'
    BY Step
  <1> QED BY <1>1, <1>2, <1>3, PTL DEF Spec

\* heap_malloc and heap_free keep the chain of blocks whole.
THEOREM ChainIsWhole == ASSUME NoWrap PROVE Spec => []Chain
  <1>1. IInv => Chain
    BY DEF IInv, ChainOK, Chain
  <1>2. Init => IInv
    BY InitIInv
  <1>3. IInv /\ [Next]_vars => IInv'
    BY Step
  <1> QED BY <1>1, <1>2, <1>3, PTL DEF Spec

\* The blocks marked as taken are exactly those callers hold, and none is too
\* small or more than a header too large.
THEOREM NoBlockIsLost == ASSUME NoWrap PROVE Spec => []TakenBlocks
  <1>1. IInv => TakenBlocks
    <2>1. ASSUME IInv, NEW p \in DOMAIN owned
          PROVE  heap[p - Header].size \in (owned[p] + Header)..(owned[p] + 2 * Header)
      <3>1. heap[p - Header].size \in Nat /\ owned[p] \in Nat
        BY <2>1, OwnedBlock
      <3> QED BY <2>1, <3>1, Addresses DEF IInv, Owners
    <2> QED BY <2>1 DEF IInv, Owners, TakenBlocks, Taken
  <1>2. Init => IInv
    BY InitIInv
  <1>3. IInv /\ [Next]_vars => IInv'
    BY Step
  <1> QED BY <1>1, <1>2, <1>3, PTL DEF Spec

\* The heap implements the allocator its callers rely on.
THEOREM HeapIsAllocator == ASSUME NoWrap PROVE Spec => IsAllocator
  <1>1. Init => IInv /\ Promise!Init
    BY InitIInv DEF Init, Promise!Init
  <1>2. IInv /\ [Next]_vars => IInv' /\ [Promise!Next]_owned
    BY Step
  <1> QED BY <1>1, <1>2, PTL DEF Spec, IsAllocator, Promise!Spec
=============================================================================
