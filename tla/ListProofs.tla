----------------------------- MODULE ListProofs -----------------------------
(***************************************************************************)
(* What the operations on a list_t do to its elements, for any list, and   *)
(* how a recursive function is reasoned about: the lemmas that the proofs  *)
(* of the scheduler, of the terminals and of the linked list share.        *)
(***************************************************************************)
EXTENDS Lists, SequenceTheorems, FiniteSetTheorems, WellFoundedInduction, TLAPS

-----------------------------------------------------------------------------
(* What the list operations do to the contents of a list without repetition. *)

\* q is a list of elements of S, none of them twice.
Queue(q, S) == q \in Seq(S) /\ IsInjective(q)

\* list_add_last.
LEMMA AppendQueue ==
  ASSUME NEW S, NEW q, Queue(q, S), NEW p \in S, p \notin Range(q)
  PROVE  Queue(Append(q, p), S) /\ Range(Append(q, p)) = Range(q) \union {p}
  <1>1. /\ Append(q, p) \in Seq(S)
        /\ Len(Append(q, p)) = Len(q) + 1
        /\ \A i \in 1..Len(q) : Append(q, p)[i] = q[i]
        /\ Append(q, p)[Len(q) + 1] = p
    BY AppendProperties DEF Queue
  <1>2. DOMAIN Append(q, p) = 1..(Len(q) + 1) /\ DOMAIN q = 1..Len(q) /\ Len(q) \in Nat
    BY <1>1 DEF Queue
  <1>3. \A i \in 1..Len(q) : q[i] # p
    BY <1>2 DEF Range
  <1>4. IsInjective(Append(q, p))
    BY <1>1, <1>2, <1>3 DEF Queue, IsInjective
  <1>5. Range(Append(q, p)) = Range(q) \union {p}
    BY <1>1, <1>2 DEF Range
  <1> QED BY <1>1, <1>4, <1>5 DEF Queue

\* list_add_first.
LEMMA ConsQueue ==
  ASSUME NEW S, NEW q, Queue(q, S), NEW p \in S, p \notin Range(q)
  PROVE  Queue(Cons(p, q), S) /\ Range(Cons(p, q)) = Range(q) \union {p}
  <1>1. /\ Cons(p, q) \in Seq(S)
        /\ Len(Cons(p, q)) = Len(q) + 1
        /\ Cons(p, q)[1] = p
        /\ \A i \in 2..(Len(q) + 1) : Cons(p, q)[i] = q[i - 1]
    BY ConcatProperties DEF Queue, Cons
  <1>2. DOMAIN Cons(p, q) = 1..(Len(q) + 1) /\ DOMAIN q = 1..Len(q) /\ Len(q) \in Nat
    BY <1>1 DEF Queue
  <1>3. \A i \in 1..Len(q) : q[i] # p
    BY <1>2 DEF Range
  <1>4. IsInjective(Cons(p, q))
    <2> SUFFICES ASSUME NEW i \in 1..(Len(q) + 1), NEW j \in 1..(Len(q) + 1),
                        Cons(p, q)[i] = Cons(p, q)[j]
                 PROVE  i = j
      BY <1>1, <1>2 DEF IsInjective
    <2>1. \A x \in DOMAIN q, y \in DOMAIN q : q[x] = q[y] => x = y
      BY DEF Queue, IsInjective
    <2>2. CASE i = 1 \/ j = 1
      BY <1>1, <1>2, <1>3, <2>2
    <2>3. CASE i # 1 /\ j # 1
      <3>1. i - 1 \in DOMAIN q /\ j - 1 \in DOMAIN q
        BY <1>1, <1>2, <2>3
      <3>2. q[i - 1] = q[j - 1]
        BY <1>1, <1>2, <2>3
      <3> QED BY <2>1, <3>1, <3>2
    <2> QED BY <2>2, <2>3
  <1>5. Range(Cons(p, q)) = Range(q) \union {p}
    <2>1. \A i \in 1..Len(q) : i + 1 \in DOMAIN Cons(p, q) /\ q[i] = Cons(p, q)[i + 1]
      BY <1>1, <1>2
    <2>2. 1 \in DOMAIN Cons(p, q)
      BY <1>2
    <2>3. Range(q) \union {p} \subseteq Range(Cons(p, q))
      <3>1. Range(q) \subseteq Range(Cons(p, q))
        BY <1>2, <2>1 DEF Range
      <3>2. p \in Range(Cons(p, q))
        BY <1>1, <2>2 DEF Range
      <3> QED BY <3>1, <3>2
    <2>4. \A i \in DOMAIN Cons(p, q) : i = 1 \/ (i - 1 \in DOMAIN q /\ Cons(p, q)[i] = q[i - 1])
      <3> SUFFICES ASSUME NEW i \in DOMAIN Cons(p, q), i # 1
                   PROVE  i - 1 \in DOMAIN q /\ Cons(p, q)[i] = q[i - 1]
        OBVIOUS
      <3>1. i \in 2..(Len(q) + 1) /\ i - 1 \in 1..Len(q)
        BY <1>2
      <3> QED BY <1>1, <1>2, <3>1
    <2>5. Range(Cons(p, q)) \subseteq Range(q) \union {p}
      BY <1>1, <2>4 DEF Range
    <2> QED BY <2>3, <2>5
  <1> QED BY <1>1, <1>4, <1>5 DEF Queue

\* The elements list_remove leaves, at their places.
LEMMA RemoveAtEntries ==
  ASSUME NEW S, NEW q \in Seq(S), NEW k \in DOMAIN q
  PROVE  LET r == RemoveAt(q, k)
         IN  /\ r \in Seq(S) /\ Len(r) = Len(q) - 1
             /\ \A i \in 1..(Len(q) - 1) : r[i] = IF i < k THEN q[i] ELSE q[i + 1]
  <1> DEFINE r == RemoveAt(q, k)
             before == SubSeq(q, 1, k - 1)
             after == SubSeq(q, k + 1, Len(q))
  <1>1. q \in Seq(S) /\ DOMAIN q = 1..Len(q) /\ Len(q) \in Nat /\ k \in 1..Len(q)
    OBVIOUS
  <1>2. /\ before \in Seq(S) /\ Len(before) = k - 1
        /\ \A i \in 1..(k - 1) : before[i] = q[i]
    BY <1>1, SubSeqProperties, ElementOfSeq
  <1>3. /\ after \in Seq(S) /\ Len(after) = Len(q) - k
        /\ \A i \in 1..(Len(q) - k) : after[i] = q[k + i]
    BY <1>1, SubSeqProperties, ElementOfSeq
  <1>4. /\ r \in Seq(S) /\ Len(r) = Len(q) - 1
        /\ \A i \in 1..(Len(q) - 1) : r[i] = IF i <= k - 1 THEN before[i] ELSE after[i - (k - 1)]
    <2>1. r = before \o after
      BY DEF RemoveAt
    <2> HIDE DEF r, before, after
    <2>2. /\ r \in Seq(S) /\ Len(r) = Len(before) + Len(after)
          /\ \A i \in 1..(Len(before) + Len(after)) :
               r[i] = IF i <= Len(before) THEN before[i] ELSE after[i - Len(before)]
      BY <1>2, <1>3, <2>1, ConcatProperties
    <2>3. Len(before) + Len(after) = Len(q) - 1
      BY <1>1, <1>2, <1>3
    <2> QED BY <1>2, <2>2, <2>3
  <1> HIDE DEF r, before, after
  <1>5. \A i \in 1..(Len(q) - 1) : r[i] = IF i < k THEN q[i] ELSE q[i + 1]
    <2> SUFFICES ASSUME NEW i \in 1..(Len(q) - 1)
                 PROVE  r[i] = IF i < k THEN q[i] ELSE q[i + 1]
      OBVIOUS
    <2>1. CASE i < k
      BY <1>1, <1>2, <1>4, <2>1
    <2>2. CASE i >= k
      <3>1. i - (k - 1) \in 1..(Len(q) - k) /\ k + (i - (k - 1)) = i + 1 /\ ~(i <= k - 1)
        BY <1>1, <2>2
      <3>2. after[i - (k - 1)] = q[i + 1]
        <4>1. after[i - (k - 1)] = q[k + (i - (k - 1))]
          BY <1>3, <3>1
        <4> QED BY <3>1, <4>1
      <3>3. r[i] = after[i - (k - 1)]
        BY <1>4, <3>1
      <3>4. ~(i < k)
        BY <1>1, <2>2
      <3> QED BY <3>2, <3>3, <3>4
    <2> QED BY <1>1, <2>1, <2>2
  <1> QED BY <1>4, <1>5 DEF r

\* list_remove at one place.
LEMMA RemoveAtQueue ==
  ASSUME NEW S, NEW q, Queue(q, S), NEW k \in DOMAIN q
  PROVE  Queue(RemoveAt(q, k), S) /\ Range(RemoveAt(q, k)) = Range(q) \ {q[k]}
  <1> DEFINE r == RemoveAt(q, k)
  <1>1. q \in Seq(S) /\ DOMAIN q = 1..Len(q) /\ Len(q) \in Nat /\ k \in 1..Len(q)
    BY DEF Queue
  <1>2. r \in Seq(S) /\ Len(r) = Len(q) - 1
    BY <1>1, RemoveAtEntries
  <1>3. \A i \in 1..(Len(q) - 1) : r[i] = IF i < k THEN q[i] ELSE q[i + 1]
    BY <1>1, RemoveAtEntries
  <1> HIDE DEF r
  <1>4. DOMAIN r = 1..(Len(q) - 1)
    BY <1>1, <1>2
  <1> DEFINE old(i) == IF i < k THEN i ELSE i + 1
  <1>5. \A i \in DOMAIN q, j \in DOMAIN q : q[i] = q[j] => i = j
    BY DEF Queue, IsInjective
  <1>6. \A i \in DOMAIN r : old(i) \in DOMAIN q /\ r[i] = q[old(i)] /\ old(i) # k
    <2> SUFFICES ASSUME NEW i \in 1..(Len(q) - 1)
                 PROVE  old(i) \in 1..Len(q) /\ r[i] = q[old(i)] /\ old(i) # k
      BY <1>1, <1>4
    <2>1. CASE i < k
      BY <2>1, <1>1, <1>3
    <2>2. CASE ~(i < k)
      BY <2>2, <1>1, <1>3
    <2> QED BY <2>1, <2>2
  <1>7. IsInjective(r)
    <2> SUFFICES ASSUME NEW i \in DOMAIN r, NEW j \in DOMAIN r, r[i] = r[j]
                 PROVE  i = j
      BY DEF IsInjective
    <2>1. old(i) = old(j)
      <3> HIDE DEF old
      <3>1. q[old(i)] = q[old(j)]
        BY <1>6
      <3> QED BY <3>1, <1>5, <1>6
    <2>2. i \in Int /\ j \in Int /\ k \in Int
      BY <1>1, <1>4
    <2> QED BY <2>1, <2>2
  <1>8. Range(r) \subseteq Range(q) \ {q[k]}
    <2> SUFFICES ASSUME NEW i \in DOMAIN r
                 PROVE  r[i] \in Range(q) /\ r[i] # q[k]
      BY DEF Range
    <2> HIDE DEF old
    <2>1. r[i] = q[old(i)] /\ old(i) \in DOMAIN q /\ old(i) # k
      BY <1>6
    <2>2. r[i] # q[k]
      BY <2>1, <1>5
    <2> QED BY <2>1, <2>2 DEF Range
  <1>9. Range(q) \ {q[k]} \subseteq Range(r)
    <2> SUFFICES ASSUME NEW i \in 1..Len(q), i # k PROVE q[i] \in Range(r)
      BY <1>1 DEF Range
    <2>1. CASE i < k
      BY <2>1, <1>1, <1>3, <1>4 DEF Range
    <2>2. CASE i > k
      <3>1. i - 1 \in 1..(Len(q) - 1) /\ r[i - 1] = q[i]
        BY <2>2, <1>1, <1>3
      <3> QED BY <3>1, <1>4 DEF Range
    <2> QED BY <2>1, <2>2, <1>1
  <1> QED BY <1>2, <1>7, <1>8, <1>9 DEF Queue, r

\* list_remove_data.
LEMMA RemoveDataQueue ==
  ASSUME NEW S, NEW q, Queue(q, S), NEW p
  PROVE  Queue(RemoveData(q, p), S) /\ Range(RemoveData(q, p)) = Range(q) \ {p}
  <1>1. CASE p \notin Range(q)
    BY <1>1 DEF RemoveData
  <1>2. CASE p \in Range(q)
    <2> DEFINE First(i) == q[i] = p /\ \A j \in 1..(i - 1) : q[j] # p
               k == CHOOSE i \in DOMAIN q : First(i)
    <2>1. PICK i \in DOMAIN q : q[i] = p
      BY <1>2 DEF Range
    <2>2. DOMAIN q = 1..Len(q) /\ Len(q) \in Nat
      BY DEF Queue
    <2>3. First(i)
      BY <2>1, <2>2 DEF Queue, IsInjective
    <2>4. k \in DOMAIN q /\ q[k] = p
      BY <2>3
    <2>5. RemoveData(q, p) = RemoveAt(q, k)
      BY <1>2 DEF RemoveData
    <2> HIDE DEF k
    <2> QED BY <2>4, <2>5, RemoveAtQueue
  <1> QED BY <1>1, <1>2

\* list_remove_data takes out the first of the places of an element.
LEMMA RemoveDataPlace ==
  ASSUME NEW S, NEW q \in Seq(S), NEW p, p \in Range(q)
  PROVE  \E k \in 1..Len(q) : /\ q[k] = p /\ \A j \in 1..(k - 1) : q[j] # p
                              /\ RemoveData(q, p) = RemoveAt(q, k)
  <1> DEFINE R == OpToRel(<, Nat)
             U == {i \in 1..Len(q) : q[i] = p}
             First(i) == q[i] = p /\ \A j \in 1..(i - 1) : q[j] # p
  <1>1. DOMAIN q = 1..Len(q) /\ Len(q) \in Nat
    OBVIOUS
  <1>2. IsWellFoundedOn(R, Nat)
    BY NatLessThanWellFounded
  <1>3. U \subseteq Nat /\ U # {}
    BY <1>1 DEF Range
  <1>4. PICK i \in U : \A y \in U : ~(<<y, i>> \in R)
    <2> HIDE DEF U, R
    <2> QED BY <1>2, <1>3, WFMin
  <1>5. First(i)
    <2> SUFFICES ASSUME NEW j \in 1..(i - 1), q[j] = p PROVE FALSE
      OBVIOUS
    <2>1. j \in U /\ j < i /\ j \in Nat /\ i \in Nat
      BY <1>1
    <2>2. <<j, i>> \in R
      BY <2>1 DEF OpToRel
    <2> QED BY <1>4, <2>1, <2>2
  <1>6. PICK k : k = CHOOSE x \in DOMAIN q : First(x)
    OBVIOUS
  <1>7. k \in 1..Len(q) /\ First(k)
    <2> HIDE DEF First
    <2> QED BY <1>1, <1>5, <1>6
  <1>8. RemoveData(q, p) = RemoveAt(q, k)
    BY <1>6 DEF RemoveData
  <1> QED BY <1>7, <1>8

\* What the wake-up for a line of input does to the head of the list.
LEMMA TailQueue ==
  ASSUME NEW S, NEW q, Queue(q, S), q # <<>>
  PROVE  /\ Queue(Tail(q), S) /\ Head(q) \in Range(q)
         /\ Range(Tail(q)) = Range(q) \ {Head(q)}
  <1>1. /\ Tail(q) \in Seq(S) /\ Len(Tail(q)) = Len(q) - 1
        /\ \A i \in 1..Len(Tail(q)) : Tail(q)[i] = q[i + 1]
    BY HeadTailProperties DEF Queue
  <1>2. /\ DOMAIN q = 1..Len(q) /\ DOMAIN Tail(q) = 1..(Len(q) - 1)
        /\ Len(q) \in Nat \ {0} /\ Head(q) = q[1]
    BY <1>1, EmptySeq DEF Queue
  <1>3. IsInjective(Tail(q))
    BY <1>1, <1>2 DEF Queue, IsInjective
  <1>4. Range(Tail(q)) \subseteq Range(q) \ {q[1]}
    BY <1>1, <1>2 DEF Queue, IsInjective, Range
  <1>5. \A i \in 2..Len(q) : i - 1 \in DOMAIN Tail(q) /\ q[i] = Tail(q)[i - 1]
    BY <1>1, <1>2
  <1>6. Range(q) \ {q[1]} \subseteq Range(Tail(q))
    <2> SUFFICES ASSUME NEW i \in 1..Len(q), q[i] # q[1] PROVE q[i] \in Range(Tail(q))
      BY <1>2 DEF Range
    <2>1. i \in 2..Len(q)
      BY <1>2
    <2> QED BY <2>1, <1>5 DEF Range
  <1>7. Head(q) \in Range(q)
    BY <1>2 DEF Range
  <1> QED BY <1>1, <1>2, <1>3, <1>4, <1>6, <1>7 DEF Queue

\* The order in which reschedule_process leaves a list keeps its contents.
LEMMA ReschedulingQueue ==
  ASSUME NEW S, NEW T, NEW q, Queue(q, S), NEW r \in Reschedulings(q, T)
  PROVE  Queue(r, S) /\ Range(r) = Range(q)
  <1>1. PICK f \in Bijection(DOMAIN q, DOMAIN q) : r = [i \in DOMAIN q |-> q[f[i]]]
    BY DEF Reschedulings
  <1>2. /\ f \in [DOMAIN q -> DOMAIN q] /\ IsInjective(f)
        /\ \A i \in DOMAIN q : \E j \in DOMAIN q : f[j] = i
    BY <1>1 DEF Bijection, Injection, Surjection, IsInjective
  <1>3. DOMAIN q = 1..Len(q) /\ Len(q) \in Nat /\ \A i \in DOMAIN q : q[i] \in S
    BY ElementOfSeq DEF Queue
  <1>4. r \in Seq(S)
    BY <1>1, <1>2, <1>3, IsASeq
  <1>5. IsInjective(r)
    BY <1>1, <1>2 DEF Queue, IsInjective
  <1>6. Range(r) = Range(q)
    BY <1>1, <1>2 DEF Range
  <1> QED BY <1>4, <1>5, <1>6 DEF Queue

-----------------------------------------------------------------------------
(* Recursive functions *)

\* Induction up to a bound, for a set of numbers.
LEMMA Induct ==
  ASSUME NEW n \in Nat, NEW T, T \subseteq 0..n, 0 \in T,
         \A i \in 1..n : i - 1 \in T => i \in T
  PROVE  \A i \in 0..n : i \in T
  <1> DEFINE R == OpToRel(<, Nat)
             U == (0..n) \ T
  <1>1. SUFFICES ASSUME U # {} PROVE FALSE
    OBVIOUS
  <1>2. IsWellFoundedOn(R, Nat)
    BY NatLessThanWellFounded
  <1>3. U \subseteq Nat
    OBVIOUS
  <1>4. PICK x \in U : \A y \in U : ~(<<y, x>> \in R)
    <2> HIDE DEF U, R
    <2> QED BY <1>1, <1>2, <1>3, WFMin
  <1>5. x # 0 /\ x - 1 \in 0..n /\ x - 1 < x
    OBVIOUS
  <1>6. x - 1 \notin T
    OBVIOUS
  <1>7. <<x - 1, x>> \in R
    BY <1>5 DEF OpToRel
  <1> QED BY <1>4, <1>5, <1>6, <1>7

\* f starts at b and goes on by step, up to n; there is such a function.
IsRecursion(f, n, S, b, step) ==
  f \in [0..n -> S] /\ f[0] = b /\ \A j \in 1..n : f[j] = step[j][f[j - 1]]

\* One more step can be taken.
LEMMA RecursionOnce ==
  ASSUME NEW n \in Nat, NEW S, NEW b \in S, NEW step, NEW i \in 1..n,
         step[i] \in [S -> S],
         \E f : IsRecursion(f, i - 1, S, b, step)
  PROVE  \E f : IsRecursion(f, i, S, b, step)
  <1>1. PICK f : IsRecursion(f, i - 1, S, b, step)
    OBVIOUS
  <1>2. f \in [0..(i - 1) -> S] /\ f[0] = b
    BY <1>1 DEF IsRecursion
  <1>3. step[i][f[i - 1]] \in S
    BY <1>2
  <1>4. PICK g : g = [j \in 0..i |-> IF j = i THEN step[i][f[i - 1]] ELSE f[j]]
    OBVIOUS
  <1>5. g \in [0..i -> S] /\ g[0] = b
    BY <1>2, <1>3, <1>4
  <1>6. ASSUME NEW j \in 1..i PROVE g[j] = step[j][g[j - 1]]
    <2>1. g[j - 1] = f[j - 1]
      BY <1>4
    <2>2. CASE j = i
      BY <1>4, <2>1, <2>2
    <2>3. CASE j # i
      <3>1. j \in 1..(i - 1) /\ g[j] = f[j]
        BY <1>4, <2>3
      <3> QED BY <1>1, <2>1, <3>1 DEF IsRecursion
    <2> QED BY <2>2, <2>3
  <1> QED BY <1>5, <1>6 DEF IsRecursion

\* A function with these values up to n exists.
LEMMA Recursion ==
  ASSUME NEW n \in Nat, NEW S, NEW b \in S, NEW step \in [1..n -> [S -> S]]
  PROVE  \E f : IsRecursion(f, n, S, b, step)
  <1>1. PICK T : T = {i \in 0..n : \E f : IsRecursion(f, i, S, b, step)}
    OBVIOUS
  <1>2. 0 \in T
    <2>1. IsRecursion([j \in 0..0 |-> b], 0, S, b, step)
      BY DEF IsRecursion
    <2> QED BY <1>1, <2>1
  <1>3. ASSUME NEW i \in 1..n, i - 1 \in T PROVE i \in T
    <2>1. \E f : IsRecursion(f, i - 1, S, b, step)
      BY <1>1, <1>3
    <2>2. step[i] \in [S -> S]
      OBVIOUS
    <2>3. \E f : IsRecursion(f, i, S, b, step)
      BY <2>1, <2>2, RecursionOnce
    <2> QED BY <1>1, <2>3
  <1>4. T \subseteq 0..n
    BY <1>1
  <1>5. \A i \in 0..n : i \in T
    BY <1>2, <1>3, <1>4, Induct
  <1>6. n \in T
    BY <1>5
  <1> QED BY <1>1, <1>6

-----------------------------------------------------------------------------
(* The elements reschedule_process collects *)

\* The values of the recursive function of Only.
Found(f, q, S) ==
  /\ DOMAIN f = 0..Len(q) /\ f[0] = <<>>
  /\ \A i \in 1..Len(q) :
       f[i] = IF q[i] \in S THEN Append(f[i - 1], q[i]) ELSE f[i - 1]

\* A function with the values of found exists.
LEMMA FoundExists ==
  ASSUME NEW X, NEW q \in Seq(X), NEW S
  PROVE  \E f : Found(f, q, S) /\ f \in [0..Len(q) -> Seq(X)]
  <1>1. PICK n : n = Len(q)
    OBVIOUS
  <1>2. n \in Nat /\ <<>> \in Seq(X)
    BY <1>1
  <1>3. PICK step : step = [i \in 1..n |-> [s \in Seq(X) |-> IF q[i] \in S THEN Append(s, q[i]) ELSE s]]
    OBVIOUS
  <1>4. step \in [1..n -> [Seq(X) -> Seq(X)]]
    BY <1>1, <1>3
  <1>5. PICK f : IsRecursion(f, n, Seq(X), <<>>, step)
    BY <1>2, <1>4, Recursion
  <1>6. f \in [0..n -> Seq(X)] /\ f[0] = <<>>
    BY <1>5 DEF IsRecursion
  <1>7. ASSUME NEW i \in 1..n
        PROVE  f[i] = IF q[i] \in S THEN Append(f[i - 1], q[i]) ELSE f[i - 1]
    <2>1. f[i - 1] \in Seq(X)
      BY <1>2, <1>6
    <2>2. f[i] = step[i][f[i - 1]]
      BY <1>5 DEF IsRecursion
    <2> QED BY <1>3, <2>1, <2>2
  <1> QED BY <1>1, <1>6, <1>7 DEF Found

\* Only is the last value of that function.
LEMMA OnlyIsFound ==
  ASSUME NEW X, NEW q \in Seq(X), NEW S
  PROVE  \E f : /\ Found(f, q, S) /\ Only(q, S) = f[Len(q)]
                /\ f \in [0..Len(q) -> Seq(X)]
  <1> DEFINE Def(f) == f = [i \in 0..Len(q) |-> IF i = 0 THEN <<>>
                             ELSE IF q[i] \in S THEN Append(f[i - 1], q[i]) ELSE f[i - 1]]
  <1>1. PICK f : Found(f, q, S) /\ f \in [0..Len(q) -> Seq(X)]
    BY FoundExists
  <1>2. Def(f)
    <2>1. ASSUME NEW i \in 0..Len(q)
          PROVE  f[i] = IF i = 0 THEN <<>>
                        ELSE IF q[i] \in S THEN Append(f[i - 1], q[i]) ELSE f[i - 1]
      <3>1. CASE i = 0
        BY <1>1, <3>1 DEF Found
      <3>2. CASE i # 0
        <4>1. i \in 1..Len(q)
          BY <3>2
        <4> QED BY <1>1, <3>2, <4>1 DEF Found
      <3> QED BY <3>1, <3>2
    <2> QED BY <1>1, <2>1
  <1>3. PICK g : g = CHOOSE h : Def(h)
    OBVIOUS
  <1>4. Def(g)
    <2> HIDE DEF Def
    <2> QED BY <1>2, <1>3
  <1>5. Only(q, S) = g[Len(q)]
    BY <1>3 DEF Only
  <1>6. Len(q) \in Nat
    OBVIOUS
  <1>7. g[0] = <<>> /\ DOMAIN g = 0..Len(q)
    BY <1>4, <1>6
  <1>8. ASSUME NEW i \in 1..Len(q)
        PROVE  g[i] = IF q[i] \in S THEN Append(g[i - 1], q[i]) ELSE g[i - 1]
    <2>1. i \in 0..Len(q) /\ i # 0
      OBVIOUS
    <2> QED BY <1>4, <2>1
  <1>9. PICK T : T = {i \in 0..Len(q) : g[i] = f[i]}
    OBVIOUS
  <1>10. 0 \in T /\ T \subseteq 0..Len(q)
    BY <1>1, <1>6, <1>7, <1>9 DEF Found
  <1>11. ASSUME NEW i \in 1..Len(q), i - 1 \in T PROVE i \in T
    <2>1. g[i - 1] = f[i - 1]
      BY <1>9, <1>11
    <2>2. f[i] = IF q[i] \in S THEN Append(f[i - 1], q[i]) ELSE f[i - 1]
      BY <1>1 DEF Found
    <2>3. g[i] = f[i]
      BY <1>8, <2>1, <2>2
    <2> QED BY <1>9, <2>3
  <1>12. \A i \in 0..Len(q) : i \in T
    BY <1>6, <1>10, <1>11, Induct
  <1>13. g[Len(q)] = f[Len(q)]
    BY <1>6, <1>9, <1>12
  <1> QED BY <1>1, <1>5, <1>13

\* The places in q of the members that were found among the first i.
Picks(pos, r, q, i, S) ==
  /\ pos \in [1..Len(r) -> 1..i]
  /\ \A a \in 1..Len(r) : r[a] = q[pos[a]] /\ r[a] \in S
  /\ \A a, b \in 1..Len(r) : a < b => pos[a] < pos[b]
  /\ \A j \in 1..i : q[j] \in S => \E a \in 1..Len(r) : pos[a] = j

\* A member of S at place i is found.
LEMMA PicksMore ==
  ASSUME NEW X, NEW q \in Seq(X), NEW S, NEW i \in 1..Len(q), NEW r \in Seq(X),
         NEW pos, Picks(pos, r, q, i - 1, S), q[i] \in S
  PROVE  \E p : Picks(p, Append(r, q[i]), q, i, S)
  <1>1. PICK s : s = Append(r, q[i])
    OBVIOUS
  <1>2. PICK n : n = Len(r)
    OBVIOUS
  <1>3. n \in Nat /\ i \in Nat \ {0}
    BY <1>2
  <1>4. Len(s) = n + 1 /\ s[n + 1] = q[i] /\ \A a \in 1..n : s[a] = r[a]
    BY <1>1, <1>2
  <1>5. PICK p : p = [a \in 1..(n + 1) |-> IF a = n + 1 THEN i ELSE pos[a]]
    OBVIOUS
  <1>6. \A a \in 1..n : pos[a] \in 1..(i - 1) /\ p[a] = pos[a]
    BY <1>2, <1>3, <1>5 DEF Picks
  <1>7. p[n + 1] = i
    BY <1>3, <1>5
  <1>8. p \in [1..(n + 1) -> 1..i]
    <2>1. ASSUME NEW a \in 1..(n + 1) PROVE p[a] \in 1..i
      <3>1. CASE a = n + 1
        BY <1>3, <1>7, <3>1
      <3>2. CASE a # n + 1
        <4>1. a \in 1..n
          BY <1>3, <3>2
        <4> QED BY <1>3, <1>6, <4>1
      <3> QED BY <3>1, <3>2
    <2> QED BY <1>5, <2>1
  <1>9. ASSUME NEW a \in 1..(n + 1) PROVE s[a] = q[p[a]] /\ s[a] \in S
    <2>1. CASE a = n + 1
      BY <1>4, <1>7, <2>1
    <2>2. CASE a # n + 1
      <3>1. a \in 1..n
        BY <1>3, <2>2
      <3>2. r[a] = q[pos[a]] /\ r[a] \in S
        BY <1>2, <3>1 DEF Picks
      <3> QED BY <1>4, <1>6, <3>1, <3>2
    <2> QED BY <2>1, <2>2
  <1>10. ASSUME NEW a \in 1..(n + 1), NEW b \in 1..(n + 1), a < b PROVE p[a] < p[b]
    <2>1. a \in 1..n
      BY <1>3, <1>10
    <2>2. CASE b = n + 1
      BY <1>3, <1>6, <1>7, <2>1, <2>2
    <2>3. CASE b # n + 1
      <3>1. b \in 1..n
        BY <1>3, <2>3
      <3>2. pos[a] < pos[b]
        BY <1>2, <1>10, <2>1, <3>1 DEF Picks
      <3> QED BY <1>6, <2>1, <3>1, <3>2
    <2> QED BY <2>2, <2>3
  <1>11. ASSUME NEW j \in 1..i, q[j] \in S PROVE \E a \in 1..(n + 1) : p[a] = j
    <2>1. CASE j = i
      BY <1>3, <1>7, <2>1
    <2>2. CASE j # i
      <3>1. j \in 1..(i - 1)
        BY <1>3, <2>2
      <3>2. PICK a \in 1..n : pos[a] = j
        BY <1>2, <1>11, <3>1 DEF Picks
      <3> QED BY <1>3, <1>6, <3>2
    <2> QED BY <2>1, <2>2
  <1>12. Picks(p, s, q, i, S)
    BY <1>4, <1>8, <1>9, <1>10, <1>11 DEF Picks
  <1> QED BY <1>1, <1>12

\* Another one is not.
LEMMA PicksSame ==
  ASSUME NEW X, NEW q \in Seq(X), NEW S, NEW i \in 1..Len(q), NEW r \in Seq(X),
         NEW pos, Picks(pos, r, q, i - 1, S), q[i] \notin S
  PROVE  Picks(pos, r, q, i, S)
  <1>1. pos \in [1..Len(r) -> 1..i]
    BY DEF Picks
  <1>2. ASSUME NEW j \in 1..i, q[j] \in S PROVE \E a \in 1..Len(r) : pos[a] = j
    <2>1. j \in 1..(i - 1)
      BY <1>2
    <2> QED BY <1>2, <2>1 DEF Picks
  <1>3. \A a \in 1..Len(r) : r[a] = q[pos[a]] /\ r[a] \in S
    BY DEF Picks
  <1>4. \A a, b \in 1..Len(r) : a < b => pos[a] < pos[b]
    BY DEF Picks
  <1> QED BY <1>1, <1>2, <1>3, <1>4 DEF Picks

\* The members of q that are in S are found, each at its place in q and in the
\* order of q, and no other.
LEMMA OnlyPicks ==
  ASSUME NEW X, NEW q \in Seq(X), NEW S
  PROVE  Only(q, S) \in Seq(X) /\ \E pos : Picks(pos, Only(q, S), q, Len(q), S)
  <1>1. PICK f : /\ Found(f, q, S) /\ Only(q, S) = f[Len(q)]
                 /\ f \in [0..Len(q) -> Seq(X)]
    BY OnlyIsFound
  <1>2. PICK n : n = Len(q)
    OBVIOUS
  <1>3. n \in Nat /\ f \in [0..n -> Seq(X)]
    BY <1>1, <1>2
  <1>4. PICK T : T = {i \in 0..n : \E pos : Picks(pos, f[i], q, i, S)}
    OBVIOUS
  <1>5. 0 \in T
    <2>1. f[0] = <<>> /\ Len(f[0]) = 0
      BY <1>1 DEF Found
    <2>2. Picks([a \in 1..0 |-> 0], f[0], q, 0, S)
      BY <2>1 DEF Picks
    <2> QED BY <1>3, <1>4, <2>2
  <1>6. ASSUME NEW i \in 1..n, i - 1 \in T PROVE i \in T
    <2>1. PICK pos : Picks(pos, f[i - 1], q, i - 1, S)
      BY <1>4, <1>6
    <2>2. f[i - 1] \in Seq(X) /\ i \in 1..Len(q)
      BY <1>2, <1>3
    <2>3. f[i] = IF q[i] \in S THEN Append(f[i - 1], q[i]) ELSE f[i - 1]
      BY <1>1, <1>2 DEF Found
    <2>4. CASE q[i] \in S
      <3>1. \E p : Picks(p, f[i], q, i, S)
        BY <2>1, <2>2, <2>3, <2>4, PicksMore
      <3> QED BY <1>3, <1>4, <3>1
    <2>5. CASE q[i] \notin S
      <3>1. Picks(pos, f[i], q, i, S)
        BY <2>1, <2>2, <2>3, <2>5, PicksSame
      <3> QED BY <1>3, <1>4, <3>1
    <2> QED BY <2>4, <2>5
  <1>7. T \subseteq 0..n
    BY <1>4
  <1>8. \A i \in 0..n : i \in T
    BY <1>3, <1>5, <1>6, <1>7, Induct
  <1>9. \E pos : Picks(pos, f[n], q, n, S)
    BY <1>3, <1>4, <1>8
  <1> QED BY <1>1, <1>2, <1>3, <1>9

\* When all elements are members, all are found.
LEMMA PicksAll ==
  ASSUME NEW X, NEW q \in Seq(X), NEW S, \A i \in 1..Len(q) : q[i] \in S
  PROVE  \E pos : Picks(pos, q, q, Len(q), S)
  <1>1. PICK pos : pos = [i \in 1..Len(q) |-> i]
    OBVIOUS
  <1> QED BY <1>1 DEF Picks

\* An element taken out of what was found of a list without repetition is no
\* longer found.
LEMMA RemoveDataPicks ==
  ASSUME NEW X, NEW q \in Seq(X), IsInjective(q), NEW S, NEW r \in Seq(X), NEW d,
         NEW pos, Picks(pos, r, q, Len(q), S)
  PROVE  /\ RemoveData(r, d) \in Seq(X)
         /\ \E p : Picks(p, RemoveData(r, d), q, Len(q), S \ {d})
  <1>1. PICK n : n = Len(r)
    OBVIOUS
  <1>2. n \in Nat /\ Len(q) \in Nat /\ DOMAIN q = 1..Len(q) /\ DOMAIN r = 1..n
    BY <1>1
  <1>3. \A a \in 1..n : r[a] = q[pos[a]] /\ r[a] \in S /\ pos[a] \in 1..Len(q)
    BY <1>1 DEF Picks
  <1>4. \A a, b \in 1..n : a < b => pos[a] < pos[b]
    BY <1>1 DEF Picks
  <1>5. \A j \in 1..Len(q) : q[j] \in S => \E a \in 1..n : pos[a] = j
    BY <1>1 DEF Picks
  <1>6. CASE d \notin Range(r)
    <2>1. RemoveData(r, d) = r
      BY <1>6 DEF RemoveData
    <2>2. \A a \in 1..n : r[a] # d
      BY <1>2, <1>6 DEF Range
    <2>3. Picks(pos, r, q, Len(q), S \ {d})
      <3>1. pos \in [1..n -> 1..Len(q)]
        BY <1>1 DEF Picks
      <3> QED BY <1>1, <1>3, <1>4, <1>5, <2>2, <3>1 DEF Picks
    <2> QED BY <2>1, <2>3
  <1>7. CASE d \in Range(r)
    <2>1. PICK k \in 1..n : r[k] = d /\ RemoveData(r, d) = RemoveAt(r, k)
      BY <1>1, <1>7, RemoveDataPlace
    <2>2. PICK s : s = RemoveAt(r, k)
      OBVIOUS
    <2>3. /\ s \in Seq(X) /\ Len(s) = n - 1
          /\ \A i \in 1..(n - 1) : s[i] = IF i < k THEN r[i] ELSE r[i + 1]
      BY <1>1, <1>2, <2>2, RemoveAtEntries
    <2>4. PICK o : o = [i \in 1..(n - 1) |-> IF i < k THEN i ELSE i + 1]
      OBVIOUS
    <2>5. ASSUME NEW i \in 1..(n - 1)
          PROVE  o[i] \in 1..n /\ o[i] # k /\ s[i] = r[o[i]]
      BY <1>2, <2>3, <2>4
    <2>6. PICK p : p = [i \in 1..(n - 1) |-> pos[o[i]]]
      OBVIOUS
    <2>7. p \in [1..(n - 1) -> 1..Len(q)]
      BY <1>3, <2>5, <2>6
    <2>8. ASSUME NEW i \in 1..(n - 1) PROVE s[i] = q[p[i]] /\ s[i] \in S \ {d}
      <3>1. s[i] = q[p[i]] /\ s[i] \in S
        BY <1>3, <2>5, <2>6
      <3>2. pos[o[i]] # pos[k]
        <4>1. o[i] \in Nat /\ k \in Nat /\ o[i] # k /\ o[i] \in 1..n
          BY <1>2, <2>5
        <4>2. o[i] < k \/ k < o[i]
          BY <4>1
        <4>3. pos[o[i]] < pos[k] \/ pos[k] < pos[o[i]]
          BY <1>4, <4>1, <4>2
        <4>4. pos[o[i]] \in Nat /\ pos[k] \in Nat
          BY <1>3, <4>1
        <4> QED BY <4>3, <4>4
      <3>3. q[pos[o[i]]] # q[pos[k]]
        <4>1. pos[o[i]] \in DOMAIN q /\ pos[k] \in DOMAIN q
          BY <1>2, <1>3, <2>5
        <4> QED BY <3>2, <4>1 DEF IsInjective
      <3> QED BY <1>3, <2>1, <2>6, <3>1, <3>3
    <2>9. ASSUME NEW a \in 1..(n - 1), NEW b \in 1..(n - 1), a < b PROVE p[a] < p[b]
      <3>1. o[a] < o[b]
        BY <1>2, <2>4, <2>9
      <3> QED BY <1>4, <2>5, <2>6, <3>1
    <2>10. ASSUME NEW j \in 1..Len(q), q[j] \in S \ {d}
           PROVE  \E a \in 1..(n - 1) : p[a] = j
      <3>1. PICK a \in 1..n : pos[a] = j
        BY <1>5, <2>10
      <3>2. a # k
        BY <1>3, <2>1, <2>10, <3>1
      <3>3. CASE a < k
        <4>1. a \in 1..(n - 1) /\ o[a] = a
          BY <1>2, <2>4, <3>3
        <4> QED BY <2>6, <3>1, <4>1
      <3>4. CASE a > k
        <4>1. a - 1 \in 1..(n - 1) /\ o[a - 1] = a
          BY <1>2, <2>4, <3>4
        <4> QED BY <2>6, <3>1, <4>1
      <3> QED BY <1>2, <3>2, <3>3, <3>4
    <2>11. Picks(p, s, q, Len(q), S \ {d})
      BY <2>3, <2>7, <2>8, <2>9, <2>10 DEF Picks
    <2> QED BY <2>1, <2>2, <2>3, <2>11
  <1> QED BY <1>6, <1>7

\* A place for every place, and a member of S at it exactly when it is among the
\* first m: the order reschedule_process leaves.
LEMMA OnlyFirst ==
  ASSUME NEW X, NEW q \in Seq(X), NEW S, NEW u \in Seq(X), NEW v \in Seq(X),
         NEW f, Picks(f, u, q, Len(q), S), NEW g, Picks(g, v, q, Len(q), X \ S)
  PROVE  Len(u) + Len(v) = Len(q) /\ u \o v \in Reschedulings(q, S)
  <1>1. PICK r : r = u \o v
    OBVIOUS
  <1>2. PICK m \in Nat : m = Len(u)
    OBVIOUS
  <1>3. PICK n \in Nat : n = Len(v)
    OBVIOUS
  <1>4. PICK N \in Nat : N = Len(q)
    OBVIOUS
  <1>5. r \in Seq(X) /\ Len(r) = m + n
    BY <1>1, <1>2, <1>3
  <1>6. ASSUME NEW a \in 1..m
        PROVE  r[a] = q[f[a]] /\ f[a] \in 1..N /\ q[f[a]] \in S
    <2>1. r[a] = u[a]
      BY <1>1, <1>2
    <2>2. u[a] = q[f[a]] /\ u[a] \in S /\ f[a] \in 1..N
      BY <1>2, <1>4 DEF Picks
    <2> QED BY <2>1, <2>2
  <1>7. ASSUME NEW a \in (m + 1)..(m + n)
        PROVE  r[a] = q[g[a - m]] /\ g[a - m] \in 1..N /\ q[g[a - m]] \notin S
    <2>1. a - m \in 1..n
      OBVIOUS
    <2>2. r[a] = v[a - m]
      BY <1>1, <1>2, <1>3, <2>1
    <2>3. v[a - m] = q[g[a - m]] /\ v[a - m] \in X \ S /\ g[a - m] \in 1..N
      BY <1>3, <1>4, <2>1 DEF Picks
    <2> QED BY <2>2, <2>3
  <1>8. PICK pos : pos = [a \in 1..(m + n) |-> IF a \in 1..m THEN f[a] ELSE g[a - m]]
    OBVIOUS
  <1>9. ASSUME NEW a \in 1..(m + n)
        PROVE  \/ a \in 1..m /\ pos[a] = f[a]
               \/ a \in (m + 1)..(m + n) /\ pos[a] = g[a - m]
    BY <1>8
  <1>10. ASSUME NEW a \in 1..(m + n)
         PROVE  pos[a] \in 1..N /\ r[a] = q[pos[a]] /\ (q[pos[a]] \in S <=> a \in 1..m)
    <2>1. CASE a \in 1..m
      <3>1. pos[a] = f[a]
        BY <1>8, <2>1
      <3> QED BY <1>6, <2>1, <3>1
    <2>2. CASE a \notin 1..m
      <3>1. a \in (m + 1)..(m + n) /\ pos[a] = g[a - m]
        BY <1>8, <2>2
      <3> QED BY <1>7, <2>2, <3>1
    <2> QED BY <2>1, <2>2
  <1>11. ASSUME NEW a \in 1..(m + n), NEW b \in 1..(m + n), a < b,
                q[pos[a]] \in S <=> q[pos[b]] \in S
         PROVE  pos[a] < pos[b]
    <2>1. CASE a \in 1..m
      <3>1. b \in 1..m
        BY <1>10, <1>11, <2>1
      <3>2. f[a] < f[b]
        BY <1>2, <1>11, <2>1, <3>1 DEF Picks
      <3> QED BY <1>9, <2>1, <3>1, <3>2
    <2>2. CASE a \notin 1..m
      <3>1. b \notin 1..m
        BY <1>11, <2>2
      <3>2. a - m \in 1..n /\ b - m \in 1..n /\ a - m < b - m
        BY <1>11, <2>2, <3>1
      <3>3. g[a - m] < g[b - m]
        BY <1>3, <3>2 DEF Picks
      <3> QED BY <1>9, <2>2, <3>1, <3>3
    <2> QED BY <2>1, <2>2
  <1>12. ASSUME NEW a \in 1..(m + n), NEW b \in 1..(m + n), pos[a] = pos[b]
         PROVE  a = b
    <2>1. pos[a] \in Nat
      BY <1>10
    <2>2. ~(a < b) /\ ~(b < a)
      BY <1>11, <1>12, <2>1
    <2> QED BY <2>2
  <1>13. ASSUME NEW j \in 1..N PROVE \E a \in 1..(m + n) : pos[a] = j
    <2>1. q[j] \in X
      BY <1>4
    <2>2. CASE q[j] \in S
      <3>1. PICK a \in 1..m : f[a] = j
        BY <1>2, <1>4, <2>2 DEF Picks
      <3>2. a \in 1..(m + n) /\ pos[a] = j
        BY <1>8, <3>1
      <3> QED BY <3>2
    <2>3. CASE q[j] \notin S
      <3>1. PICK a \in 1..n : g[a] = j
        BY <1>3, <1>4, <2>1, <2>3 DEF Picks
      <3>2. a + m \in 1..(m + n) /\ a + m \notin 1..m /\ (a + m) - m = a
        OBVIOUS
      <3>3. pos[a + m] = j
        BY <1>8, <3>1, <3>2
      <3> QED BY <3>2, <3>3
    <2> QED BY <2>2, <2>3
  <1>14. pos \in Bijection(1..(m + n), 1..N)
    <2>1. pos \in [1..(m + n) -> 1..N]
      BY <1>8, <1>10
    <2> QED BY <1>12, <1>13, <2>1 DEF Bijection, Injection, Surjection, IsInjective
  <1>15. m + n = N
    <2>1. ExistsBijection(1..(m + n), 1..N)
      BY <1>14 DEF ExistsBijection
    <2>2. IsFiniteSet(1..(m + n)) /\ Cardinality(1..(m + n)) = m + n /\ Cardinality(1..N) = N
      BY FS_Interval
    <2> QED BY <2>1, <2>2, FS_Bijection
  <1>16. DOMAIN q = 1..N /\ pos \in Bijection(DOMAIN q, DOMAIN q)
    BY <1>4, <1>14, <1>15
  <1>17. IsRescheduling(pos, q, S)
    <2> SUFFICES ASSUME NEW i \in 1..N, NEW j \in 1..N, i < j
                 PROVE  /\ q[pos[j]] \in S => q[pos[i]] \in S
                        /\ (q[pos[i]] \in S) = (q[pos[j]] \in S) => pos[i] < pos[j]
      BY <1>16 DEF IsRescheduling
    <2>1. q[pos[j]] \in S => q[pos[i]] \in S
      BY <1>10, <1>15
    <2>2. (q[pos[i]] \in S) = (q[pos[j]] \in S) => pos[i] < pos[j]
      BY <1>11, <1>15
    <2> QED BY <2>1, <2>2
  <1>18. r = [i \in DOMAIN q |-> q[pos[i]]]
    BY <1>5, <1>10, <1>15, <1>16
  <1>19. r \in Reschedulings(q, S)
    BY <1>16, <1>17, <1>18 DEF Reschedulings
  <1> QED BY <1>1, <1>2, <1>3, <1>4, <1>15, <1>19
=============================================================================
