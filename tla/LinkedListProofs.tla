-------------------------- MODULE LinkedListProofs --------------------------
(***************************************************************************)
(* For every set of nodes and of elements: the nodes of a list are a chain *)
(* in both directions, and what the functions of list.cpp do to the nodes  *)
(* is what ListSpec says of a sequence.                                    *)
(***************************************************************************)
EXTENDS LinkedList, ListProofs, FiniteSetTheorems

-----------------------------------------------------------------------------
(* The invariant *)

NodeRecord == [data : Data \union {NULL}, prev : Node \union {NULL},
               next : Node \union {NULL}]

ListRecord == [first : Node \union {NULL}, last : Node \union {NULL}, size : Nat,
               used : SUBSET Node, node : [Node -> NodeRecord]]

\* c is the chain of the n nodes of l, q what they hold.
Chain(l, c, q, n) ==
  /\ l \in ListRecord /\ l.size = n /\ n \in Nat
  /\ c \in [1..n -> Node] /\ \A i, j \in 1..n : c[i] = c[j] => i = j
  /\ l.used = {c[i] : i \in 1..n}
  /\ l.first = IF n = 0 THEN NULL ELSE c[1]
  /\ n > 0 => l.last = c[n]
  /\ \A i \in 1..n : /\ l.node[c[i]].next = IF i = n THEN NULL ELSE c[i + 1]
                     /\ l.node[c[i]].prev = IF i = 1 THEN NULL ELSE c[i - 1]
                     /\ l.node[c[i]].data = q[i]
  /\ q \in Seq(Data) /\ Len(q) = n

Represents(l, q) == \E c : Chain(l, c, q, Len(q))

IInv == \E q : Represents(list_t, q)

-----------------------------------------------------------------------------
(* Loops over a list *)

\* Following next i times leads to the node i of the chain, and then to NULL.
LEMMA AtChain ==
  ASSUME NEW l, NEW c, NEW q, NEW n, Chain(l, c, q, n), NEW i \in 0..n
  PROVE  At(l, i) = IF i = n THEN NULL ELSE c[i + 1]
  <1> DEFINE Def(f) == f = [k \in 0..i |-> IF k = 0 THEN l.first ELSE l.node[f[k - 1]].next]
  <1>1. n \in Nat /\ i \in Nat
    BY DEF Chain
  <1>2. PICK f : f = [k \in 0..i |-> IF k = n THEN NULL ELSE c[k + 1]]
    OBVIOUS
  <1>3. f[0] = l.first
    BY <1>1, <1>2 DEF Chain
  <1>4. ASSUME NEW k \in 1..i PROVE f[k] = l.node[f[k - 1]].next
    <2>1. k \in 1..n /\ k - 1 \in 0..i /\ k - 1 # n /\ (k - 1) + 1 = k
      BY <1>1
    <2>2. f[k - 1] = c[k]
      BY <1>2, <2>1
    <2>3. l.node[c[k]].next = IF k = n THEN NULL ELSE c[k + 1]
      BY <2>1 DEF Chain
    <2> QED BY <1>2, <2>2, <2>3
  <1>5. Def(f)
    <2>1. ASSUME NEW k \in 0..i
          PROVE  f[k] = IF k = 0 THEN l.first ELSE l.node[f[k - 1]].next
      <3>1. CASE k = 0
        BY <1>3, <3>1
      <3>2. CASE k # 0
        <4>1. k \in 1..i
          BY <3>2
        <4> QED BY <1>4, <3>2, <4>1
      <3> QED BY <3>1, <3>2
    <2> QED BY <1>2, <2>1
  <1>6. PICK g : g = CHOOSE h : Def(h)
    OBVIOUS
  <1>7. Def(g)
    <2> HIDE DEF Def
    <2> QED BY <1>5, <1>6
  <1>8. At(l, i) = g[i]
    BY <1>6 DEF At
  <1>9. g[0] = l.first
    BY <1>1, <1>7
  <1>10. ASSUME NEW k \in 1..i PROVE g[k] = l.node[g[k - 1]].next
    <2>1. k \in 0..i /\ k # 0
      OBVIOUS
    <2> QED BY <1>7, <2>1
  <1>11. PICK T : T = {k \in 0..i : g[k] = f[k]}
    OBVIOUS
  <1>12. 0 \in T /\ T \subseteq 0..i
    BY <1>1, <1>3, <1>9, <1>11
  <1>13. ASSUME NEW k \in 1..i, k - 1 \in T PROVE k \in T
    <2>1. g[k - 1] = f[k - 1]
      BY <1>11, <1>13
    <2>2. g[k] = f[k]
      BY <1>4, <1>10, <2>1
    <2> QED BY <1>11, <2>2
  <1>14. \A k \in 0..i : k \in T
    BY <1>1, <1>12, <1>13, Induct
  <1>15. g[i] = f[i]
    BY <1>1, <1>11, <1>14
  <1> HIDE DEF Def
  <1> QED BY <1>1, <1>2, <1>8, <1>15

LEMMA ElementsChain ==
  ASSUME NEW l, NEW c, NEW q, NEW n, Chain(l, c, q, n)
  PROVE  Elements(l) = q
  <1>1. l.size = n /\ n \in Nat /\ q \in Seq(Data) /\ Len(q) = n
    BY DEF Chain
  <1>2. ASSUME NEW i \in 1..n PROVE l.node[At(l, i - 1)].data = q[i]
    <2>1. i - 1 \in 0..n /\ i - 1 # n /\ (i - 1) + 1 = i
      BY <1>1
    <2>2. At(l, i - 1) = c[i]
      BY <2>1, AtChain
    <2> QED BY <2>2 DEF Chain
  <1>3. q = [i \in 1..n |-> q[i]]
    BY <1>1
  <1> QED BY <1>1, <1>2, <1>3 DEF Elements

-----------------------------------------------------------------------------
(* The functions of list.cpp *)

Nodes == [Node -> NodeRecord]

\* One link of one node is set.
PrevIs(m, k, y, v) ==
  /\ m \in Nodes
  /\ m[y].prev = v /\ m[y].next = k[y].next /\ m[y].data = k[y].data
  /\ \A z \in Node : z # y => m[z] = k[z]

LEMMA SetPrev ==
  ASSUME NEW k \in Nodes, NEW y \in Node, NEW v \in Node \union {NULL}
  PROVE  PrevIs([k EXCEPT ![y].prev = v], k, y, v)
  BY DEF PrevIs, Nodes, NodeRecord

NextIs(m, k, y, v) ==
  /\ m \in Nodes
  /\ m[y].next = v /\ m[y].prev = k[y].prev /\ m[y].data = k[y].data
  /\ \A z \in Node : z # y => m[z] = k[z]

LEMMA SetNext ==
  ASSUME NEW k \in Nodes, NEW y \in Node, NEW v \in Node \union {NULL}
  PROVE  NextIs([k EXCEPT ![y].next = v], k, y, v)
  BY DEF NextIs, Nodes, NodeRecord

\* The fields of a list_t.
LEMMA Fields ==
  ASSUME NEW l \in ListRecord
  PROVE  /\ l.first \in Node \union {NULL} /\ l.last \in Node \union {NULL}
         /\ l.size \in Nat /\ l.used \subseteq Node /\ l.node \in Nodes
         /\ l = [first |-> l.first, last |-> l.last, size |-> l.size,
                 used |-> l.used, node |-> l.node]
  BY DEF ListRecord, Nodes

\* list_add_first puts a new node before the chain.
LEMMA AddFirstChain ==
  ASSUME NEW l, NEW c, NEW q, NEW n, Chain(l, c, q, n),
         NEW x \in Node \ l.used, NEW d \in Data
  PROVE  \E e : Chain(list_add_first(l, x, d), e, <<d>> \o q, n + 1)
  <1>1. PICK m : m = list_add_first(l, x, d)
    OBVIOUS
  <1>2. PICK r : r = <<d>> \o q
    OBVIOUS
  <1>3. PICK e : e = [i \in 1..(n + 1) |-> IF i = 1 THEN x ELSE c[i - 1]]
    OBVIOUS
  <1>4. /\ n \in Nat /\ c \in [1..n -> Node] /\ l \in ListRecord /\ l.size = n
        /\ l.used = {c[i] : i \in 1..n} /\ NULL \notin Node
        /\ q \in Seq(Data) /\ Len(q) = n
    BY NodesAreNotNull DEF Chain
  <1>5. /\ r \in Seq(Data) /\ Len(r) = n + 1 /\ r[1] = d
        /\ \A i \in 2..(n + 1) : r[i] = q[i - 1]
    BY <1>2, <1>4
  <1>6. \A i \in 1..(n + 1) : i = 1 \/ (i \in 2..(n + 1) /\ i - 1 \in 1..n /\ e[i] = c[i - 1])
    BY <1>3, <1>4
  <1>7. e[1] = x /\ e \in [1..(n + 1) -> Node]
    <2>1. e[1] = x
      BY <1>3, <1>4
    <2>2. \A i \in 1..(n + 1) : e[i] \in Node
      BY <1>4, <1>6, <2>1
    <2> QED BY <1>3, <2>1, <2>2
  <1>8. \A i \in 1..n : c[i] # x
    BY <1>4
  <1>9. ASSUME NEW i \in 1..(n + 1), NEW j \in 1..(n + 1), e[i] = e[j] PROVE i = j
    <2>1. CASE i = 1 \/ j = 1
      BY <1>6, <1>7, <1>8, <1>9, <2>1
    <2>2. CASE i # 1 /\ j # 1
      <3>1. i - 1 \in 1..n /\ j - 1 \in 1..n /\ c[i - 1] = c[j - 1]
        BY <1>6, <1>9, <2>2
      <3>2. i - 1 = j - 1
        BY <3>1 DEF Chain
      <3> QED BY <3>2
    <2> QED BY <2>1, <2>2
  <1>10. /\ m.size = n + 1 /\ m.used = l.used \union {x} /\ m.first = x
         /\ m.last = IF n = 0 THEN x ELSE l.last
         /\ m.node = IF n = 0 THEN [l.node EXCEPT ![x] = [NoNode EXCEPT !.data = d]]
                     ELSE [l.node EXCEPT ![x] = [data |-> d, prev |-> NULL, next |-> l.first],
                                         ![l.first].prev = x]
         /\ m = [first |-> m.first, last |-> m.last, size |-> m.size,
                 used |-> m.used, node |-> m.node]
    <2>1. (l.first = NULL) <=> n = 0
      BY <1>4 DEF Chain
    <2>2. l = [first |-> l.first, last |-> l.last, size |-> l.size,
               used |-> l.used, node |-> l.node]
      BY <1>4 DEF ListRecord
    <2>3. CASE n = 0
      BY <1>1, <1>4, <2>1, <2>2, <2>3 DEF list_add_first
    <2>4. CASE n # 0
      BY <1>1, <1>4, <2>1, <2>2, <2>4 DEF list_add_first
    <2> QED BY <2>3, <2>4
  <1>11. PICK k : k = [l.node EXCEPT ![x] = [data |-> d, prev |-> NULL,
                                            next |-> IF n = 0 THEN NULL ELSE l.first]]
    OBVIOUS
  <1>12. l.node \in Nodes /\ l.first \in Node \union {NULL} /\ l.used \subseteq Node
    BY <1>4, Fields
  <1>13. k \in Nodes /\ k[x].data = d /\ k[x].prev = NULL
    BY <1>11, <1>12 DEF Nodes, NodeRecord
  <1>14. k[x].next = IF n = 0 THEN NULL ELSE c[1]
    <2>1. l.first = IF n = 0 THEN NULL ELSE c[1]
      BY DEF Chain
    <2> QED BY <1>11, <1>12, <2>1 DEF Nodes
  <1>15. ASSUME NEW i \in 1..n PROVE k[c[i]] = l.node[c[i]]
    <2>1. c[i] \in Node /\ c[i] # x
      BY <1>4, <1>8
    <2> QED BY <1>11, <1>12, <2>1 DEF Nodes
  <1>16. m.node = IF n = 0 THEN k ELSE [k EXCEPT ![l.first].prev = x]
    <2>1. CASE n = 0
      <3>1. [NoNode EXCEPT !.data = d] = [data |-> d, prev |-> NULL, next |-> NULL]
        BY DEF NoNode
      <3>2. k = [l.node EXCEPT ![x] = [data |-> d, prev |-> NULL, next |-> NULL]]
        BY <1>11, <2>1
      <3> QED BY <1>10, <2>1, <3>1, <3>2
    <2>2. CASE n # 0
      <3>1. k = [l.node EXCEPT ![x] = [data |-> d, prev |-> NULL, next |-> l.first]]
        BY <1>11, <2>2
      <3> QED BY <1>10, <2>2, <3>1
    <2> QED BY <2>1, <2>2
  <1>17. /\ m.node \in Nodes
         /\ m.node[x] = k[x]
         /\ \A i \in 1..n : /\ m.node[c[i]].data = l.node[c[i]].data
                            /\ m.node[c[i]].next = l.node[c[i]].next
                            /\ m.node[c[i]].prev = IF i = 1 THEN x ELSE l.node[c[i]].prev
    <2>1. CASE n = 0
      BY <1>13, <1>16, <2>1
    <2>2. CASE n # 0
      <3>1. 1 \in 1..n /\ l.first = c[1] /\ c[1] \in Node /\ c[1] # x
        BY <1>4, <1>8, <2>2 DEF Chain
      <3>2. m.node = [k EXCEPT ![c[1]].prev = x]
        BY <1>16, <2>2, <3>1
      <3>3. /\ m.node \in Nodes
            /\ m.node[c[1]].prev = x /\ m.node[c[1]].next = k[c[1]].next
            /\ m.node[c[1]].data = k[c[1]].data
            /\ \A z \in Node : z # c[1] => m.node[z] = k[z]
        BY <1>13, <3>1, <3>2, SetPrev DEF PrevIs
      <3>4. \A i \in 1..n : i # 1 => c[i] \in Node /\ c[i] # c[1]
        BY <1>4, <3>1 DEF Chain
      <3> QED BY <1>15, <3>1, <3>3, <3>4
    <2> QED BY <2>1, <2>2
  <1>18. m \in ListRecord
    <2>1. m.last \in Node \union {NULL}
      BY <1>4, <1>10, Fields
    <2>2. m.used \subseteq Node /\ m.first \in Node /\ m.size \in Nat
      BY <1>4, <1>10, <1>12
    <2> QED BY <1>10, <1>17, <2>1, <2>2 DEF ListRecord, Nodes
  <1>19. m.used = {e[i] : i \in 1..(n + 1)}
    <2>1. \A i \in 1..n : i + 1 \in 1..(n + 1) /\ e[i + 1] = c[i]
      BY <1>3, <1>4
    <2>2. 1 \in 1..(n + 1)
      BY <1>4
    <2>3. {e[i] : i \in 1..(n + 1)} \subseteq m.used
      BY <1>4, <1>6, <1>7, <1>10
    <2>4. m.used \subseteq {e[i] : i \in 1..(n + 1)}
      <3>1. l.used \subseteq {e[i] : i \in 1..(n + 1)}
        BY <1>4, <2>1
      <3> QED BY <1>7, <1>10, <2>2, <3>1
    <2> QED BY <2>3, <2>4
  <1>20. m.last = e[n + 1]
    BY <1>3, <1>4, <1>7, <1>10 DEF Chain
  <1>21. ASSUME NEW i \in 1..(n + 1)
         PROVE  /\ m.node[e[i]].next = IF i = n + 1 THEN NULL ELSE e[i + 1]
                /\ m.node[e[i]].prev = IF i = 1 THEN NULL ELSE e[i - 1]
                /\ m.node[e[i]].data = r[i]
    <2>1. CASE i = 1
      <3>1. n # 0 => e[2] = c[1]
        BY <1>3, <1>4
      <3> QED BY <1>4, <1>5, <1>7, <1>13, <1>14, <1>17, <2>1, <3>1
    <2>2. CASE i # 1
      <3>1. i - 1 \in 1..n /\ e[i] = c[i - 1] /\ i \in 2..(n + 1)
        BY <1>6, <2>2
      <3>2. PICK j \in 1..n : j = i - 1
        BY <3>1
      <3>3. /\ l.node[c[j]].next = IF j = n THEN NULL ELSE c[j + 1]
            /\ l.node[c[j]].prev = IF j = 1 THEN NULL ELSE c[j - 1]
            /\ l.node[c[j]].data = q[j]
        BY DEF Chain
      <3>4. m.node[e[i]].data = r[i]
        BY <1>5, <1>17, <3>1, <3>2, <3>3
      <3>5. j # n => e[i + 1] = c[j + 1]
        BY <1>3, <1>4, <3>1, <3>2
      <3>6. j # 1 => e[i - 1] = c[j - 1]
        BY <1>3, <1>4, <3>1, <3>2
      <3>7. (j = n) <=> (i = n + 1)
        BY <1>4, <3>1, <3>2
      <3>8. m.node[e[i]].next = IF i = n + 1 THEN NULL ELSE e[i + 1]
        BY <1>17, <3>1, <3>2, <3>3, <3>5, <3>7
      <3>9. m.node[e[i]].prev = e[i - 1]
        <4>1. CASE j = 1
          BY <1>7, <1>17, <3>1, <3>2, <4>1
        <4>2. CASE j # 1
          BY <1>17, <3>1, <3>2, <3>3, <3>6, <4>2
        <4> QED BY <4>1, <4>2
      <3> QED BY <2>2, <3>4, <3>8, <3>9
    <2> QED BY <2>1, <2>2
  <1>22. Chain(m, e, r, n + 1)
    <2>1. m.first = e[1] /\ n + 1 # 0 /\ n + 1 \in Nat
      BY <1>4, <1>7, <1>10
    <2> QED BY <1>5, <1>7, <1>9, <1>10, <1>18, <1>19, <1>20, <1>21, <2>1 DEF Chain
  <1> QED BY <1>1, <1>2, <1>22

\* list_add_last puts a new node after the chain.
LEMMA AddLastChain ==
  ASSUME NEW l, NEW c, NEW q, NEW n, Chain(l, c, q, n),
         NEW x \in Node \ l.used, NEW d \in Data
  PROVE  \E e : Chain(list_add_last(l, x, d), e, Append(q, d), n + 1)
  <1>1. PICK m : m = list_add_last(l, x, d)
    OBVIOUS
  <1>2. PICK r : r = Append(q, d)
    OBVIOUS
  <1>3. PICK e : e = [i \in 1..(n + 1) |-> IF i = n + 1 THEN x ELSE c[i]]
    OBVIOUS
  <1>4. /\ n \in Nat /\ c \in [1..n -> Node] /\ l \in ListRecord /\ l.size = n
        /\ l.used = {c[i] : i \in 1..n} /\ NULL \notin Node
        /\ q \in Seq(Data) /\ Len(q) = n
    BY NodesAreNotNull DEF Chain
  <1>5. /\ r \in Seq(Data) /\ Len(r) = n + 1 /\ r[n + 1] = d
        /\ \A i \in 1..n : r[i] = q[i]
    BY <1>2, <1>4
  <1>6. \A i \in 1..(n + 1) : i = n + 1 \/ (i \in 1..n /\ e[i] = c[i])
    BY <1>3, <1>4
  <1>7. e[n + 1] = x /\ e \in [1..(n + 1) -> Node]
    <2>1. e[n + 1] = x
      BY <1>3, <1>4
    <2>2. \A i \in 1..(n + 1) : e[i] \in Node
      BY <1>4, <1>6, <2>1
    <2> QED BY <1>3, <2>1, <2>2
  <1>8. \A i \in 1..n : c[i] # x
    BY <1>4
  <1>9. ASSUME NEW i \in 1..(n + 1), NEW j \in 1..(n + 1), e[i] = e[j] PROVE i = j
    <2>1. CASE i = n + 1 \/ j = n + 1
      BY <1>6, <1>7, <1>8, <1>9, <2>1
    <2>2. CASE i # n + 1 /\ j # n + 1
      <3>1. i \in 1..n /\ j \in 1..n /\ c[i] = c[j]
        BY <1>6, <1>9, <2>2
      <3> QED BY <3>1 DEF Chain
    <2> QED BY <2>1, <2>2
  <1>10. /\ m.size = n + 1 /\ m.used = l.used \union {x} /\ m.last = x
         /\ m.first = IF n = 0 THEN x ELSE l.first
         /\ m.node = IF n = 0 THEN [l.node EXCEPT ![x] = [NoNode EXCEPT !.data = d]]
                     ELSE [l.node EXCEPT ![x] = [data |-> d, prev |-> l.last, next |-> NULL],
                                         ![l.last].next = x]
         /\ m = [first |-> m.first, last |-> m.last, size |-> m.size,
                 used |-> m.used, node |-> m.node]
    <2>1. (l.first = NULL) <=> n = 0
      BY <1>4 DEF Chain
    <2>2. l = [first |-> l.first, last |-> l.last, size |-> l.size,
               used |-> l.used, node |-> l.node]
      BY <1>4 DEF ListRecord
    <2>3. CASE n = 0
      BY <1>1, <1>4, <2>1, <2>2, <2>3 DEF list_add_last
    <2>4. CASE n # 0
      BY <1>1, <1>4, <2>1, <2>2, <2>4 DEF list_add_last
    <2> QED BY <2>3, <2>4
  <1>11. PICK k : k = [l.node EXCEPT ![x] = [data |-> d,
                                            prev |-> IF n = 0 THEN NULL ELSE l.last,
                                            next |-> NULL]]
    OBVIOUS
  <1>12. l.node \in Nodes /\ l.last \in Node \union {NULL} /\ l.used \subseteq Node
    BY <1>4, Fields
  <1>13. k \in Nodes /\ k[x].data = d /\ k[x].next = NULL
    BY <1>11, <1>12 DEF Nodes, NodeRecord
  <1>14. k[x].prev = IF n = 0 THEN NULL ELSE c[n]
    <2>1. n # 0 => l.last = c[n]
      BY <1>4 DEF Chain
    <2> QED BY <1>11, <1>12, <2>1 DEF Nodes
  <1>15. ASSUME NEW i \in 1..n PROVE k[c[i]] = l.node[c[i]]
    <2>1. c[i] \in Node /\ c[i] # x
      BY <1>4, <1>8
    <2> QED BY <1>11, <1>12, <2>1 DEF Nodes
  <1>16. m.node = IF n = 0 THEN k ELSE [k EXCEPT ![l.last].next = x]
    <2>1. CASE n = 0
      <3>1. [NoNode EXCEPT !.data = d] = [data |-> d, prev |-> NULL, next |-> NULL]
        BY DEF NoNode
      <3>2. k = [l.node EXCEPT ![x] = [data |-> d, prev |-> NULL, next |-> NULL]]
        BY <1>11, <2>1
      <3> QED BY <1>10, <2>1, <3>1, <3>2
    <2>2. CASE n # 0
      <3>1. k = [l.node EXCEPT ![x] = [data |-> d, prev |-> l.last, next |-> NULL]]
        BY <1>11, <2>2
      <3> QED BY <1>10, <2>2, <3>1
    <2> QED BY <2>1, <2>2
  <1>17. /\ m.node \in Nodes
         /\ m.node[x] = k[x]
         /\ \A i \in 1..n : /\ m.node[c[i]].data = l.node[c[i]].data
                            /\ m.node[c[i]].prev = l.node[c[i]].prev
                            /\ m.node[c[i]].next = IF i = n THEN x ELSE l.node[c[i]].next
    <2>1. CASE n = 0
      BY <1>13, <1>16, <2>1
    <2>2. CASE n # 0
      <3>1. n \in 1..n /\ l.last = c[n] /\ c[n] \in Node /\ c[n] # x
        BY <1>4, <1>8, <2>2 DEF Chain
      <3>2. m.node = [k EXCEPT ![c[n]].next = x]
        BY <1>16, <2>2, <3>1
      <3>3. /\ m.node \in Nodes
            /\ m.node[c[n]].next = x /\ m.node[c[n]].prev = k[c[n]].prev
            /\ m.node[c[n]].data = k[c[n]].data
            /\ \A z \in Node : z # c[n] => m.node[z] = k[z]
        BY <1>13, <3>1, <3>2, SetNext DEF NextIs
      <3>4. \A i \in 1..n : i # n => c[i] \in Node /\ c[i] # c[n]
        BY <1>4, <3>1 DEF Chain
      <3> QED BY <1>15, <3>1, <3>3, <3>4
    <2> QED BY <2>1, <2>2
  <1>18. m \in ListRecord
    <2>1. m.first \in Node \union {NULL}
      BY <1>4, <1>10, Fields
    <2>2. m.used \subseteq Node /\ m.last \in Node /\ m.size \in Nat
      BY <1>4, <1>10, <1>12
    <2> QED BY <1>10, <1>17, <2>1, <2>2 DEF ListRecord, Nodes
  <1>19. m.used = {e[i] : i \in 1..(n + 1)}
    <2>1. \A i \in 1..n : i \in 1..(n + 1) /\ e[i] = c[i]
      BY <1>3, <1>4
    <2>2. n + 1 \in 1..(n + 1)
      BY <1>4
    <2>3. {e[i] : i \in 1..(n + 1)} \subseteq m.used
      BY <1>4, <1>6, <1>7, <1>10
    <2>4. m.used \subseteq {e[i] : i \in 1..(n + 1)}
      <3>1. l.used \subseteq {e[i] : i \in 1..(n + 1)}
        BY <1>4, <2>1
      <3> QED BY <1>7, <1>10, <2>2, <3>1
    <2> QED BY <2>3, <2>4
  <1>20. m.first = e[1]
    <2>1. CASE n = 0
      BY <1>7, <1>10, <2>1
    <2>2. CASE n # 0
      <3>1. e[1] = c[1]
        BY <1>3, <1>4, <2>2
      <3> QED BY <1>10, <2>2, <3>1 DEF Chain
    <2> QED BY <2>1, <2>2
  <1>21. ASSUME NEW i \in 1..(n + 1)
         PROVE  /\ m.node[e[i]].next = IF i = n + 1 THEN NULL ELSE e[i + 1]
                /\ m.node[e[i]].prev = IF i = 1 THEN NULL ELSE e[i - 1]
                /\ m.node[e[i]].data = r[i]
    <2>1. CASE i = n + 1
      <3>1. n # 0 => e[n] = c[n] /\ i - 1 = n
        BY <1>3, <1>4, <2>1
      <3> QED BY <1>4, <1>5, <1>7, <1>13, <1>14, <1>17, <2>1, <3>1
    <2>2. CASE i # n + 1
      <3>1. i \in 1..n /\ e[i] = c[i]
        BY <1>6, <2>2
      <3>2. /\ l.node[c[i]].next = IF i = n THEN NULL ELSE c[i + 1]
            /\ l.node[c[i]].prev = IF i = 1 THEN NULL ELSE c[i - 1]
            /\ l.node[c[i]].data = q[i]
        BY <3>1 DEF Chain
      <3>3. m.node[e[i]].data = r[i]
        BY <1>5, <1>17, <3>1, <3>2
      <3>4. i # n => e[i + 1] = c[i + 1]
        BY <1>3, <1>4, <3>1
      <3>5. i # 1 => e[i - 1] = c[i - 1]
        BY <1>3, <1>4, <3>1
      <3>6. m.node[e[i]].next = e[i + 1]
        <4>1. CASE i = n
          BY <1>7, <1>17, <3>1, <4>1
        <4>2. CASE i # n
          BY <1>17, <3>1, <3>2, <3>4, <4>2
        <4> QED BY <4>1, <4>2
      <3>7. m.node[e[i]].prev = IF i = 1 THEN NULL ELSE e[i - 1]
        BY <1>17, <3>1, <3>2, <3>5
      <3> QED BY <2>2, <3>3, <3>6, <3>7
    <2> QED BY <2>1, <2>2
  <1>22. Chain(m, e, r, n + 1)
    <2>1. m.last = e[n + 1] /\ n + 1 # 0 /\ n + 1 \in Nat
      BY <1>4, <1>7, <1>10
    <2> QED BY <1>5, <1>7, <1>9, <1>10, <1>18, <1>19, <1>20, <1>21, <2>1 DEF Chain
  <1> QED BY <1>1, <1>2, <1>22

\* The other nodes of the chain are as in l, but for the links to node k, which
\* lead to p and s.
Relinked(u, l, c, n, k, p, s) ==
  \A i \in 1..n :
    i # k => /\ u.node[c[i]].data = l.node[c[i]].data
             /\ u.node[c[i]].next = IF i = k - 1 THEN s ELSE l.node[c[i]].next
             /\ u.node[c[i]].prev = IF i = k + 1 THEN p ELSE l.node[c[i]].prev

\* Unlinking links the neighbours of a node to each other, and first and last to
\* the node that is first or last then.
LEMMA UnlinkedChain ==
  ASSUME NEW l, NEW c, NEW q, NEW n, Chain(l, c, q, n), NEW k \in 1..n
  PROVE  LET u == Unlinked(l, c[k])
         IN  /\ u \in ListRecord /\ u.size = n /\ u.used = l.used
             /\ u.first = IF k # 1 THEN c[1] ELSE IF n = 1 THEN NULL ELSE c[2]
             /\ n > 1 => u.last = IF k # n THEN c[n] ELSE c[n - 1]
             /\ Relinked(u, l, c, n, k, l.node[c[k]].prev, l.node[c[k]].next)
  <1>1. PICK u : u = Unlinked(l, c[k])
    OBVIOUS
  <1>2. PICK p : p = l.node[c[k]].prev
    OBVIOUS
  <1>3. PICK s : s = l.node[c[k]].next
    OBVIOUS
  <1>4. /\ n \in Nat /\ n # 0 /\ k \in Nat /\ c \in [1..n -> Node] /\ l \in ListRecord
        /\ l.size = n /\ NULL \notin Node
    BY NodesAreNotNull DEF Chain
  <1>5. l.first = c[1] /\ l.last = c[n] /\ 1 \in 1..n /\ n \in 1..n
    BY <1>4 DEF Chain
  <1>6. p = (IF k = 1 THEN NULL ELSE c[k - 1]) /\ s = (IF k = n THEN NULL ELSE c[k + 1])
    BY <1>2, <1>3 DEF Chain
  <1>7. \A i \in 1..n : c[i] \in Node
    BY <1>4
  <1>8. \A i, j \in 1..n : c[i] = c[j] => i = j
    BY DEF Chain
  <1>9. l.node \in Nodes /\ l.used \subseteq Node
    BY <1>4, Fields
  <1>10. l = [first |-> l.first, last |-> l.last, size |-> l.size,
              used |-> l.used, node |-> l.node]
    BY <1>4, Fields
  <1> DEFINE Goal == /\ u \in ListRecord /\ u.size = n /\ u.used = l.used
                     /\ u.first = IF k # 1 THEN c[1] ELSE IF n = 1 THEN NULL ELSE c[2]
                     /\ n > 1 => u.last = IF k # n THEN c[n] ELSE c[n - 1]
                     /\ Relinked(u, l, c, n, k, p, s)
  <1>15. SUFFICES Goal
    BY <1>1, <1>2, <1>3
  <1>11. CASE k = 1 /\ n = 1
    <2>1. s = NULL /\ c[k] = l.first
      BY <1>5, <1>6, <1>11
    <2>2. u = [l EXCEPT !.first = NULL]
      BY <1>1, <1>3, <2>1 DEF Unlinked
    <2>3. /\ u.first = NULL /\ u.last = l.last /\ u.size = l.size /\ u.used = l.used
          /\ u.node = l.node
      BY <1>10, <2>2
    <2>4. u \in ListRecord
      BY <1>4, <2>2 DEF ListRecord
    <2>5. \A i \in 1..n : i = k
      BY <1>11
    <2>6. Relinked(u, l, c, n, k, p, s)
      BY <2>5 DEF Relinked
    <2> QED BY <1>4, <1>11, <2>3, <2>4, <2>6
  <1>12. CASE k = 1 /\ n # 1
    <2>1. s = c[2] /\ s \in Node /\ s # NULL /\ c[k] = l.first /\ p = NULL /\ 2 \in 1..n
      BY <1>4, <1>5, <1>6, <1>12
    <2>2. u = [l EXCEPT !.first = s, !.node[s].prev = NULL]
      BY <1>1, <1>3, <2>1 DEF Unlinked
    <2>3. PICK m : m = [l.node EXCEPT ![s].prev = NULL]
      OBVIOUS
    <2>4. /\ u.first = s /\ u.last = l.last /\ u.size = l.size /\ u.used = l.used
          /\ u.node = m
          /\ u = [first |-> s, last |-> l.last, size |-> l.size, used |-> l.used, node |-> m]
      BY <1>10, <2>2, <2>3
    <2>5. /\ m \in Nodes
          /\ m[s].prev = NULL /\ m[s].next = l.node[s].next /\ m[s].data = l.node[s].data
          /\ \A z \in Node : z # s => m[z] = l.node[z]
      BY <1>9, <2>1, <2>3, SetPrev DEF PrevIs
    <2>6. u \in ListRecord
      BY <1>4, <2>1, <2>4, <2>5, Fields DEF ListRecord, Nodes
    <2>7. ASSUME NEW i \in 1..n, i # k
          PROVE  /\ u.node[c[i]].data = l.node[c[i]].data
                 /\ u.node[c[i]].next = IF i = k - 1 THEN s ELSE l.node[c[i]].next
                 /\ u.node[c[i]].prev = IF i = k + 1 THEN p ELSE l.node[c[i]].prev
      <3>1. i # k - 1
        BY <1>12
      <3>2. CASE i = 2
        BY <1>7, <1>12, <2>1, <2>4, <2>5, <3>1, <3>2
      <3>3. CASE i # 2
        <4>1. c[i] \in Node /\ c[i] # s /\ i # k + 1
          BY <1>7, <1>8, <1>12, <2>1, <3>3
        <4> QED BY <1>7, <2>4, <2>5, <3>1, <4>1
      <3> QED BY <3>2, <3>3
    <2>8. Relinked(u, l, c, n, k, p, s)
      BY <2>7 DEF Relinked
    <2> QED BY <1>4, <1>5, <1>12, <2>1, <2>4, <2>6, <2>8
  <1>13. CASE k # 1 /\ k = n
    <2>1. p = c[n - 1] /\ p \in Node /\ c[k] # l.first /\ c[k] = l.last /\ s = NULL
          /\ n - 1 \in 1..n
      BY <1>4, <1>5, <1>6, <1>8, <1>13
    <2>2. u = [l EXCEPT !.last = p, !.node[p].next = NULL]
      BY <1>1, <1>2, <2>1 DEF Unlinked
    <2>3. PICK m : m = [l.node EXCEPT ![p].next = NULL]
      OBVIOUS
    <2>4. /\ u.first = l.first /\ u.last = p /\ u.size = l.size /\ u.used = l.used
          /\ u.node = m
          /\ u = [first |-> l.first, last |-> p, size |-> l.size, used |-> l.used, node |-> m]
      BY <1>10, <2>2, <2>3
    <2>5. /\ m \in Nodes
          /\ m[p].next = NULL /\ m[p].prev = l.node[p].prev /\ m[p].data = l.node[p].data
          /\ \A z \in Node : z # p => m[z] = l.node[z]
      <3>1. NULL \in Node \union {NULL} /\ p \in Node
        BY <2>1
      <3>2. NextIs(m, l.node, p, NULL)
        BY <1>9, <2>3, <3>1, SetNext
      <3> QED BY <3>2 DEF NextIs
    <2>6. u \in ListRecord
      BY <1>4, <2>1, <2>4, <2>5, Fields DEF ListRecord, Nodes
    <2>7. ASSUME NEW i \in 1..n, i # k
          PROVE  /\ u.node[c[i]].data = l.node[c[i]].data
                 /\ u.node[c[i]].next = IF i = k - 1 THEN s ELSE l.node[c[i]].next
                 /\ u.node[c[i]].prev = IF i = k + 1 THEN p ELSE l.node[c[i]].prev
      <3>1. i # k + 1
        BY <1>4, <1>13
      <3>2. CASE i = n - 1
        BY <1>7, <1>13, <2>1, <2>4, <2>5, <3>1, <3>2
      <3>3. CASE i # n - 1
        <4>1. c[i] \in Node /\ c[i] # p /\ i # k - 1
          BY <1>7, <1>8, <1>13, <2>1, <3>3
        <4> QED BY <1>7, <2>4, <2>5, <3>1, <4>1
      <3> QED BY <3>2, <3>3
    <2>8. Relinked(u, l, c, n, k, p, s)
      BY <2>7 DEF Relinked
    <2> QED BY <1>4, <1>5, <1>13, <2>1, <2>4, <2>6, <2>8
  <1>14. CASE k # 1 /\ k # n
    <2>1. /\ p = c[k - 1] /\ s = c[k + 1] /\ k - 1 \in 1..n /\ k + 1 \in 1..n
          /\ k - 1 # k + 1
      BY <1>4, <1>6, <1>14
    <2>2. p \in Node /\ s \in Node /\ p # s /\ c[k] # l.first /\ c[k] # l.last
      BY <1>5, <1>7, <1>8, <1>14, <2>1
    <2>3. u = [l EXCEPT !.node[p].next = s, !.node[s].prev = p]
      BY <1>1, <1>2, <1>3, <2>2 DEF Unlinked
    <2>4. PICK h : h = [l.node EXCEPT ![p].next = s]
      OBVIOUS
    <2>5. PICK m : m = [h EXCEPT ![s].prev = p]
      OBVIOUS
    <2>6. /\ u.first = l.first /\ u.last = l.last /\ u.size = l.size /\ u.used = l.used
          /\ u.node = m
          /\ u = [first |-> l.first, last |-> l.last, size |-> l.size, used |-> l.used, node |-> m]
      BY <1>10, <2>3, <2>4, <2>5
    <2>7. /\ h \in Nodes
          /\ h[p].next = s /\ h[p].prev = l.node[p].prev /\ h[p].data = l.node[p].data
          /\ \A z \in Node : z # p => h[z] = l.node[z]
      BY <1>9, <2>2, <2>4, SetNext DEF NextIs
    <2>8. /\ m \in Nodes
          /\ m[s].prev = p /\ m[s].next = h[s].next /\ m[s].data = h[s].data
          /\ \A z \in Node : z # s => m[z] = h[z]
      <3>1. p \in Node \union {NULL} /\ h \in Nodes
        BY <2>2, <2>7
      <3>2. PrevIs(m, h, s, p)
        BY <2>2, <2>5, <3>1, SetPrev
      <3> QED BY <3>2 DEF PrevIs
    <2>9. u \in ListRecord
      BY <1>4, <2>6, <2>8, Fields DEF ListRecord, Nodes
    <2>10. ASSUME NEW i \in 1..n, i # k
           PROVE  /\ u.node[c[i]].data = l.node[c[i]].data
                  /\ u.node[c[i]].next = IF i = k - 1 THEN s ELSE l.node[c[i]].next
                  /\ u.node[c[i]].prev = IF i = k + 1 THEN p ELSE l.node[c[i]].prev
      <3>1. CASE i = k - 1
        BY <1>7, <2>1, <2>2, <2>6, <2>7, <2>8, <3>1
      <3>2. CASE i = k + 1
        BY <1>7, <2>1, <2>2, <2>6, <2>7, <2>8, <3>2
      <3>3. CASE i # k - 1 /\ i # k + 1
        <4>1. c[i] \in Node /\ c[i] # p /\ c[i] # s
          BY <1>7, <1>8, <2>1, <3>3
        <4> QED BY <1>7, <2>6, <2>7, <2>8, <3>3, <4>1
      <3> QED BY <3>1, <3>2, <3>3
    <2>11. Relinked(u, l, c, n, k, p, s)
      BY <2>10 DEF Relinked
    <2> QED BY <1>4, <1>5, <1>14, <2>6, <2>9, <2>11
  <1> QED BY <1>11, <1>12, <1>13, <1>14

\* list_remove takes one node out of the chain.
LEMMA RemoveChain ==
  ASSUME NEW l, NEW c, NEW q, NEW n, Chain(l, c, q, n), NEW k \in 1..n
  PROVE  \E e : Chain(list_remove(l, k - 1), e, RemoveAt(q, k), n - 1)
  <1>1. PICK x : x = c[k]
    OBVIOUS
  <1>2. PICK u : u = Unlinked(l, x)
    OBVIOUS
  <1>3. PICK m : m = Freed(u, x)
    OBVIOUS
  <1>4. PICK r : r = RemoveAt(q, k)
    OBVIOUS
  <1>5. /\ n \in Nat /\ n # 0 /\ k \in Nat /\ c \in [1..n -> Node] /\ l \in ListRecord
        /\ l.size = n /\ l.used = {c[i] : i \in 1..n} /\ q \in Seq(Data) /\ Len(q) = n
    BY DEF Chain
  <1>6. list_remove(l, k - 1) = m
    <2>1. k - 1 \in 0..n /\ k - 1 # n /\ (k - 1) + 1 = k /\ ~(k - 1 >= n)
      BY <1>5
    <2>2. At(l, k - 1) = x
      BY <1>1, <2>1, AtChain
    <2> QED BY <1>2, <1>3, <1>5, <2>1, <2>2 DEF list_remove
  <1>7. PICK e : e = [i \in 1..(n - 1) |-> IF i < k THEN c[i] ELSE c[i + 1]]
    OBVIOUS
  <1>8. /\ r \in Seq(Data) /\ Len(r) = n - 1
        /\ \A i \in 1..(n - 1) : r[i] = IF i < k THEN q[i] ELSE q[i + 1]
    <2>1. k \in DOMAIN q
      BY <1>5
    <2> QED BY <1>4, <1>5, <2>1, RemoveAtEntries
  \* The old place of the node now at place i.
  <1>9. PICK o : o = [i \in 1..(n - 1) |-> IF i < k THEN i ELSE i + 1]
    OBVIOUS
  <1>10. ASSUME NEW i \in 1..(n - 1)
         PROVE  /\ o[i] \in 1..n /\ o[i] # k /\ e[i] = c[o[i]] /\ r[i] = q[o[i]]
                /\ o[i] = (IF i < k THEN i ELSE i + 1)
    BY <1>5, <1>7, <1>8, <1>9
  <1>11. \A i, j \in 1..n : c[i] = c[j] => i = j
    BY DEF Chain
  <1>12. /\ u \in ListRecord /\ u.size = n /\ u.used = l.used
         /\ u.first = (IF k # 1 THEN c[1] ELSE IF n = 1 THEN NULL ELSE c[2])
         /\ n > 1 => u.last = (IF k # n THEN c[n] ELSE c[n - 1])
         /\ Relinked(u, l, c, n, k, l.node[x].prev, l.node[x].next)
    BY <1>1, <1>2, UnlinkedChain
  <1>13. /\ l.node[x].prev = (IF k = 1 THEN NULL ELSE c[k - 1])
         /\ l.node[x].next = (IF k = n THEN NULL ELSE c[k + 1])
    BY <1>1 DEF Chain
  <1>14. /\ u.node \in Nodes
         /\ u = [first |-> u.first, last |-> u.last, size |-> u.size,
                 used |-> u.used, node |-> u.node]
    BY <1>12, Fields
  <1>15. /\ m.first = u.first /\ m.last = u.last /\ m.used = l.used \ {x}
         /\ m.size = n - 1 /\ m.node = [u.node EXCEPT ![x] = NoNode]
         /\ m = [first |-> m.first, last |-> m.last, size |-> m.size,
                 used |-> m.used, node |-> m.node]
    BY <1>3, <1>12, <1>14 DEF Freed
  <1>16. /\ m.node \in Nodes
         /\ \A i \in 1..n : i # k => m.node[c[i]] = u.node[c[i]]
    <2>1. NoNode \in NodeRecord
      BY DEF NoNode, NodeRecord
    <2>2. PICK h : h = u.node
      OBVIOUS
    <2>3. PICK z : z = NoNode
      OBVIOUS
    <2>4. h \in [Node -> NodeRecord] /\ m.node = [h EXCEPT ![x] = z]
      BY <1>14, <1>15, <2>2, <2>3 DEF Nodes
    <2>5. m.node \in [Node -> NodeRecord]
      BY <2>1, <2>3, <2>4
    <2>6. ASSUME NEW i \in 1..n, i # k PROVE m.node[c[i]] = u.node[c[i]]
      <3>1. c[i] \in Node /\ c[i] # x
        BY <1>1, <1>5, <1>11, <2>6
      <3> QED BY <2>2, <2>4, <3>1
    <2> QED BY <2>5, <2>6 DEF Nodes
  <1>17. m \in ListRecord
    <2>1. m.first \in Node \union {NULL} /\ m.last \in Node \union {NULL} /\ m.used \subseteq Node
      BY <1>5, <1>12, <1>15, Fields
    <2> QED BY <1>5, <1>15, <1>16, <2>1 DEF ListRecord, Nodes
  <1>18. e \in [1..(n - 1) -> Node]
    BY <1>5, <1>7, <1>10
  <1>19. ASSUME NEW i \in 1..(n - 1), NEW j \in 1..(n - 1), e[i] = e[j] PROVE i = j
    <2>1. o[i] = o[j]
      BY <1>10, <1>11, <1>19
    <2> QED BY <1>5, <1>10, <2>1
  <1>20. m.used = {e[i] : i \in 1..(n - 1)}
    <2>1. {e[i] : i \in 1..(n - 1)} \subseteq m.used
      BY <1>1, <1>5, <1>10, <1>11, <1>15
    <2>2. ASSUME NEW i \in 1..n, i # k PROVE c[i] \in {e[j] : j \in 1..(n - 1)}
      <3>1. CASE i < k
        <4>1. i \in 1..(n - 1)
          BY <1>5, <3>1
        <4> QED BY <1>7, <3>1, <4>1
      <3>2. CASE ~(i < k)
        <4>1. i - 1 \in 1..(n - 1) /\ ~(i - 1 < k) /\ (i - 1) + 1 = i
          BY <1>5, <2>2, <3>2
        <4>2. e[i - 1] = c[i]
          BY <1>7, <4>1
        <4> QED BY <4>1, <4>2
      <3> QED BY <3>1, <3>2
    <2>3. m.used \subseteq {e[i] : i \in 1..(n - 1)}
      BY <1>1, <1>5, <1>15, <2>2
    <2> QED BY <2>1, <2>3
  <1>21. m.first = IF n - 1 = 0 THEN NULL ELSE e[1]
    <2>1. CASE n = 1
      <3>1. k = 1
        BY <2>1
      <3> QED BY <1>12, <1>15, <2>1, <3>1
    <2>2. CASE n # 1
      <3>1. 1 \in 1..(n - 1)
        BY <1>5, <2>2
      <3>2. e[1] = IF 1 < k THEN c[1] ELSE c[2]
        BY <1>7, <3>1
      <3> QED BY <1>5, <1>12, <1>15, <2>2, <3>2
    <2> QED BY <2>1, <2>2
  <1>22. n - 1 > 0 => m.last = e[n - 1]
    <2>1. SUFFICES ASSUME n - 1 > 0 PROVE m.last = e[n - 1]
      OBVIOUS
    <2>2. n - 1 \in 1..(n - 1) /\ n > 1 /\ (n - 1) + 1 = n
      BY <1>5, <2>1
    <2>3. e[n - 1] = IF n - 1 < k THEN c[n - 1] ELSE c[n]
      BY <1>7, <2>2
    <2>4. (n - 1 < k) <=> k = n
      BY <1>5
    <2> QED BY <1>12, <1>15, <2>2, <2>3, <2>4
  <1>23. ASSUME NEW i \in 1..(n - 1)
         PROVE  /\ m.node[e[i]].next = IF i = n - 1 THEN NULL ELSE e[i + 1]
                /\ m.node[e[i]].prev = IF i = 1 THEN NULL ELSE e[i - 1]
                /\ m.node[e[i]].data = r[i]
    <2>1. PICK j \in 1..n : j = o[i] /\ j # k /\ e[i] = c[j] /\ r[i] = q[j]
      BY <1>10
    <2>2. /\ m.node[c[j]].data = l.node[c[j]].data
          /\ m.node[c[j]].next = IF j = k - 1 THEN l.node[x].next ELSE l.node[c[j]].next
          /\ m.node[c[j]].prev = IF j = k + 1 THEN l.node[x].prev ELSE l.node[c[j]].prev
      BY <1>12, <1>16, <2>1 DEF Relinked
    <2>3. /\ l.node[c[j]].next = IF j = n THEN NULL ELSE c[j + 1]
          /\ l.node[c[j]].prev = IF j = 1 THEN NULL ELSE c[j - 1]
          /\ l.node[c[j]].data = q[j]
      BY DEF Chain
    <2>4. m.node[e[i]].next = IF i = n - 1 THEN NULL ELSE e[i + 1]
      <3>1. CASE i = n - 1
        <4>1. j = IF i < k THEN n - 1 ELSE n
          BY <1>5, <1>10, <2>1, <3>1
        <4>2. CASE k = n
          BY <1>5, <1>13, <2>1, <2>2, <3>1, <4>1, <4>2
        <4>3. CASE k # n
          BY <1>5, <2>1, <2>2, <2>3, <3>1, <4>1, <4>3
        <4> QED BY <4>2, <4>3
      <3>2. CASE i # n - 1
        <4>1. i + 1 \in 1..(n - 1)
          BY <1>5, <3>2
        <4>2. e[i + 1] = IF i + 1 < k THEN c[i + 1] ELSE c[(i + 1) + 1]
          BY <1>7, <4>1
        <4>3. CASE i + 1 < k
          BY <1>5, <1>10, <2>1, <2>2, <2>3, <3>2, <4>2, <4>3
        <4>4. CASE i + 1 = k
          BY <1>5, <1>10, <1>13, <2>1, <2>2, <3>2, <4>2, <4>4
        <4>5. CASE i + 1 > k
          <5>1. j = i + 1 /\ j # k - 1 /\ j # n
            BY <1>5, <1>10, <2>1, <3>2, <4>5
          <5> QED BY <1>5, <2>1, <2>2, <2>3, <3>2, <4>2, <4>5, <5>1
        <4> QED BY <1>5, <4>3, <4>4, <4>5
      <3> QED BY <3>1, <3>2
    <2>5. m.node[e[i]].prev = IF i = 1 THEN NULL ELSE e[i - 1]
      <3>1. CASE i = 1
        <4>1. j = IF 1 < k THEN 1 ELSE 2
          BY <1>5, <1>10, <2>1, <3>1
        <4>2. CASE k = 1
          BY <1>5, <1>13, <2>1, <2>2, <3>1, <4>1, <4>2
        <4>3. CASE k # 1
          BY <1>5, <2>1, <2>2, <2>3, <3>1, <4>1, <4>3
        <4> QED BY <4>2, <4>3
      <3>2. CASE i # 1
        <4>1. i - 1 \in 1..(n - 1) /\ (i - 1) + 1 = i
          BY <1>5, <3>2
        <4>2. e[i - 1] = IF i - 1 < k THEN c[i - 1] ELSE c[i]
          BY <1>7, <4>1
        <4>3. CASE i < k
          <5>1. j = i /\ j # k + 1 /\ j # 1
            BY <1>5, <1>10, <2>1, <3>2, <4>3
          <5> QED BY <1>5, <2>1, <2>2, <2>3, <3>2, <4>2, <4>3, <5>1
        <4>4. CASE i = k
          <5>1. j = k + 1 /\ k # 1
            BY <1>5, <1>10, <2>1, <3>2, <4>4
          <5> QED BY <1>5, <1>13, <2>1, <2>2, <3>2, <4>2, <4>4, <5>1
        <4>5. CASE i > k
          <5>1. j = i + 1 /\ j # k + 1 /\ j # 1 /\ j - 1 = i
            BY <1>5, <1>10, <2>1, <3>2, <4>5
          <5> QED BY <1>5, <2>1, <2>2, <2>3, <3>2, <4>2, <4>5, <5>1
        <4> QED BY <1>5, <4>3, <4>4, <4>5
      <3> QED BY <3>1, <3>2
    <2> QED BY <2>1, <2>2, <2>3, <2>4, <2>5
  <1>24. Chain(m, e, r, n - 1)
    <2>1. n - 1 \in Nat /\ m.size = n - 1 /\ r \in Seq(Data) /\ Len(r) = n - 1
      BY <1>5, <1>8, <1>15
    <2>2. \A i, j \in 1..(n - 1) : e[i] = e[j] => i = j
      BY <1>19
    <2>3. \A i \in 1..(n - 1) :
            /\ m.node[e[i]].next = IF i = n - 1 THEN NULL ELSE e[i + 1]
            /\ m.node[e[i]].prev = IF i = 1 THEN NULL ELSE e[i - 1]
            /\ m.node[e[i]].data = r[i]
      BY <1>23
    <2> QED BY <1>17, <1>18, <1>20, <1>21, <1>22, <2>1, <2>2, <2>3 DEF Chain
  <1> QED BY <1>4, <1>6, <1>24

-----------------------------------------------------------------------------
(* The functions of list.cpp, seen as functions on sequences *)

\* The loops over the list meet the elements in their order.
LEMMA RepresentsElements ==
  ASSUME NEW l, NEW q, Represents(l, q)
  PROVE  /\ Elements(l) = q /\ q \in Seq(Data) /\ l.size = Len(q)
         /\ l \in ListRecord /\ (l.first = NULL <=> q = <<>>)
  <1>1. PICK c : Chain(l, c, q, Len(q))
    BY DEF Represents
  <1>2. Elements(l) = q
    BY <1>1, ElementsChain
  <1>3. l \in ListRecord /\ l.size = Len(q) /\ q \in Seq(Data) /\ Len(q) \in Nat
    BY <1>1 DEF Chain
  <1>4. l.first = NULL <=> Len(q) = 0
    <2>1. CASE Len(q) = 0
      BY <1>1, <2>1 DEF Chain
    <2>2. CASE Len(q) # 0
      <3>1. l.first = c[1] /\ 1 \in 1..Len(q) /\ c \in [1..Len(q) -> Node]
        BY <1>1, <1>3, <2>2 DEF Chain
      <3> QED BY <2>2, <3>1, NodesAreNotNull
    <2> QED BY <2>1, <2>2
  <1>5. Len(q) = 0 <=> q = <<>>
    BY <1>3, EmptySeq
  <1> QED BY <1>2, <1>3, <1>4, <1>5

\* list_add_first.
LEMMA AddFirstRepresents ==
  ASSUME NEW l, NEW q, Represents(l, q), NEW x \in Node \ l.used, NEW d \in Data
  PROVE  Represents(list_add_first(l, x, d), Cons(d, q))
  <1>1. PICK c : Chain(l, c, q, Len(q))
    BY DEF Represents
  <1>2. PICK r : r = <<d>> \o q
    OBVIOUS
  <1>3. PICK e : Chain(list_add_first(l, x, d), e, r, Len(q) + 1)
    BY <1>1, <1>2, AddFirstChain
  <1>4. Len(r) = Len(q) + 1
    BY <1>3 DEF Chain
  <1> QED BY <1>2, <1>3, <1>4 DEF Represents, Cons

\* list_add_last.
LEMMA AddLastRepresents ==
  ASSUME NEW l, NEW q, Represents(l, q), NEW x \in Node \ l.used, NEW d \in Data
  PROVE  Represents(list_add_last(l, x, d), Append(q, d))
  <1>1. PICK c : Chain(l, c, q, Len(q))
    BY DEF Represents
  <1>2. PICK r : r = Append(q, d)
    OBVIOUS
  <1>3. PICK e : Chain(list_add_last(l, x, d), e, r, Len(q) + 1)
    BY <1>1, <1>2, AddLastChain
  <1>4. Len(r) = Len(q) + 1
    BY <1>3 DEF Chain
  <1> QED BY <1>2, <1>3, <1>4 DEF Represents

\* list_remove.
LEMMA RemoveRepresents ==
  ASSUME NEW l, NEW q, Represents(l, q), NEW k \in 1..Len(q)
  PROVE  Represents(list_remove(l, k - 1), RemoveAt(q, k))
  <1>1. PICK c : Chain(l, c, q, Len(q))
    BY DEF Represents
  <1>2. PICK r : r = RemoveAt(q, k)
    OBVIOUS
  <1>3. PICK e : Chain(list_remove(l, k - 1), e, r, Len(q) - 1)
    BY <1>1, <1>2, RemoveChain
  <1>4. Len(r) = Len(q) - 1
    BY <1>3 DEF Chain
  <1> QED BY <1>2, <1>3, <1>4 DEF Represents

\* list_remove_data takes out the first node with the element.
LEMMA RemoveDataRepresents ==
  ASSUME NEW l, NEW q, Represents(l, q), NEW d
  PROVE  Represents(list_remove_data(l, d), RemoveData(q, d))
  <1>1. Elements(l) = q /\ l.size = Len(q) /\ q \in Seq(Data)
    BY RepresentsElements
  <1>2. PICK found : found = {i \in 1..Len(q) : q[i] = d}
    OBVIOUS
  <1>3. list_remove_data(l, d) =
          IF found = {} THEN l
          ELSE list_remove(l, (CHOOSE i \in found : \A j \in found : i <= j) - 1)
    BY <1>1, <1>2 DEF list_remove_data
  <1>4. DOMAIN q = 1..Len(q) /\ Len(q) \in Nat
    BY <1>1
  <1>5. CASE d \notin Range(q)
    <2>1. found = {}
      BY <1>2, <1>4, <1>5 DEF Range
    <2> QED BY <1>3, <1>5, <2>1 DEF RemoveData
  <1>6. CASE d \in Range(q)
    <2>1. PICK k \in 1..Len(q) :
            /\ q[k] = d /\ \A j \in 1..(k - 1) : q[j] # d
            /\ RemoveData(q, d) = RemoveAt(q, k)
      BY <1>1, <1>6, RemoveDataPlace
    <2>2. PICK i : i = CHOOSE e \in found : \A j \in found : e <= j
      OBVIOUS
    <2>3. k \in found
      BY <1>2, <2>1
    <2>4. \A j \in found : k <= j
      <3> SUFFICES ASSUME NEW j \in found, j < k PROVE FALSE
        BY <1>2, <1>4
      <3>1. j \in 1..(k - 1)
        BY <1>2, <1>4
      <3> QED BY <1>2, <2>1, <3>1
    <2>5. i \in found /\ \A j \in found : i <= j
      BY <2>2, <2>3, <2>4
    <2>6. i = k
      <3>1. i <= k /\ k <= i /\ i \in Nat /\ k \in Nat
        BY <1>2, <1>4, <2>3, <2>4, <2>5
      <3> QED BY <3>1
    <2>7. list_remove_data(l, d) = list_remove(l, k - 1)
      BY <1>3, <2>2, <2>3, <2>6
    <2> QED BY <2>1, <2>7, RemoveRepresents
  <1> QED BY <1>5, <1>6

-----------------------------------------------------------------------------
(* reschedule_process *)

\* The lists that are a chain.
Valid == {m \in ListRecord : \E q : Represents(m, q)}

\* The loop that takes the elements of s out of l, and the one that puts them in
\* front, from the last on.
Takes(f, l, s, n) ==
  /\ f[0] = l
  /\ \A i \in 1..n : f[i] = list_remove_data(f[i - 1], s[i])

Puts(f, l, s, n) ==
  /\ f[0] = l
  /\ \A i \in 1..n :
       f[i] = list_add_first(f[i - 1], FreeNode(f[i - 1]), s[n + 1 - i])

\* The same, but for a list that has no room.
PutsIfRoom(f, l, s, n) ==
  /\ f[0] = l
  /\ \A i \in 1..n :
       Node \ f[i - 1].used # {} =>
         f[i] = list_add_first(f[i - 1], FreeNode(f[i - 1]), s[n + 1 - i])

LEMMA TakesExists ==
  ASSUME NEW l \in Valid, NEW s \in Seq(Data), NEW n \in Nat, n = Len(s)
  PROVE  \E f \in [0..n -> Valid] : Takes(f, l, s, n)
  <1>1. PICK step : step = [i \in 1..n |-> [m \in Valid |-> list_remove_data(m, s[i])]]
    OBVIOUS
  <1>2. ASSUME NEW m \in Valid, NEW d PROVE list_remove_data(m, d) \in Valid
    <2>1. PICK q : Represents(m, q)
      BY DEF Valid
    <2>2. PICK w : w = list_remove_data(m, d)
      OBVIOUS
    <2>3. PICK r : r = RemoveData(q, d)
      OBVIOUS
    <2>4. Represents(w, r)
      BY <2>1, <2>2, <2>3, RemoveDataRepresents
    <2>5. w \in ListRecord
      BY <2>4, RepresentsElements
    <2> QED BY <2>2, <2>4, <2>5 DEF Valid
  <1>3. step \in [1..n -> [Valid -> Valid]]
    BY <1>1, <1>2
  <1>4. PICK f : IsRecursion(f, n, Valid, l, step)
    BY <1>3, Recursion
  <1>5. f \in [0..n -> Valid] /\ f[0] = l
    BY <1>4 DEF IsRecursion
  <1>6. ASSUME NEW i \in 1..n PROVE f[i] = list_remove_data(f[i - 1], s[i])
    <2>1. f[i - 1] \in Valid
      BY <1>5
    <2>2. f[i] = step[i][f[i - 1]]
      BY <1>4 DEF IsRecursion
    <2> QED BY <1>1, <2>1, <2>2
  <1> QED BY <1>5, <1>6 DEF Takes

LEMMA PutsIfRoomExists ==
  ASSUME NEW l \in Valid, NEW s \in Seq(Data), NEW n \in Nat, n = Len(s)
  PROVE  \E f \in [0..n -> Valid] : PutsIfRoom(f, l, s, n)
  <1>1. PICK step : step = [i \in 1..n |-> [m \in Valid |->
                              IF Node \ m.used # {}
                              THEN list_add_first(m, FreeNode(m), s[n + 1 - i]) ELSE m]]
    OBVIOUS
  <1>2. ASSUME NEW m \in Valid, Node \ m.used # {}, NEW d \in Data
        PROVE  list_add_first(m, FreeNode(m), d) \in Valid
    <2>1. PICK q : Represents(m, q)
      BY DEF Valid
    <2>2. PICK x : x = FreeNode(m)
      OBVIOUS
    <2>3. x \in Node \ m.used
      BY <1>2, <2>2 DEF FreeNode
    <2>4. PICK w : w = list_add_first(m, x, d)
      OBVIOUS
    <2>5. PICK r : r = Cons(d, q)
      OBVIOUS
    <2>6. Represents(w, r)
      BY <2>1, <2>3, <2>4, <2>5, AddFirstRepresents
    <2>7. w \in ListRecord
      BY <2>6, RepresentsElements
    <2> QED BY <2>2, <2>4, <2>6, <2>7 DEF Valid
  <1>3. step \in [1..n -> [Valid -> Valid]]
    <2>1. ASSUME NEW i \in 1..n PROVE step[i] \in [Valid -> Valid]
      <3>1. n + 1 - i \in 1..n
        OBVIOUS
      <3>2. s[n + 1 - i] \in Data
        BY <3>1
      <3> QED BY <1>1, <1>2, <3>2
    <2> QED BY <1>1, <2>1
  <1>4. PICK f : IsRecursion(f, n, Valid, l, step)
    BY <1>3, Recursion
  <1>5. f \in [0..n -> Valid] /\ f[0] = l
    BY <1>4 DEF IsRecursion
  <1>6. ASSUME NEW i \in 1..n, Node \ f[i - 1].used # {}
        PROVE  f[i] = list_add_first(f[i - 1], FreeNode(f[i - 1]), s[n + 1 - i])
    <2>1. f[i - 1] \in Valid
      BY <1>5
    <2>2. f[i] = step[i][f[i - 1]]
      BY <1>4 DEF IsRecursion
    <2> QED BY <1>1, <1>6, <2>1, <2>2
  <1> QED BY <1>5, <1>6 DEF PutsIfRoom

\* What is left of a list without repetition while elements are taken out.
LEMMA TakesLeave ==
  ASSUME NEW l, NEW q, Represents(l, q), IsInjective(q),
         NEW s \in Seq(Data), NEW n \in Nat, n = Len(s),
         NEW f, Takes(f, l, s, n), NEW A, A = Data \ {s[j] : j \in 1..n}
  PROVE  \E r \in Seq(Data) :
           Represents(f[n], r) /\ \E p : Picks(p, r, q, Len(q), A)
  <1>1. q \in Seq(Data)
    BY RepresentsElements
  <1> DEFINE Left(i) == \E r \in Seq(Data) :
                          /\ Represents(f[i], r)
                          /\ \E p : Picks(p, r, q, Len(q), Data \ {s[j] : j \in 1..i})
  <1>2. PICK T : T = {i \in 0..n : Left(i)}
    OBVIOUS
  <1>3. 0 \in T
    <2>1. Data \ {s[j] : j \in 1..0} = Data
      OBVIOUS
    <2>2. \E p : Picks(p, q, q, Len(q), Data)
      <3>1. \A i \in 1..Len(q) : q[i] \in Data
        BY <1>1
      <3> QED BY <1>1, <3>1, PicksAll
    <2>3. Represents(f[0], q)
      BY DEF Takes
    <2>4. Left(0)
      BY <1>1, <2>1, <2>2, <2>3
    <2> HIDE DEF Left
    <2> QED BY <1>2, <2>4
  <1>4. ASSUME NEW i \in 1..n, i - 1 \in T PROVE i \in T
    <2>1. Left(i - 1)
      <3> HIDE DEF Left
      <3> QED BY <1>2, <1>4
    <2>2. PICK r, p : /\ r \in Seq(Data) /\ Represents(f[i - 1], r)
                      /\ Picks(p, r, q, Len(q), Data \ {s[j] : j \in 1..(i - 1)})
      BY <2>1
    <2>3. PICK B : B = Data \ {s[j] : j \in 1..(i - 1)}
      OBVIOUS
    <2>4. PICK w : w = RemoveData(r, s[i])
      OBVIOUS
    <2>5. w \in Seq(Data) /\ \E t : Picks(t, w, q, Len(q), B \ {s[i]})
      BY <1>1, <2>2, <2>3, <2>4, RemoveDataPicks
    <2>6. B \ {s[i]} = Data \ {s[j] : j \in 1..i}
      <3>1. ASSUME NEW d PROVE d \in {s[j] : j \in 1..i} <=>
                                 d \in {s[j] : j \in 1..(i - 1)} \/ d = s[i]
        <4>1. \A j \in 1..i : j \in 1..(i - 1) \/ j = i
          OBVIOUS
        <4>2. \A j \in 1..(i - 1) : j \in 1..i
          OBVIOUS
        <4> QED BY <4>1, <4>2
      <3> QED BY <2>3, <3>1
    <2>7. Represents(f[i], w)
      <3>1. PICK k : k = f[i - 1]
        OBVIOUS
      <3>2. f[i] = list_remove_data(k, s[i])
        BY <3>1 DEF Takes
      <3>3. Represents(list_remove_data(k, s[i]), w)
        BY <2>2, <2>4, <3>1, RemoveDataRepresents
      <3> QED BY <3>2, <3>3
    <2>8. Left(i)
      BY <2>5, <2>6, <2>7
    <2> HIDE DEF Left
    <2> QED BY <1>2, <2>8
  <1>5. T \subseteq 0..n
    BY <1>2
  <1>6. \A i \in 0..n : i \in T
    BY <1>3, <1>4, <1>5, Induct
  <1>7. Left(n)
    <2> HIDE DEF Left
    <2> QED BY <1>2, <1>6
  <1> QED BY <1>7

\* A list has a node for each of its elements.
LEMMA UsedNodes ==
  ASSUME NEW l, NEW q, Represents(l, q)
  PROVE  l.used \subseteq Node /\ IsFiniteSet(l.used) /\ Cardinality(l.used) = Len(q)
  <1>1. PICK c : Chain(l, c, q, Len(q))
    BY DEF Represents
  <1>2. PICK n \in Nat : n = Len(q)
    BY <1>1 DEF Chain
  <1>3. /\ c \in [1..n -> Node] /\ l.used = {c[i] : i \in 1..n}
        /\ \A i, j \in 1..n : c[i] = c[j] => i = j
    BY <1>1, <1>2 DEF Chain
  <1>4. c \in Bijection(1..n, l.used)
    BY <1>3 DEF Bijection, Injection, Surjection, IsInjective
  <1>5. ExistsBijection(1..n, l.used)
    BY <1>4 DEF ExistsBijection
  <1>6. IsFiniteSet(1..n) /\ Cardinality(1..n) = n
    BY FS_Interval
  <1> QED BY <1>2, <1>3, <1>5, <1>6, FS_Bijection

\* One element more in front of a part of s.
LEMMA ConsPart ==
  ASSUME NEW s \in Seq(Data), NEW r \in Seq(Data), NEW k \in 1..Len(s)
  PROVE  Cons(s[k], SubSeq(s, k + 1, Len(s)) \o r) = SubSeq(s, k, Len(s)) \o r
  <1>1. PICK u : u = SubSeq(s, k + 1, Len(s))
    OBVIOUS
  <1>2. PICK h : h = <<s[k]>>
    OBVIOUS
  <1>3. u \in Seq(Data) /\ h \in Seq(Data)
    BY <1>1, <1>2, SubSeqProperties, ElementOfSeq
  <1>4. SubSeq(s, k, Len(s)) = h \o u
    <2>1. Len(s) \in k..Len(s)
      OBVIOUS
    <2>2. SubSeq(s, k, Len(s)) = <<s[k]>> \o SubSeq(s, k + 1, Len(s))
      BY <2>1, SubSeqRecursiveFirst
    <2> QED BY <1>1, <1>2, <2>2
  <1>5. (h \o u) \o r = h \o (u \o r)
    BY <1>3, ConcatAssociative, SMTT(30)
  <1> QED BY <1>1, <1>2, <1>4, <1>5 DEF Cons

\* In a list with room the elements are in front afterwards, in their order.
LEMMA PutsLeave ==
  ASSUME NEW l, NEW r \in Seq(Data), Represents(l, r),
         NEW s \in Seq(Data), NEW n \in Nat, n = Len(s),
         NEW U \in SUBSET Node, IsFiniteSet(U), Cardinality(U) = n + Len(r),
         NEW f, PutsIfRoom(f, l, s, n)
  PROVE  /\ \A i \in 1..n : Node \ f[i - 1].used # {}
         /\ Represents(f[n], s \o r)
  <1>1. PICK part : part = [i \in 0..n |-> SubSeq(s, n + 1 - i, n) \o r]
    OBVIOUS
  <1>2. ASSUME NEW i \in 0..n PROVE part[i] \in Seq(Data) /\ Len(part[i]) = i + Len(r)
    <2>1. SubSeq(s, n + 1 - i, n) \in Seq(Data) /\ Len(SubSeq(s, n + 1 - i, n)) = i
      BY SubSeqProperties, ElementOfSeq
    <2> QED BY <1>1, <2>1
  <1>3. ASSUME NEW i \in 0..n, i # n, NEW m, Represents(m, part[i])
        PROVE  Node \ m.used # {}
    <2>1. m.used \subseteq Node /\ IsFiniteSet(m.used) /\ Cardinality(m.used) = i + Len(r)
      BY <1>2, <1>3, UsedNodes
    <2>2. SUFFICES ASSUME U \subseteq m.used PROVE FALSE
      BY <2>1
    <2>3. Cardinality(U) <= Cardinality(m.used)
      BY <2>1, <2>2, FS_Subset
    <2> QED BY <1>3, <2>1, <2>3
  <1>4. PICK T : T = {i \in 0..n : Represents(f[i], part[i])}
    OBVIOUS
  <1>5. 0 \in T
    <2>1. SubSeq(s, n + 1, n) = <<>> /\ n + 1 - 0 = n + 1
      BY SubSeqProperties
    <2>2. part[0] = r
      BY <1>1, <2>1
    <2>3. f[0] = l
      BY DEF PutsIfRoom
    <2> QED BY <1>4, <2>2, <2>3
  <1>6. ASSUME NEW i \in 1..n, i - 1 \in T PROVE i \in T
    <2>1. PICK m : m = f[i - 1]
      OBVIOUS
    <2>2. PICK w : w = part[i - 1]
      OBVIOUS
    <2>3. Represents(m, w) /\ i - 1 \in 0..n /\ i - 1 # n
      BY <1>4, <1>6, <2>1, <2>2
    <2>4. Node \ m.used # {}
      BY <1>3, <2>2, <2>3
    <2>5. PICK x : x = FreeNode(m)
      OBVIOUS
    <2>6. x \in Node \ m.used
      BY <2>4, <2>5 DEF FreeNode
    <2>7. PICK k : k = n + 1 - i /\ k \in 1..Len(s) /\ k + 1 = n + 1 - (i - 1)
      OBVIOUS
    <2>8. f[i] = list_add_first(m, x, s[k])
      BY <2>1, <2>4, <2>5, <2>7 DEF PutsIfRoom
    <2>9. s[k] \in Data
      BY <2>7
    <2>10. Represents(list_add_first(m, x, s[k]), Cons(s[k], w))
      BY <2>3, <2>6, <2>9, AddFirstRepresents
    <2>11. Cons(s[k], w) = part[i]
      <3>1. w = SubSeq(s, k + 1, Len(s)) \o r
        BY <1>1, <2>2, <2>3, <2>7
      <3>2. part[i] = SubSeq(s, k, Len(s)) \o r
        BY <1>1, <2>7
      <3> QED BY <2>7, <3>1, <3>2, ConsPart
    <2> QED BY <1>4, <2>8, <2>10, <2>11
  <1>7. T \subseteq 0..n
    BY <1>4
  <1>8. \A i \in 0..n : i \in T
    BY <1>5, <1>6, <1>7, Induct
  <1>9. ASSUME NEW i \in 1..n PROVE Node \ f[i - 1].used # {}
    <2>1. PICK m : m = f[i - 1]
      OBVIOUS
    <2>2. i - 1 \in 0..n /\ i - 1 # n
      OBVIOUS
    <2>3. Represents(m, part[i - 1])
      BY <1>4, <1>8, <2>1, <2>2
    <2> QED BY <1>3, <2>1, <2>2, <2>3
  <1>10. part[n] = s \o r
    <2>1. SubSeq(s, 1, n) = s
      BY SubSeqFull
    <2>2. n \in 0..n /\ n + 1 - n = 1
      OBVIOUS
    <2>3. part[n] = SubSeq(s, n + 1 - n, n) \o r
      BY <1>1, <2>2
    <2> QED BY <2>1, <2>2, <2>3
  <1>11. Represents(f[n], part[n])
    <2>1. n \in 0..n
      OBVIOUS
    <2> QED BY <1>4, <1>8, <2>1
  <1> QED BY <1>9, <1>10, <1>11

\* reschedule_process is the two loops, one after the other.
LEMMA RescheduleIsLoops ==
  ASSUME NEW l, NEW S, NEW s, s = Only(Elements(l), S), NEW n \in Nat, n = Len(s),
         \E f \in [0..n -> Valid] : Takes(f, l, s, n),
         \A f : Takes(f, l, s, n) => \E h \in [0..n -> Valid] : Puts(h, f[n], s, n)
  PROVE  \E f, h : Takes(f, l, s, n) /\ Puts(h, f[n], s, n) /\ reschedule(l, S) = h[n]
  <1> DEFINE Removed(f) == f = [i \in 0..n |-> IF i = 0 THEN l
                                 ELSE list_remove_data(f[i - 1], s[i])]
  <1>1. PICK f : f = CHOOSE g : Removed(g)
    OBVIOUS
  <1>2. \E g : Removed(g)
    <2>1. PICK g \in [0..n -> Valid] : Takes(g, l, s, n)
      OBVIOUS
    <2>2. ASSUME NEW i \in 0..n
          PROVE  g[i] = IF i = 0 THEN l ELSE list_remove_data(g[i - 1], s[i])
      <3>1. CASE i = 0
        BY <2>1, <3>1 DEF Takes
      <3>2. CASE i # 0
        <4>1. i \in 1..n
          BY <3>2
        <4> QED BY <2>1, <3>2, <4>1 DEF Takes
      <3> QED BY <3>1, <3>2
    <2>3. Removed(g)
      BY <2>1, <2>2
    <2> QED BY <2>3
  <1>3. Removed(f)
    <2> HIDE DEF Removed
    <2> QED BY <1>1, <1>2
  <1>4. Takes(f, l, s, n)
    <2>1. f[0] = l
      BY <1>3
    <2>2. ASSUME NEW i \in 1..n PROVE f[i] = list_remove_data(f[i - 1], s[i])
      <3>1. i \in 0..n /\ i # 0
        OBVIOUS
      <3> QED BY <1>3, <3>1
    <2> QED BY <2>1, <2>2 DEF Takes
  <1>5. PICK m : m = f[n]
    OBVIOUS
  <1> DEFINE Back(h) == h = [i \in 0..n |-> IF i = 0 THEN m
                              ELSE list_add_first(h[i - 1], FreeNode(h[i - 1]), s[n + 1 - i])]
  <1>6. PICK h : h = CHOOSE g : Back(g)
    OBVIOUS
  <1>7. \E g : Back(g)
    <2>1. PICK g \in [0..n -> Valid] : Puts(g, m, s, n)
      BY <1>4, <1>5
    <2>2. ASSUME NEW i \in 0..n
          PROVE  g[i] = IF i = 0 THEN m
                        ELSE list_add_first(g[i - 1], FreeNode(g[i - 1]), s[n + 1 - i])
      <3>1. CASE i = 0
        BY <2>1, <3>1 DEF Puts
      <3>2. CASE i # 0
        <4>1. i \in 1..n
          BY <3>2
        <4> QED BY <2>1, <3>2, <4>1 DEF Puts
      <3> QED BY <3>1, <3>2
    <2>3. Back(g)
      BY <2>1, <2>2
    <2> QED BY <2>3
  <1>8. Back(h)
    <2> HIDE DEF Back
    <2> QED BY <1>6, <1>7
  <1>9. Puts(h, m, s, n)
    <2>1. h[0] = m
      BY <1>8
    <2>2. ASSUME NEW i \in 1..n
          PROVE  h[i] = list_add_first(h[i - 1], FreeNode(h[i - 1]), s[n + 1 - i])
      <3>1. i \in 0..n /\ i # 0
        OBVIOUS
      <3> QED BY <1>8, <3>1
    <2> QED BY <2>1, <2>2 DEF Puts
  <1>10. reschedule(l, S) = h[n]
    BY <1>1, <1>5, <1>6 DEF reschedule
  <1> QED BY <1>4, <1>5, <1>9, <1>10

\* What is put in front are the elements of S, what is left are the others: the
\* order that Lists describes.
LEMMA RescheduleRepresents ==
  ASSUME NEW l, NEW q, Represents(l, q), IsInjective(q), NEW S
  PROVE  \E r \in Reschedulings(q, S) : Represents(reschedule(l, S), r)
  <1>1. Elements(l) = q /\ q \in Seq(Data) /\ l \in Valid
    BY RepresentsElements DEF Valid
  <1>2. PICK s : s = Only(q, S)
    OBVIOUS
  <1>3. s \in Seq(Data)
    BY <1>1, <1>2, OnlyPicks
  <1>4. PICK u : Picks(u, s, q, Len(q), S)
    BY <1>1, <1>2, OnlyPicks
  <1>5. PICK n \in Nat : n = Len(s)
    BY <1>3
  <1>6. PICK A : A = Data \ {s[j] : j \in 1..n}
    OBVIOUS
  <1>7. ASSUME NEW m, NEW r \in Seq(Data), Represents(m, r),
               NEW p, Picks(p, r, q, Len(q), A)
        PROVE  /\ s \o r \in Reschedulings(q, S)
               /\ \A h : PutsIfRoom(h, m, s, n) =>
                    Puts(h, m, s, n) /\ Represents(h[n], s \o r)
    <2>1. ASSUME NEW j \in 1..Len(q) PROVE q[j] \in A <=> q[j] \in Data \ S
      <3>1. q[j] \in Data
        BY <1>1
      <3>2. q[j] \in S => \E a \in 1..n : s[a] = q[j]
        BY <1>4, <1>5 DEF Picks
      <3>3. \A a \in 1..n : s[a] \in S
        BY <1>4, <1>5 DEF Picks
      <3> QED BY <1>6, <3>1, <3>2, <3>3
    <2>2. Picks(p, r, q, Len(q), Data \ S)
      <3>1. \A a \in 1..Len(r) : p[a] \in 1..Len(q) /\ r[a] = q[p[a]] /\ r[a] \in A
        BY <1>7 DEF Picks
      <3>2. \A a \in 1..Len(r) : r[a] = q[p[a]] /\ r[a] \in Data \ S
        BY <2>1, <3>1
      <3>3. \A j \in 1..Len(q) : q[j] \in Data \ S => \E a \in 1..Len(r) : p[a] = j
        BY <1>7, <2>1 DEF Picks
      <3>4. /\ p \in [1..Len(r) -> 1..Len(q)]
            /\ \A a, b \in 1..Len(r) : a < b => p[a] < p[b]
        BY <1>7 DEF Picks
      <3> QED BY <3>2, <3>3, <3>4 DEF Picks
    <2>3. Len(s) + Len(r) = Len(q) /\ s \o r \in Reschedulings(q, S)
      BY <1>1, <1>3, <1>4, <2>2, OnlyFirst
    <2>4. l.used \in SUBSET Node /\ IsFiniteSet(l.used) /\ Cardinality(l.used) = n + Len(r)
      BY <1>5, <2>3, UsedNodes
    <2>5. ASSUME NEW h, PutsIfRoom(h, m, s, n)
          PROVE  Puts(h, m, s, n) /\ Represents(h[n], s \o r)
      <3>1. PICK U \in SUBSET Node : IsFiniteSet(U) /\ Cardinality(U) = n + Len(r)
        BY <2>4
      <3>2. /\ \A i \in 1..n : Node \ h[i - 1].used # {}
            /\ Represents(h[n], s \o r)
        BY <1>3, <1>5, <1>7, <2>5, <3>1, PutsLeave
      <3>3. Puts(h, m, s, n)
        BY <2>5, <3>2 DEF Puts, PutsIfRoom
      <3> QED BY <3>2, <3>3
    <2> QED BY <2>3, <2>5
  <1>8. ASSUME NEW f, Takes(f, l, s, n)
        PROVE  \E r \in Seq(Data) :
                 /\ Represents(f[n], r) /\ \E p : Picks(p, r, q, Len(q), A)
    BY <1>3, <1>5, <1>6, <1>8, TakesLeave
  <1>9. ASSUME NEW f, Takes(f, l, s, n)
        PROVE  \E h \in [0..n -> Valid] : Puts(h, f[n], s, n)
    <2>1. PICK m : m = f[n]
      OBVIOUS
    <2>2. PICK r, p : r \in Seq(Data) /\ Represents(m, r) /\ Picks(p, r, q, Len(q), A)
      BY <1>8, <1>9, <2>1
    <2>3. m \in Valid
      BY <2>2, RepresentsElements DEF Valid
    <2>4. PICK h \in [0..n -> Valid] : PutsIfRoom(h, m, s, n)
      BY <1>3, <1>5, <2>3, PutsIfRoomExists
    <2>5. Puts(h, m, s, n)
      BY <1>7, <2>2, <2>4
    <2> QED BY <2>1, <2>5
  <1>10. \E f \in [0..n -> Valid] : Takes(f, l, s, n)
    BY <1>1, <1>3, <1>5, TakesExists
  <1>11. PICK f, h : Takes(f, l, s, n) /\ Puts(h, f[n], s, n) /\ reschedule(l, S) = h[n]
    <2>1. s = Only(Elements(l), S)
      BY <1>1, <1>2
    <2>2. \A f : Takes(f, l, s, n) => \E h \in [0..n -> Valid] : Puts(h, f[n], s, n)
      BY <1>9
    <2> QED BY <1>5, <1>10, <2>1, <2>2, RescheduleIsLoops
  <1>12. PICK m : m = f[n]
    OBVIOUS
  <1>13. PICK r, p : r \in Seq(Data) /\ Represents(m, r) /\ Picks(p, r, q, Len(q), A)
    BY <1>8, <1>11, <1>12
  <1>14. PutsIfRoom(h, m, s, n)
    BY <1>11, <1>12 DEF Puts, PutsIfRoom
  <1>15. s \o r \in Reschedulings(q, S) /\ Represents(h[n], s \o r)
    BY <1>7, <1>13, <1>14
  <1> QED BY <1>11, <1>15

-----------------------------------------------------------------------------
(* The steps *)

\* The steps of ListSpec.
ListStep(q, r) ==
  \/ \E d \in Data : r = Cons(d, q) \/ r = Append(q, d) \/ r = RemoveData(q, d)
  \/ \E i \in 0..Len(q) : i < Len(q) /\ r = RemoveAt(q, i + 1)
  \/ \E S \in SUBSET Data : IsInjective(q) /\ r \in Reschedulings(q, S)

\* The next list, when it is one that represents a sequence.
LEMMA BecomesIs ==
  ASSUME NEW m, NEW r, Represents(m, r), Becomes(m)
  PROVE  list_t' = m
  <1>1. m = [first |-> m.first, last |-> m.last, size |-> m.size,
             used |-> m.used, node |-> m.node]
    BY RepresentsElements, Fields
  <1>2. /\ first' = m.first /\ last' = m.last /\ size' = m.size
        /\ used' = m.used /\ node' = m.node
    BY DEF Becomes
  <1> QED BY <1>1, <1>2 DEF list_t

LEMMA InitRepresents == Init => Represents(list_t, <<>>)
  <1> SUFFICES ASSUME Init PROVE Represents(list_t, <<>>)
    OBVIOUS
  <1>1. PICK z : z = NoNode
    OBVIOUS
  <1>2. z \in NodeRecord
    BY <1>1 DEF NoNode, NodeRecord
  <1>3. /\ list_t.first = NULL /\ list_t.last = NULL /\ list_t.size = 0
        /\ list_t.used = {}
        /\ list_t.node = [x \in Node |-> z]
    BY <1>1 DEF Init, list_t
  <1>4. list_t.node \in [Node -> NodeRecord]
    BY <1>2, <1>3
  <1>5. list_t \in ListRecord
    BY <1>3, <1>4 DEF list_t, ListRecord
  <1>6. PICK c : c = [i \in 1..0 |-> NULL]
    OBVIOUS
  <1>7. PICK q : q = <<>>
    OBVIOUS
  <1>8. q \in Seq(Data) /\ Len(q) = 0
    BY <1>7
  <1>9. Chain(list_t, c, q, 0)
    BY <1>3, <1>5, <1>6, <1>8 DEF Chain
  <1> QED BY <1>7, <1>8, <1>9 DEF Represents

\* Every step takes a chain to a chain, and the sequence it represents to a next
\* one of ListSpec.
LEMMA StepRepresents ==
  ASSUME NEW q, Represents(list_t, q), [Next]_vars
  PROVE  \E r : Represents(list_t', r) /\ (r = q \/ ListStep(q, r))
  <1>1. PICK l : l = list_t
    OBVIOUS
  <1>2. /\ Represents(l, q) /\ Elements(l) = q /\ q \in Seq(Data)
        /\ size = Len(q) /\ used = l.used
    <2>1. list_t.size = size /\ list_t.used = used
      BY DEF list_t
    <2> QED BY <1>1, <2>1, RepresentsElements
  <1>3. ASSUME NEW d \in Data, AddFirst(d)
        PROVE  \E r : Represents(list_t', r) /\ (r = q \/ ListStep(q, r))
    <2>1. PICK n \in Node \ l.used : Becomes(list_add_first(l, n, d))
      BY <1>1, <1>2, <1>3 DEF AddFirst
    <2>2. PICK m : m = list_add_first(l, n, d)
      OBVIOUS
    <2>3. PICK r : r = Cons(d, q)
      OBVIOUS
    <2>4. Represents(m, r)
      BY <1>2, <2>2, <2>3, AddFirstRepresents
    <2>5. list_t' = m
      BY <2>1, <2>2, <2>4, BecomesIs
    <2> QED BY <2>3, <2>4, <2>5 DEF ListStep
  <1>4. ASSUME NEW d \in Data, AddLast(d)
        PROVE  \E r : Represents(list_t', r) /\ (r = q \/ ListStep(q, r))
    <2>1. PICK n \in Node \ l.used : Becomes(list_add_last(l, n, d))
      BY <1>1, <1>2, <1>4 DEF AddLast
    <2>2. PICK m : m = list_add_last(l, n, d)
      OBVIOUS
    <2>3. PICK r : r = Append(q, d)
      OBVIOUS
    <2>4. Represents(m, r)
      BY <1>2, <2>2, <2>3, AddLastRepresents
    <2>5. list_t' = m
      BY <2>1, <2>2, <2>4, BecomesIs
    <2> QED BY <2>3, <2>4, <2>5 DEF ListStep
  <1>5. ASSUME NEW d \in Data, Drop(d)
        PROVE  \E r : Represents(list_t', r) /\ (r = q \/ ListStep(q, r))
    <2>1. PICK m : m = list_remove_data(l, d)
      OBVIOUS
    <2>2. PICK r : r = RemoveData(q, d)
      OBVIOUS
    <2>3. Represents(m, r)
      BY <1>2, <2>1, <2>2, RemoveDataRepresents
    <2>4. list_t' = m
      BY <1>1, <1>5, <2>1, <2>3, BecomesIs DEF Drop
    <2> QED BY <2>2, <2>3, <2>4 DEF ListStep
  <1>6. ASSUME NEW i \in 0..size, RemoveIndex(i)
        PROVE  \E r : Represents(list_t', r) /\ (r = q \/ ListStep(q, r))
    <2>1. PICK m : m = list_remove(l, i)
      OBVIOUS
    <2>2. l.size = Len(q) /\ Len(q) \in Nat
      BY <1>2, RepresentsElements
    <2>3. CASE i >= Len(q)
      <3>1. m = l
        BY <2>1, <2>2, <2>3 DEF list_remove
      <3>2. list_t' = l
        BY <1>1, <1>2, <1>6, <2>1, <3>1, BecomesIs DEF RemoveIndex
      <3> QED BY <1>2, <3>2
    <2>4. CASE ~(i >= Len(q))
      <3>1. i + 1 \in 1..Len(q) /\ (i + 1) - 1 = i /\ i < Len(q) /\ i \in 0..Len(q)
        BY <1>2, <2>2, <2>4
      <3>2. PICK k : k = i + 1 /\ k \in 1..Len(q) /\ k - 1 = i
        BY <3>1
      <3>3. PICK r : r = RemoveAt(q, k)
        OBVIOUS
      <3>4. Represents(m, r)
        <4>1. Represents(list_remove(l, k - 1), r)
          BY <1>2, <3>2, <3>3, RemoveRepresents
        <4> QED BY <2>1, <3>2, <4>1
      <3>5. list_t' = m
        BY <1>1, <1>6, <2>1, <3>4, BecomesIs DEF RemoveIndex
      <3>6. ListStep(q, r)
        BY <3>1, <3>2, <3>3 DEF ListStep
      <3> QED BY <3>4, <3>5, <3>6
    <2> QED BY <2>3, <2>4
  <1>7. ASSUME NEW S \in SUBSET Data, Reschedule(S)
        PROVE  \E r : Represents(list_t', r) /\ (r = q \/ ListStep(q, r))
    <2>1. IsInjective(q) /\ Becomes(reschedule(l, S))
      BY <1>1, <1>2, <1>7 DEF Reschedule
    <2>2. PICK m : m = reschedule(l, S)
      OBVIOUS
    <2>3. PICK r \in Reschedulings(q, S) : Represents(m, r)
      BY <1>2, <2>1, <2>2, RescheduleRepresents
    <2>4. list_t' = m
      BY <2>1, <2>2, <2>3, BecomesIs
    <2>5. ListStep(q, r)
      BY <2>1, <2>3 DEF ListStep
    <2> QED BY <2>3, <2>4, <2>5
  <1>8. CASE UNCHANGED vars
    <2>1. list_t' = l
      BY <1>1, <1>8 DEF list_t, vars
    <2> QED BY <1>2, <2>1
  <1> QED BY <1>3, <1>4, <1>5, <1>6, <1>7, <1>8 DEF Next

-----------------------------------------------------------------------------
(* Theorems *)

\* The invariant implies the properties of the state.
LEMMA InvImplies ==
  ASSUME NEW q, Represents(list_t, q)
  PROVE  TypeOK /\ WellLinked
  <1>1. PICK l : l = list_t
    OBVIOUS
  <1>2. PICK c : Chain(l, c, q, Len(q))
    BY <1>1 DEF Represents
  <1>3. PICK n : n = Len(q)
    OBVIOUS
  <1>4. /\ l.first = first /\ l.last = last /\ l.size = size /\ l.used = used
        /\ l.node = node
    BY <1>1 DEF list_t
  <1>5. /\ l \in ListRecord /\ n \in Nat /\ size = n /\ Chain(l, c, q, n)
        /\ c \in [1..n -> Node] /\ used = {c[i] : i \in 1..n}
    BY <1>2, <1>3, <1>4 DEF Chain
  <1>6. TypeOK
    BY <1>4, <1>5, Fields DEF TypeOK, Nodes, NodeRecord
  <1>7. ASSUME NEW i \in 1..n PROVE At(l, i - 1) = c[i]
    <2>1. i - 1 \in 0..n /\ i - 1 # n /\ (i - 1) + 1 = i
      BY <1>5
    <2> QED BY <1>5, <2>1, AtChain
  <1>8. used = {At(l, i - 1) : i \in 1..n}
    BY <1>5, <1>7
  <1>9. (first = NULL) = (size = 0)
    <2>1. first = NULL <=> size = 0
      <3>1. l.first = NULL <=> q = <<>>
        BY <1>1, RepresentsElements
      <3>2. q \in Seq(Data)
        BY <1>2 DEF Chain
      <3> QED BY <1>3, <1>4, <1>5, <3>1, <3>2, EmptySeq
    <2> QED BY <2>1
  <1>10. ASSUME n > 0
         PROVE  /\ At(l, n) = NULL /\ At(l, n - 1) = last
                /\ node[first].prev = NULL
                /\ \A i \in 1..(n - 1) : node[At(l, i)].prev = At(l, i - 1)
    <2>1. n \in 0..n /\ n \in 1..n /\ 1 \in 1..n
      BY <1>5, <1>10
    <2>2. At(l, n) = NULL
      BY <1>5, <2>1, AtChain
    <2>3. At(l, n - 1) = last
      <3>1. l.last = c[n]
        BY <1>5, <1>10 DEF Chain
      <3> QED BY <1>4, <1>7, <2>1, <3>1
    <2>4. node[first].prev = NULL
      <3>1. first = c[1] /\ l.node[c[1]].prev = NULL
        BY <1>4, <1>5, <1>10, <2>1 DEF Chain
      <3> QED BY <1>4, <3>1
    <2>5. ASSUME NEW i \in 1..(n - 1) PROVE node[At(l, i)].prev = At(l, i - 1)
      <3>1. i + 1 \in 1..n /\ i \in 1..n /\ i + 1 # 1 /\ (i + 1) - 1 = i
        BY <1>5
      <3>2. At(l, i) = c[i + 1] /\ At(l, i - 1) = c[i]
        BY <1>7, <3>1
      <3>3. l.node[c[i + 1]].prev = c[i]
        BY <1>5, <3>1 DEF Chain
      <3> QED BY <1>4, <3>2, <3>3
    <2> QED BY <2>2, <2>3, <2>4, <2>5
  <1>11. WellLinked
    BY <1>1, <1>5, <1>8, <1>9, <1>10 DEF WellLinked
  <1> QED BY <1>6, <1>11

\* The nodes of list.cpp are a chain in both directions after any calls.
THEOREM InvHolds == Spec => []IInv
  <1>1. Init => IInv
    BY InitRepresents DEF IInv
  <1>2. IInv /\ [Next]_vars => IInv'
    <2> SUFFICES ASSUME IInv, [Next]_vars PROVE IInv'
      OBVIOUS
    <2>1. PICK q : Represents(list_t, q)
      BY DEF IInv
    <2>2. \E r : Represents(list_t', r)
      BY <2>1, StepRepresents
    <2> QED BY <2>2 DEF IInv
  <1> QED BY <1>1, <1>2, PTL DEF Spec

\* list.cpp keeps addresses of nodes, or NULL, in its fields.
THEOREM TypeOKHolds == Spec => []TypeOK
  <1>1. IInv => TypeOK
    BY InvImplies DEF IInv
  <1> QED BY <1>1, InvHolds, PTL

\* list_remove always finds the node it looks for and both its neighbours: next
\* and prev agree, first and last are the ends, and no node is lost.
THEOREM WellLinkedHolds == Spec => []WellLinked
  <1>1. IInv => WellLinked
    BY InvImplies DEF IInv
  <1> QED BY <1>1, InvHolds, PTL

\* ListSpec's operators on sequences are those of Lists.
LEMMA SameOperators ==
  ASSUME NEW q, NEW d, NEW i, NEW S
  PROVE  /\ AsSequence!Cons(d, q) = Cons(d, q)
         /\ AsSequence!RemoveAt(q, i) = RemoveAt(q, i)
         /\ AsSequence!RemoveData(q, d) = RemoveData(q, d)
         /\ AsSequence!IsInjective(q) <=> IsInjective(q)
         /\ AsSequence!Reschedulings(q, S) = Reschedulings(q, S)
  <1>1. AsSequence!Cons(d, q) = Cons(d, q)
    BY DEF AsSequence!Cons, Cons
  <1>2. \A k : AsSequence!RemoveAt(q, k) = RemoveAt(q, k)
    BY DEF AsSequence!RemoveAt, RemoveAt
  <1>3. AsSequence!Range(q) = Range(q)
    BY DEF AsSequence!Range, Range
  <1>4. AsSequence!RemoveData(q, d) = RemoveData(q, d)
    BY <1>2, <1>3 DEF AsSequence!RemoveData, RemoveData
  <1>5. AsSequence!IsInjective(q) <=> IsInjective(q)
    BY DEF AsSequence!IsInjective, IsInjective
  <1>6. AsSequence!Bijection(DOMAIN q, DOMAIN q) = Bijection(DOMAIN q, DOMAIN q)
    BY DEF AsSequence!Bijection, AsSequence!Injection, AsSequence!Surjection,
       AsSequence!IsInjective, Bijection, Injection, Surjection, IsInjective
  <1>7. \A f : AsSequence!IsRescheduling(f, q, S) <=> IsRescheduling(f, q, S)
    BY DEF AsSequence!IsRescheduling, IsRescheduling
  <1>8. AsSequence!Reschedulings(q, S) = Reschedulings(q, S)
    BY <1>6, <1>7 DEF AsSequence!Reschedulings, Reschedulings
  <1> QED BY <1>1, <1>2, <1>4, <1>5, <1>8

\* The functions of list.cpp implement a sequence: the list the scheduler, the
\* terminals and the open files use, reschedule_process included.
THEOREM IsSequenceHolds == Spec => IsSequence
  <1>1. Init => AsSequence!Init
    <2> SUFFICES ASSUME Init PROVE Elements(list_t) = <<>>
      BY DEF AsSequence!Init
    <2> QED BY InitRepresents, RepresentsElements
  <1>2. IInv /\ [Next]_vars => [AsSequence!Next]_(Elements(list_t))
    <2> SUFFICES ASSUME IInv, [Next]_vars
                 PROVE  AsSequence!Next \/ Elements(list_t)' = Elements(list_t)
      OBVIOUS
    <2>1. PICK q : Represents(list_t, q)
      BY DEF IInv
    <2>2. PICK r : Represents(list_t', r) /\ (r = q \/ ListStep(q, r))
      BY <2>1, StepRepresents
    <2>3. Elements(list_t) = q /\ Elements(list_t') = r
      BY <2>1, <2>2, RepresentsElements
    <2>4. CASE r = q
      BY <2>3, <2>4
    <2>5. CASE ListStep(q, r)
      <3>1. CASE \E d \in Data : r = Cons(d, q) \/ r = Append(q, d) \/ r = RemoveData(q, d)
        BY <2>3, <3>1, SameOperators
           DEF AsSequence!Next, AsSequence!AddFirst, AsSequence!AddLast, AsSequence!Drop
      <3>2. CASE \E i \in 0..Len(q) : i < Len(q) /\ r = RemoveAt(q, i + 1)
        BY <2>3, <3>2, SameOperators DEF AsSequence!Next, AsSequence!RemoveIndex
      <3>3. CASE \E S \in SUBSET Data : IsInjective(q) /\ r \in Reschedulings(q, S)
        BY <2>3, <3>3, SameOperators DEF AsSequence!Next, AsSequence!Reschedule
      <3> QED BY <2>5, <3>1, <3>2, <3>3 DEF ListStep
    <2> QED BY <2>2, <2>4, <2>5
  <1> QED BY <1>1, <1>2, InvHolds, PTL DEF Spec, IsSequence, AsSequence!Spec
=============================================================================
