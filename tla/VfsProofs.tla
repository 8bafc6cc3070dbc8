----------------------------- MODULE VfsProofs -----------------------------
(***************************************************************************)
(* The types of the file system, that the chains of its directory and of   *)
(* its files never share a cluster, that the kernel does not run out of    *)
(* clusters in a call it has let begin, and that a call returns every      *)
(* cluster it does not use, for any disk and any calls.                    *)
(***************************************************************************)
EXTENDS Vfs, ListProofs

-----------------------------------------------------------------------------
(* Least and greatest elements *)

\* get_free_cluster finds a free cluster when there is one.
LEMMA MinOf ==
  ASSUME NEW S, S \subseteq Nat, S # {}
  PROVE  Min(S) \in S /\ \A y \in S : Min(S) <= y
  <1> DEFINE R == OpToRel(<, Nat)
  <1>1. IsWellFoundedOn(R, Nat)
    BY NatLessThanWellFounded
  <1>2. PICK x \in S : \A y \in S : ~(<<y, x>> \in R)
    <2> HIDE DEF R
    <2> QED BY <1>1, WFMin
  <1>3. \A y \in S : x <= y
    <2> SUFFICES ASSUME NEW y \in S, y < x PROVE FALSE
      OBVIOUS
    <2>1. <<y, x>> \in R
      BY DEF OpToRel
    <2> QED BY <1>2, <2>1
  <1> QED BY <1>3 DEF Min

\* Of several entries over one cell there is a last one.
LEMMA GreatestOf ==
  ASSUME NEW n \in Nat, NEW S, S \subseteq 1..n, S # {}
  PROVE  \E x \in S : \A y \in S : y <= x
  <1>1. PICK U : U = {n - x : x \in S}
    OBVIOUS
  <1>2. U \subseteq Nat /\ U # {}
    <2>1. \A x \in S : x \in Nat /\ x <= n /\ n - x \in Nat
      OBVIOUS
    <2>2. U \subseteq Nat
      BY <1>1, <2>1
    <2>3. PICK x \in S : TRUE
      OBVIOUS
    <2>4. n - x \in U
      BY <1>1
    <2> QED BY <2>2, <2>4
  <1>3. Min(U) \in U /\ \A y \in U : Min(U) <= y
    BY <1>2, MinOf
  <1>4. PICK x \in S : Min(U) = n - x
    BY <1>1, <1>3
  <1>5. \A y \in S : n - x <= n - y
    BY <1>1, <1>3, <1>4
  <1> QED BY <1>5

\* No cluster has the number of a mark.
LEMMA MarksApart ==
  /\ Mark \intersect Cluster = {}
  /\ EOF_CLUSTER # FREE_CLUSTER /\ EOF_CLUSTER # TAKEN_CLUSTER /\ FREE_CLUSTER # TAKEN_CLUSTER
  <1>1. Mark \subseteq Nat
    BY Geometry DEF Mark
  <1>2. Mark \intersect Cluster = {}
    BY <1>1 DEF Cluster
  <1> QED BY <1>2, Geometry

\* The clusters are finitely many, from the directory's on, and so are those beyond.
LEMMA ClustersAre ==
  /\ Cluster \subseteq 0 .. CLUSTER_COUNT - 1 /\ 0 \in Cluster
  /\ IsFiniteSet(Cluster) /\ Cardinality(Cluster) <= CLUSTER_COUNT
  /\ Cardinality(Beyond) \in Nat
  <1>1. CLUSTER_COUNT \in Nat \ {0} /\ Mark \subseteq Nat \ {0}
    BY Geometry DEF Mark
  <1>2. PICK all : all = 0 .. CLUSTER_COUNT - 1
    OBVIOUS
  <1>3. IsFiniteSet(all) /\ Cardinality(all) = CLUSTER_COUNT
    <2>1. CLUSTER_COUNT - 1 \in Int /\ 0 \in Int /\ 0 <= CLUSTER_COUNT - 1
      BY <1>1
    <2> QED BY <1>1, <1>2, <2>1, FS_Interval
  <1>4. Cluster \subseteq all /\ Beyond \subseteq all
    BY <1>2 DEF Cluster, Beyond
  <1>5. IsFiniteSet(Cluster) /\ Cardinality(Cluster) <= CLUSTER_COUNT
    BY <1>3, <1>4, FS_Subset
  <1>6. Cardinality(Beyond) \in Nat
    BY <1>3, <1>4, FS_Subset, FS_CardinalityType
  <1>7. 0 \in Cluster
    BY <1>1 DEF Cluster
  <1> QED BY <1>2, <1>4, <1>5, <1>6, <1>7

\* Sequences without repetition are no longer than the disk.
LEMMA NoLongerThanDisk ==
  ASSUME NEW p \in Seq(Cluster), IsInjective(p)
  PROVE  Len(p) <= CLUSTER_COUNT
  <1>1. CLUSTER_COUNT \in Nat
    BY Geometry
  <1>2. IsFiniteSet(Cluster) /\ Cardinality(Cluster) <= CLUSTER_COUNT
        /\ Cardinality(Cluster) \in Nat
    BY ClustersAre, FS_CardinalityType
  <1>3. Len(p) \in Nat /\ p \in [1..Len(p) -> Cluster]
    OBVIOUS
  <1>4. IsFiniteSet(1..Len(p)) /\ Cardinality(1..Len(p)) = Len(p)
    BY <1>3, FS_Interval
  <1>5. SUFFICES ASSUME Len(p) > CLUSTER_COUNT PROVE FALSE
    BY <1>1, <1>3
  <1>6. Cardinality(Cluster) < Cardinality(1..Len(p))
    BY <1>1, <1>2, <1>3, <1>4, <1>5
  <1>7. \E x, y \in 1..Len(p) : x # y /\ p[x] = p[y]
    BY <1>2, <1>3, <1>4, <1>6, FS_PigeonHole
  <1> QED BY <1>3, <1>7 DEF IsInjective

-----------------------------------------------------------------------------
(* Paths through the cluster table *)

\* p is what one finds from c on when one follows the table.
IsPath(fat, p, c) ==
  /\ p \in Seq(Cluster) /\ Len(p) \in 1..(CLUSTER_COUNT + 1) /\ p[1] = c
  /\ \A i \in 1..(Len(p) - 1) : Follows(fat, p[i]) /\ p[i + 1] = fat[p[i]]
  /\ Len(p) <= CLUSTER_COUNT => ~Follows(fat, p[Len(p)])

\* The beginning of a path, at most n links of it.
IsPart(fat, p, c, n) ==
  /\ p \in Seq(Cluster) /\ Len(p) \in 1..(n + 1) /\ p[1] = c
  /\ \A i \in 1..(Len(p) - 1) : Follows(fat, p[i]) /\ p[i + 1] = fat[p[i]]
  /\ Len(p) <= n => ~Follows(fat, p[Len(p)])

\* A part of the path from b is b and a part of the path from the next cluster.
LEMMA OneMoreLink ==
  ASSUME NEW fat, NEW b \in Cluster, NEW n \in Nat, Follows(fat, b), NEW p,
         IsPart(fat, p, fat[b], n)
  PROVE  IsPart(fat, <<b>> \o p, b, n + 1)
  <1>1. p \in Seq(Cluster) /\ Len(p) \in Nat /\ Len(p) \in 1..(n + 1)
    BY DEF IsPart
  <1>2. <<b>> \in Seq(Cluster) /\ Len(<<b>>) = 1 /\ <<b>>[1] = b
    OBVIOUS
  <1>3. PICK q : q = <<b>> \o p
    OBVIOUS
  <1>4. /\ q \in Seq(Cluster) /\ Len(q) = Len(p) + 1 /\ q[1] = b
        /\ \A i \in 2..(Len(p) + 1) : q[i] = p[i - 1]
    <2>1. /\ q \in Seq(Cluster) /\ Len(q) = 1 + Len(p)
          /\ \A i \in 1..(1 + Len(p)) : q[i] = IF i <= 1 THEN <<b>>[i] ELSE p[i - 1]
      BY <1>1, <1>2, <1>3, ConcatProperties
    <2> QED BY <1>1, <1>2, <2>1
  <1>5. ASSUME NEW i \in 1..(Len(q) - 1) PROVE Follows(fat, q[i]) /\ q[i + 1] = fat[q[i]]
    <2>1. CASE i = 1
      <3>1. q[2] = p[1]
        BY <1>1, <1>4
      <3> QED BY <1>4, <2>1, <3>1 DEF IsPart
    <2>2. CASE i # 1
      <3>1. i - 1 \in 1..(Len(p) - 1) /\ q[i] = p[i - 1] /\ q[i + 1] = p[i]
        BY <1>1, <1>4, <2>2
      <3>2. p[(i - 1) + 1] = p[i]
        BY <3>1
      <3> QED BY <3>1, <3>2 DEF IsPart
    <2> QED BY <2>1, <2>2
  <1>6. q[Len(q)] = p[Len(p)]
    BY <1>1, <1>4
  <1>7. Len(q) <= n + 1 => ~Follows(fat, q[Len(q)])
    BY <1>1, <1>4, <1>6 DEF IsPart
  <1> QED BY <1>1, <1>3, <1>4, <1>5, <1>7 DEF IsPart

LEMMA PathIsPath ==
  ASSUME NEW fat, NEW c \in Cluster
  PROVE  IsPath(fat, Path(fat, c), c)
  <1> DEFINE N == CLUSTER_COUNT
             S == [Cluster -> Seq(Cluster)]
             Longer(h) == [b \in Cluster |->
                           IF Follows(fat, b) THEN <<b>> \o h[fat[b]] ELSE <<b>>]
             first == [b \in Cluster |-> <<b>>]
             step == [k \in 1..N |-> [h \in S |-> Longer(h)]]
             Good(g) == g = [k \in 0..N |->
                [b \in Cluster \union {c} |->
                   IF k > 0 /\ Follows(fat, b) THEN <<b>> \o g[k - 1][fat[b]] ELSE <<b>>]]
  <1>1. N \in Nat /\ Cluster \union {c} = Cluster
    BY Geometry
  <1>2. \A b \in Cluster : <<b>> \in Seq(Cluster)
    OBVIOUS
  <1>3. first \in S
    BY <1>2
  <1>4. \A h \in S : Longer(h) \in S
    <2> SUFFICES ASSUME NEW h \in S, NEW b \in Cluster, Follows(fat, b)
                 PROVE  <<b>> \o h[fat[b]] \in Seq(Cluster)
      BY <1>2
    <2>1. h[fat[b]] \in Seq(Cluster)
      BY DEF Follows
    <2> QED BY <1>2, <2>1, ConcatProperties
  <1>5. step \in [1..N -> [S -> S]]
    <2> HIDE DEF Longer, S
    <2> QED BY <1>4
  <1>6. PICK f : IsRecursion(f, N, S, first, step)
    <2> HIDE DEF S, N, first, step
    <2> QED BY <1>1, <1>3, <1>5, Recursion
  <1>7. f \in [0..N -> S] /\ f[0] = first /\ \A k \in 1..N : f[k] = Longer(f[k - 1])
    <2>1. f \in [0..N -> S] /\ f[0] = first /\ \A k \in 1..N : f[k] = step[k][f[k - 1]]
      BY <1>6 DEF IsRecursion
    <2>2. \A k \in 1..N : f[k - 1] \in S
      BY <1>1, <2>1
    <2> HIDE DEF Longer, S, first
    <2> QED BY <2>1, <2>2
  <1>8. Good(f)
    <2> SUFFICES ASSUME NEW k \in 0..N
                 PROVE  f[k] = [b \in Cluster \union {c} |->
                   IF k > 0 /\ Follows(fat, b) THEN <<b>> \o f[k - 1][fat[b]] ELSE <<b>>]
      BY <1>7
    <2>1. f[k] = [b \in Cluster |-> f[k][b]]
      BY <1>7
    <2>2. ASSUME NEW b \in Cluster
          PROVE  f[k][b] = IF k > 0 /\ Follows(fat, b) THEN <<b>> \o f[k - 1][fat[b]] ELSE <<b>>
      <3>1. CASE k = 0
        <4>1. ~(k > 0) /\ f[k][b] = <<b>>
          BY <1>7, <3>1
        <4> QED BY <4>1
      <3>2. CASE k # 0
        <4>1. k \in 1..N /\ k > 0
          BY <1>1, <3>2
        <4>2. f[k] = Longer(f[k - 1])
          BY <1>7, <4>1
        <4>3. f[k][b] = IF Follows(fat, b) THEN <<b>> \o f[k - 1][fat[b]] ELSE <<b>>
          BY <4>2
        <4> QED BY <4>1, <4>3
      <3> QED BY <3>1, <3>2
    <2>3. [b \in Cluster |-> f[k][b]] = [b \in Cluster |->
             IF k > 0 /\ Follows(fat, b) THEN <<b>> \o f[k - 1][fat[b]] ELSE <<b>>]
      BY <2>2
    <2> QED BY <1>1, <2>1, <2>3
  <1>9. PICK g : Good(g) /\ Path(fat, c) = g[N][c]
    <2>1. Good(CHOOSE g : Good(g))
      <3> HIDE DEF Good
      <3> QED BY <1>8
    <2> QED BY <2>1 DEF Path
  <1>10. \A k \in 0..N, b \in Cluster :
           g[k][b] = IF k > 0 /\ Follows(fat, b) THEN <<b>> \o g[k - 1][fat[b]] ELSE <<b>>
    <2> SUFFICES ASSUME NEW k \in 0..N, NEW b \in Cluster
                 PROVE  g[k][b] = IF k > 0 /\ Follows(fat, b) THEN <<b>> \o g[k - 1][fat[b]]
                                                              ELSE <<b>>
      OBVIOUS
    <2>1. g[k] = [d \in Cluster \union {c} |->
                    IF k > 0 /\ Follows(fat, d) THEN <<d>> \o g[k - 1][fat[d]] ELSE <<d>>]
      BY <1>9
    <2> QED BY <2>1
  <1>11. PICK T : T = {k \in 0..N : \A b \in Cluster : IsPart(fat, g[k][b], b, k)}
    OBVIOUS
  <1>12. ASSUME NEW b \in Cluster, NEW k \in Nat, k > 0 => ~Follows(fat, b)
         PROVE  IsPart(fat, <<b>>, b, k)
    BY <1>12 DEF IsPart
  <1>13. 0 \in T
    <2> SUFFICES ASSUME NEW b \in Cluster PROVE IsPart(fat, g[0][b], b, 0)
      BY <1>1, <1>11
    <2>1. 0 \in 0..N /\ ~(0 > 0)
      BY <1>1
    <2>2. g[0][b] = <<b>>
      BY <1>10, <2>1
    <2> QED BY <1>12, <2>2
  <1>14. ASSUME NEW k \in 1..N, k - 1 \in T PROVE k \in T
    <2> SUFFICES ASSUME NEW b \in Cluster PROVE IsPart(fat, g[k][b], b, k)
      BY <1>1, <1>11
    <2>0. k > 0 /\ k \in Nat /\ k \in 0..N /\ k - 1 \in 0..N
      BY <1>1
    <2>3. g[k][b] = IF Follows(fat, b) THEN <<b>> \o g[k - 1][fat[b]] ELSE <<b>>
      BY <1>10, <2>0
    <2>1. CASE Follows(fat, b)
      <3>1. g[k][b] = <<b>> \o g[k - 1][fat[b]]
        BY <2>1, <2>3
      <3>2. IsPart(fat, g[k - 1][fat[b]], fat[b], k - 1)
        BY <1>11, <1>14, <2>1 DEF Follows
      <3>3. IsPart(fat, <<b>> \o g[k - 1][fat[b]], b, (k - 1) + 1)
        BY <1>1, <2>1, <3>2, OneMoreLink
      <3>4. (k - 1) + 1 = k
        BY <1>1
      <3> QED BY <3>1, <3>3, <3>4
    <2>2. CASE ~Follows(fat, b)
      <3>1. IsPart(fat, <<b>>, b, k)
        BY <1>12, <2>0, <2>2
      <3> QED BY <2>2, <2>3, <3>1
    <2> QED BY <2>1, <2>2
  <1>15. \A k \in 0..N : k \in T
    <2>1. T \subseteq 0..N
      BY <1>11
    <2> HIDE DEF N
    <2> QED BY <1>1, <1>13, <1>14, <2>1, Induct
  <1>16. IsPart(fat, g[N][c], c, N)
    BY <1>1, <1>11, <1>15
  <1> QED BY <1>1, <1>9, <1>16 DEF IsPart, IsPath

\* There is one path only.
LEMMA OnePath ==
  ASSUME NEW fat, NEW c \in Cluster, NEW q, IsPath(fat, q, c)
  PROVE  q = Path(fat, c)
  <1>1. PICK p : p = Path(fat, c)
    OBVIOUS
  <1>2. IsPath(fat, p, c)
    BY <1>1, PathIsPath
  <1>3. /\ p \in Seq(Cluster) /\ q \in Seq(Cluster)
        /\ Len(p) \in Nat \ {0} /\ Len(q) \in Nat \ {0} /\ CLUSTER_COUNT \in Nat
        /\ Len(p) <= CLUSTER_COUNT + 1 /\ Len(q) <= CLUSTER_COUNT + 1
    <2>1. CLUSTER_COUNT \in Nat
      BY Geometry
    <2>2. \A k \in 1..(CLUSTER_COUNT + 1) : k \in Nat \ {0} /\ k <= CLUSTER_COUNT + 1
      BY <2>1
    <2>3. p \in Seq(Cluster) /\ Len(p) \in 1..(CLUSTER_COUNT + 1)
      BY <1>2 DEF IsPath
    <2>4. q \in Seq(Cluster) /\ Len(q) \in 1..(CLUSTER_COUNT + 1)
      BY DEF IsPath
    <2> QED BY <2>1, <2>2, <2>3, <2>4
  <1>4. PICK n \in Nat : n <= Len(p) /\ n <= Len(q) /\ (n = Len(p) \/ n = Len(q))
    BY <1>3
  <1>5. PICK T : T = {i \in 0..n : i > 0 => p[i] = q[i]}
    OBVIOUS
  <1>6. ASSUME NEW i \in 1..n, i - 1 \in T PROVE i \in T
    <2>1. CASE i = 1
      BY <1>2, <1>5, <2>1 DEF IsPath
    <2>2. CASE i # 1
      <3>1. i - 1 \in 1..(Len(p) - 1) /\ i - 1 \in 1..(Len(q) - 1) /\ (i - 1) + 1 = i
        BY <1>3, <1>4, <2>2
      <3>2. p[i - 1] = q[i - 1]
        BY <1>5, <1>6, <3>1
      <3>3. p[i] = fat[p[i - 1]] /\ q[i] = fat[q[i - 1]]
        BY <1>2, <3>1 DEF IsPath
      <3> QED BY <1>5, <3>2, <3>3
    <2> QED BY <2>1, <2>2
  <1>7. \A i \in 0..n : i \in T
    <2>1. T \subseteq 0..n /\ 0 \in T
      BY <1>5
    <2> QED BY <1>6, <2>1, Induct
  <1>8. \A i \in 1..n : p[i] = q[i]
    BY <1>5, <1>7
  <1>9. ASSUME Len(p) < Len(q) PROVE FALSE
    <2>1. n = Len(p) /\ Len(p) <= CLUSTER_COUNT /\ n \in 1..(Len(q) - 1)
      BY <1>3, <1>4, <1>9
    <2>2. Follows(fat, q[n]) /\ ~Follows(fat, p[n])
      BY <1>2, <2>1 DEF IsPath
    <2> QED BY <1>3, <1>8, <2>1, <2>2
  <1>10. ASSUME Len(q) < Len(p) PROVE FALSE
    <2>1. n = Len(q) /\ Len(q) <= CLUSTER_COUNT /\ n \in 1..(Len(p) - 1)
      BY <1>3, <1>4, <1>10
    <2>2. Follows(fat, p[n]) /\ ~Follows(fat, q[n])
      BY <1>2, <2>1 DEF IsPath
    <2> QED BY <1>3, <1>8, <2>1, <2>2
  <1>11. Len(p) = Len(q) /\ n = Len(p)
    BY <1>3, <1>4, <1>9, <1>10
  <1> QED BY <1>1, <1>3, <1>8, <1>11, SeqEqual

\* Who follows a table that is the same along the path goes the same way.
LEMMA SamePath ==
  ASSUME NEW fat, NEW new, NEW c \in Cluster,
         \A d \in Range(Path(fat, c)) : new[d] = fat[d]
  PROVE  Path(new, c) = Path(fat, c)
  <1>1. PICK p : p = Path(fat, c)
    OBVIOUS
  <1>2. IsPath(fat, p, c)
    BY <1>1, PathIsPath
  <1>3. p \in Seq(Cluster) /\ Len(p) \in Nat \ {0}
    BY <1>2 DEF IsPath
  <1>4. \A i \in 1..Len(p) : new[p[i]] = fat[p[i]] /\ p[i] \in Cluster
    BY <1>1, <1>3 DEF Range
  <1>5. \A i \in 1..Len(p) : Follows(new, p[i]) = Follows(fat, p[i])
    BY <1>4 DEF Follows
  <1>6. IsPath(new, p, c)
    <2>1. \A i \in 1..(Len(p) - 1) : Follows(new, p[i]) /\ p[i + 1] = new[p[i]]
      BY <1>2, <1>3, <1>4, <1>5 DEF IsPath
    <2>2. Len(p) <= CLUSTER_COUNT => ~Follows(new, p[Len(p)])
      BY <1>2, <1>3, <1>5 DEF IsPath
    <2> QED BY <1>2, <2>1, <2>2 DEF IsPath
  <1> QED BY <1>1, <1>6, OnePath

-----------------------------------------------------------------------------
(* Tables in which nobody shares a cluster *)

Table == [Cluster -> Cluster \union Mark]

\* No cluster follows c.
First(fat, c) == \A d \in Cluster : fat[d] # c

\* No link leads to a free cluster, no two lead to one; the starts S are used,
\* and no link leads to them.
Tidy(fat, S) ==
  /\ \A c \in Cluster : fat[c] \in Cluster => fat[fat[c]] # FREE_CLUSTER
  /\ \A c, d \in Cluster : fat[c] \in Cluster /\ fat[c] = fat[d] => c = d
  /\ \A c \in Cluster : fat[c] # TAKEN_CLUSTER
  /\ \A c \in S : c \in Cluster /\ fat[c] # FREE_CLUSTER /\ First(fat, c)

\* Every start has a cluster for data, and another that marks the end.
Filled(fat, S) == \A c \in S : fat[c] \in Cluster

\* p are the clusters from c to the one that is marked as the end.
IsChain(fat, p, c) ==
  /\ p \in Seq(Cluster) /\ Len(p) \in 1..CLUSTER_COUNT /\ p[1] = c /\ IsInjective(p)
  /\ \A i \in 1..(Len(p) - 1) : p[i + 1] = fat[p[i]]
  /\ fat[p[Len(p)]] = EOF_CLUSTER
  /\ \A i \in 1..Len(p) : fat[p[i]] # FREE_CLUSTER

\* The clusters of a table are apart from its marks.
LEMMA FollowsIs ==
  ASSUME NEW fat, NEW c
  PROVE  Follows(fat, c) <=> c \in Cluster /\ fat[c] \in Cluster
  BY MarksApart DEF Follows, Mark

\* The path from a start ends, and no cluster is twice on it (vfs.cpp:96).
LEMMA StartPath ==
  ASSUME NEW fat \in Table, NEW S, Tidy(fat, S), NEW c \in S
  PROVE  IsChain(fat, Path(fat, c), c)
  <1>1. PICK p : p = Path(fat, c)
    OBVIOUS
  <1>2. c \in Cluster /\ fat[c] # FREE_CLUSTER /\ First(fat, c)
    BY DEF Tidy
  <1>3. IsPath(fat, p, c)
    BY <1>1, <1>2, PathIsPath
  <1>4. /\ p \in Seq(Cluster) /\ Len(p) \in Nat \ {0} /\ p[1] = c
        /\ CLUSTER_COUNT \in Nat /\ Len(p) <= CLUSTER_COUNT + 1
        /\ \A i \in 1..Len(p) : p[i] \in Cluster
    BY <1>3, Geometry DEF IsPath
  <1>5. \A i \in 1..(Len(p) - 1) : fat[p[i]] \in Cluster /\ p[i + 1] = fat[p[i]]
    BY <1>3, FollowsIs DEF IsPath
  <1>6. PICK T : T = {i \in 0..Len(p) : i > 0 => \A j \in (i + 1)..Len(p) : p[i] # p[j]}
    OBVIOUS
  <1>7. ASSUME NEW i \in 1..Len(p), i - 1 \in T PROVE i \in T
    <2> SUFFICES ASSUME NEW j \in (i + 1)..Len(p), p[i] = p[j] PROVE FALSE
      BY <1>6
    <2>1. j - 1 \in 1..(Len(p) - 1) /\ (j - 1) + 1 = j
      BY <1>4
    <2>2. p[j] = fat[p[j - 1]] /\ p[j - 1] \in Cluster
      BY <1>4, <1>5, <2>1
    <2>3. CASE i = 1
      BY <1>2, <1>4, <2>2, <2>3 DEF First
    <2>4. CASE i # 1
      <3>1. i - 1 \in 1..(Len(p) - 1) /\ (i - 1) + 1 = i /\ j - 1 \in ((i - 1) + 1)..Len(p)
        BY <1>4, <2>4
      <3>2. p[i] = fat[p[i - 1]] /\ fat[p[i - 1]] \in Cluster /\ p[i - 1] \in Cluster
        BY <1>4, <1>5, <3>1
      <3>3. p[i - 1] = p[j - 1]
        BY <2>2, <3>2 DEF Tidy
      <3>4. p[i - 1] # p[j - 1]
        BY <1>6, <1>7, <3>1
      <3> QED BY <3>3, <3>4
    <2> QED BY <2>3, <2>4
  <1>8. \A i \in 0..Len(p) : i \in T
    <2>1. T \subseteq 0..Len(p) /\ 0 \in T
      BY <1>4, <1>6
    <2> QED BY <1>4, <1>7, <2>1, Induct
  <1>9. IsInjective(p)
    <2>1. \A i, j \in 1..Len(p) : i < j => p[i] # p[j]
      BY <1>4, <1>6, <1>8
    <2>2. \A i, j \in 1..Len(p) : p[i] = p[j] => i = j
      BY <1>4, <2>1
    <2> QED BY <1>4, <2>2 DEF IsInjective
  <1>10. Len(p) <= CLUSTER_COUNT
    BY <1>4, <1>9, NoLongerThanDisk
  <1>11. \A i \in 1..Len(p) : fat[p[i]] # FREE_CLUSTER
    <2> SUFFICES ASSUME NEW i \in 1..Len(p) PROVE fat[p[i]] # FREE_CLUSTER
      OBVIOUS
    <2>1. CASE i = 1
      BY <1>2, <1>4, <2>1
    <2>2. CASE i # 1
      <3>1. i - 1 \in 1..(Len(p) - 1) /\ (i - 1) + 1 = i
        BY <1>4, <2>2
      <3>2. p[i] = fat[p[i - 1]] /\ fat[p[i - 1]] \in Cluster /\ p[i - 1] \in Cluster
        BY <1>4, <1>5, <3>1
      <3> QED BY <3>2 DEF Tidy
    <2> QED BY <2>1, <2>2
  <1>12. fat[p[Len(p)]] = EOF_CLUSTER
    <2>1. p[Len(p)] \in Cluster /\ ~Follows(fat, p[Len(p)])
      BY <1>3, <1>4, <1>10 DEF IsPath
    <2>2. fat[p[Len(p)]] \in Mark
      BY <2>1, FollowsIs DEF Table
    <2> QED BY <1>4, <1>11, <2>1, <2>2 DEF Mark, Tidy
  <1> QED BY <1>1, <1>4, <1>5, <1>9, <1>10, <1>11, <1>12 DEF IsChain

\* Paths from different starts have no cluster in common.
LEMMA PathsApart ==
  ASSUME NEW fat \in Table, NEW S, Tidy(fat, S), NEW c \in S, NEW d \in S, c # d
  PROVE  Range(Path(fat, c)) \intersect Range(Path(fat, d)) = {}
  <1>1. PICK p : p = Path(fat, c)
    OBVIOUS
  <1>2. PICK q : q = Path(fat, d)
    OBVIOUS
  <1>3. IsChain(fat, p, c) /\ IsChain(fat, q, d)
    BY <1>1, <1>2, StartPath
  <1>4. /\ p \in Seq(Cluster) /\ Len(p) \in Nat \ {0} /\ p[1] = c
        /\ q \in Seq(Cluster) /\ Len(q) \in Nat \ {0} /\ q[1] = d
        /\ \A i \in 1..Len(p) : p[i] \in Cluster
        /\ \A i \in 1..Len(q) : q[i] \in Cluster
        /\ First(fat, c) /\ First(fat, d)
    BY <1>3 DEF IsChain, Tidy
  <1>5. ASSUME NEW i \in 1..Len(p), i # 1
        PROVE  i - 1 \in 1..Len(p) /\ p[i] = fat[p[i - 1]]
    <2>1. i - 1 \in 1..(Len(p) - 1) /\ (i - 1) + 1 = i
      BY <1>4, <1>5
    <2> QED BY <1>3, <1>4, <2>1 DEF IsChain
  <1>6. ASSUME NEW i \in 1..Len(q), i # 1
        PROVE  i - 1 \in 1..Len(q) /\ q[i] = fat[q[i - 1]]
    <2>1. i - 1 \in 1..(Len(q) - 1) /\ (i - 1) + 1 = i
      BY <1>4, <1>6
    <2> QED BY <1>3, <1>4, <2>1 DEF IsChain
  <1>7. PICK T : T = {i \in 0..Len(p) : i > 0 => \A j \in 1..Len(q) : p[i] # q[j]}
    OBVIOUS
  <1>8. ASSUME NEW i \in 1..Len(p), i - 1 \in T PROVE i \in T
    <2> SUFFICES ASSUME NEW j \in 1..Len(q), p[i] = q[j] PROVE FALSE
      BY <1>4, <1>7
    <2>1. CASE i = 1
      <3>1. CASE j = 1
        BY <1>4, <2>1, <3>1
      <3>2. CASE j # 1
        BY <1>4, <1>6, <2>1, <3>2 DEF First
      <3> QED BY <3>1, <3>2
    <2>2. CASE i # 1
      <3>1. j # 1
        BY <1>4, <1>5, <2>2 DEF First
      <3>2. p[i - 1] = q[j - 1]
        BY <1>4, <1>5, <1>6, <2>2, <3>1, SMTT(30) DEF Tidy
      <3>3. i - 1 > 0
        BY <2>2
      <3> QED BY <1>6, <1>7, <1>8, <3>1, <3>2, <3>3
    <2> QED BY <2>1, <2>2
  <1>9. \A i \in 0..Len(p) : i \in T
    <2>1. T \subseteq 0..Len(p) /\ 0 \in T
      BY <1>4, <1>7
    <2> QED BY <1>4, <1>8, <2>1, Induct
  <1>10. \A i \in 1..Len(p), j \in 1..Len(q) : p[i] # q[j]
    BY <1>4, <1>7, <1>9
  <1> QED BY <1>1, <1>2, <1>4, <1>10 DEF Range

\* Links may be cut: E become ends, R become free.
LEMMA Release ==
  ASSUME NEW fat \in Table, NEW S, Tidy(fat, S),
         NEW new \in Table, NEW R, NEW E, NEW U,
         \A c \in Cluster : new[c] = IF c \in R THEN FREE_CLUSTER
                                     ELSE IF c \in E THEN EOF_CLUSTER ELSE fat[c],
         \A c \in Cluster : fat[c] \in R => c \in R \union E,
         \A c \in U : c \in Cluster /\ new[c] # FREE_CLUSTER /\ First(fat, c)
  PROVE  Tidy(new, U)
  <1>1. \A c \in Cluster : new[c] \in Cluster => c \notin R /\ c \notin E /\ new[c] = fat[c]
    BY MarksApart DEF Mark
  <1>2. \A c \in Cluster : new[c] # TAKEN_CLUSTER
    BY MarksApart DEF Tidy
  <1>3. ASSUME NEW c \in Cluster, new[c] \in Cluster PROVE new[new[c]] # FREE_CLUSTER
    <2>1. new[c] = fat[c] /\ fat[c] \notin R
      BY <1>1, <1>3
    <2>2. fat[fat[c]] # FREE_CLUSTER
      BY <1>3, <2>1 DEF Tidy
    <2> QED BY <1>3, <2>1, <2>2, MarksApart
  <1>4. \A c, d \in Cluster : new[c] \in Cluster /\ new[c] = new[d] => c = d
    BY <1>1 DEF Tidy
  <1>5. \A c \in U : First(new, c)
    BY <1>1 DEF First
  <1> QED BY <1>2, <1>3, <1>4, <1>5 DEF Tidy

-----------------------------------------------------------------------------
(* The states of a disk and the operations on its table *)

Disk == 0 .. At(CLUSTER_COUNT + 1) - 1

Typed(s) ==
  /\ s = [fat |-> s.fat, disk |-> s.disk, state |-> s.state]
  /\ s.fat \in Table /\ DOMAIN s.disk = Disk
  /\ s.state \in {"up", "panic", "undefined"}

\* The three ways to change a field.
LEMMA SetFat ==
  ASSUME NEW s, Typed(s), NEW fat \in Table
  PROVE  /\ Typed([s EXCEPT !.fat = fat])
         /\ [s EXCEPT !.fat = fat].fat = fat
         /\ [s EXCEPT !.fat = fat].disk = s.disk
         /\ [s EXCEPT !.fat = fat].state = s.state
  <1>1. PICK a, b, c : s = [fat |-> a, disk |-> b, state |-> c]
    BY DEF Typed
  <1> QED BY <1>1 DEF Typed

LEMMA SetDisk ==
  ASSUME NEW s, Typed(s), NEW disk, DOMAIN disk = Disk
  PROVE  /\ Typed([s EXCEPT !.disk = disk])
         /\ [s EXCEPT !.disk = disk].fat = s.fat
         /\ [s EXCEPT !.disk = disk].disk = disk
         /\ [s EXCEPT !.disk = disk].state = s.state
  <1>1. PICK a, b, c : s = [fat |-> a, disk |-> b, state |-> c]
    BY DEF Typed
  <1> QED BY <1>1 DEF Typed

LEMMA SetState ==
  ASSUME NEW s, Typed(s), NEW state \in {"up", "panic", "undefined"}
  PROVE  /\ Typed([s EXCEPT !.state = state])
         /\ [s EXCEPT !.state = state].fat = s.fat
         /\ [s EXCEPT !.state = state].disk = s.disk
         /\ [s EXCEPT !.state = state].state = state
  <1>1. PICK a, b, c : s = [fat |-> a, disk |-> b, state |-> c]
    BY DEF Typed
  <1> QED BY <1>1 DEF Typed

LEMMA CheckedTyped ==
  ASSUME NEW s, Typed(s)
  PROVE  Typed(Checked(s)) /\ (Up(Checked(s)) => Checked(s) = s /\ Intact(s))
  BY SetState DEF Checked, Up

\* A part of a sequence.
LEMMA PartOf ==
  ASSUME NEW S, NEW p \in Seq(S), NEW m \in 1..(Len(p) + 1), NEW n \in 0..Len(p), m <= n + 1
  PROVE  /\ SubSeq(p, m, n) \in Seq(S) /\ Len(SubSeq(p, m, n)) = n - m + 1
         /\ \A i \in 1..(n - m + 1) : SubSeq(p, m, n)[i] = p[m + i - 1]
  <1>1. m \in Int /\ n \in Int /\ \A i \in m..n : p[i] \in S
    OBVIOUS
  <1>2. PICK q : q = SubSeq(p, m, n)
    OBVIOUS
  <1>3. /\ q \in Seq(S) /\ Len(q) = IF m <= n THEN n - m + 1 ELSE 0
        /\ \A i \in 1..(n - m + 1) : q[i] = p[m + i - 1]
    BY <1>1, <1>2, SubSeqProperties
  <1>4. Len(q) = n - m + 1
    BY <1>1, <1>3
  <1> QED BY <1>2, <1>3, <1>4

\* The chain of a start is the path without the cluster that marks the end.
LEMMA ChainIs ==
  ASSUME NEW s, Typed(s), NEW c \in Cluster
  PROVE  /\ Len(Chain(s, c)) \in Nat
         /\ IsChain(s.fat, Path(s.fat, c), c) =>
              /\ Chain(s, c) \in Seq(Cluster)
              /\ Len(Chain(s, c)) = Len(Path(s.fat, c)) - 1
              /\ \A i \in 1..(Len(Path(s.fat, c)) - 1) : Chain(s, c)[i] = Path(s.fat, c)[i]
  <1>1. PICK p : p = Path(s.fat, c)
    OBVIOUS
  <1>2. p \in Seq(Cluster) /\ Len(p) \in Nat \ {0}
    <2>1. IsPath(s.fat, p, c)
      BY <1>1, PathIsPath
    <2> QED BY <2>1 DEF IsPath
  <1>3. /\ Front(p) \in Seq(Cluster) /\ Len(Front(p)) = Len(p) - 1
        /\ \A i \in 1..(Len(p) - 1) : Front(p)[i] = p[i]
    <2>1. 1 \in 1..(Len(p) + 1) /\ Len(p) - 1 \in 0..Len(p) /\ 1 <= (Len(p) - 1) + 1
      BY <1>2
    <2>2. PICK q : q = Front(p)
      OBVIOUS
    <2>3. /\ q \in Seq(Cluster) /\ Len(q) = (Len(p) - 1) - 1 + 1
          /\ \A i \in 1..((Len(p) - 1) - 1 + 1) : q[i] = p[1 + i - 1]
      BY <1>2, <2>1, <2>2, PartOf, ZenonT(30) DEF Front
    <2> QED BY <1>2, <2>2, <2>3
  <1>4. Chain(s, c) = Front(p) \/ Chain(s, c) = <<Nowhere>>
    BY <1>1 DEF Chain, UpToEOF
  <1>5. IsChain(s.fat, p, c) => Chain(s, c) = Front(p)
    <2> SUFFICES ASSUME IsChain(s.fat, p, c) PROVE Chain(s, c) = Front(p)
      OBVIOUS
    <2>1. Last(p) \in Cluster /\ s.fat[Last(p)] = EOF_CLUSTER
      BY <1>2 DEF Last, IsChain
    <2> QED BY <1>1, <2>1 DEF Chain, UpToEOF
  <1> QED BY <1>1, <1>2, <1>3, <1>4, <1>5

\* Free changes the clusters named and no other.
LEMMA FreeFacts ==
  ASSUME NEW s, Typed(s), NEW X
  PROVE  /\ Typed(Free(s, X)) /\ Free(s, X).state = s.state
         /\ \A c \in Cluster : Free(s, X).fat[c] = IF c \in X THEN FREE_CLUSTER ELSE s.fat[c]
         /\ \A a \in Disk : (\A c \in X : a \notin Cells(At(c), CLUSTER_SIZE))
                              => Free(s, X).disk[a] = s.disk[a]
  <1>1. PICK f, d, u : s = [fat |-> f, disk |-> d, state |-> u]
    BY DEF Typed
  <1>2. f \in Table /\ DOMAIN d = Disk /\ DOMAIN f = Cluster /\ u \in {"up", "panic", "undefined"}
    BY <1>1 DEF Typed, Table
  <1>3. PICK g : g = [c \in Cluster |-> IF c \in X THEN FREE_CLUSTER ELSE f[c]]
    OBVIOUS
  <1>4. g \in Table
    BY <1>2, <1>3 DEF Table, Mark
  <1>5. PICK e : e = [a \in Disk |-> IF (\E c \in X : a \in Cells(At(c), CLUSTER_SIZE))
                                          /\ ~Spilt(s, a)
                                       THEN Blank ELSE d[a]]
    OBVIOUS
  <1>6. Free(s, X) = [fat |-> g, disk |-> e, state |-> u]
    <2>1. s.fat = f /\ s.disk = d
      BY <1>1
    <2>2. Free(s, X) = [s EXCEPT !.fat = g, !.disk = e]
      BY <1>2, <1>3, <1>5, <2>1 DEF Free
    <2> QED BY <1>1, <2>2
  <1>7. Typed(Free(s, X))
    BY <1>2, <1>4, <1>5, <1>6 DEF Typed
  <1>8. \A c \in Cluster : Free(s, X).fat[c] = IF c \in X THEN FREE_CLUSTER ELSE s.fat[c]
    BY <1>1, <1>3, <1>6
  <1>9. \A a \in Disk : (\A c \in X : a \notin Cells(At(c), CLUSTER_SIZE))
                          => Free(s, X).disk[a] = s.disk[a]
    BY <1>1, <1>5, <1>6
  <1> QED BY <1>1, <1>6, <1>7, <1>8, <1>9

LEMMA PokeFacts ==
  ASSUME NEW s, Typed(s), NEW a, NEW data
  PROVE  /\ Typed(Poke(s, a, data)) /\ Poke(s, a, data).state = s.state
         /\ Poke(s, a, data).fat = s.fat
         /\ \A x \in Disk : x \notin Cells(a, Len(data)) => Poke(s, a, data).disk[x] = s.disk[x]
  <1>1. PICK disk : disk = [x \in DOMAIN s.disk |->
                              IF x \in Cells(a, Len(data)) THEN data[x - a + 1] ELSE s.disk[x]]
    OBVIOUS
  <1>2. DOMAIN disk = Disk
    BY <1>1 DEF Typed
  <1>3. Poke(s, a, data) = [s EXCEPT !.disk = disk]
    BY <1>1 DEF Poke
  <1>4. \A x \in Disk : x \notin Cells(a, Len(data)) => disk[x] = s.disk[x]
    BY <1>1, <1>2
  <1> QED BY <1>2, <1>3, <1>4, SetDisk

LEMMA PokeAllFacts ==
  ASSUME NEW s, Typed(s), NEW clusters, NEW data
  PROVE  /\ Typed(PokeAll(s, clusters, data)) /\ PokeAll(s, clusters, data).state = s.state
         /\ PokeAll(s, clusters, data).fat = s.fat
         /\ \A x \in Disk :
              (\A i \in DOMAIN clusters : x \notin Cells(At(clusters[i]), CLUSTER_SIZE))
                => PokeAll(s, clusters, data).disk[x] = s.disk[x]
  <1> DEFINE Here(x) == {i \in DOMAIN clusters : x \in Cells(At(clusters[i]), CLUSTER_SIZE)}
             I(x) == CHOOSE i \in Here(x) : TRUE
             J(x) == (I(x) - 1) * CLUSTER_SIZE + x - At(clusters[I(x)]) + 1
  <1>1. PICK disk : disk = [x \in DOMAIN s.disk |->
                IF Here(x) # {} /\ J(x) \in DOMAIN data THEN data[J(x)] ELSE s.disk[x]]
    OBVIOUS
  <1>2. PokeAll(s, clusters, data) = [s EXCEPT !.disk = disk]
    BY <1>1 DEF PokeAll
  <1>3. DOMAIN disk = Disk
    BY <1>1 DEF Typed
  <1>4. ASSUME NEW x \in Disk,
               \A i \in DOMAIN clusters : x \notin Cells(At(clusters[i]), CLUSTER_SIZE)
        PROVE  disk[x] = s.disk[x]
    <2>1. Here(x) = {}
      BY <1>4
    <2> HIDE DEF Here, J
    <2> QED BY <1>1, <1>3, <2>1
  <1> QED BY <1>2, <1>3, <1>4, SetDisk

\* The clusters given out are free ones, none of them twice (vfs.cpp:138).
LEMMA LowestFreeFacts ==
  ASSUME NEW s, NEW n \in Nat
  PROVE  /\ LowestFree(s, n) \in Seq(Cluster) /\ Len(LowestFree(s, n)) <= n
         /\ IsInjective(LowestFree(s, n)) /\ Range(LowestFree(s, n)) \subseteq FreeClusters(s)
         /\ Len(LowestFree(s, n)) < n => Range(LowestFree(s, n)) = FreeClusters(s)
  <1> DEFINE S == Seq(Cluster)
             Left(t) == FreeClusters(s) \ Range(t)
             More(t) == IF Left(t) = {} THEN t ELSE Append(t, Min(Left(t)))
             step == [k \in 1..n |-> [t \in S |-> More(t)]]
             Good(g) == g = [k \in 0..n |-> IF k = 0 THEN <<>> ELSE More(g[k - 1])]
             Fine(t, k) == /\ t \in S /\ Len(t) <= k /\ IsInjective(t)
                           /\ Range(t) \subseteq FreeClusters(s)
                           /\ Len(t) < k => Range(t) = FreeClusters(s)
  <1>1. FreeClusters(s) \subseteq Cluster /\ Cluster \subseteq Nat
    BY Geometry DEF FreeClusters, Cluster
  <1>2. ASSUME NEW t \in S, Left(t) # {} PROVE Min(Left(t)) \in Left(t)
    <2>1. PICK L : L = Left(t)
      OBVIOUS
    <2>2. L \subseteq Nat /\ L # {}
      BY <1>1, <1>2, <2>1
    <2> QED BY <2>1, <2>2, MinOf
  <1>3. \A t \in S : More(t) \in S
    <2> SUFFICES ASSUME NEW t \in S, Left(t) # {} PROVE Append(t, Min(Left(t))) \in S
      OBVIOUS
    <2>1. Min(Left(t)) \in Cluster
      BY <1>1, <1>2
    <2> HIDE DEF Left
    <2> QED BY <2>1
  <1>4. step \in [1..n -> [S -> S]]
    <2> HIDE DEF More, S
    <2> QED BY <1>3
  <1>5. <<>> \in S
    OBVIOUS
  <1>6. PICK f : IsRecursion(f, n, S, <<>>, step)
    <2> HIDE DEF S, step
    <2> QED BY <1>4, <1>5, Recursion
  <1>7. f \in [0..n -> S] /\ f[0] = <<>> /\ \A k \in 1..n : f[k] = More(f[k - 1])
    <2>1. f \in [0..n -> S] /\ f[0] = <<>> /\ \A k \in 1..n : f[k] = step[k][f[k - 1]]
      BY <1>6 DEF IsRecursion
    <2>2. \A k \in 1..n : f[k - 1] \in S
      BY <2>1
    <2> HIDE DEF More, S
    <2> QED BY <2>1, <2>2
  <1>8. Good(f)
    <2>1. \A k \in 0..n : f[k] = IF k = 0 THEN <<>> ELSE More(f[k - 1])
      <3> SUFFICES ASSUME NEW k \in 0..n, k # 0 PROVE f[k] = More(f[k - 1])
        BY <1>7
      <3>1. k \in 1..n
        OBVIOUS
      <3> HIDE DEF More
      <3> QED BY <1>7, <3>1
    <2>2. f = [k \in 0..n |-> f[k]]
      BY <1>7
    <2> HIDE DEF More, S
    <2> QED BY <2>1, <2>2
  <1>9. PICK g : Good(g) /\ LowestFree(s, n) = g[n]
    <2>1. Good(CHOOSE g : Good(g))
      <3> HIDE DEF Good
      <3> QED BY <1>8
    <2> QED BY <2>1 DEF LowestFree
  <1>10. \A k \in 0..n : g[k] = IF k = 0 THEN <<>> ELSE More(g[k - 1])
    <2> HIDE DEF More
    <2> QED BY <1>9
  <1>11. PICK T : T = {k \in 0..n : Fine(g[k], k)}
    OBVIOUS
  <1>12. 0 \in T
    <2>1. g[0] = <<>>
      <3> HIDE DEF More
      <3> QED BY <1>10
    <2>2. Fine(<<>>, 0)
      BY DEF IsInjective, Range
    <2> HIDE DEF Fine
    <2> QED BY <1>11, <2>1, <2>2
  <1>13. ASSUME NEW k \in 1..n, k - 1 \in T PROVE k \in T
    <2>1. PICK t : t = g[k - 1]
      OBVIOUS
    <2>2. Fine(t, k - 1)
      <3> HIDE DEF Fine
      <3> QED BY <1>11, <1>13, <2>1
    <2>3. g[k] = More(t)
      <3>1. k \in 0..n /\ k # 0
        OBVIOUS
      <3> HIDE DEF More
      <3> QED BY <1>10, <2>1, <3>1
    <2>4. CASE Left(t) = {}
      <3>1. Range(t) = FreeClusters(s)
        BY <2>2, <2>4
      <3>2. Fine(t, k) /\ g[k] = t
        BY <2>2, <2>3, <2>4, <3>1
      <3> HIDE DEF Fine
      <3>3. Fine(g[k], k) /\ k \in 0..n
        BY <3>2
      <3> QED BY <1>11, <3>3
    <2>5. CASE Left(t) # {}
      <3>1. PICK m : m = Min(Left(t))
        OBVIOUS
      <3>2. m \in FreeClusters(s) /\ m \notin Range(t) /\ m \in Cluster
        BY <1>1, <1>2, <2>2, <2>5, <3>1
      <3>3. g[k] = Append(t, m)
        BY <2>3, <2>5, <3>1
      <3>4. Queue(t, Cluster)
        BY <2>2 DEF Queue
      <3>5. Queue(Append(t, m), Cluster) /\ Range(Append(t, m)) = Range(t) \union {m}
        BY <3>2, <3>4, AppendQueue
      <3>6. Len(Append(t, m)) = Len(t) + 1 /\ Len(t) \in Nat
        BY <2>2, <3>2
      <3>7. Fine(Append(t, m), k)
        <4>1. ~(Len(t) < k - 1)
          BY <2>2, <3>2
        <4>2. ~(Len(Append(t, m)) < k)
          BY <3>6, <4>1
        <4> QED BY <2>2, <3>2, <3>5, <3>6, <4>2 DEF Queue
      <3> HIDE DEF Fine
      <3>8. Fine(g[k], k) /\ k \in 0..n
        BY <3>3, <3>7
      <3> QED BY <1>11, <3>8
    <2> QED BY <2>4, <2>5
  <1>14. \A k \in 0..n : k \in T
    <2>1. T \subseteq 0..n
      BY <1>11
    <2> QED BY <1>12, <1>13, <2>1, Induct
  <1>15. Fine(g[n], n)
    <2> HIDE DEF Fine
    <2> QED BY <1>11, <1>14
  <1> QED BY <1>9, <1>15

\* In t, and not in s, the n clusters of p behind the first hang on that one.
Grown(s, t, p, n) ==
  /\ p \in Seq(Cluster) /\ Len(p) = n + 1 /\ IsInjective(p)
  /\ \A i \in 2..(n + 1) : s.fat[p[i]] = FREE_CLUSTER
  /\ \A c \in Cluster : c \notin Range(p) => t.fat[c] = s.fat[c]
  /\ \A i \in 1..n : t.fat[p[i]] = p[i + 1]
  /\ t.fat[p[n + 1]] = EOF_CLUSTER

\* The chain grows by n clusters, or the kernel panics for want of them.
LEMMA GrowFacts ==
  ASSUME NEW s, Typed(s), NEW last \in Cluster, s.fat[last] # FREE_CLUSTER, NEW n \in Nat
  PROVE  /\ Typed(Grow(s, last, n)) /\ Grow(s, last, n).disk = s.disk
         /\ Up(Grow(s, last, n)) =>
              Up(s) /\ \E p : p[1] = last /\ Grown(s, Grow(s, last, n), p, n)
  <1>1. PICK new : new = LowestFree(s, n)
    OBVIOUS
  <1>2. /\ new \in Seq(Cluster) /\ Len(new) \in Nat /\ Len(new) <= n
        /\ IsInjective(new) /\ Range(new) \subseteq FreeClusters(s)
    BY <1>1, LowestFreeFacts
  <1>3. PICK p : p = <<last>> \o new
    OBVIOUS
  <1>4. /\ p \in Seq(Cluster) /\ Len(p) = Len(new) + 1 /\ p[1] = last
        /\ \A i \in 2..(Len(new) + 1) : p[i] = new[i - 1]
    <2>1. <<last>> \in Seq(Cluster) /\ Len(<<last>>) = 1 /\ <<last>>[1] = last
      OBVIOUS
    <2>2. /\ p \in Seq(Cluster) /\ Len(p) = 1 + Len(new)
          /\ \A i \in 1..(1 + Len(new)) : p[i] = IF i <= 1 THEN <<last>>[i] ELSE new[i - 1]
      BY <1>2, <1>3, <2>1, ConcatProperties
    <2> QED BY <1>2, <2>1, <2>2
  <1>5. \A i \in 2..Len(p) : p[i] \in FreeClusters(s) /\ p[i] # last
    <2>1. \A i \in 2..Len(p) : i - 1 \in 1..Len(new) /\ p[i] = new[i - 1]
      BY <1>2, <1>4
    <2>2. \A i \in 1..Len(new) : new[i] \in FreeClusters(s)
      BY <1>2 DEF Range
    <2> QED BY <2>1, <2>2 DEF FreeClusters
  <1>6. \A i, j \in DOMAIN p : p[i] = p[j] => i = j
    <2> SUFFICES ASSUME NEW i \in 1..Len(p), NEW j \in 1..Len(p), p[i] = p[j] PROVE i = j
      BY <1>4
    <2>1. CASE i = 1 \/ j = 1
      <3>1. \A k \in 1..Len(p) : k # 1 => k \in 2..Len(p)
        BY <1>2, <1>4
      <3> QED BY <1>4, <1>5, <2>1, <3>1
    <2>2. CASE i # 1 /\ j # 1
      <3>1. i - 1 \in DOMAIN new /\ j - 1 \in DOMAIN new /\ p[i] = new[i - 1] /\ p[j] = new[j - 1]
        BY <1>2, <1>4, <2>2
      <3>2. i - 1 = j - 1
        BY <1>2, <3>1 DEF IsInjective
      <3> QED BY <3>2
    <2> QED BY <2>1, <2>2
  <1> DEFINE I(c) == CHOOSE i \in DOMAIN p : p[i] = c
  <1>7. PICK fat : fat = [c \in DOMAIN s.fat |->
                            IF c \notin Range(p) THEN s.fat[c]
                            ELSE IF c = Last(p) THEN EOF_CLUSTER ELSE p[I(c) + 1]]
    OBVIOUS
  <1>8. \A i \in DOMAIN p : I(p[i]) = i
    <2> SUFFICES ASSUME NEW i \in DOMAIN p PROVE I(p[i]) = i
      OBVIOUS
    <2>1. I(p[i]) \in DOMAIN p /\ p[I(p[i])] = p[i]
      OBVIOUS
    <2> HIDE DEF I
    <2> QED BY <1>6, <2>1
  <1>9. /\ DOMAIN fat = Cluster
        /\ \A c \in Cluster : c \notin Range(p) => fat[c] = s.fat[c]
        /\ \A i \in 1..(Len(p) - 1) : fat[p[i]] = p[i + 1]
        /\ fat[p[Len(p)]] = EOF_CLUSTER
    <2>1. DOMAIN s.fat = Cluster
      BY DEF Typed, Table
    <2>2. \A i \in DOMAIN p : p[i] \in Cluster /\ p[i] \in Range(p)
      BY <1>4 DEF Range
    <2>3. \A c \in Cluster : c \notin Range(p) => fat[c] = s.fat[c]
      BY <1>7, <2>1
    <2>4. fat[p[Len(p)]] = EOF_CLUSTER
      <3>1. Len(p) \in DOMAIN p
        BY <1>2, <1>4
      <3> QED BY <1>7, <2>1, <2>2, <3>1 DEF Last
    <2>5. ASSUME NEW i \in 1..(Len(p) - 1) PROVE fat[p[i]] = p[i + 1]
      <3>1. i \in DOMAIN p /\ Len(p) \in DOMAIN p /\ i # Len(p)
        BY <1>2, <1>4
      <3>2. p[i] # Last(p)
        BY <1>6, <3>1 DEF Last
      <3>3. fat[p[i]] = p[I(p[i]) + 1]
        <4> HIDE DEF I
        <4> QED BY <1>7, <2>1, <2>2, <3>1, <3>2
      <3> HIDE DEF I
      <3> QED BY <1>8, <3>1, <3>3
    <2>6. DOMAIN fat = Cluster
      BY <1>7, <2>1
    <2> QED BY <2>3, <2>4, <2>5, <2>6
  <1>10. fat \in Table
    <2>1. \A c \in Cluster : fat[c] \in Cluster \union Mark
      <3> SUFFICES ASSUME NEW c \in Cluster PROVE fat[c] \in Cluster \union Mark
        OBVIOUS
      <3>1. CASE c \notin Range(p)
        <4>1. s.fat[c] \in Cluster \union Mark
          BY DEF Typed, Table
        <4> QED BY <1>9, <3>1, <4>1
      <3>2. CASE c \in Range(p)
        <4>1. PICK i \in 1..Len(p) : c = p[i]
          BY <1>4, <3>2 DEF Range
        <4>2. CASE i = Len(p)
          BY <1>9, <4>1, <4>2 DEF Mark
        <4>3. CASE i # Len(p)
          <5>1. i \in 1..(Len(p) - 1) /\ i + 1 \in 1..Len(p)
            BY <1>2, <1>4, <4>3
          <5> QED BY <1>4, <1>9, <4>1, <5>1
        <4> QED BY <4>2, <4>3
      <3> QED BY <3>1, <3>2
    <2>2. fat = [c \in DOMAIN s.fat |-> fat[c]]
      <3> HIDE DEF I
      <3> QED BY <1>7
    <2>3. DOMAIN s.fat = Cluster
      BY DEF Typed, Table
    <2> HIDE DEF I
    <2> QED BY <2>1, <2>2, <2>3 DEF Table
  <1>11. PICK t : t = Grow(s, last, n)
    OBVIOUS
  <1> DEFINE x == IF exists_n_free_clusters(s, n) THEN "undefined" ELSE "panic"
  <1>12. t = IF Len(p) <= n THEN [s EXCEPT !.state = x] ELSE [s EXCEPT !.fat = fat]
    BY <1>1, <1>3, <1>7, <1>11 DEF Grow
  <1>13. CASE Len(p) <= n
    <2>1. t = [s EXCEPT !.state = x]
      BY <1>12, <1>13
    <2>2. Typed(t) /\ t.disk = s.disk /\ t.state \in {"panic", "undefined"}
      BY <2>1, SetState
    <2> QED BY <1>11, <2>2 DEF Up
  <1>14. CASE ~(Len(p) <= n)
    <2>1. t = [s EXCEPT !.fat = fat]
      BY <1>12, <1>14
    <2>2. Typed(t) /\ t.disk = s.disk /\ t.state = s.state /\ t.fat = fat
      BY <1>10, <2>1, SetFat
    <2>3. Len(p) = n + 1
      BY <1>2, <1>4, <1>14
    <2>4. Grown(s, t, p, n)
      <3>1. IsInjective(p)
        BY <1>6 DEF IsInjective
      <3>2. Len(p) - 1 = n
        BY <2>3
      <3>3. \A i \in 2..(n + 1) : s.fat[p[i]] = FREE_CLUSTER
        BY <1>5, <2>3 DEF FreeClusters
      <3> QED BY <1>4, <1>9, <2>2, <2>3, <3>1, <3>2, <3>3 DEF Grown
    <2> QED BY <1>4, <1>11, <2>2, <2>4 DEF Up
  <1> QED BY <1>13, <1>14

\* A chain that grows shares no cluster with the others.
LEMMA GrowTidy ==
  ASSUME NEW s, Typed(s), NEW last \in Cluster,
         NEW cut \in Table, NEW S, Tidy(cut, S),
         \A c \in Cluster : cut[c] = IF c = last THEN EOF_CLUSTER ELSE s.fat[c],
         NEW t, Typed(t), NEW n \in Nat, NEW p, p[1] = last, Grown(s, t, p, n)
  PROVE  /\ Tidy(t.fat, S)
         /\ \A c \in Cluster : c # last /\ s.fat[c] # FREE_CLUSTER => t.fat[c] = s.fat[c]
         /\ n > 0 => t.fat[last] \in Cluster
         /\ Path(t.fat, last) = p /\ IsChain(t.fat, p, last)
  <1>1. PICK new : new = t.fat
    OBVIOUS
  <1>2. /\ p \in Seq(Cluster) /\ Len(p) = n + 1 /\ DOMAIN p = 1..(n + 1)
        /\ \A i \in 1..(n + 1) : p[i] \in Cluster
        /\ \A i, j \in 1..(n + 1) : p[i] = p[j] => i = j
        /\ \A c \in Cluster : c \notin Range(p) => new[c] = s.fat[c]
        /\ \A i \in 1..n : new[p[i]] = p[i + 1] /\ p[i + 1] \in Cluster
        /\ new[p[n + 1]] = EOF_CLUSTER
    <2>1. p \in Seq(Cluster) /\ Len(p) = n + 1
      BY DEF Grown
    <2>2. DOMAIN p = 1..(n + 1) /\ \A i \in 1..(n + 1) : p[i] \in Cluster
      BY <2>1
    <2>3. \A i, j \in 1..(n + 1) : p[i] = p[j] => i = j
      BY <2>2 DEF Grown, IsInjective
    <2>4. \A i \in 1..n : p[i + 1] \in Cluster
      BY <2>2
    <2> QED BY <1>1, <2>1, <2>2, <2>3, <2>4 DEF Grown
  <1>3. ASSUME NEW i \in 2..(n + 1) PROVE p[i] # last /\ cut[p[i]] = FREE_CLUSTER
    <2>1. i \in 1..(n + 1) /\ 1 \in 1..(n + 1) /\ i # 1
      OBVIOUS
    <2>2. p[i] # last
      BY <1>2, <2>1
    <2> QED BY <1>2, <2>1, <2>2 DEF Grown
  <1>4. \A c \in Cluster : c \notin Range(p) => new[c] = cut[c]
    <2>1. last \in Range(p)
      BY <1>2 DEF Range
    <2> QED BY <1>2, <2>1
  <1>5. \A c \in Range(p) : \E i \in 1..(n + 1) : c = p[i]
    BY <1>2 DEF Range
  <1>6. ASSUME NEW i \in 1..n
        PROVE  /\ i + 1 \in 2..(n + 1) /\ i \in 1..(n + 1)
               /\ p[i + 1] \in Range(p) /\ cut[p[i + 1]] = FREE_CLUSTER
    <2>1. i + 1 \in 2..(n + 1) /\ i \in 1..(n + 1) /\ i + 1 \in 1..(n + 1)
      OBVIOUS
    <2> QED BY <1>2, <1>3, <2>1 DEF Range
  <1>7. \A i \in 1..(n + 1) : i \in 1..n \/ i = n + 1
    OBVIOUS
  <1>8. \A c \in Range(p) : new[c] \in Cluster \union {EOF_CLUSTER}
    BY <1>2, <1>5, <1>7
  <1>9. \A d \in Cluster : cut[d] \in Cluster => \A i \in 1..n : cut[d] # p[i + 1]
    BY <1>6 DEF Tidy
  <1>10. ASSUME NEW c \in Cluster, new[c] \in Cluster PROVE new[new[c]] # FREE_CLUSTER
    <2>1. CASE new[c] \in Range(p)
      BY <1>8, <2>1, MarksApart DEF Mark
    <2>2. CASE new[c] \notin Range(p)
      <3>1. c \notin Range(p)
        <4> SUFFICES ASSUME NEW i \in 1..(n + 1), c = p[i] PROVE FALSE
          BY <1>5
        <4>1. CASE i = n + 1
          BY <1>2, <1>10, <4>1, MarksApart DEF Mark
        <4>2. CASE i \in 1..n
          BY <1>2, <1>6, <2>2, <4>2
        <4> QED BY <1>7, <4>1, <4>2
      <3>2. new[c] = cut[c] /\ new[new[c]] = cut[new[c]]
        BY <1>4, <1>10, <2>2, <3>1
      <3> QED BY <1>10, <3>2 DEF Tidy
    <2> QED BY <2>1, <2>2
  <1>11. ASSUME NEW c \in Range(p), NEW d \in Cluster, d \notin Range(p),
                new[c] \in Cluster, new[c] = new[d]
         PROVE  FALSE
    <2>1. PICK i \in 1..(n + 1) : c = p[i]
      BY <1>5
    <2>2. i \in 1..n
      BY <1>2, <1>7, <1>11, <2>1, MarksApart DEF Mark
    <2>3. new[d] = cut[d] /\ new[c] = p[i + 1]
      BY <1>2, <1>4, <1>11, <2>1, <2>2
    <2> QED BY <1>9, <1>11, <2>2, <2>3
  <1>12. ASSUME NEW c \in Cluster, NEW d \in Cluster, new[c] \in Cluster, new[c] = new[d]
         PROVE  c = d
    <2>1. CASE c \notin Range(p) /\ d \notin Range(p)
      BY <1>4, <1>12, <2>1 DEF Tidy
    <2>2. CASE c \in Range(p) /\ d \in Range(p)
      <3>1. PICK i \in 1..(n + 1) : c = p[i]
        BY <1>5, <2>2
      <3>2. PICK j \in 1..(n + 1) : d = p[j]
        BY <1>5, <2>2
      <3>3. i \in 1..n /\ j \in 1..n
        BY <1>2, <1>7, <1>12, <3>1, <3>2, MarksApart DEF Mark
      <3>4. p[i + 1] = p[j + 1] /\ i + 1 \in 1..(n + 1) /\ j + 1 \in 1..(n + 1)
        BY <1>2, <1>12, <3>1, <3>2, <3>3
      <3>5. i + 1 = j + 1
        BY <1>2, <3>4
      <3> QED BY <3>1, <3>2, <3>5
    <2> QED BY <1>11, <1>12, <2>1, <2>2
  <1>13. \A c \in Cluster : new[c] # TAKEN_CLUSTER
    <2> SUFFICES ASSUME NEW c \in Cluster PROVE new[c] # TAKEN_CLUSTER
      OBVIOUS
    <2>1. CASE c \in Range(p)
      BY <1>8, <2>1, MarksApart DEF Mark
    <2>2. CASE c \notin Range(p)
      BY <1>4, <2>2 DEF Tidy
    <2> QED BY <2>1, <2>2
  <1>14. ASSUME NEW c \in S
         PROVE  c \in Cluster /\ new[c] # FREE_CLUSTER /\ First(new, c)
    <2>1. c \in Cluster /\ cut[c] # FREE_CLUSTER /\ First(cut, c)
      BY DEF Tidy
    <2>2. new[c] # FREE_CLUSTER
      <3>1. CASE c \in Range(p)
        BY <1>8, <3>1, MarksApart DEF Mark
      <3>2. CASE c \notin Range(p)
        BY <1>4, <2>1, <3>2
      <3> QED BY <3>1, <3>2
    <2>3. ASSUME NEW d \in Cluster PROVE new[d] # c
      <3>1. CASE d \in Range(p)
        <4>1. PICK i \in 1..(n + 1) : d = p[i]
          BY <1>5, <3>1
        <4>2. CASE i = n + 1
          BY <1>2, <2>1, <4>1, <4>2, MarksApart DEF Mark
        <4>3. CASE i \in 1..n
          BY <1>2, <1>6, <2>1, <4>1, <4>3
        <4> QED BY <1>7, <4>2, <4>3
      <3>2. CASE d \notin Range(p)
        BY <1>4, <2>1, <3>2 DEF First
      <3> QED BY <3>1, <3>2
    <2> QED BY <2>1, <2>2, <2>3 DEF First
  <1>15. Tidy(new, S)
    BY <1>10, <1>12, <1>13, <1>14 DEF Tidy
  <1>16. ASSUME NEW c \in Cluster, c # last, s.fat[c] # FREE_CLUSTER PROVE new[c] = s.fat[c]
    <2>1. c \notin Range(p)
      <3> SUFFICES ASSUME NEW i \in 1..(n + 1), c = p[i] PROVE FALSE
        BY <1>5
      <3>1. i # 1
        BY <1>16
      <3>2. i \in 2..(n + 1)
        BY <3>1
      <3> QED BY <1>16, <3>2 DEF Grown
    <2> QED BY <1>2, <2>1
  <1>17. n > 0 => new[last] \in Cluster
    <2>1. n > 0 => 1 \in 1..n
      OBVIOUS
    <2> QED BY <1>2, <2>1
  <1>18. Len(p) <= CLUSTER_COUNT /\ CLUSTER_COUNT \in Nat
    BY <1>2, NoLongerThanDisk, Geometry DEF Grown
  <1>19. IsPath(new, p, last)
    <2>1. Len(p) - 1 = n /\ Len(p) \in 1..(CLUSTER_COUNT + 1)
      BY <1>2, <1>18
    <2>2. \A i \in 1..n : Follows(new, p[i]) /\ p[i + 1] = new[p[i]]
      <3>1. \A i \in 1..n : p[i] \in Cluster
        BY <1>2, <1>6
      <3> QED BY <1>2, <3>1, FollowsIs
    <2>3. ~Follows(new, p[Len(p)])
      BY <1>2, FollowsIs, MarksApart DEF Mark
    <2> QED BY <1>2, <2>1, <2>2, <2>3 DEF IsPath
  <1>20. Path(new, last) = p
    BY <1>19, OnePath
  <1>21. IsChain(new, p, last)
    <2>1. Len(p) - 1 = n /\ Len(p) \in 1..CLUSTER_COUNT
      BY <1>2, <1>18
    <2>2. \A i \in 1..Len(p) : new[p[i]] # FREE_CLUSTER
      <3>1. \A i \in 1..Len(p) : p[i] \in Range(p)
        BY <1>2 DEF Range
      <3> QED BY <1>8, <3>1, MarksApart DEF Mark
    <2> QED BY <1>2, <2>1, <2>2 DEF IsChain, Grown
  <1> QED BY <1>1, <1>15, <1>16, <1>17, <1>20, <1>21

-----------------------------------------------------------------------------
(* Places on the disk *)

LEMMA DivBounds ==
  ASSUME NEW a \in Nat, NEW b \in Nat \ {0}
  PROVE  a \div b \in Nat /\ b * (a \div b) <= a /\ a < b * (a \div b) + b
  OBVIOUS

LEMMA Mono ==
  ASSUME NEW a \in Nat, NEW b \in Nat, NEW k \in Nat, a <= b
  PROVE  a * k <= b * k
  <1>1. b - a \in Nat /\ b = a + (b - a)
    OBVIOUS
  <1>2. PICK m \in Nat : b = a + m
    BY <1>1
  <1>3. b * k = a * k + m * k
    BY <1>2
  <1>4. m * k \in Nat
    OBVIOUS
  <1> QED BY <1>3, <1>4

\* What is cut into pieces of k cells: every cell is in one piece, at one place.
LEMMA OnePiece ==
  ASSUME NEW k \in Nat \ {0}, NEW c \in Nat, NEW d \in Nat,
         NEW x \in 0..(k - 1), NEW y \in 0..(k - 1), c * k + x = d * k + y
  PROVE  c = d
  <1>1. ASSUME NEW a \in Nat, NEW b \in Nat, a < b PROVE a * k + k <= b * k
    <2>1. (a + 1) * k <= b * k
      BY <1>1, Mono
    <2>2. (a + 1) * k = a * k + k
      OBVIOUS
    <2> QED BY <2>1, <2>2
  <1>2. c * k \in Nat /\ d * k \in Nat
    OBVIOUS
  <1> QED BY <1>1, <1>2

LEMMA Sizes ==
  /\ CLUSTER_SIZE \in Nat \ {0} /\ ENTRY_SIZE \in Nat \ {0} /\ COUNT_SIZE \in Nat \ {0}
  /\ CLUSTER_COUNT \in Nat \ {0} /\ Cluster \subseteq Nat /\ Root \in Cluster
  /\ MAX_FILES_IN_FIRST_CLUSTER \in Nat
  /\ MAX_FILES_IN_FIRST_CLUSTER * ENTRY_SIZE <= CLUSTER_SIZE - COUNT_SIZE
  /\ CLUSTER_SIZE - COUNT_SIZE < MAX_FILES_IN_FIRST_CLUSTER * ENTRY_SIZE + ENTRY_SIZE
  /\ MAX_FILES_IN_ONE_CLUSTER \in Nat \ {0}
  /\ MAX_FILES_IN_ONE_CLUSTER * ENTRY_SIZE <= CLUSTER_SIZE
  <1>1. /\ CLUSTER_SIZE \in Nat \ {0} /\ ENTRY_SIZE \in Nat \ {0} /\ COUNT_SIZE \in Nat \ {0}
        /\ CLUSTER_COUNT \in Nat \ {0} /\ CLUSTER_SIZE - COUNT_SIZE \in Nat
        /\ ENTRY_SIZE <= CLUSTER_SIZE
    <2>1. /\ CLUSTER_COUNT \in Nat \ {0} /\ ENTRY_SIZE \in Nat \ {0} /\ COUNT_SIZE \in Nat \ {0}
          /\ CLUSTER_SIZE \in Nat
      BY Geometry
    <2>2. COUNT_SIZE + ENTRY_SIZE <= CLUSTER_SIZE
      BY Geometry
    <2> QED BY <2>1, <2>2
  <1>2. Cluster \subseteq Nat /\ Root \in Cluster
    BY <1>1, ClustersAre DEF Root
  <1>3. PICK q : q = MAX_FILES_IN_FIRST_CLUSTER
    OBVIOUS
  <1>4. /\ q \in Nat /\ ENTRY_SIZE * q <= CLUSTER_SIZE - COUNT_SIZE
        /\ CLUSTER_SIZE - COUNT_SIZE < ENTRY_SIZE * q + ENTRY_SIZE
    BY <1>1, <1>3, DivBounds DEF MAX_FILES_IN_FIRST_CLUSTER
  <1>5. PICK m : m = MAX_FILES_IN_ONE_CLUSTER
    OBVIOUS
  <1>6. m \in Nat /\ ENTRY_SIZE * m <= CLUSTER_SIZE /\ CLUSTER_SIZE < ENTRY_SIZE * m + ENTRY_SIZE
    BY <1>1, <1>5, DivBounds DEF MAX_FILES_IN_ONE_CLUSTER
  <1>7. m # 0
    <2> SUFFICES ASSUME m = 0 PROVE FALSE
      OBVIOUS
    <2>1. ENTRY_SIZE * m = 0
      BY <1>1
    <2> QED BY <1>1, <1>6, <2>1
  <1>8. ENTRY_SIZE * q = q * ENTRY_SIZE /\ ENTRY_SIZE * m = m * ENTRY_SIZE
    BY <1>1, <1>4, <1>6
  <1> QED BY <1>1, <1>2, <1>3, <1>4, <1>5, <1>6, <1>7, <1>8

\* The cells of different clusters are different, and all are on the disk.
LEMMA CellsApart ==
  ASSUME NEW c \in Cluster, NEW d \in Cluster, NEW a,
         a \in Cells(At(c), CLUSTER_SIZE), a \in Cells(At(d), CLUSTER_SIZE)
  PROVE  c = d
  <1>1. PICK k : k = CLUSTER_SIZE
    OBVIOUS
  <1>2. k \in Nat \ {0} /\ c \in Nat /\ d \in Nat
    BY <1>1, Sizes
  <1>3. c * k \in Nat /\ d * k \in Nat
    BY <1>2
  <1>4. /\ a \in Nat /\ c * k <= a /\ a <= c * k + k - 1
        /\ d * k <= a /\ a <= d * k + k - 1
    BY <1>1, <1>2, <1>3 DEF Cells, At
  <1>5. PICK x \in 0..(k - 1) : a = c * k + x
    <2>1. a - c * k \in 0..(k - 1) /\ a = c * k + (a - c * k)
      BY <1>2, <1>3, <1>4
    <2> QED BY <2>1
  <1>6. PICK y \in 0..(k - 1) : a = d * k + y
    <2>1. a - d * k \in 0..(k - 1) /\ a = d * k + (a - d * k)
      BY <1>2, <1>3, <1>4
    <2> QED BY <2>1
  <1> QED BY <1>2, <1>5, <1>6, OnePiece

LEMMA CellsOnDisk ==
  ASSUME NEW c \in Cluster, NEW a \in Cells(At(c), CLUSTER_SIZE)
  PROVE  a \in Disk
  <1>1. PICK k : k = CLUSTER_SIZE
    OBVIOUS
  <1>2. k \in Nat \ {0} /\ c \in Nat /\ c + 1 \in Nat /\ CLUSTER_COUNT + 1 \in Nat
    BY <1>1, Sizes
  <1>3. c + 1 <= CLUSTER_COUNT + 1
    BY <1>2, Sizes DEF Cluster
  <1>4. (c + 1) * k <= (CLUSTER_COUNT + 1) * k
    BY <1>2, <1>3, Mono
  <1>5. (c + 1) * k = c * k + k /\ c * k \in Nat /\ (CLUSTER_COUNT + 1) * k \in Nat
    BY <1>2
  <1>6. a \in Nat /\ c * k <= a /\ a <= c * k + k - 1
    BY <1>1, <1>2, <1>5 DEF Cells, At
  <1> QED BY <1>1, <1>2, <1>4, <1>5, <1>6 DEF Disk, At

\* An entry's cluster and its place inside it.
Later(i) == i - MAX_FILES_IN_FIRST_CLUSTER - 1
Full(clusters, i) ==
  Min({Later(i) \div MAX_FILES_IN_ONE_CLUSTER, Len(clusters) - 2})
Piece(clusters, i) == IF i <= MAX_FILES_IN_FIRST_CLUSTER THEN 1 ELSE Full(clusters, i) + 2
Inside(clusters, i) ==
  IF i <= MAX_FILES_IN_FIRST_CLUSTER THEN COUNT_SIZE + (i - 1) * ENTRY_SIZE
  ELSE (Later(i) - Full(clusters, i) * MAX_FILES_IN_ONE_CLUSTER) * ENTRY_SIZE

LEMMA MinOfTwo ==
  ASSUME NEW a \in Nat, NEW b \in Nat
  PROVE  Min({a, b}) \in {a, b} /\ Min({a, b}) <= a /\ Min({a, b}) <= b
  <1>1. PICK S : S = {a, b}
    OBVIOUS
  <1>2. Min(S) \in S /\ \A y \in S : Min(S) <= y
    BY <1>1, MinOf
  <1> QED BY <1>1, <1>2

\* A directory longer than one cluster has at least two.
LEMMA TwoClusters ==
  ASSUME NEW n \in Nat
  PROVE  LET needed == get_cluster_count_needed(COUNT_SIZE + n * ENTRY_SIZE)
         IN  needed \in Nat \ {0} /\ (n > MAX_FILES_IN_FIRST_CLUSTER => needed >= 2)
  <1>1. PICK k, e, c, q : /\ k = CLUSTER_SIZE /\ e = ENTRY_SIZE /\ c = COUNT_SIZE
                          /\ q = MAX_FILES_IN_FIRST_CLUSTER
    OBVIOUS
  <1>2. k \in Nat \ {0} /\ e \in Nat \ {0} /\ c \in Nat \ {0} /\ q \in Nat /\ k - c < q * e + e
    BY <1>1, Sizes
  <1>3. n * e \in Nat /\ q * e \in Nat
    BY <1>2
  <1>4. PICK d : d = (c + n * e + k - 1) \div k
    OBVIOUS
  <1>5. c + n * e + k - 1 \in Nat
    BY <1>2, <1>3
  <1>6. d \in Nat /\ k * d <= c + n * e + k - 1 /\ c + n * e + k - 1 < k * d + k
    BY <1>2, <1>4, <1>5, DivBounds
  <1>7. d # 0
    <2> SUFFICES ASSUME d = 0 PROVE FALSE
      OBVIOUS
    <2>1. k * d = 0
      BY <1>2
    <2> QED BY <1>2, <1>3, <1>6, <2>1
  <1>8. ASSUME n > q PROVE d >= 2
    <2>1. q + 1 \in Nat /\ q + 1 <= n
      BY <1>2, <1>8
    <2>2. (q + 1) * e <= n * e
      BY <1>2, <2>1, Mono
    <2>3. (q + 1) * e = q * e + e
      BY <1>2
    <2>4. c + n * e > k
      BY <1>2, <1>3, <2>2, <2>3
    <2> SUFFICES ASSUME d = 1 PROVE FALSE
      BY <1>6, <1>7
    <2>5. k * d = k
      BY <1>2
    <2> QED BY <1>2, <1>3, <1>6, <2>4, <2>5
  <1> QED BY <1>1, <1>4, <1>6, <1>7, <1>8 DEF get_cluster_count_needed

\* Every entry begins in one of the directory's clusters.
LEMMA SlotIs ==
  ASSUME NEW n \in Nat, RoomFor(n),
         NEW clusters \in Seq(Cluster), clusters[1] = Root,
         Len(clusters) = get_cluster_count_needed(COUNT_SIZE + n * ENTRY_SIZE),
         NEW i \in 1..n
  PROVE  /\ Piece(clusters, i) \in 1..Len(clusters)
         /\ Inside(clusters, i) \in 0..(CLUSTER_SIZE - 1)
         /\ Slot(clusters, i) = At(clusters[Piece(clusters, i)]) + Inside(clusters, i)
         /\ i > MAX_FILES_IN_FIRST_CLUSTER => Piece(clusters, i) # 1
  <1>1. PICK k, e, c, q, m, len :
               /\ k = CLUSTER_SIZE /\ e = ENTRY_SIZE /\ c = COUNT_SIZE
               /\ q = MAX_FILES_IN_FIRST_CLUSTER /\ m = MAX_FILES_IN_ONE_CLUSTER
               /\ len = Len(clusters)
    OBVIOUS
  <1>2. /\ k \in Nat \ {0} /\ e \in Nat \ {0} /\ c \in Nat \ {0} /\ q \in Nat /\ m \in Nat \ {0}
        /\ q * e <= k - c /\ m * e <= k
    BY <1>1, Sizes
  <1>3. len \in Nat \ {0} /\ (n > q => len >= 2)
    BY <1>1, TwoClusters
  <1>4. CASE i <= q
    <2>1. Piece(clusters, i) = 1 /\ Inside(clusters, i) = c + (i - 1) * e
      BY <1>1, <1>4 DEF Piece, Inside
    <2>2. Slot(clusters, i) = At(Root) + c + (i - 1) * e
      BY <1>1, <1>4 DEF Slot
    <2>3. i * e <= q * e
      BY <1>2, <1>4, Mono
    <2>4. i * e = (i - 1) * e + e /\ (i - 1) * e \in Nat /\ q * e \in Nat
      BY <1>2
    <2>5. c + (i - 1) * e \in 0..(k - 1)
      BY <1>2, <2>3, <2>4
    <2>6. At(Root) \in Nat
      BY Sizes DEF At
    <2>7. At(Root) + c + (i - 1) * e = At(Root) + (c + (i - 1) * e)
      BY <1>2, <2>4, <2>6
    <2> QED BY <1>1, <1>2, <1>3, <1>4, <2>1, <2>2, <2>5, <2>7
  <1>5. CASE i > q
    <2>1. PICK j, f : j = Later(i) /\ f = Full(clusters, i)
      OBVIOUS
    <2>2. j \in Nat /\ j = i - q - 1 /\ len - 2 \in Nat
      BY <1>1, <1>2, <1>3, <1>5, <2>1 DEF Later
    <2>3. j \div m \in Nat /\ m * (j \div m) <= j /\ j < m * (j \div m) + m
      BY <1>2, <2>2, DivBounds
    <2>4. PICK r : r = j \div m
      OBVIOUS
    <2>5. f = Min({r, len - 2})
      BY <1>1, <2>1, <2>4 DEF Full
    <2>6. r \in Nat /\ f \in {r, len - 2} /\ f <= r /\ f <= len - 2 /\ f \in Nat
      BY <2>2, <2>3, <2>4, <2>5, MinOfTwo
    <2>7. f * m <= r * m /\ r * m = m * r /\ f * m \in Nat
      BY <1>2, <2>6, Mono
    <2>8. j - f * m \in Nat
      BY <1>2, <2>2, <2>3, <2>4, <2>6, <2>7
    <2>9. Piece(clusters, i) = f + 2 /\ Inside(clusters, i) = (j - f * m) * e
      BY <1>1, <1>2, <1>5, <2>1 DEF Piece, Inside
    <2>10. Slot(clusters, i) = At(clusters[f + 2]) + (j - f * m) * e
      <3>1. ~(i <= MAX_FILES_IN_FIRST_CLUSTER)
        BY <1>1, <1>2, <1>5
      <3> QED BY <1>1, <2>1, <3>1 DEF Slot, Later, Full
    <2>11. (j - f * m) * e \in 0..(k - 1)
      <3>1. (j - f * m) * e \in Nat
        BY <1>2, <2>8
      <3>2. CASE f = r
        <4>1. j - f * m <= m - 1 /\ m - 1 \in Nat
          BY <1>2, <2>2, <2>3, <2>4, <2>6, <2>7, <3>2
        <4>2. (j - f * m) * e <= (m - 1) * e
          BY <1>2, <2>8, <4>1, Mono
        <4>3. (m - 1) * e = m * e - e /\ m * e \in Nat
          BY <1>2
        <4> QED BY <1>2, <3>1, <4>2, <4>3
      <3>3. CASE f = len - 2
        <4>1. n \in 1..n /\ n > q
          BY <1>2, <1>5
        <4>2. (n - q - 1 - (len - 2) * m) * e < k
          <5>1. (InLast(n) - 1) * e < k
            BY <1>1, <4>1 DEF RoomFor
          <5>2. (len - 2) * m \in Nat
            BY <2>7, <3>3
          <5>3. InLast(n) - 1 = n - q - 1 - (len - 2) * m
            BY <1>1, <1>2, <5>2 DEF InLast
          <5> QED BY <5>1, <5>3
        <4>3. j - f * m <= n - q - 1 - (len - 2) * m
          BY <1>2, <2>2, <2>7, <3>3
        <4>4. n - q - 1 - (len - 2) * m \in Nat
          <5>1. (len - 2) * m \in Nat
            BY <2>7, <3>3
          <5> QED BY <1>2, <2>8, <4>3, <5>1
        <4>5. (j - f * m) * e <= (n - q - 1 - (len - 2) * m) * e
          BY <1>2, <2>8, <4>3, <4>4, Mono
        <4> QED BY <1>2, <3>1, <4>2, <4>4, <4>5
      <3> QED BY <2>6, <3>2, <3>3
    <2>12. f + 2 \in 1..len /\ f + 2 # 1
      BY <1>3, <2>2, <2>6
    <2> QED BY <1>1, <2>9, <2>10, <2>11, <2>12
  <1> QED BY <1>2, <1>4, <1>5

\* No two entries begin at one place.
LEMMA SlotsDiffer ==
  ASSUME NEW n \in Nat, RoomFor(n),
         NEW clusters \in Seq(Cluster), clusters[1] = Root, IsInjective(clusters),
         Len(clusters) = get_cluster_count_needed(COUNT_SIZE + n * ENTRY_SIZE),
         NEW i \in 1..n, NEW j \in 1..n, Slot(clusters, i) = Slot(clusters, j)
  PROVE  i = j
  <1>1. PICK k, e, c, q, m :
               /\ k = CLUSTER_SIZE /\ e = ENTRY_SIZE /\ c = COUNT_SIZE
               /\ q = MAX_FILES_IN_FIRST_CLUSTER /\ m = MAX_FILES_IN_ONE_CLUSTER
    OBVIOUS
  <1>2. /\ k \in Nat \ {0} /\ e \in Nat \ {0} /\ c \in Nat \ {0} /\ q \in Nat /\ m \in Nat \ {0}
    BY <1>1, Sizes
  <1>3. PICK a, b, x, y : /\ a = Piece(clusters, i) /\ b = Piece(clusters, j)
                          /\ x = Inside(clusters, i) /\ y = Inside(clusters, j)
    OBVIOUS
  <1>4. /\ a \in 1..Len(clusters) /\ x \in 0..(k - 1) /\ Slot(clusters, i) = At(clusters[a]) + x
        /\ i > q => a # 1
    BY <1>1, <1>3, SlotIs
  <1>5. /\ b \in 1..Len(clusters) /\ y \in 0..(k - 1) /\ Slot(clusters, j) = At(clusters[b]) + y
        /\ j > q => b # 1
    BY <1>1, <1>3, SlotIs
  <1>6. clusters[a] \in Nat /\ clusters[b] \in Nat
    <2>1. clusters[a] \in Cluster /\ clusters[b] \in Cluster
      BY <1>4, <1>5
    <2> QED BY <2>1, Sizes
  <1>7. clusters[a] * k + x = clusters[b] * k + y
    BY <1>1, <1>4, <1>5 DEF At
  <1>8. clusters[a] = clusters[b]
    <2>1. PICK u, v : u = clusters[a] /\ v = clusters[b]
      OBVIOUS
    <2>2. u \in Nat /\ v \in Nat /\ u * k + x = v * k + y
      BY <1>6, <1>7, <2>1
    <2>3. u = v
      BY <1>2, <1>4, <1>5, <2>2, OnePiece
    <2> QED BY <2>1, <2>3
  <1>9. a = b
    BY <1>4, <1>5, <1>8 DEF IsInjective
  <1>10. x = y
    <2>1. clusters[a] * k \in Nat
      BY <1>2, <1>6
    <2> QED BY <1>2, <1>4, <1>5, <1>7, <1>8, <2>1
  <1>11. ASSUME NEW u \in Nat, NEW v \in Nat, u * e = v * e PROVE u = v
    <2>1. 0 \in 0..(e - 1) /\ u * e + 0 = v * e + 0
      BY <1>2, <1>11
    <2> QED BY <1>2, <2>1, OnePiece
  <1>12. CASE i <= q
    <2>1. j <= q /\ x = c + (i - 1) * e
      BY <1>1, <1>2, <1>3, <1>4, <1>5, <1>9, <1>12 DEF Piece, Inside
    <2>2. y = c + (j - 1) * e
      BY <1>1, <1>3, <2>1 DEF Inside
    <2>3. i - 1 \in Nat /\ j - 1 \in Nat
      OBVIOUS
    <2>4. PICK u, v : u = (i - 1) * e /\ v = (j - 1) * e
      OBVIOUS
    <2>5. (i - 1) * e = (j - 1) * e
      <3>1. u \in Nat /\ v \in Nat
        BY <1>2, <2>3, <2>4
      <3>2. c + u = c + v
        BY <1>10, <2>1, <2>2, <2>4
      <3> QED BY <1>2, <2>4, <3>1, <3>2
    <2>6. i - 1 = j - 1
      BY <1>11, <2>3, <2>5
    <2> QED BY <2>6
  <1>13. CASE i > q
    <2>1. ~(i <= MAX_FILES_IN_FIRST_CLUSTER)
      BY <1>1, <1>2, <1>13
    <2>2. ~(j <= MAX_FILES_IN_FIRST_CLUSTER)
      BY <1>3, <1>4, <1>9, <1>13 DEF Piece
    <2>3. PICK f, g, u, v : /\ f = Full(clusters, i) /\ g = Full(clusters, j)
                            /\ u = Later(i) /\ v = Later(j)
      OBVIOUS
    <2>4. f + 2 = a /\ g + 2 = b
      BY <1>3, <2>1, <2>2, <2>3 DEF Piece
    <2>5. f \in Nat /\ g \in Nat /\ f = g
      <3>1. u \in Nat /\ v \in Nat
        BY <1>1, <1>2, <2>1, <2>2, <2>3 DEF Later
      <3>2. PICK r, s, l : /\ r = u \div MAX_FILES_IN_ONE_CLUSTER /\ l = Len(clusters) - 2
                           /\ s = v \div MAX_FILES_IN_ONE_CLUSTER
        OBVIOUS
      <3>3. r \in Nat /\ s \in Nat
        BY <1>1, <1>2, <3>1, <3>2, DivBounds
      <3>4. l \in Nat
        <4>1. n > MAX_FILES_IN_FIRST_CLUSTER
          BY <1>1, <1>2, <1>13
        <4>2. PICK len : len = Len(clusters)
          OBVIOUS
        <4>3. len \in Nat /\ len >= 2
          BY <4>1, <4>2, TwoClusters
        <4> QED BY <3>2, <4>2, <4>3
      <3>5. f \in Nat /\ g \in Nat
        BY <2>3, <3>2, <3>3, <3>4, MinOfTwo DEF Full
      <3> QED BY <1>9, <2>4, <3>5
    <2>6. x = (u - f * m) * e /\ y = (v - g * m) * e
      BY <1>1, <1>3, <2>1, <2>2, <2>3 DEF Inside
    <2>7. u \in Nat /\ v \in Nat /\ u = i - q - 1 /\ v = j - q - 1 /\ f * m \in Nat
      BY <1>1, <1>2, <2>1, <2>2, <2>3, <2>5 DEF Later
    <2>8. u * e = x + (f * m) * e /\ v * e = y + (f * m) * e
      BY <1>2, <2>5, <2>6, <2>7
    <2>9. u = v
      BY <1>10, <1>11, <2>7, <2>8
    <2> QED BY <1>2, <2>7, <2>9
  <1> QED BY <1>2, <1>12, <1>13

-----------------------------------------------------------------------------
(* The directory *)

Entry == [name : File, start : Cluster, size : Nat, open : BOOLEAN, system : BOOLEAN]

StartsOf(files) == {Root} \union {files[i].start : i \in DOMAIN files}

\* No two files have the name or the first cluster of another, and the directory
\* has room for them.
GoodFiles(files) ==
  /\ files \in Seq(Entry) /\ RoomFor(Len(files))
  /\ \A i \in DOMAIN files : files[i].start # Root
  /\ \A i, j \in DOMAIN files : i # j => /\ files[i].name # files[j].name
                                         /\ files[i].start # files[j].start

\* Every entry begins in a cluster of the directory.
Heads(s) ==
  \A i \in 1..Count(s) : \E c \in Range(Chain(s, Root)) :
    Slot(Chain(s, Root), i) \in Cells(At(c), CLUSTER_SIZE)

\* The clusters of a directory with n entries.
ClustersFor(n) == get_cluster_count_needed(COUNT_SIZE + n * ENTRY_SIZE)

\* What holds between two calls, and inside a call between two of its parts.
Sound(s) ==
  /\ Typed(s) /\ Up(s) /\ Count(s) \in Nat
  /\ GoodFiles(load_root_folder(s))
  /\ Tidy(s.fat, StartsOf(load_root_folder(s)))
  /\ Filled(s.fat, StartsOf(load_root_folder(s)))
  /\ Heads(s)
  /\ Len(Path(s.fat, Root)) = ClustersFor(Len(load_root_folder(s))) + 1

\* A chain with data begins with its start.
LEMMA StartChain ==
  ASSUME NEW s, Typed(s), NEW S, Tidy(s.fat, S), NEW c \in S, s.fat[c] \in Cluster
  PROVE  /\ c \in Cluster /\ IsChain(s.fat, Path(s.fat, c), c) /\ Len(Path(s.fat, c)) >= 2
         /\ Chain(s, c) \in Seq(Cluster) /\ Len(Chain(s, c)) = Len(Path(s.fat, c)) - 1
         /\ \A i \in 1..(Len(Path(s.fat, c)) - 1) : Chain(s, c)[i] = Path(s.fat, c)[i]
         /\ Range(Chain(s, c)) \subseteq Range(Path(s.fat, c))
         /\ c \in Range(Chain(s, c)) /\ Nowhere \notin Range(Chain(s, c))
         /\ Chain(s, c)[1] = c /\ IsInjective(Chain(s, c))
  <1>1. PICK p, h : p = Path(s.fat, c) /\ h = Chain(s, c)
    OBVIOUS
  <1>2. c \in Cluster /\ s.fat \in Table
    BY DEF Tidy, Typed
  <1>3. IsChain(s.fat, p, c)
    BY <1>1, <1>2, StartPath
  <1>4. /\ h \in Seq(Cluster) /\ Len(h) = Len(p) - 1
        /\ \A i \in 1..(Len(p) - 1) : h[i] = p[i]
    BY <1>1, <1>2, <1>3, ChainIs
  <1>5. p \in Seq(Cluster) /\ Len(p) \in Nat \ {0} /\ p[1] = c
    BY <1>3 DEF IsChain
  <1>6. Len(p) >= 2
    <2>1. Len(p) # 1
      <3>1. s.fat[p[Len(p)]] = EOF_CLUSTER /\ s.fat[c] \in Cluster
        BY <1>3 DEF IsChain
      <3>2. EOF_CLUSTER \notin Cluster
        BY MarksApart DEF Mark
      <3> QED BY <1>5, <3>1, <3>2
    <2>2. PICK n : n = Len(p)
      OBVIOUS
    <2>3. n \in Nat \ {0} /\ n # 1
      BY <1>5, <2>1, <2>2
    <2>4. n >= 2
      BY <2>3
    <2> QED BY <2>2, <2>4
  <1>7. DOMAIN h = 1..(Len(p) - 1) /\ DOMAIN p = 1..Len(p) /\ \A i \in DOMAIN h : i \in DOMAIN p
    BY <1>4, <1>5
  <1>8. Range(h) \subseteq Range(p)
    BY <1>4, <1>7 DEF Range
  <1>9. 1 \in DOMAIN h /\ h[1] = c
    BY <1>4, <1>5, <1>6, <1>7
  <1>10. Nowhere \notin Range(h)
    <2>1. Range(h) \subseteq Cluster
      BY <1>4 DEF Range
    <2> QED BY <2>1, Sizes DEF Nowhere
  <1>11. IsInjective(h)
    BY <1>3, <1>4, <1>7 DEF IsChain, IsInjective
  <1> QED BY <1>1, <1>2, <1>3, <1>4, <1>6, <1>8, <1>9, <1>10, <1>11 DEF Range

\* Who leaves the clusters of the directory alone leaves the directory as it was.
LEMMA SameDirectory ==
  ASSUME NEW s, Sound(s), NEW t, Typed(t), Up(t),
         \A c \in Range(Path(s.fat, Root)) : t.fat[c] = s.fat[c],
         \A c \in Range(Path(s.fat, Root)) : \A a \in Cells(At(c), CLUSTER_SIZE) :
           t.disk[a] = s.disk[a]
  PROVE  /\ Path(t.fat, Root) = Path(s.fat, Root)
         /\ load_root_folder(t) = load_root_folder(s)
         /\ (/\ Tidy(t.fat, StartsOf(load_root_folder(s)))
             /\ Filled(t.fat, StartsOf(load_root_folder(s)))) => Sound(t)
  <1>1. PICK files : files = load_root_folder(s)
    OBVIOUS
  <1>2. PICK p, h : p = Path(s.fat, Root) /\ h = Chain(s, Root)
    OBVIOUS
  <1>3. Root \in StartsOf(files) /\ Root \in Cluster /\ s.fat[Root] \in Cluster
    <2>1. Root \in StartsOf(files)
      BY DEF StartsOf
    <2> QED BY <1>1, <2>1, Sizes DEF Sound, Filled
  <1>4. /\ IsChain(s.fat, p, Root) /\ Range(h) \subseteq Range(p) /\ Root \in Range(h)
    BY <1>1, <1>2, <1>3, StartChain DEF Sound
  <1>5. Path(t.fat, Root) = p
    BY <1>2, <1>3, SamePath
  <1>6. p \in Seq(Cluster) /\ Len(p) \in Nat \ {0}
    BY <1>4 DEF IsChain
  <1>7. Last(p) \in Range(p)
    <2>1. Len(p) \in DOMAIN p
      BY <1>6
    <2> QED BY <2>1 DEF Last, Range
  <1>8. t.fat[Last(p)] = s.fat[Last(p)]
    BY <1>2, <1>7
  <1>9. Chain(t, Root) = h
    BY <1>2, <1>5, <1>8 DEF Chain, UpToEOF
  <1>10. \A c \in Range(h) : \A a \in Cells(At(c), CLUSTER_SIZE) : t.disk[a] = s.disk[a]
    BY <1>2, <1>4
  <1>11. At(Root) \in Cells(At(Root), CLUSTER_SIZE)
    BY Sizes DEF At, Cells, Root
  <1>12. Count(t) = Count(s)
    BY <1>4, <1>10, <1>11 DEF Count
  <1>13. \A i \in 1..Count(s) : t.disk[Slot(h, i)] = s.disk[Slot(h, i)]
    BY <1>2, <1>10 DEF Sound, Heads
  <1>14. load_root_folder(t) = files
    <2>1. load_root_folder(t) = [i \in 1..Count(s) |-> t.disk[Slot(h, i)][2]]
      BY <1>9, <1>12 DEF load_root_folder
    <2>2. files = [i \in 1..Count(s) |-> s.disk[Slot(h, i)][2]]
      BY <1>1, <1>2 DEF load_root_folder
    <2> QED BY <1>13, <2>1, <2>2
  <1>15. Heads(t)
    BY <1>2, <1>9, <1>12 DEF Sound, Heads
  <1> QED BY <1>1, <1>2, <1>5, <1>12, <1>14, <1>15 DEF Sound

\* A directory that has room for some entries has room for fewer.
LEMMA LessRoom ==
  ASSUME NEW n \in Nat, RoomFor(n), NEW m \in Nat, m <= n
  PROVE  RoomFor(m)
  <1>1. 1..m \subseteq 1..n
    OBVIOUS
  <1> QED BY <1>1 DEF RoomFor

\* The entries read are as many as the directory counts.
LEMMA CountIs ==
  ASSUME NEW s, Count(s) \in Nat
  PROVE  Len(load_root_folder(s)) = Count(s)
  <1>1. PICK n, files : n = Count(s) /\ files = load_root_folder(s)
    OBVIOUS
  <1>2. PICK h : files = [i \in 1..n |-> s.disk[Slot(h, i)][2]]
    BY <1>1 DEF load_root_folder
  <1>3. n \in Nat
    BY <1>1
  <1>4. Len(files) = n
    BY <1>2, <1>3
  <1> QED BY <1>1, <1>4

\* An entry whose first cell is as it was written has not been written over.
LEMMA EntryRead ==
  ASSUME NEW files \in Seq(Entry), NEW slots, NEW i \in DOMAIN files,
         \A j \in DOMAIN files : slots[j] \in Int,
         \A j \in DOMAIN files : slots[i] = slots[j] => i = j,
         NEW cell, NEW old, cell = Directory(slots, files, slots[i], old), cell[3] = 1
  PROVE  cell[2] = files[i]
  <1> DEFINE W == {j \in DOMAIN files : slots[i] \in Cells(slots[j], ENTRY_SIZE)}
             L == CHOOSE l \in W : \A j \in W : j <= l
  <1>1. i \in W
    BY Sizes DEF Cells
  <1>2. \E l \in W : \A j \in W : j <= l
    <2>1. Len(files) \in Nat /\ W \subseteq 1..Len(files) /\ W # {}
      BY <1>1
    <2> HIDE DEF W
    <2> QED BY <2>1, GreatestOf
  <1>3. L \in W
    <2> HIDE DEF W
    <2> QED BY <1>2
  <1>4. Directory(slots, files, slots[i], old) = <<"entry", files[L], slots[i] - slots[L] + 1>>
    BY <1>1 DEF Directory
  <1>5. slots[i] - slots[L] + 1 = 1 /\ L \in DOMAIN files
    <2>1. L \in DOMAIN files
      BY <1>3
    <2> HIDE DEF L, W
    <2> QED BY <1>4, <2>1
  <1>6. slots[i] = slots[L]
    <2> HIDE DEF L, W
    <2> QED BY <1>5
  <1>7. i = L
    <2> HIDE DEF L, W
    <2> QED BY <1>5, <1>6
  <1> HIDE DEF L, W
  <1> QED BY <1>4, <1>7

\* After the directory is written, it is read as it was written.
LEMMA SaveSound ==
  ASSUME NEW s, Typed(s), NEW files, GoodFiles(files),
         NEW cut \in Table, Tidy(cut, StartsOf(files)),
         \A c \in Cluster : cut[c] = IF c = Root THEN EOF_CLUSTER ELSE s.fat[c],
         s.fat[Root] # FREE_CLUSTER, Filled(s.fat, StartsOf(files) \ {Root})
  PROVE  LET r == save_root_folder(s, files)
         IN  Typed(r) /\ (Up(r) => Up(s) /\ Sound(r) /\ load_root_folder(r) = files)
  <1>1. PICK n : n = Len(files)
    OBVIOUS
  <1>2. n \in Nat /\ RoomFor(n) /\ DOMAIN files = 1..n
    BY <1>1 DEF GoodFiles
  <1>3. PICK needed : needed = get_cluster_count_needed(COUNT_SIZE + n * ENTRY_SIZE)
    OBVIOUS
  <1>4. needed \in Nat \ {0}
    BY <1>2, <1>3, TwoClusters
  <1>5. PICK t : t = Grow(s, Root, needed)
    OBVIOUS
  <1>6. Typed(t) /\ t.disk = s.disk
    BY <1>4, <1>5, GrowFacts, Sizes
  <1>7. PICK clusters, r : clusters = Chain(t, Root) /\ r = save_root_folder(s, files)
    OBVIOUS
  <1>8. PICK slots : slots = [i \in DOMAIN files |-> Slot(clusters, i)]
    OBVIOUS
  <1>9. PICK disk : disk = [x \in DOMAIN s.disk |-> Directory(slots, files, x, s.disk[x])]
    OBVIOUS
  <1>10. DOMAIN disk = Disk
    BY <1>9 DEF Typed
  <1>11. PICK u : u = [t EXCEPT !.disk = disk]
    OBVIOUS
  <1>12. Typed(u) /\ u.fat = t.fat /\ u.disk = disk /\ u.state = t.state
    BY <1>6, <1>10, <1>11, SetDisk
  <1>13. r = IF ~Up(s) THEN s
             ELSE IF ~exists_n_free_clusters(s, needed) THEN [s EXCEPT !.state = "panic"]
             ELSE IF ~Up(t) THEN t ELSE Checked(u)
    <2>1. t.disk = s.disk
      BY <1>6
    <2> QED BY <1>1, <1>3, <1>5, <1>7, <1>8, <1>9, <1>11, <2>1
            DEF save_root_folder, WriteRoot, WriteEntries
  <1>14. Typed(r)
    BY <1>6, <1>12, <1>13, CheckedTyped, SetState
  <1>15. SUFFICES ASSUME Up(r) PROVE Up(s) /\ Sound(r) /\ load_root_folder(r) = files
    BY <1>7, <1>14
  <1>16. Up(s) /\ Up(t) /\ r = u /\ Intact(u)
    <2>1. Up(s)
      BY <1>13, <1>15
    <2>2. [s EXCEPT !.state = "panic"].state = "panic"
      BY SetState
    <2>3. Up(t) /\ r = Checked(u)
      BY <1>13, <1>15, <2>1, <2>2 DEF Up
    <2> QED BY <1>12, <1>15, <2>1, <2>3, CheckedTyped
  <1>17. PICK p : p[1] = Root /\ Grown(s, t, p, needed)
    BY <1>4, <1>5, <1>16, GrowFacts, Sizes
  <1>18. /\ Tidy(t.fat, StartsOf(files)) /\ t.fat[Root] \in Cluster
         /\ \A c \in Cluster : c # Root /\ s.fat[c] # FREE_CLUSTER => t.fat[c] = s.fat[c]
         /\ Path(t.fat, Root) = p /\ Len(p) = needed + 1
    <2>1. needed \in Nat /\ needed > 0
      BY <1>4
    <2>2. Root \in Cluster
      BY Sizes
    <2>3. /\ Tidy(t.fat, StartsOf(files)) /\ t.fat[Root] \in Cluster
          /\ \A c \in Cluster : c # Root /\ s.fat[c] # FREE_CLUSTER => t.fat[c] = s.fat[c]
          /\ Path(t.fat, Root) = p
      BY <1>6, <1>17, <2>1, <2>2, GrowTidy
    <2> QED BY <1>17, <2>3 DEF Grown
  <1>19. Root \in StartsOf(files)
    BY DEF StartsOf
  <1>20. /\ clusters \in Seq(Cluster) /\ Len(clusters) = needed /\ clusters[1] = Root
         /\ IsInjective(clusters) /\ Root \in Range(clusters)
    <2>1. /\ clusters \in Seq(Cluster) /\ Len(clusters) = Len(p) - 1 /\ clusters[1] = Root
          /\ IsInjective(clusters) /\ Root \in Range(clusters)
      <3>1. /\ Chain(t, Root) \in Seq(Cluster)
            /\ Len(Chain(t, Root)) = Len(Path(t.fat, Root)) - 1
            /\ Chain(t, Root)[1] = Root
            /\ IsInjective(Chain(t, Root)) /\ Root \in Range(Chain(t, Root))
        <4>1. PICK S, c : S = StartsOf(files) /\ c = Root
          OBVIOUS
        <4>2. Typed(t) /\ Tidy(t.fat, S) /\ c \in S /\ t.fat[c] \in Cluster
          BY <1>6, <1>18, <1>19, <4>1
        <4>3. /\ Chain(t, c) \in Seq(Cluster)
              /\ Len(Chain(t, c)) = Len(Path(t.fat, c)) - 1
              /\ Chain(t, c)[1] = c
              /\ IsInjective(Chain(t, c)) /\ c \in Range(Chain(t, c))
          BY <4>2, StartChain
        <4> QED BY <4>1, <4>3
      <3> QED BY <1>7, <1>18, <3>1
    <2> QED BY <1>4, <1>18, <2>1
  <1>21. Chain(u, Root) = clusters
    BY <1>7, <1>12 DEF Chain, UpToEOF
  <1>22. ASSUME NEW i \in 1..n
         PROVE  \E c \in Range(clusters) : Slot(clusters, i) \in Cells(At(c), CLUSTER_SIZE)
    <2>1. PICK m, x : m = Piece(clusters, i) /\ x = Inside(clusters, i)
      OBVIOUS
    <2>2. /\ m \in 1..Len(clusters) /\ x \in 0..(CLUSTER_SIZE - 1)
          /\ Slot(clusters, i) = At(clusters[m]) + x
      BY <1>2, <1>3, <1>20, <2>1, SlotIs
    <2>3. clusters[m] \in Cluster /\ clusters[m] \in Range(clusters)
      BY <1>20, <2>2 DEF Range
    <2>4. PICK a : a = At(clusters[m])
      OBVIOUS
    <2>5. a \in Nat
      <3>1. clusters[m] \in Nat /\ CLUSTER_SIZE \in Nat
        BY <2>3, Sizes
      <3> QED BY <2>4, <3>1 DEF At
    <2>6. a + x \in Cells(a, CLUSTER_SIZE)
      BY <2>2, <2>5, Sizes DEF Cells
    <2> QED BY <2>2, <2>3, <2>4, <2>6
  <1>23. \A i \in 1..n : slots[i] = Slot(clusters, i) /\ slots[i] \in Int /\ slots[i] \in Disk
    <2> SUFFICES ASSUME NEW i \in 1..n PROVE slots[i] \in Int /\ slots[i] \in Disk
      BY <1>2, <1>8
    <2>1. slots[i] = Slot(clusters, i)
      BY <1>2, <1>8
    <2>2. PICK c \in Range(clusters) : slots[i] \in Cells(At(c), CLUSTER_SIZE)
      BY <1>22, <2>1
    <2>3. c \in Cluster
      BY <1>20 DEF Range
    <2>4. slots[i] \in Disk
      BY <2>2, <2>3, CellsOnDisk
    <2>5. slots[i] \in Int
      BY <2>4 DEF Disk
    <2> QED BY <2>4, <2>5
  <1>24. \A i, j \in 1..n : slots[i] = slots[j] => i = j
    BY <1>2, <1>3, <1>20, <1>23, SlotsDiffer
  <1>25. Count(u) = n
    <2>1. disk[At(Root)][1] = "count"
      BY <1>12, <1>16 DEF Intact, IntactIn
    <2>2. At(Root) \in Disk
      <3>1. At(Root) \in Cells(At(Root), CLUSTER_SIZE)
        BY Sizes DEF At, Cells, Root
      <3> QED BY <3>1, CellsOnDisk, Sizes
    <2>3. disk[At(Root)] = Directory(slots, files, At(Root), s.disk[At(Root)])
      BY <1>9, <1>10, <2>2
    <2>4. At(Root) \in Cells(At(Root), COUNT_SIZE)
      BY Sizes DEF At, Cells, Root
    <2> DEFINE W == {j \in DOMAIN files : At(Root) \in Cells(slots[j], ENTRY_SIZE)}
               L == CHOOSE l \in W : \A j \in W : j <= l
    <2>5. disk[At(Root)] = IF W # {} THEN <<"entry", files[L], At(Root) - slots[L] + 1>>
                                     ELSE <<"count", Len(files)>>
      BY <2>3, <2>4 DEF Directory
    <2>6. disk[At(Root)] = <<"count", Len(files)>>
      <3> HIDE DEF W, L
      <3> QED BY <2>1, <2>5
    <2> QED BY <1>1, <1>12, <2>6 DEF Count
  <1>26. ASSUME NEW i \in 1..n PROVE disk[slots[i]][2] = files[i]
    <2>1. PICK a : a = slots[i]
      OBVIOUS
    <2>2. a = Slot(Chain(u, Root), i) /\ a \in Int /\ a \in Disk
      BY <1>21, <1>23, <2>1
    <2>3. 1 \in 1..ENTRY_SIZE /\ a + 1 - 1 = a
      BY <2>2, Sizes
    <2>4. disk[a] = <<"entry", disk[a][2], 1>>
      <3>1. \A k \in 1..ENTRY_SIZE : disk[a + k - 1] = <<"entry", disk[a][2], k>>
        BY <1>12, <1>16, <1>25, <2>2 DEF Intact, IntactIn
      <3>2. disk[a + 1 - 1] = <<"entry", disk[a][2], 1>>
        BY <2>3, <3>1
      <3> QED BY <2>3, <3>2
    <2>5. PICK cell : cell = disk[a]
      OBVIOUS
    <2>6. cell = Directory(slots, files, slots[i], s.disk[a]) /\ cell[3] = 1
      BY <1>9, <1>10, <2>1, <2>2, <2>4, <2>5
    <2>7. cell[2] = files[i]
      <3>1. files \in Seq(Entry) /\ i \in DOMAIN files
        BY <1>2 DEF GoodFiles
      <3>2. /\ \A j \in DOMAIN files : slots[j] \in Int
            /\ \A j \in DOMAIN files : slots[i] = slots[j] => i = j
        BY <1>2, <1>23, <1>24
      <3>3. PICK old : cell = Directory(slots, files, slots[i], old)
        BY <2>6
      <3>4. cell[3] = 1
        BY <2>6
      <3> QED BY <3>1, <3>2, <3>3, <3>4, EntryRead
    <2> QED BY <2>1, <2>5, <2>7
  <1>27. load_root_folder(u) = files
    <2>1. load_root_folder(u) = [i \in 1..n |-> disk[Slot(clusters, i)][2]]
      BY <1>12, <1>21, <1>25 DEF load_root_folder
    <2>2. \A i \in 1..n : disk[Slot(clusters, i)][2] = files[i]
      BY <1>23, <1>26
    <2>3. files = [i \in 1..n |-> files[i]]
      BY <1>2 DEF GoodFiles
    <2> QED BY <2>1, <2>2, <2>3
  <1>28. Heads(u)
    BY <1>21, <1>22, <1>25 DEF Heads
  <1>29. Filled(u.fat, StartsOf(files))
    <2> SUFFICES ASSUME NEW c \in StartsOf(files) PROVE u.fat[c] \in Cluster
      BY DEF Filled
    <2>1. CASE c = Root
      BY <1>12, <1>18, <2>1
    <2>2. CASE c # Root
      <3>1. s.fat[c] \in Cluster /\ c \in Cluster
        BY <2>2 DEF Filled, Tidy
      <3>2. s.fat[c] # FREE_CLUSTER
        BY <3>1, MarksApart DEF Mark
      <3> QED BY <1>12, <1>18, <2>2, <3>1, <3>2
    <2> QED BY <2>1, <2>2
  <1>30. ClustersFor(Len(files)) = needed
    BY <1>1, <1>3 DEF ClustersFor
  <1> QED BY <1>2, <1>12, <1>15, <1>16, <1>18, <1>25, <1>27, <1>28, <1>29, <1>30 DEF Sound

-----------------------------------------------------------------------------
(* The operations keep the chains apart *)

Good(s) == Typed(s) /\ (Up(s) => Sound(s))

\* The clusters of a chain behind its start.
LEMMA TailOfPath ==
  ASSUME NEW fat, NEW S, Tidy(fat, S), NEW c \in Cluster, NEW p, IsChain(fat, p, c)
  PROVE  /\ Range(p) = {c} \union Range(Tail(p)) /\ c \notin Range(Tail(p))
         /\ \A d \in Cluster : fat[d] \in Range(Tail(p)) => d \in Range(p)
         /\ \A d \in Range(Tail(p)) : d \in Cluster /\ ~First(fat, d)
  <1>1. /\ p \in Seq(Cluster) /\ Len(p) \in Nat \ {0} /\ p[1] = c
        /\ \A i \in 1..Len(p) : p[i] \in Cluster
        /\ \A i \in 1..(Len(p) - 1) : p[i + 1] = fat[p[i]]
    BY DEF IsChain
  <1>2. Queue(p, Cluster) /\ p # <<>>
    BY <1>1 DEF Queue, IsChain
  <1>3. Head(p) \in Range(p) /\ Range(Tail(p)) = Range(p) \ {Head(p)} /\ Head(p) = c
    <2>1. Head(p) \in Range(p) /\ Range(Tail(p)) = Range(p) \ {Head(p)}
      BY <1>2, TailQueue
    <2>2. Head(p) = c
      BY <1>1
    <2> QED BY <2>1, <2>2
  <1>4. ASSUME NEW d \in Range(Tail(p)) PROVE \E i \in 1..(Len(p) - 1) : d = p[i + 1]
    <2>1. d \in Range(p) /\ d # c
      BY <1>3
    <2>2. PICK i \in 1..Len(p) : d = p[i]
      BY <1>1, <2>1 DEF Range
    <2>3. i # 1
      BY <1>1, <2>1, <2>2
    <2>4. i - 1 \in 1..(Len(p) - 1) /\ (i - 1) + 1 = i
      BY <1>1, <2>3
    <2> QED BY <2>2, <2>4
  <1>5. \A i \in 1..(Len(p) - 1) : p[i] \in Cluster /\ p[i] \in Range(p) /\ p[i + 1] \in Cluster
    <2>1. \A i \in 1..(Len(p) - 1) : i \in 1..Len(p) /\ i + 1 \in 1..Len(p)
      BY <1>1
    <2> QED BY <1>1, <2>1 DEF Range
  <1>6. ASSUME NEW d \in Cluster, fat[d] \in Range(Tail(p)) PROVE d \in Range(p)
    <2>1. PICK i \in 1..(Len(p) - 1) : fat[d] = p[i + 1]
      BY <1>4, <1>6
    <2>2. fat[d] = fat[p[i]] /\ p[i] \in Cluster /\ fat[d] \in Cluster
      BY <1>1, <1>5, <2>1
    <2>3. d = p[i]
      BY <2>2 DEF Tidy
    <2> QED BY <1>5, <2>3
  <1>7. ASSUME NEW d \in Range(Tail(p)) PROVE d \in Cluster /\ ~First(fat, d)
    <2>1. PICK i \in 1..(Len(p) - 1) : d = p[i + 1]
      BY <1>4
    <2> QED BY <1>1, <1>5, <2>1 DEF First
  <1> QED BY <1>3, <1>6, <1>7

\* Of a chain with data all but the start becomes free (vfs.cpp:166).
LEMMA FreeAll ==
  ASSUME NEW s, Typed(s), NEW S, Tidy(s.fat, S), NEW c \in S, s.fat[c] \in Cluster
  PROVE  free_all_occupied_clusters(s, c) = Free(s, Range(Tail(Path(s.fat, c))))
  <1>1. PICK p : p = Path(s.fat, c)
    OBVIOUS
  <1>2. IsChain(s.fat, p, c) /\ Len(p) >= 2
    BY <1>1, StartChain
  <1>3. Len(p) # 1 /\ s.fat[Last(p)] # TAKEN_CLUSTER
    <2>1. Len(p) \in Nat
      BY <1>2 DEF IsChain
    <2> QED BY <1>2, <2>1, MarksApart DEF IsChain, Last
  <1> QED BY <1>1, <1>3 DEF free_all_occupied_clusters

LEMMA FreeAllTyped ==
  ASSUME NEW s, Typed(s), NEW c
  PROVE  /\ Typed(free_all_occupied_clusters(s, c))
         /\ Up(free_all_occupied_clusters(s, c)) => Up(s)
  <1>1. PICK p : p = Path(s.fat, c)
    OBVIOUS
  <1>2. CASE Len(p) = 1 \/ s.fat[Last(p)] = TAKEN_CLUSTER
    <2>1. free_all_occupied_clusters(s, c) = [s EXCEPT !.state = "undefined"]
      BY <1>1, <1>2 DEF free_all_occupied_clusters
    <2> QED BY <2>1, SetState DEF Up
  <1>3. CASE ~(Len(p) = 1 \/ s.fat[Last(p)] = TAKEN_CLUSTER)
    <2>1. free_all_occupied_clusters(s, c) = Free(s, Range(Tail(p)))
      BY <1>1, <1>3 DEF free_all_occupied_clusters
    <2> QED BY <2>1, FreeFacts DEF Up
  <1> QED BY <1>2, <1>3

\* The directory may be written anew wherever the chains are apart.
LEMMA RestoreSound ==
  ASSUME NEW s, Typed(s), NEW files,
         Up(s) => /\ GoodFiles(files) /\ Tidy(s.fat, StartsOf(files))
                  /\ Filled(s.fat, StartsOf(files))
  PROVE  /\ Good(Restore(s, files))
         /\ Up(Restore(s, files)) => Up(s) /\ load_root_folder(Restore(s, files)) = files
  <1>1. PICK u, r : u = free_all_occupied_clusters(s, Root) /\ r = Restore(s, files)
    OBVIOUS
  <1>2. Typed(u) /\ (Up(u) => Up(s)) /\ r = save_root_folder(u, files)
    BY <1>1, FreeAllTyped DEF Restore
  <1>3. CASE ~Up(s)
    <2>1. r = u
      BY <1>2, <1>3 DEF save_root_folder
    <2> QED BY <1>1, <1>2, <1>3, <2>1 DEF Good
  <1>4. CASE Up(s)
    <2>1. PICK S, fat : S = StartsOf(files) /\ fat = s.fat
      OBVIOUS
    <2>2. /\ Root \in S /\ Root \in Cluster /\ fat[Root] \in Cluster /\ Tidy(fat, S)
          /\ Filled(fat, S) /\ GoodFiles(files) /\ fat \in Table
      BY <1>4, <2>1, Sizes DEF StartsOf, Filled, Typed
    <2>3. PICK p : p = Path(fat, Root)
      OBVIOUS
    <2>4. IsChain(fat, p, Root)
      BY <2>2, <2>3, StartPath
    <2>5. PICK R : R = Range(Tail(p))
      OBVIOUS
    <2>6. /\ Range(p) = {Root} \union R /\ Root \notin R
          /\ \A d \in Cluster : fat[d] \in R => d \in Range(p)
          /\ \A d \in R : d \in Cluster /\ ~First(fat, d)
      BY <2>2, <2>4, <2>5, TailOfPath
    <2>7. u = Free(s, R)
      BY <1>1, <2>1, <2>2, <2>3, <2>5, FreeAll
    <2>8. \A c \in Cluster : u.fat[c] = IF c \in R THEN FREE_CLUSTER ELSE fat[c]
      BY <2>1, <2>7, FreeFacts
    <2>9. PICK cut : cut = [u.fat EXCEPT ![Root] = EOF_CLUSTER]
      OBVIOUS
    <2>10. cut \in Table /\ \A c \in Cluster : cut[c] = IF c = Root THEN EOF_CLUSTER ELSE u.fat[c]
      <3>1. u.fat \in Table
        BY <1>2 DEF Typed
      <3> QED BY <2>9, <3>1 DEF Table, Mark
    <2>11. \A c \in Cluster : cut[c] = IF c \in R THEN FREE_CLUSTER
                                       ELSE IF c \in {Root} THEN EOF_CLUSTER ELSE fat[c]
      BY <2>6, <2>8, <2>10
    <2>12. \A c \in S : c \in Cluster /\ fat[c] # FREE_CLUSTER /\ First(fat, c) /\ c \notin R
      BY <2>2, <2>6 DEF Tidy
    <2>13. \A c \in S : c \in Cluster /\ cut[c] # FREE_CLUSTER /\ First(fat, c)
      BY <2>11, <2>12, MarksApart
    <2>14. \A c \in Cluster : fat[c] \in R => c \in R \union {Root}
      BY <2>6
    <2>15. Tidy(cut, S)
      BY <2>2, <2>10, <2>11, <2>13, <2>14, Release
    <2>16. u.fat[Root] # FREE_CLUSTER
      BY <2>2, <2>6, <2>8, MarksApart DEF Mark
    <2>17. Filled(u.fat, S \ {Root})
      BY <2>2, <2>8, <2>12 DEF Filled
    <2>18. Typed(r) /\ (Up(r) => Up(u) /\ Sound(r) /\ load_root_folder(r) = files)
      BY <1>2, <2>1, <2>2, <2>10, <2>15, <2>16, <2>17, SaveSound
    <2> QED BY <1>1, <1>4, <2>18 DEF Good
  <1> QED BY <1>3, <1>4

-----------------------------------------------------------------------------
(* How many clusters are free *)

Spare(s) == Cardinality(FreeClusters(s)) + Cardinality(Beyond)

\* The entries of a sequence without repetition are as many as it is long.
LEMMA RangeSize ==
  ASSUME NEW S, NEW p \in Seq(S), IsInjective(p)
  PROVE  IsFiniteSet(Range(p)) /\ Cardinality(Range(p)) = Len(p)
  <1>1. Len(p) \in Nat /\ DOMAIN p = 1..Len(p)
    OBVIOUS
  <1>2. IsFiniteSet(1..Len(p)) /\ Cardinality(1..Len(p)) = Len(p)
    BY <1>1, FS_Interval
  <1>3. p \in Bijection(1..Len(p), Range(p))
    BY <1>1 DEF Bijection, Injection, Surjection, IsInjective, Range
  <1>4. ExistsBijection(1..Len(p), Range(p))
    BY <1>3 DEF ExistsBijection
  <1> QED BY <1>2, <1>4, FS_Bijection

\* There are finitely many clusters.
LEMMA FiniteClusters ==
  ASSUME NEW X, X \subseteq Cluster
  PROVE  IsFiniteSet(X) /\ Cardinality(X) \in Nat
  <1>1. IsFiniteSet(Cluster)
    BY ClustersAre
  <1>2. IsFiniteSet(X)
    BY <1>1, FS_Subset
  <1> QED BY <1>2, FS_CardinalityType

\* They can be counted.
LEMMA SpareIs ==
  ASSUME NEW s
  PROVE  /\ Spare(s) \in Nat /\ IsFiniteSet(FreeClusters(s)) /\ FreeClusters(s) \subseteq Cluster
         /\ Cardinality(FreeClusters(s)) \in Nat
         /\ \A n : exists_n_free_clusters(s, n) <=> Spare(s) >= n
  <1>1. FreeClusters(s) \subseteq Cluster
    BY DEF FreeClusters
  <1>2. IsFiniteSet(FreeClusters(s)) /\ Cardinality(FreeClusters(s)) \in Nat
    BY <1>1, FiniteClusters
  <1>3. Cardinality(Beyond) \in Nat
    BY ClustersAre
  <1>4. Spare(s) \in Nat
    BY <1>2, <1>3 DEF Spare
  <1>5. \A n : exists_n_free_clusters(s, n) <=> Spare(s) >= n
    BY DEF exists_n_free_clusters, Spare
  <1> QED BY <1>1, <1>2, <1>4, <1>5

\* The kernel does not panic while it finds a free cluster (vfs.cpp:149).
LEMMA GrowCalm ==
  ASSUME NEW s, Typed(s), NEW last \in Cluster, NEW n \in Nat, Spare(s) >= n
  PROVE  \/ Grow(s, last, n).state = s.state
         \/ Grow(s, last, n).state = "undefined" /\ Grow(s, last, n).fat = s.fat
  <1>1. PICK a, b, c : s = [fat |-> a, disk |-> b, state |-> c]
    BY DEF Typed
  <1>2. exists_n_free_clusters(s, n)
    BY SpareIs
  <1>3. \/ \E fat : Grow(s, last, n) = [s EXCEPT !.fat = fat]
        \/ Grow(s, last, n) = [s EXCEPT !.state = "undefined"]
    BY <1>2 DEF Grow
  <1> QED BY <1>1, <1>3

\* A chain that grows by n clusters takes no more than n.
LEMMA GrownSpare ==
  ASSUME NEW s, NEW t, NEW n \in Nat, NEW p, Grown(s, t, p, n), s.fat[p[1]] # FREE_CLUSTER
  PROVE  /\ Spare(t) + n >= Spare(s)
         /\ \A c \in Cluster : c # p[1] /\ s.fat[c] # FREE_CLUSTER => t.fat[c] = s.fat[c]
  <1>1. /\ p \in Seq(Cluster) /\ Len(p) = n + 1 /\ DOMAIN p = 1..(n + 1)
        /\ \A i, j \in 1..(n + 1) : p[i] = p[j] => i = j
        /\ \A c \in Cluster : c \notin Range(p) => t.fat[c] = s.fat[c]
    BY DEF Grown, IsInjective
  <1>2. PICK q : q = [i \in 1..n |-> p[i + 1]]
    OBVIOUS
  <1>3. \A i \in 1..n : i + 1 \in 1..(n + 1)
    OBVIOUS
  <1>4. q \in Seq(Cluster) /\ Len(q) = n /\ DOMAIN q = 1..n
    <2>1. \A i \in 1..n : p[i + 1] \in Cluster
      BY <1>1, <1>3
    <2> QED BY <1>2, <2>1
  <1>5. IsInjective(q)
    <2>1. \A i, j \in 1..n : q[i] = q[j] => i + 1 = j + 1
      BY <1>1, <1>2, <1>3
    <2>2. \A i, j \in 1..n : q[i] = q[j] => i = j
      BY <2>1
    <2> QED BY <1>4, <2>2 DEF IsInjective
  <1>6. IsFiniteSet(Range(q)) /\ Cardinality(Range(q)) = n
    BY <1>4, <1>5, RangeSize
  <1>7. ASSUME NEW c \in Cluster, c \notin Range(q), c # p[1] PROVE t.fat[c] = s.fat[c]
    <2>1. \A i \in 1..(n + 1) : i # 1 => i - 1 \in 1..n /\ (i - 1) + 1 = i
      OBVIOUS
    <2>2. \A i \in 1..(n + 1) : i # 1 => q[i - 1] = p[i]
      BY <1>2, <2>1
    <2>3. \A i \in 1..(n + 1) : i # 1 => p[i] \in Range(q)
      <3> SUFFICES ASSUME NEW i \in 1..(n + 1), i # 1 PROVE p[i] \in Range(q)
        OBVIOUS
      <3>1. i - 1 \in DOMAIN q /\ q[i - 1] = p[i]
        BY <1>4, <2>1, <2>2
      <3> QED BY <3>1 DEF Range
    <2>4. c \notin Range(p)
      BY <1>1, <1>7, <2>3 DEF Range
    <2> QED BY <1>1, <2>4
  <1>8. FreeClusters(s) \subseteq FreeClusters(t) \union Range(q)
    BY <1>7 DEF FreeClusters
  <1>9. PICK A, B, C : A = FreeClusters(s) /\ B = FreeClusters(t) /\ C = Range(q)
    OBVIOUS
  <1>10. IsFiniteSet(B) /\ IsFiniteSet(C) /\ A \subseteq B \union C
    BY <1>6, <1>8, <1>9, SpareIs
  <1>11. /\ IsFiniteSet(B \union C)
         /\ Cardinality(B \union C) = Cardinality(B) + Cardinality(C) - Cardinality(B \intersect C)
    BY <1>10, FS_Union
  <1>12. Cardinality(A) <= Cardinality(B \union C)
    BY <1>10, <1>11, FS_Subset
  <1>13. Cardinality(B \intersect C) \in Nat
    BY <1>9, SpareIs, FiniteClusters
  <1>14. Cardinality(A) \in Nat /\ Cardinality(B) \in Nat /\ Cardinality(C) = n
    BY <1>6, <1>9, SpareIs
  <1>15. Cardinality(B) + n >= Cardinality(A)
    BY <1>11, <1>12, <1>13, <1>14
  <1>16. \A c \in Range(q) : s.fat[c] = FREE_CLUSTER
    <2>1. \A i \in 1..n : i + 1 \in 2..(n + 1)
      OBVIOUS
    <2> QED BY <1>2, <1>4, <2>1 DEF Grown, Range
  <1>17. Spare(t) + n >= Spare(s)
    <2>1. Cardinality(Beyond) \in Nat
      BY ClustersAre
    <2> QED BY <1>9, <1>14, <1>15, <2>1 DEF Spare
  <1> QED BY <1>7, <1>9, <1>16, <1>17

\* Clusters that become free are as many more.
LEMMA FreedSpare ==
  ASSUME NEW s, NEW t, NEW X, X \subseteq Cluster, \A c \in X : s.fat[c] # FREE_CLUSTER,
         \A c \in Cluster : t.fat[c] = IF c \in X THEN FREE_CLUSTER ELSE s.fat[c]
  PROVE  Spare(t) = Spare(s) + Cardinality(X)
  <1>1. PICK A, B : A = FreeClusters(s) /\ B = FreeClusters(t)
    OBVIOUS
  <1>2. B = A \union X /\ A \intersect X = {}
    BY <1>1 DEF FreeClusters
  <1>3. IsFiniteSet(A) /\ IsFiniteSet(X) /\ Cardinality(A) \in Nat /\ Cardinality(X) \in Nat
    BY <1>1, FiniteClusters, SpareIs
  <1>4. Cardinality(B) = Cardinality(A) + Cardinality(X) - Cardinality({})
    BY <1>2, <1>3, FS_Union
  <1>5. Cardinality(Beyond) \in Nat
    BY ClustersAre
  <1> QED BY <1>1, <1>3, <1>4, <1>5, FS_EmptySet DEF Spare

\* One entry more takes one cluster more at most.
LEMMA OneMoreEntry ==
  ASSUME NEW n \in Nat
  PROVE  /\ ClustersFor(n) \in Nat \ {0} /\ ClustersFor(n + 1) \in Nat \ {0}
         /\ ClustersFor(n) <= ClustersFor(n + 1) /\ ClustersFor(n + 1) <= ClustersFor(n) + 1
  <1>1. PICK k, e, c : k = CLUSTER_SIZE /\ e = ENTRY_SIZE /\ c = COUNT_SIZE
    OBVIOUS
  <1>2. k \in Nat \ {0} /\ e \in Nat \ {0} /\ c \in Nat \ {0} /\ e <= k
    <2>1. COUNT_SIZE + ENTRY_SIZE <= CLUSTER_SIZE
      BY Geometry
    <2> QED BY <1>1, <2>1, Sizes
  <1>3. PICK x, y : x = c + n * e + k - 1 /\ y = c + (n + 1) * e + k - 1
    OBVIOUS
  <1>4. n * e \in Nat /\ (n + 1) * e = n * e + e
    BY <1>2
  <1>5. x \in Nat /\ y = x + e
    BY <1>2, <1>3, <1>4
  <1>6. PICK p, q : p = x \div k /\ q = y \div k
    OBVIOUS
  <1>7. /\ p \in Nat /\ k * p <= x /\ x < k * p + k
        /\ q \in Nat /\ k * q <= y /\ y < k * q + k
    BY <1>2, <1>5, <1>6, DivBounds
  <1>8. ASSUME q < p PROVE FALSE
    <2>1. (q + 1) * k <= p * k
      BY <1>7, <1>2, <1>8, Mono
    <2>2. (q + 1) * k = k * q + k /\ p * k = k * p
      BY <1>2, <1>7
    <2>3. k * q \in Nat /\ k * p \in Nat
      BY <1>2, <1>7
    <2> QED BY <1>2, <1>5, <1>7, <2>1, <2>2, <2>3
  <1>9. ASSUME q > p + 1 PROVE FALSE
    <2>1. (p + 2) * k <= q * k
      BY <1>7, <1>2, <1>9, Mono
    <2>2. (p + 2) * k = k * p + k + k /\ q * k = k * q
      BY <1>2, <1>7
    <2>3. k * q \in Nat /\ k * p \in Nat
      BY <1>2, <1>7
    <2> QED BY <1>2, <1>5, <1>7, <2>1, <2>2, <2>3
  <1>10. ClustersFor(n) = p /\ ClustersFor(n + 1) = q
    BY <1>1, <1>3, <1>6 DEF ClustersFor, get_cluster_count_needed
  <1>11. ClustersFor(n) \in Nat \ {0} /\ ClustersFor(n + 1) \in Nat \ {0}
    <2>1. n + 1 \in Nat
      OBVIOUS
    <2> QED BY <2>1, TwoClusters DEF ClustersFor
  <1> QED BY <1>7, <1>8, <1>9, <1>10, <1>11

\* A chain that is freed but for its start.
LEMMA TailSize ==
  ASSUME NEW fat, NEW p, NEW c, IsChain(fat, p, c)
  PROVE  /\ IsFiniteSet(Range(Tail(p))) /\ Cardinality(Range(Tail(p))) = Len(p) - 1
         /\ Len(p) - 1 \in Nat
         /\ Range(Tail(p)) \subseteq Cluster /\ \A d \in Range(Tail(p)) : fat[d] # FREE_CLUSTER
         /\ \A d \in Range(p) : d \in Cluster /\ fat[d] # FREE_CLUSTER
         /\ Cardinality(Range(p)) = Len(p)
  <1>1. /\ p \in Seq(Cluster) /\ Len(p) \in Nat \ {0} /\ DOMAIN p = 1..Len(p) /\ IsInjective(p)
        /\ \A i \in 1..Len(p) : fat[p[i]] # FREE_CLUSTER
    BY DEF IsChain
  <1>2. Queue(p, Cluster) /\ p # <<>>
    BY <1>1 DEF Queue
  <1>3. Queue(Tail(p), Cluster) /\ Range(Tail(p)) = Range(p) \ {Head(p)}
    BY <1>2, TailQueue
  <1>4. Tail(p) \in Seq(Cluster) /\ Len(Tail(p)) = Len(p) - 1 /\ IsInjective(Tail(p))
    BY <1>1, <1>3 DEF Queue
  <1>5. \A d \in Range(p) : d \in Cluster /\ fat[d] # FREE_CLUSTER
    BY <1>1 DEF Range
  <1>6. IsFiniteSet(Range(Tail(p))) /\ Cardinality(Range(Tail(p))) = Len(p) - 1
    BY <1>4, RangeSize
  <1>7. Cardinality(Range(p)) = Len(p)
    BY <1>1, RangeSize
  <1> QED BY <1>1, <1>3, <1>5, <1>6, <1>7

\* A chain stays one where the table is the same along it.
LEMMA SameChain ==
  ASSUME NEW fat, NEW new, NEW c \in Cluster, NEW p, p = Path(fat, c), IsChain(fat, p, c),
         \A d \in Range(p) : new[d] = fat[d]
  PROVE  Path(new, c) = p /\ IsChain(new, p, c)
  <1>1. Path(new, c) = p
    BY SamePath
  <1>2. /\ p \in Seq(Cluster) /\ Len(p) \in Nat \ {0}
    BY DEF IsChain
  <1>3. \A i \in 1..Len(p) : new[p[i]] = fat[p[i]]
    BY <1>2 DEF Range
  <1>4. Len(p) \in 1..Len(p) /\ \A i \in 1..(Len(p) - 1) : i \in 1..Len(p)
    BY <1>2
  <1>5. \A i \in 1..(Len(p) - 1) : p[i + 1] = new[p[i]]
    BY <1>3, <1>4 DEF IsChain
  <1> QED BY <1>1, <1>3, <1>4, <1>5 DEF IsChain

-----------------------------------------------------------------------------
(* Clusters that are free or on a chain *)

\* The clusters that are free or that lie on the chain of a start.
Accounted(fat, S) == {x \in Cluster : fat[x] = FREE_CLUSTER \/ \E c \in S : x \in Range(Path(fat, c))}

\* A chain contains its start, and with a cluster the one that is linked to it.
LEMMA ClosedPath ==
  ASSUME NEW fat \in Table, NEW S, Tidy(fat, S), NEW c \in S
  PROVE  /\ c \in Range(Path(fat, c)) /\ Range(Path(fat, c)) \subseteq Cluster
         /\ \A x \in Range(Path(fat, c)) : fat[x] \in Cluster => fat[x] \in Range(Path(fat, c))
         /\ \A x \in Range(Path(fat, c)) : fat[x] # FREE_CLUSTER
  <1>1. PICK p : p = Path(fat, c)
    OBVIOUS
  <1>2. IsChain(fat, p, c)
    BY <1>1, StartPath
  <1>3. p \in Seq(Cluster) /\ Len(p) \in Nat \ {0} /\ p[1] = c
    BY <1>2 DEF IsChain
  <1>4. c \in Range(p) /\ Range(p) \subseteq Cluster
    BY <1>3 DEF Range
  <1>5. ASSUME NEW x \in Range(p), fat[x] \in Cluster PROVE fat[x] \in Range(p)
    <2>1. PICK i \in 1..Len(p) : x = p[i]
      BY <1>3 DEF Range
    <2>2. i # Len(p)
      BY <1>2, <1>5, <2>1, MarksApart DEF IsChain, Mark
    <2>3. i \in 1..(Len(p) - 1) /\ i + 1 \in 1..Len(p)
      BY <1>3, <2>2
    <2>4. fat[x] = p[i + 1]
      BY <1>2, <2>1, <2>3 DEF IsChain
    <2> QED BY <1>3, <2>3, <2>4 DEF Range
  <1>6. \A x \in Range(p) : fat[x] # FREE_CLUSTER
    BY <1>2, TailSize
  <1> QED BY <1>1, <1>4, <1>5, <1>6

\* What contains the first element and with one the next contains all.
LEMMA Along ==
  ASSUME NEW R, NEW p, NEW k \in Nat, p[1] \in R,
         \A i \in 1..(k - 1) : p[i] \in R => p[i + 1] \in R
  PROVE  \A i \in 1..k : p[i] \in R
  <1> DEFINE B == {i \in 1..k : p[i] \notin R}
  <1> SUFFICES ASSUME B # {} PROVE FALSE
    OBVIOUS
  <1>1. PICK m : m = Min(B)
    OBVIOUS
  <1>2. m \in B /\ \A y \in B : m <= y
    BY <1>1, MinOf
  <1>3. m # 1 /\ m \in 1..k
    BY <1>2
  <1>4. m - 1 \in 1..(k - 1) /\ m - 1 \notin B
    BY <1>2, <1>3
  <1>5. p[m - 1] \in R
    BY <1>4
  <1>6. (m - 1) + 1 = m
    BY <1>3
  <1>7. p[m] \in R
    BY <1>4, <1>5, <1>6
  <1> QED BY <1>2, <1>7

\* The clusters by which a chain has grown are on it.
LEMMA GrownOnPath ==
  ASSUME NEW s, NEW t, NEW n \in Nat, NEW p, Grown(s, t, p, n),
         t.fat \in Table, NEW S, Tidy(t.fat, S), NEW c \in S, p[1] \in Range(Path(t.fat, c))
  PROVE  /\ Range(p) \subseteq Range(Path(t.fat, c))
         /\ \A x \in Cluster : s.fat[x] = FREE_CLUSTER =>
              t.fat[x] = FREE_CLUSTER \/ x \in Range(Path(t.fat, c))
  <1>1. PICK R : R = Range(Path(t.fat, c))
    OBVIOUS
  <1>2. \A x \in R : t.fat[x] \in Cluster => t.fat[x] \in R
    BY <1>1, ClosedPath
  <1>3. /\ p \in Seq(Cluster) /\ Len(p) = n + 1 /\ \A i \in 1..n : t.fat[p[i]] = p[i + 1]
        /\ \A x \in Cluster : x \notin Range(p) => t.fat[x] = s.fat[x]
    BY DEF Grown
  <1>4. PICK k \in Nat : k = n + 1
    OBVIOUS
  <1>5. \A i \in 1..(k - 1) : p[i] \in R => p[i + 1] \in R
    <2> SUFFICES ASSUME NEW i \in 1..(k - 1), p[i] \in R PROVE p[i + 1] \in R
      OBVIOUS
    <2>1. i \in 1..n /\ i + 1 \in 1..Len(p)
      BY <1>3, <1>4
    <2>2. t.fat[p[i]] = p[i + 1] /\ p[i + 1] \in Cluster
      BY <1>3, <2>1
    <2> QED BY <1>2, <2>2
  <1>6. \A i \in 1..k : p[i] \in R
    BY <1>1, <1>5, Along
  <1>7. Range(p) \subseteq R
    BY <1>3, <1>4, <1>6 DEF Range
  <1> QED BY <1>1, <1>3, <1>7

\* The directory takes free clusters and leaves the links of all others.
LEMMA SaveFound ==
  ASSUME NEW s, Typed(s), NEW files, Len(files) \in Nat, s.fat[Root] # FREE_CLUSTER,
         NEW r, r = save_root_folder(s, files), Up(r), Sound(r)
  PROVE  /\ \A c \in Cluster : s.fat[c] = FREE_CLUSTER \/ c = Root =>
                r.fat[c] = FREE_CLUSTER \/ c \in Range(Path(r.fat, Root))
         /\ \A c \in Cluster : c # Root /\ s.fat[c] # FREE_CLUSTER => r.fat[c] = s.fat[c]
  <1>1. PICK n \in Nat : n = ClustersFor(Len(files))
    BY OneMoreEntry
  <1>2. PICK t : t = Grow(s, Root, n)
    OBVIOUS
  <1>3. Up(s)
    BY DEF save_root_folder
  <1>4. exists_n_free_clusters(s, n)
    <2> SUFFICES ASSUME ~exists_n_free_clusters(s, n) PROVE FALSE
      OBVIOUS
    <2>1. r = [s EXCEPT !.state = "panic"]
      BY <1>1, <1>3 DEF save_root_folder, ClustersFor
    <2>2. r.state = "panic"
      BY <2>1, SetState
    <2> QED BY <2>2 DEF Up
  <1>5. r = WriteRoot(t, files)
    BY <1>1, <1>2, <1>3, <1>4 DEF save_root_folder, ClustersFor
  <1>6. Up(t)
    BY <1>5 DEF WriteRoot, WriteEntries
  <1>7. Typed(t) /\ \E p : p[1] = Root /\ Grown(s, t, p, n)
    BY <1>2, <1>6, GrowFacts, Sizes
  <1>8. PICK p : p[1] = Root /\ Grown(s, t, p, n)
    BY <1>7
  <1>9. r.fat = t.fat
    <2>1. PICK slots : slots = [i \in DOMAIN files |-> Slot(Chain(t, Root), i)]
      OBVIOUS
    <2>2. PICK disk : disk = [x \in DOMAIN t.disk |-> Directory(slots, files, x, t.disk[x])]
      OBVIOUS
    <2>3. DOMAIN disk = Disk
      BY <1>7, <2>2 DEF Typed
    <2>4. PICK u : u = [t EXCEPT !.disk = disk]
      OBVIOUS
    <2>5. Typed(u) /\ u.fat = t.fat
      BY <1>7, <2>3, <2>4, SetDisk
    <2>6. r = Checked(u)
      BY <1>5, <1>6, <2>1, <2>2, <2>4 DEF WriteRoot, WriteEntries
    <2>7. r = u
      BY <2>5, <2>6, CheckedTyped
    <2> QED BY <2>5, <2>7
  <1>10. PICK S : S = StartsOf(load_root_folder(r))
    OBVIOUS
  <1>11. Tidy(t.fat, S) /\ t.fat \in Table /\ Root \in S
    BY <1>7, <1>9, <1>10 DEF Sound, Typed, StartsOf
  <1>12. Root \in Range(Path(t.fat, Root))
    BY <1>11, ClosedPath
  <1>13. \A x \in Cluster : s.fat[x] = FREE_CLUSTER =>
           t.fat[x] = FREE_CLUSTER \/ x \in Range(Path(t.fat, Root))
    BY <1>8, <1>11, <1>12, GrownOnPath
  <1>14. ASSUME NEW c \in Cluster, c # Root, s.fat[c] # FREE_CLUSTER PROVE t.fat[c] = s.fat[c]
    <2>1. n \in Nat /\ p[1] = Root /\ Grown(s, t, p, n)
      BY <1>1, <1>8
    <2>2. c # p[1]
      BY <1>14, <2>1
    <2> QED BY <1>14, <2>1, <2>2 DEF Grown, Range
  <1> QED BY <1>9, <1>12, <1>13, <1>14

\* A step of the kernel that is up has begun with a kernel that is up.
LEMMA RestoreUp ==
  ASSUME NEW s, Typed(s), NEW files, Up(Restore(s, files))
  PROVE  Up(s)
  BY FreeAllTyped DEF Restore, save_root_folder

\* Freeing the directory's chain and writing it anew loses no cluster.
LEMMA RestoreFound ==
  ASSUME NEW s, Typed(s), NEW files, GoodFiles(files),
         Tidy(s.fat, StartsOf(files)), Filled(s.fat, StartsOf(files)),
         NEW r, r = Restore(s, files), Up(r)
  PROVE  /\ Accounted(s.fat, StartsOf(files)) \subseteq Accounted(r.fat, StartsOf(files))
         /\ load_root_folder(r) = files /\ Sound(r)
         /\ \A c \in Cluster : c \notin Range(Path(s.fat, Root)) /\ s.fat[c] # FREE_CLUSTER
                               => r.fat[c] = s.fat[c]
  <1>1. PICK S, p, R, u : /\ S = StartsOf(files) /\ p = Path(s.fat, Root) /\ R = Range(Tail(p))
                          /\ u = free_all_occupied_clusters(s, Root)
    OBVIOUS
  <1>2. /\ Root \in S /\ Tidy(s.fat, S) /\ s.fat \in Table /\ s.fat[Root] \in Cluster
    BY <1>1 DEF StartsOf, Typed, Filled
  <1>3. Sound(r) /\ load_root_folder(r) = files
    BY RestoreSound DEF Good
  <1>4. u = Free(s, R)
    BY <1>1, <1>2, FreeAll
  <1>5. Typed(u) /\ \A c \in Cluster : u.fat[c] = IF c \in R THEN FREE_CLUSTER ELSE s.fat[c]
    BY <1>4, FreeFacts
  <1>6. IsChain(s.fat, p, Root)
    BY <1>1, <1>2, StartPath
  <1>7. Range(p) = {Root} \union R /\ Root \notin R
    BY <1>1, <1>2, <1>6, Sizes, TailOfPath
  <1>8. Root \in Cluster /\ u.fat[Root] # FREE_CLUSTER
    BY <1>2, <1>5, <1>7, Sizes DEF Tidy
  <1>9. r = save_root_folder(u, files) /\ Len(files) \in Nat
    <2>1. Len(files) \in Nat
      BY DEF GoodFiles
    <2> QED BY <1>1, <2>1 DEF Restore
  <1>10. /\ \A c \in Cluster : u.fat[c] = FREE_CLUSTER \/ c = Root =>
                r.fat[c] = FREE_CLUSTER \/ c \in Range(Path(r.fat, Root))
         /\ \A c \in Cluster : c # Root /\ u.fat[c] # FREE_CLUSTER => r.fat[c] = u.fat[c]
    BY <1>3, <1>5, <1>8, <1>9, SaveFound
  <1>11. \A c \in Cluster : c \notin Range(p) /\ s.fat[c] # FREE_CLUSTER => r.fat[c] = s.fat[c]
    BY <1>5, <1>7, <1>10
  <1>12. ASSUME NEW x \in Accounted(s.fat, S) PROVE x \in Accounted(r.fat, S)
    <2>1. x \in Cluster
      BY <1>12 DEF Accounted
    <2>2. CASE s.fat[x] = FREE_CLUSTER \/ x \in Range(p)
      <3>1. u.fat[x] = FREE_CLUSTER \/ x = Root
        BY <1>5, <1>7, <2>1, <2>2
      <3> QED BY <1>2, <1>10, <2>1, <3>1 DEF Accounted
    <2>3. CASE s.fat[x] # FREE_CLUSTER /\ x \notin Range(p)
      <3>1. PICK d \in S : x \in Range(Path(s.fat, d))
        BY <1>12, <2>3 DEF Accounted
      <3>2. d # Root /\ d \in Cluster
        BY <1>1, <1>2, <2>3, <3>1 DEF Tidy
      <3>3. PICK q : q = Path(s.fat, d)
        OBVIOUS
      <3>4. IsChain(s.fat, q, d) /\ Range(q) \intersect Range(p) = {}
        BY <1>1, <1>2, <3>1, <3>2, <3>3, StartPath, PathsApart
      <3>5. \A y \in Range(q) : y \in Cluster /\ s.fat[y] # FREE_CLUSTER
        BY <3>4, TailSize
      <3>6. \A y \in Range(q) : r.fat[y] = s.fat[y]
        BY <1>11, <3>4, <3>5
      <3>7. Path(r.fat, d) = q
        BY <3>2, <3>3, <3>4, <3>6, SameChain
      <3> QED BY <2>1, <3>1, <3>3, <3>7 DEF Accounted
    <2> QED BY <2>2, <2>3
  <1> QED BY <1>1, <1>3, <1>11, <1>12

\* From s to t no cluster is lost.
LosesNone(s, t) ==
  Accounted(s.fat, StartsOf(load_root_folder(s))) \subseteq Accounted(t.fat, StartsOf(load_root_folder(t)))

-----------------------------------------------------------------------------
(* Entries change, come and go *)

\* The first entry of a name is the one.
LEMMA IndexIs ==
  ASSUME NEW files, NEW f, \E i \in DOMAIN files : files[i].name = f
  PROVE  Index(files, f) \in DOMAIN files /\ files[Index(files, f)].name = f
  BY DEF Index

\* Another entry for the same file, with another size or other flags.
LEMMA ChangedEntry ==
  ASSUME NEW files, GoodFiles(files), NEW i \in DOMAIN files, NEW e \in Entry,
         e.name = files[i].name, e.start = files[i].start
  PROVE  /\ GoodFiles([files EXCEPT ![i] = e])
         /\ StartsOf([files EXCEPT ![i] = e]) = StartsOf(files)
  <1>1. PICK new : new = [files EXCEPT ![i] = e]
    OBVIOUS
  <1>2. files \in Seq(Entry)
    BY DEF GoodFiles
  <1>3. new \in Seq(Entry) /\ DOMAIN new = DOMAIN files
    BY <1>1, <1>2
  <1>4. \A j \in DOMAIN files : new[j].name = files[j].name /\ new[j].start = files[j].start
    <2> SUFFICES ASSUME NEW j \in DOMAIN files
                 PROVE  new[j].name = files[j].name /\ new[j].start = files[j].start
      OBVIOUS
    <2>1. new[j] = IF j = i THEN e ELSE files[j]
      BY <1>1, <1>2
    <2> QED BY <2>1
  <1>5. GoodFiles(new)
    BY <1>3, <1>4 DEF GoodFiles
  <1>6. StartsOf(new) = StartsOf(files)
    BY <1>3, <1>4 DEF StartsOf
  <1> QED BY <1>1, <1>5, <1>6

\* A file that exists has a name, a start and a cluster for data.
LEMMA FileIs ==
  ASSUME NEW s, Sound(s), NEW f, exists_file(s, f)
  PROVE  /\ Index(load_root_folder(s), f) \in DOMAIN load_root_folder(s)
         /\ get_file(s, f) = load_root_folder(s)[Index(load_root_folder(s), f)]
         /\ get_file(s, f) \in Entry /\ get_file(s, f).name = f /\ f \in File
         /\ get_file(s, f).start \in StartsOf(load_root_folder(s)) /\ get_file(s, f).start # Root
         /\ get_file(s, f).start \in Cluster /\ s.fat[get_file(s, f).start] \in Cluster
         /\ get_file(s, f).size \in Nat
  <1>1. PICK files, k : files = load_root_folder(s) /\ k = Index(files, f)
    OBVIOUS
  <1>2. files \in Seq(Entry) /\ GoodFiles(files)
    BY <1>1 DEF Sound, GoodFiles
  <1>3. \E i \in DOMAIN files : files[i].name = f
    BY <1>1 DEF exists_file, Range
  <1>4. k \in DOMAIN files /\ files[k].name = f
    BY <1>1, <1>3, IndexIs
  <1>5. get_file(s, f) = files[k]
    BY <1>1 DEF get_file
  <1>6. files[k] \in Entry
    BY <1>2, <1>4
  <1>7. files[k].start \in Cluster /\ files[k].size \in Nat /\ f \in File
    BY <1>4, <1>6 DEF Entry
  <1>8. files[k].start \in StartsOf(files) /\ files[k].start # Root
    BY <1>2, <1>4 DEF StartsOf, GoodFiles
  <1>9. s.fat[files[k].start] \in Cluster
    BY <1>1, <1>8 DEF Sound, Filled
  <1> QED BY <1>1, <1>4, <1>5, <1>6, <1>7, <1>8, <1>9

\* No file disappears.
Keeps(s, t) ==
  /\ Len(load_root_folder(t)) = Len(load_root_folder(s))
  /\ \A f \in File : exists_file(s, f) => exists_file(t, f)

\* One file more at most.
Gains(s, t) ==
  /\ Len(load_root_folder(t)) <= Len(load_root_folder(s)) + 1
  /\ \A f \in File : exists_file(s, f) => exists_file(t, f)
EntryFits(s, f) == exists_file(s, f) \/ RoomFor(Len(load_root_folder(s)) + 1)

LEMMA UpdateSound ==
  ASSUME NEW s, Good(s), NEW f, NEW e,
         Up(s) => /\ exists_file(s, f) /\ e \in Entry
                  /\ e.name = f /\ e.start = get_file(s, f).start
  PROVE  /\ Good(Update(s, e))
         /\ Up(Update(s, e)) =>
              /\ Up(s) /\ Keeps(s, Update(s, e))
              /\ StartsOf(load_root_folder(Update(s, e))) = StartsOf(load_root_folder(s))
  <1>1. PICK files : files = load_root_folder(s)
    OBVIOUS
  <1>2. PICK k : k = Index(files, e.name)
    OBVIOUS
  <1>3. PICK new : new = [files EXCEPT ![k] = e]
    OBVIOUS
  <1>4. PICK r : r = Update(s, e)
    OBVIOUS
  <1>5. r = Restore(s, new)
    BY <1>1, <1>2, <1>3, <1>4 DEF Update
  <1>6. Typed(s)
    BY DEF Good
  <1>7. ASSUME Up(s)
        PROVE  /\ GoodFiles(new) /\ StartsOf(new) = StartsOf(files) /\ DOMAIN new = DOMAIN files
               /\ \A i \in DOMAIN files : new[i].name = files[i].name
               /\ Tidy(s.fat, StartsOf(files)) /\ Filled(s.fat, StartsOf(files))
    <2>1. Sound(s)
      BY <1>7 DEF Good
    <2>2. GoodFiles(files) /\ Tidy(s.fat, StartsOf(files)) /\ Filled(s.fat, StartsOf(files))
      BY <1>1, <2>1 DEF Sound
    <2>3. k \in DOMAIN files /\ files[k].name = f /\ files[k] = get_file(s, f)
      BY <1>1, <1>2, <1>7, <2>1, FileIs
    <2>4. GoodFiles(new) /\ StartsOf(new) = StartsOf(files)
      BY <1>3, <1>7, <2>2, <2>3, ChangedEntry, ZenonT(30)
    <2>5. DOMAIN new = DOMAIN files /\ \A i \in DOMAIN files : new[i].name = files[i].name
      <3>1. files \in Seq(Entry)
        BY <2>2 DEF GoodFiles
      <3> QED BY <1>3, <1>7, <2>3, <3>1
    <2> QED BY <2>2, <2>4, <2>5
  <1>8. Good(r) /\ (Up(r) => Up(s) /\ load_root_folder(r) = new)
    BY <1>5, <1>6, <1>7, RestoreSound
  <1>9. ASSUME Up(r) PROVE Keeps(s, r)
    <2>1. Up(s) /\ load_root_folder(r) = new
      BY <1>8, <1>9
    <2>2. ASSUME NEW g \in File, exists_file(s, g) PROVE exists_file(r, g)
      <3>1. PICK i \in DOMAIN files : files[i].name = g
        BY <1>1, <2>2 DEF exists_file, Range
      <3>2. i \in DOMAIN new /\ new[i].name = g
        BY <1>7, <2>1, <3>1
      <3> QED BY <2>1, <3>2 DEF exists_file, Range
    <2>3. Len(load_root_folder(r)) = Len(files)
      <3>1. files \in Seq(Entry)
        BY <1>1, <1>8, <1>9 DEF Good, Sound, GoodFiles
      <3> QED BY <1>3, <2>1, <3>1
    <2> QED BY <1>1, <2>2, <2>3 DEF Keeps
  <1> QED BY <1>1, <1>4, <1>7, <1>8, <1>9

\* One change of an entry is another entry.
LEMMA EntryChanges ==
  ASSUME NEW e \in Entry, NEW n \in Nat, NEW b \in BOOLEAN
  PROVE  /\ [e EXCEPT !.size = n] \in Entry /\ [e EXCEPT !.size = n].name = e.name
         /\ [e EXCEPT !.size = n].start = e.start
         /\ [e EXCEPT !.open = b] \in Entry /\ [e EXCEPT !.open = b].name = e.name
         /\ [e EXCEPT !.open = b].start = e.start
         /\ [e EXCEPT !.system = b] \in Entry /\ [e EXCEPT !.system = b].name = e.name
         /\ [e EXCEPT !.system = b].start = e.start
  BY DEF Entry

\* From s to t one cluster is lost at most.
LosesOne(s, t) ==
  \E z : Accounted(s.fat, StartsOf(load_root_folder(s))) \ {z}
           \subseteq Accounted(t.fat, StartsOf(load_root_folder(t)))

\* The same for a changed entry.
LEMMA UpdateFound ==
  ASSUME NEW s, Sound(s), NEW f, NEW e,
         exists_file(s, f), e \in Entry, e.name = f, e.start = get_file(s, f).start,
         NEW r, r = Update(s, e), Up(r)
  PROVE  /\ LosesNone(s, r) /\ Sound(r)
         /\ exists_file(r, f) /\ get_file(r, f) = e
         /\ \A c \in Cluster : c \notin Range(Path(s.fat, Root)) /\ s.fat[c] # FREE_CLUSTER
                               => r.fat[c] = s.fat[c]
  <1>1. PICK files, k, new : /\ files = load_root_folder(s) /\ k = Index(files, f)
                             /\ new = [files EXCEPT ![k] = e]
    OBVIOUS
  <1>2. /\ Typed(s) /\ GoodFiles(files) /\ Tidy(s.fat, StartsOf(files)) /\ Filled(s.fat, StartsOf(files))
    BY <1>1 DEF Sound
  <1>3. k \in DOMAIN files /\ get_file(s, f) = files[k] /\ files[k].name = f
    BY <1>1, FileIs
  <1>4. GoodFiles(new) /\ StartsOf(new) = StartsOf(files)
    <2>1. e.name = files[k].name /\ e.start = files[k].start
      BY <1>3
    <2> QED BY <1>1, <1>2, <1>3, <2>1, ChangedEntry, ZenonT(30)
  <1>5. r = Restore(s, new)
    BY <1>1 DEF Update
  <1>6. /\ Accounted(s.fat, StartsOf(new)) \subseteq Accounted(r.fat, StartsOf(new))
        /\ load_root_folder(r) = new /\ Sound(r)
        /\ \A c \in Cluster : c \notin Range(Path(s.fat, Root)) /\ s.fat[c] # FREE_CLUSTER
                              => r.fat[c] = s.fat[c]
    BY <1>2, <1>4, <1>5, RestoreFound
  <1>7. LosesNone(s, r)
    BY <1>1, <1>4, <1>6 DEF LosesNone
  <1>8. k \in DOMAIN new /\ new[k] = e
    BY <1>1, <1>3
  <1>9. exists_file(r, f)
    BY <1>6, <1>8 DEF exists_file, Range
  <1>10. get_file(r, f) = e
    <2>1. PICK j : j = Index(new, f)
      OBVIOUS
    <2>2. j \in DOMAIN new /\ new[j].name = f
      BY <1>8, <2>1, IndexIs
    <2>3. j = k
      BY <1>4, <1>8, <2>2 DEF GoodFiles
    <2> QED BY <1>6, <1>8, <2>1, <2>3 DEF get_file
  <1> QED BY <1>6, <1>7, <1>9, <1>10

\* A new file takes the lowest free cluster (vfs.cpp:379).
LEMMA CreateSound ==
  ASSUME NEW s, Sound(s), NEW f \in File, ~exists_file(s, f), EntryFits(s, f)
  PROVE  /\ Good(create_file(s, f))
         /\ Up(create_file(s, f)) =>
              /\ Gains(s, create_file(s, f))
              /\ \/ load_root_folder(create_file(s, f)) = load_root_folder(s)
                 \/ \E e : /\ e.name = f
                           /\ load_root_folder(create_file(s, f)) = Append(load_root_folder(s), e)
              /\ LosesNone(s, create_file(s, f))
              /\ exists_file(create_file(s, f), f) =>
                   LET r == create_file(s, f)
                   IN  r.fat[r.fat[get_file(r, f).start]] = EOF_CLUSTER
  <1>1. PICK files, S : files = load_root_folder(s) /\ S = StartsOf(files)
    OBVIOUS
  <1>2. /\ Typed(s) /\ Up(s) /\ GoodFiles(files) /\ Tidy(s.fat, S) /\ Filled(s.fat, S)
        /\ files \in Seq(Entry)
    BY <1>1 DEF Sound, GoodFiles
  <1>3. PICK r : r = create_file(s, f)
    OBVIOUS
  <1>4. CASE ~exists_n_free_clusters(s, 2)
    <2>1. r = Restore(s, files)
      BY <1>1, <1>3, <1>4 DEF create_file
    <2>2. Good(r) /\ (Up(r) => load_root_folder(r) = files)
      BY <1>1, <1>2, <2>1, RestoreSound
    <2>3. Up(r) => Gains(s, r) /\ ~exists_file(r, f)
      <3>1. Len(files) \in Nat
        BY <1>2
      <3> QED BY <1>1, <2>2, <3>1 DEF Gains, exists_file
    <2>4. Up(r) => LosesNone(s, r)
      <3>1. Up(r) => Accounted(s.fat, StartsOf(files)) \subseteq Accounted(r.fat, StartsOf(files))
        BY <1>1, <1>2, <2>1, RestoreFound
      <3> QED BY <1>1, <2>2, <3>1 DEF LosesNone
    <2> QED BY <1>1, <1>3, <2>2, <2>3, <2>4
  <1>5. CASE exists_n_free_clusters(s, 2) /\ FreeClusters(s) # {}
    <2>1. PICK c : c = Min(FreeClusters(s))
      OBVIOUS
    <2>2. c \in FreeClusters(s)
      <3>1. FreeClusters(s) # {}
        BY <1>5
      <3>2. FreeClusters(s) \subseteq Nat
        BY Sizes DEF FreeClusters
      <3> QED BY <2>1, <3>1, <3>2, MinOf
    <2>3. c \in Cluster /\ s.fat[c] = FREE_CLUSTER /\ s.fat \in Table
      BY <1>2, <2>2 DEF FreeClusters, Typed
    <2>4. PICK t0 : t0 = [s EXCEPT !.fat[c] = TAKEN_CLUSTER]
      OBVIOUS
    <2>5. /\ Typed(t0) /\ t0.state = s.state
          /\ \A x \in Cluster : t0.fat[x] = IF x = c THEN TAKEN_CLUSTER ELSE s.fat[x]
      <3>1. TAKEN_CLUSTER \in Cluster \union Mark
        BY DEF Mark
      <3>2. PICK link : link = [s.fat EXCEPT ![c] = TAKEN_CLUSTER]
        OBVIOUS
      <3>3. t0 = [s EXCEPT !.fat = link]
        BY <2>4, <3>2
      <3>4. link \in Table /\ \A x \in Cluster : link[x] = IF x = c THEN TAKEN_CLUSTER ELSE s.fat[x]
        BY <2>3, <3>1, <3>2 DEF Table
      <3> QED BY <1>2, <3>3, <3>4, SetFat
    <2>6. PICK t : t = Grow(t0, c, 1)
      OBVIOUS
    <2>7. t0.fat[c] # FREE_CLUSTER
      BY <2>3, <2>5, MarksApart
    <2>8. Typed(t) /\ (Up(t) => \E p : p[1] = c /\ Grown(t0, t, p, 1))
      BY <2>3, <2>5, <2>6, <2>7, GrowFacts
    <2>9. PICK e : e = [name |-> f, start |-> c, size |-> 0, open |-> FALSE, system |-> FALSE]
      OBVIOUS
    <2>10. PICK new : new = Append(files, e)
      OBVIOUS
    <2>11. r = Restore(t, new)
      BY <1>1, <1>3, <1>5, <2>1, <2>4, <2>6, <2>9, <2>10 DEF create_file
    <2>12. First(s.fat, c)
      BY <1>2, <2>3 DEF First, Tidy
    <2>13. c \notin S /\ Root \in S
      BY <1>1, <1>2, <2>3 DEF Tidy, StartsOf
    <2>14. e \in Entry /\ e.name = f /\ e.start = c
      BY <2>3, <2>9 DEF Entry
    <2>15. /\ new \in Seq(Entry) /\ Len(new) = Len(files) + 1 /\ Len(files) \in Nat
           /\ \A i \in 1..Len(files) : new[i] = files[i]
           /\ new[Len(files) + 1] = e
      BY <1>2, <2>10, <2>14
    <2>16. /\ DOMAIN files = 1..Len(files) /\ DOMAIN new = 1..(Len(files) + 1)
           /\ \A i \in DOMAIN new : i \in DOMAIN files \/ i = Len(files) + 1
           /\ DOMAIN files \subseteq DOMAIN new /\ Len(files) + 1 \in DOMAIN new
      BY <1>2, <2>15
    <2>17. \A i \in DOMAIN files : files[i].name # f /\ files[i].start # c
      <3>1. \A i \in DOMAIN files : files[i].name # f
        BY <1>1 DEF exists_file, Range
      <3>2. \A i \in DOMAIN files : files[i].start \in S
        BY <1>1 DEF StartsOf
      <3> QED BY <2>13, <3>1, <3>2
    <2>18. GoodFiles(new)
      <3>1. \A i \in DOMAIN new : new[i].start # Root
        <4>1. c # Root
          BY <2>13
        <4> QED BY <1>2, <2>14, <2>15, <2>16, <4>1 DEF GoodFiles
      <3>2. ASSUME NEW i \in DOMAIN new, NEW j \in DOMAIN new, i # j
            PROVE  new[i].name # new[j].name /\ new[i].start # new[j].start
        <4>1. CASE i \in DOMAIN files /\ j \in DOMAIN files
          BY <1>2, <2>15, <2>16, <3>2, <4>1 DEF GoodFiles
        <4>2. CASE i = Len(files) + 1
          BY <2>14, <2>15, <2>16, <2>17, <3>2, <4>2
        <4>3. CASE j = Len(files) + 1
          BY <2>14, <2>15, <2>16, <2>17, <3>2, <4>3
        <4> QED BY <2>16, <4>1, <4>2, <4>3
      <3>3. RoomFor(Len(new))
        BY <1>1, <2>15 DEF EntryFits
      <3> QED BY <2>15, <3>1, <3>2, <3>3 DEF GoodFiles
    <2>19. StartsOf(new) = S \union {c}
      <3>1. \A i \in DOMAIN new : new[i].start \in S \union {c}
        <4>1. \A i \in DOMAIN files : files[i].start \in S
          BY <1>1 DEF StartsOf
        <4> QED BY <2>14, <2>15, <2>16, <4>1
      <3>2. \A x \in S \union {c} : x = Root \/ \E i \in DOMAIN new : x = new[i].start
        <4>1. \A x \in S : x = Root \/ \E i \in DOMAIN files : x = files[i].start
          BY <1>1 DEF StartsOf
        <4> QED BY <2>14, <2>15, <2>16, <4>1
      <3>3. StartsOf(new) \subseteq S \union {c}
        BY <2>13, <3>1 DEF StartsOf
      <3>4. S \union {c} \subseteq StartsOf(new)
        BY <3>2 DEF StartsOf
      <3> QED BY <3>3, <3>4
    <2>20. PICK cut : cut = [s.fat EXCEPT ![c] = EOF_CLUSTER]
      OBVIOUS
    <2>21. cut \in Table /\ \A x \in Cluster : cut[x] = IF x = c THEN EOF_CLUSTER ELSE s.fat[x]
      BY <2>3, <2>20 DEF Table, Mark
    <2>22. Tidy(cut, S \union {c})
      <3>1. PICK R, E, U : R = {} /\ E = {c} /\ U = S \union {c}
        OBVIOUS
      <3>2. \A x \in Cluster : cut[x] = IF x \in R THEN FREE_CLUSTER
                                        ELSE IF x \in E THEN EOF_CLUSTER ELSE s.fat[x]
        BY <2>21, <3>1
      <3>3. \A x \in U : x \in Cluster /\ cut[x] # FREE_CLUSTER /\ First(s.fat, x)
        <4>1. EOF_CLUSTER # FREE_CLUSTER
          BY MarksApart
        <4> QED BY <1>2, <2>3, <2>12, <2>21, <3>1, <4>1 DEF Tidy
      <3>4. \A x \in Cluster : s.fat[x] \in R => x \in R \union E
        BY <3>1
      <3>5. Tidy(cut, U)
        BY <1>2, <2>3, <2>21, <3>2, <3>3, <3>4, Release
      <3> QED BY <3>1, <3>5
    <2>23. ASSUME Up(t) PROVE Tidy(t.fat, StartsOf(new)) /\ Filled(t.fat, StartsOf(new))
      <3>1. PICK p : p[1] = c /\ Grown(t0, t, p, 1)
        BY <2>8, <2>23
      <3>2. \A x \in Cluster : cut[x] = IF x = c THEN EOF_CLUSTER ELSE t0.fat[x]
        BY <2>5, <2>21
      <3>3. 1 \in Nat /\ 1 > 0
        OBVIOUS
      <3>4. /\ Tidy(t.fat, S \union {c}) /\ t.fat[c] \in Cluster
            /\ \A x \in Cluster : x # c /\ t0.fat[x] # FREE_CLUSTER => t.fat[x] = t0.fat[x]
        BY <2>3, <2>5, <2>8, <2>21, <2>22, <3>1, <3>2, <3>3, GrowTidy
      <3>5. ASSUME NEW x \in S PROVE t.fat[x] \in Cluster
        <4>1. x \in Cluster /\ s.fat[x] \in Cluster /\ x # c
          BY <1>2, <2>13 DEF Filled, Tidy
        <4>2. t0.fat[x] = s.fat[x] /\ s.fat[x] # FREE_CLUSTER
          BY <2>5, <4>1, MarksApart DEF Mark
        <4> QED BY <3>4, <4>1, <4>2
      <3> QED BY <2>19, <3>4, <3>5 DEF Filled
    <2>24. Good(r) /\ (Up(r) => load_root_folder(r) = new)
      BY <2>8, <2>11, <2>18, <2>23, RestoreSound
    <2>25. ASSUME Up(r) PROVE Gains(s, r)
      <3>1. ASSUME NEW g \in File, exists_file(s, g) PROVE exists_file(r, g)
        <4>1. PICK i \in DOMAIN files : files[i].name = g
          BY <1>1, <3>1 DEF exists_file, Range
        <4>2. i \in DOMAIN new /\ new[i].name = g
          BY <2>15, <2>16, <4>1
        <4> QED BY <2>24, <2>25, <4>2 DEF exists_file, Range
      <3>2. Len(load_root_folder(r)) <= Len(files) + 1
        BY <2>15, <2>24, <2>25
      <3> QED BY <1>1, <3>1, <3>2 DEF Gains
    <2>26. Up(r) => \E d : d.name = f /\ load_root_folder(r) = Append(load_root_folder(s), d)
      BY <1>1, <2>10, <2>14, <2>24
    <2>27. ASSUME Up(r)
           PROVE  LosesNone(s, r) /\ r.fat[r.fat[get_file(r, f).start]] = EOF_CLUSTER
      <3>1. Up(t)
        BY <2>8, <2>11, <2>18, <2>27, RestoreUp
      <3>2. PICK p : p[1] = c /\ Grown(t0, t, p, 1)
        BY <2>8, <3>1
      <3>3. Tidy(t.fat, S \union {c}) /\ Filled(t.fat, S \union {c}) /\ t.fat \in Table
        BY <2>8, <2>19, <2>23, <3>1 DEF Typed
      <3>4. /\ Accounted(t.fat, StartsOf(new)) \subseteq Accounted(r.fat, StartsOf(new))
            /\ load_root_folder(r) = new /\ Sound(r)
            /\ \A x \in Cluster : x \notin Range(Path(t.fat, Root)) /\ t.fat[x] # FREE_CLUSTER
                                  => r.fat[x] = t.fat[x]
        BY <2>8, <2>11, <2>18, <2>19, <2>27, <3>3, RestoreFound
      <3>5. \A x \in Cluster : s.fat[x] # FREE_CLUSTER => t.fat[x] = s.fat[x]
        <4>1. \A x \in Cluster : x # p[1] /\ t0.fat[x] # FREE_CLUSTER => t.fat[x] = t0.fat[x]
          <5>1. PICK m \in Nat : m = 1
            OBVIOUS
          <5>2. Grown(t0, t, p, m) /\ t0.fat[p[1]] # FREE_CLUSTER
            BY <2>7, <3>2, <5>1
          <5>3. /\ Spare(t) + m >= Spare(t0)
                /\ \A x \in Cluster : x # p[1] /\ t0.fat[x] # FREE_CLUSTER => t.fat[x] = t0.fat[x]
            BY <5>2, GrownSpare, Z3
          <5> QED BY <5>3
        <4> QED BY <2>3, <2>5, <3>2, <4>1
      <3>6. c \in Range(Path(t.fat, c)) /\ c \in S \union {c}
        BY <3>3, ClosedPath
      <3>7. \A x \in Cluster : t0.fat[x] = FREE_CLUSTER =>
              t.fat[x] = FREE_CLUSTER \/ x \in Range(Path(t.fat, c))
        BY <3>2, <3>3, <3>6, GrownOnPath
      <3>8. Accounted(s.fat, S) \subseteq Accounted(t.fat, S \union {c})
        <4> SUFFICES ASSUME NEW x \in Accounted(s.fat, S) PROVE x \in Accounted(t.fat, S \union {c})
          OBVIOUS
        <4>1. x \in Cluster
          BY DEF Accounted
        <4>2. CASE s.fat[x] = FREE_CLUSTER
          <5>1. x = c \/ t0.fat[x] = FREE_CLUSTER
            BY <2>5, <4>1, <4>2
          <5> QED BY <3>6, <3>7, <4>1, <5>1 DEF Accounted
        <4>3. CASE s.fat[x] # FREE_CLUSTER
          <5>1. PICK d \in S : x \in Range(Path(s.fat, d))
            BY <4>3 DEF Accounted
          <5>2. d \in Cluster /\ IsChain(s.fat, Path(s.fat, d), d)
            BY <1>2, <2>3, StartPath DEF Tidy
          <5>3. \A y \in Range(Path(s.fat, d)) : t.fat[y] = s.fat[y]
            BY <3>5, <5>2, TailSize
          <5>4. Path(t.fat, d) = Path(s.fat, d)
            BY <5>2, <5>3, SameChain
          <5> QED BY <4>1, <5>1, <5>4 DEF Accounted
        <4> QED BY <4>2, <4>3
      <3>9. LosesNone(s, r)
        BY <1>1, <2>19, <3>4, <3>8 DEF LosesNone
      <3>10. get_file(r, f) = e
        <4>1. Len(files) + 1 \in DOMAIN new /\ new[Len(files) + 1].name = f
          BY <2>14, <2>15, <2>16
        <4>2. Index(new, f) \in DOMAIN new /\ new[Index(new, f)].name = f
          BY <4>1, IndexIs
        <4>3. Index(new, f) = Len(files) + 1
          BY <2>18, <4>1, <4>2 DEF GoodFiles
        <4> QED BY <2>15, <3>4, <4>3 DEF get_file
      <3>11. t.fat[c] = p[2] /\ t.fat[p[2]] = EOF_CLUSTER /\ c \in Cluster /\ p[2] \in Cluster
        <4>1. 1 \in 1..1 /\ p \in Seq(Cluster) /\ Len(p) = 1 + 1 /\ 2 \in 1..Len(p)
          BY <3>2 DEF Grown
        <4>2. t.fat[p[1]] = p[1 + 1] /\ t.fat[p[1 + 1]] = EOF_CLUSTER
          BY <3>2, <4>1 DEF Grown
        <4>3. t.fat[p[1]] = p[2] /\ t.fat[p[2]] = EOF_CLUSTER
          BY <4>2
        <4>4. p[1] \in Cluster /\ p[2] \in Cluster
          <5>1. Len(p) = 2
            BY <4>1
          <5>2. p \in Seq(Cluster)
            BY <4>1
          <5>3. \A i \in 1..Len(p) : p[i] \in Cluster
            BY <5>2
          <5>4. 1 \in 1..Len(p) /\ 2 \in 1..Len(p)
            BY <5>1
          <5> QED BY <5>3, <5>4
        <4>5. p[1] = c
          BY <3>2
        <4> QED BY <4>3, <4>4, <4>5
      <3>12. c \notin Range(Path(t.fat, Root)) /\ p[2] \notin Range(Path(t.fat, Root))
        <4>1. Range(Path(t.fat, c)) \intersect Range(Path(t.fat, Root)) = {}
          BY <2>13, <3>3, <3>6, PathsApart
        <4>2. p[2] \in Range(Path(t.fat, c))
          BY <3>3, <3>6, <3>11, ClosedPath
        <4> QED BY <3>6, <4>1, <4>2
      <3>13. r.fat[c] = p[2] /\ r.fat[p[2]] = EOF_CLUSTER
        <4>1. t.fat[c] # FREE_CLUSTER /\ t.fat[p[2]] # FREE_CLUSTER
          BY <3>11, MarksApart DEF Mark
        <4> QED BY <3>4, <3>11, <3>12, <4>1
      <3> QED BY <2>14, <3>9, <3>10, <3>13
    <2> QED BY <1>3, <2>24, <2>25, <2>26, <2>27
  <1>6. CASE exists_n_free_clusters(s, 2) /\ FreeClusters(s) = {}
    <2>1. r = [s EXCEPT !.state = "undefined"]
      BY <1>3, <1>6 DEF create_file
    <2>2. Good(r) /\ ~Up(r)
      BY <1>2, <2>1, SetState DEF Good, Up
    <2> QED BY <1>3, <2>2
  <1> QED BY <1>4, <1>5, <1>6

\* The file, if there is one, has one cluster for data.
OneCluster(s, f) == exists_file(s, f) => s.fat[s.fat[get_file(s, f).start]] = EOF_CLUSTER

LEMMA TouchSound ==
  ASSUME NEW s, Good(s), NEW f \in File, Up(s), EntryFits(s, f)
  PROVE  /\ Good(touch(s, f))
         /\ Up(touch(s, f)) =>
              /\ Gains(s, touch(s, f)) /\ LosesNone(s, touch(s, f))
              /\ ~exists_file(s, f) => OneCluster(touch(s, f), f)
  <1>1. CASE exists_file(s, f)
    <2>1. Len(load_root_folder(s)) \in Nat
      BY DEF Good, Sound, GoodFiles
    <2> QED BY <1>1, <2>1 DEF touch, Gains, LosesNone
  <1>2. CASE ~exists_file(s, f)
    BY <1>2, CreateSound DEF touch, Good, OneCluster
  <1> QED BY <1>1, <1>2

\* The directory without one of its entries.
LEMMA RemovedEntry ==
  ASSUME NEW files, GoodFiles(files), NEW k \in DOMAIN files
  PROVE  /\ GoodFiles(RemoveAt(files, k))
         /\ Len(files) \in Nat \ {0} /\ Len(RemoveAt(files, k)) = Len(files) - 1
         /\ StartsOf(RemoveAt(files, k)) = StartsOf(files) \ {files[k].start}
         /\ \A j \in DOMAIN files : j # k =>
              \E i \in DOMAIN RemoveAt(files, k) : RemoveAt(files, k)[i] = files[j]
         /\ \A i \in DOMAIN RemoveAt(files, k) : RemoveAt(files, k)[i].name # files[k].name
  <1>1. PICK new, n : new = RemoveAt(files, k) /\ n = Len(files)
    OBVIOUS
  <1>2. files \in Seq(Entry) /\ n \in Nat /\ DOMAIN files = 1..n /\ k \in 1..n
    BY <1>1 DEF GoodFiles
  <1>3. /\ new \in Seq(Entry) /\ Len(new) = n - 1
        /\ \A i \in 1..(n - 1) : new[i] = IF i < k THEN files[i] ELSE files[i + 1]
    BY <1>1, <1>2, RemoveAtEntries
  <1>4. DOMAIN new = 1..(n - 1)
    BY <1>2, <1>3
  <1>5. PICK o : o = [i \in 1..(n - 1) |-> IF i < k THEN i ELSE i + 1]
    OBVIOUS
  <1>6. \A i \in 1..(n - 1) : o[i] \in 1..n /\ o[i] # k /\ new[i] = files[o[i]]
    BY <1>2, <1>3, <1>5
  <1>7. \A i, j \in 1..(n - 1) : i # j => o[i] # o[j]
    BY <1>2, <1>5
  <1>8. ASSUME NEW j \in 1..n, j # k PROVE \E i \in 1..(n - 1) : new[i] = files[j]
    <2>1. PICK i : i = IF j < k THEN j ELSE j - 1
      OBVIOUS
    <2>2. i \in 1..(n - 1) /\ o[i] = j
      BY <1>2, <1>5, <1>8, <2>1
    <2> QED BY <1>6, <2>2
  <1>9. GoodFiles(new)
    <2>1. \A i \in 1..(n - 1) : new[i].start # Root
      BY <1>2, <1>6 DEF GoodFiles
    <2>2. ASSUME NEW i \in 1..(n - 1), NEW j \in 1..(n - 1), i # j
          PROVE  new[i].name # new[j].name /\ new[i].start # new[j].start
      <3>1. o[i] \in 1..n /\ o[j] \in 1..n /\ o[i] # o[j] /\ new[i] = files[o[i]] /\ new[j] = files[o[j]]
        BY <1>6, <1>7, <2>2
      <3> QED BY <1>2, <3>1 DEF GoodFiles
    <2>3. RoomFor(Len(new))
      <3>1. RoomFor(n) /\ n - 1 \in Nat /\ n - 1 <= n
        BY <1>1, <1>2 DEF GoodFiles
      <3> QED BY <1>2, <1>3, <3>1, LessRoom
    <2> QED BY <1>3, <1>4, <2>1, <2>2, <2>3 DEF GoodFiles
  <1>10. StartsOf(new) = StartsOf(files) \ {files[k].start}
    <2>1. \A i \in 1..(n - 1) : new[i].start # files[k].start
      BY <1>2, <1>6 DEF GoodFiles
    <2>2. \A i \in 1..(n - 1) : new[i].start \in StartsOf(files)
      BY <1>2, <1>6 DEF StartsOf
    <2>3. Root # files[k].start
      BY DEF GoodFiles
    <2>4. StartsOf(new) \subseteq StartsOf(files) \ {files[k].start}
      BY <1>4, <2>1, <2>2, <2>3 DEF StartsOf
    <2>5. ASSUME NEW x \in StartsOf(files), x # files[k].start PROVE x \in StartsOf(new)
      <3>1. CASE x = Root
        BY <3>1 DEF StartsOf
      <3>2. CASE x # Root
        <4>1. PICK j \in 1..n : x = files[j].start
          BY <1>2, <3>2 DEF StartsOf
        <4>2. PICK i \in 1..(n - 1) : new[i] = files[j]
          BY <1>8, <2>5, <4>1
        <4> QED BY <1>4, <4>1, <4>2 DEF StartsOf
      <3> QED BY <3>1, <3>2
    <2> QED BY <2>4, <2>5
  <1>11. n # 0 /\ n = Len(files) /\ Len(new) = n - 1
    BY <1>1, <1>2, <1>3
  <1>12. \A i \in 1..(n - 1) : new[i].name # files[k].name
    BY <1>2, <1>6 DEF GoodFiles
  <1> QED BY <1>1, <1>2, <1>4, <1>8, <1>9, <1>10, <1>11, <1>12

\* A deletion returns the file's clusters and no others (vfs.cpp:446).
LEMMA DeleteSound ==
  ASSUME NEW s, Sound(s), NEW f, exists_file(s, f)
  PROVE  /\ Good(delete_file(s, f))
         /\ Up(delete_file(s, f)) =>
              /\ \A g \in File \ {f} : exists_file(s, g) => exists_file(delete_file(s, f), g)
              /\ Len(load_root_folder(delete_file(s, f))) = Len(load_root_folder(s)) - 1
              /\ LosesNone(s, delete_file(s, f)) /\ ~exists_file(delete_file(s, f), f)
  <1>1. PICK files, S, fat : files = load_root_folder(s) /\ S = StartsOf(files) /\ fat = s.fat
    OBVIOUS
  <1>2. /\ Typed(s) /\ Up(s) /\ GoodFiles(files) /\ Tidy(fat, S) /\ Filled(fat, S)
        /\ fat \in Table
    BY <1>1 DEF Sound, Typed
  <1>3. PICK k, e, c, r : /\ k = Index(files, f) /\ e = get_file(s, f) /\ c = e.start
                          /\ r = delete_file(s, f)
    OBVIOUS
  <1>4. /\ k \in DOMAIN files /\ e = files[k] /\ e.name = f
        /\ c \in S /\ c # Root /\ c \in Cluster /\ fat[c] \in Cluster
    BY <1>1, <1>3, FileIs
  <1>5. PICK p, R, u : /\ p = Path(fat, c) /\ R = Range(Tail(p))
                       /\ u = free_all_occupied_clusters(s, c)
    OBVIOUS
  <1>6. u = Free(s, R)
    BY <1>1, <1>2, <1>4, <1>5, FreeAll
  <1>7. PICK t : t = Free(u, {c})
    OBVIOUS
  <1>8. IsChain(fat, p, c)
    BY <1>2, <1>4, <1>5, StartPath
  <1>9. /\ Range(p) = {c} \union R
        /\ \A d \in Cluster : fat[d] \in R => d \in Range(p)
        /\ \A d \in R : d \in Cluster /\ ~First(fat, d)
    BY <1>2, <1>4, <1>5, <1>8, TailOfPath
  <1>10. /\ Typed(u) /\ u.state = s.state
         /\ \A d \in Cluster : u.fat[d] = IF d \in R THEN FREE_CLUSTER ELSE fat[d]
    BY <1>1, <1>2, <1>6, FreeFacts
  <1>11. /\ Typed(t) /\ t.state = s.state
         /\ \A d \in Cluster : t.fat[d] = IF d \in {c} THEN FREE_CLUSTER ELSE u.fat[d]
    BY <1>7, <1>10, FreeFacts
  <1>12. PICK new, U, E : new = RemoveAt(files, k) /\ U = S \ {c} /\ E = {}
    OBVIOUS
  <1>13. r = Restore(t, new)
    BY <1>1, <1>3, <1>5, <1>7, <1>12 DEF delete_file
  <1>14. /\ GoodFiles(new) /\ StartsOf(new) = U /\ Len(new) = Len(files) - 1
         /\ \A j \in DOMAIN files : j # k => \E i \in DOMAIN new : new[i] = files[j]
    <2>1. /\ GoodFiles(RemoveAt(files, k)) /\ Len(RemoveAt(files, k)) = Len(files) - 1
          /\ StartsOf(RemoveAt(files, k)) = StartsOf(files) \ {files[k].start}
          /\ \A j \in DOMAIN files : j # k =>
               \E i \in DOMAIN RemoveAt(files, k) : RemoveAt(files, k)[i] = files[j]
      BY <1>2, <1>4, RemovedEntry
    <2>2. files[k].start = c /\ StartsOf(files) = S
      BY <1>1, <1>3, <1>4
    <2> QED BY <1>12, <2>1, <2>2
  <1>15. \A d \in Cluster : t.fat[d] = IF d \in Range(p) THEN FREE_CLUSTER
                                       ELSE IF d \in E THEN EOF_CLUSTER ELSE fat[d]
    BY <1>9, <1>10, <1>11, <1>12
  <1>16. \A d \in U : d \in Cluster /\ fat[d] # FREE_CLUSTER /\ First(fat, d) /\ d \notin Range(p)
    BY <1>2, <1>9, <1>12 DEF Tidy
  <1>17. Tidy(t.fat, U)
    <2>1. \A d \in U : d \in Cluster /\ t.fat[d] # FREE_CLUSTER /\ First(fat, d)
      BY <1>12, <1>15, <1>16
    <2>2. \A d \in Cluster : fat[d] \in Range(p) => d \in Range(p) \union E
      <3>1. First(fat, c)
        BY <1>2, <1>4 DEF Tidy
      <3> QED BY <1>9, <3>1 DEF First
    <2>3. t.fat \in Table
      BY <1>11 DEF Typed
    <2> QED BY <1>2, <1>15, <2>1, <2>2, <2>3, Release
  <1>18. Filled(t.fat, U)
    BY <1>2, <1>12, <1>15, <1>16 DEF Filled
  <1>19. Good(r) /\ (Up(r) => load_root_folder(r) = new)
    BY <1>11, <1>13, <1>14, <1>17, <1>18, RestoreSound
  <1>20. ASSUME Up(r), NEW g \in File \ {f}, exists_file(s, g) PROVE exists_file(r, g)
    <2>1. PICK j \in DOMAIN files : files[j].name = g
      BY <1>1, <1>20 DEF exists_file, Range
    <2>2. PICK i \in DOMAIN new : new[i] = files[j]
      BY <1>4, <1>14, <2>1
    <2> QED BY <1>19, <1>20, <2>1, <2>2 DEF exists_file, Range
  <1>21. Up(r) => Len(load_root_folder(r)) = Len(load_root_folder(s)) - 1
    BY <1>1, <1>14, <1>19
  <1>22. Accounted(fat, S) \subseteq Accounted(t.fat, U)
    <2> SUFFICES ASSUME NEW x \in Accounted(fat, S) PROVE x \in Accounted(t.fat, U)
      OBVIOUS
    <2>1. x \in Cluster
      BY DEF Accounted
    <2>2. CASE fat[x] = FREE_CLUSTER \/ x \in Range(p)
      <3>1. t.fat[x] = FREE_CLUSTER
        BY <1>12, <1>15, <2>1, <2>2
      <3> QED BY <2>1, <3>1 DEF Accounted
    <2>3. CASE fat[x] # FREE_CLUSTER /\ x \notin Range(p)
      <3>1. PICK d \in S : x \in Range(Path(fat, d))
        BY <2>3 DEF Accounted
      <3>2. d # c
        BY <1>5, <2>3, <3>1
      <3>3. d \in Cluster /\ IsChain(fat, Path(fat, d), d)
        BY <1>2, StartPath DEF Tidy
      <3>4. Range(Path(fat, d)) \intersect Range(p) = {}
        BY <1>2, <1>4, <1>5, <3>2, PathsApart
      <3>5. \A y \in Range(Path(fat, d)) : t.fat[y] = fat[y]
        <4>1. \A y \in Range(Path(fat, d)) : y \in Cluster
          BY <3>3, TailSize
        <4> QED BY <1>12, <1>15, <3>4, <4>1
      <3>6. Path(t.fat, d) = Path(fat, d)
        BY <3>3, <3>5, SameChain
      <3> QED BY <1>12, <2>1, <3>1, <3>2, <3>6 DEF Accounted
    <2> QED BY <2>2, <2>3
  <1>23. ASSUME Up(r) PROVE LosesNone(s, r) /\ ~exists_file(r, f)
    <2>1. /\ Accounted(t.fat, StartsOf(new)) \subseteq Accounted(r.fat, StartsOf(new))
          /\ load_root_folder(r) = new
      BY <1>11, <1>13, <1>14, <1>17, <1>18, <1>23, RestoreFound
    <2>2. LosesNone(s, r)
      BY <1>1, <1>14, <1>22, <2>1 DEF LosesNone
    <2>3. \A i \in DOMAIN new : new[i].name # f
      BY <1>2, <1>4, <1>12, RemovedEntry
    <2> QED BY <2>1, <2>2, <2>3 DEF exists_file, Range
  <1> QED BY <1>3, <1>19, <1>20, <1>21, <1>22, <1>23

\* Who writes to no cluster of the directory leaves all sound.
LEMMA DiskSound ==
  ASSUME NEW s, Sound(s), NEW t, Typed(t), t.state = s.state, t.fat = s.fat,
         \A c \in Range(Path(s.fat, Root)) : \A a \in Cells(At(c), CLUSTER_SIZE) :
           t.disk[a] = s.disk[a]
  PROVE  Sound(t) /\ load_root_folder(t) = load_root_folder(s)
  <1>1. Up(t)
    BY DEF Sound, Up
  <1>2. /\ Tidy(t.fat, StartsOf(load_root_folder(s)))
        /\ Filled(t.fat, StartsOf(load_root_folder(s)))
    BY DEF Sound
  <1> QED BY <1>1, <1>2, SameDirectory

LEMMA PathOnDisk ==
  ASSUME NEW fat, NEW c \in Range(Path(fat, Root)), NEW a \in Cells(At(c), CLUSTER_SIZE)
  PROVE  c \in Cluster /\ a \in Disk
  <1>1. IsPath(fat, Path(fat, Root), Root)
    BY Sizes, PathIsPath
  <1>2. c \in Cluster
    BY <1>1 DEF IsPath, Range
  <1> QED BY <1>2, CellsOnDisk

LEMMA PokeSound ==
  ASSUME NEW s, Sound(s), NEW c \in Cluster, c \notin Range(Path(s.fat, Root)),
         NEW o \in Nat, NEW data, Len(data) \in Nat, o + Len(data) <= CLUSTER_SIZE
  PROVE  /\ Sound(Poke(s, At(c) + o, data)) /\ Poke(s, At(c) + o, data).fat = s.fat
         /\ load_root_folder(Poke(s, At(c) + o, data)) = load_root_folder(s)
  <1>1. PICK t, a, n, k : /\ t = Poke(s, At(c) + o, data) /\ a = At(c) /\ n = Len(data)
                          /\ k = CLUSTER_SIZE
    OBVIOUS
  <1>2. /\ Typed(t) /\ t.state = s.state /\ t.fat = s.fat
        /\ \A x \in Disk : x \notin Cells(a + o, n) => t.disk[x] = s.disk[x]
    BY <1>1, PokeFacts DEF Sound
  <1>3. a \in Nat /\ n \in Nat /\ k \in Nat /\ o + n <= k
    <2>1. c \in Nat /\ CLUSTER_SIZE \in Nat
      BY Sizes
    <2> QED BY <1>1, <2>1 DEF At
  <1>4. Cells(a + o, n) \subseteq Cells(a, k)
    BY <1>3 DEF Cells
  <1>5. ASSUME NEW d \in Range(Path(s.fat, Root)), NEW x \in Cells(At(d), CLUSTER_SIZE)
        PROVE  t.disk[x] = s.disk[x]
    <2>1. d \in Cluster /\ x \in Disk /\ d # c
      BY <1>5, PathOnDisk
    <2>2. x \notin Cells(At(c), CLUSTER_SIZE)
      BY <1>5, <2>1, CellsApart
    <2> QED BY <1>1, <1>2, <1>4, <2>1, <2>2
  <1> QED BY <1>1, <1>2, <1>5, DiskSound

LEMMA PokeAllSound ==
  ASSUME NEW s, Sound(s), NEW clusters, NEW data,
         \A i \in DOMAIN clusters :
           clusters[i] \in Cluster /\ clusters[i] \notin Range(Path(s.fat, Root))
  PROVE  /\ Sound(PokeAll(s, clusters, data))
         /\ load_root_folder(PokeAll(s, clusters, data)) = load_root_folder(s)
  <1>1. PICK t : t = PokeAll(s, clusters, data)
    OBVIOUS
  <1>2. /\ Typed(t) /\ t.state = s.state /\ t.fat = s.fat
        /\ \A x \in Disk :
             (\A i \in DOMAIN clusters : x \notin Cells(At(clusters[i]), CLUSTER_SIZE))
               => t.disk[x] = s.disk[x]
    BY <1>1, PokeAllFacts DEF Sound
  <1>3. ASSUME NEW d \in Range(Path(s.fat, Root)), NEW x \in Cells(At(d), CLUSTER_SIZE)
        PROVE  t.disk[x] = s.disk[x]
    <2>1. d \in Cluster /\ x \in Disk
      BY <1>3, PathOnDisk
    <2>2. \A i \in DOMAIN clusters : x \notin Cells(At(clusters[i]), CLUSTER_SIZE)
      BY <1>3, <2>1, CellsApart
    <2> QED BY <1>2, <2>1, <2>2
  <1> QED BY <1>1, <1>2, <1>3, DiskSound

\* One link becomes a mark.
Linked(s, z, m) == [s EXCEPT !.fat[z] = m]

LEMMA OneLink ==
  ASSUME NEW s, Typed(s), NEW z, NEW m \in Mark
  PROVE  /\ Typed(Linked(s, z, m))
         /\ Linked(s, z, m).disk = s.disk /\ Linked(s, z, m).state = s.state
         /\ \A x \in Cluster : Linked(s, z, m).fat[x] = IF x = z THEN m ELSE s.fat[x]
  <1>1. PICK link : link = [s.fat EXCEPT ![z] = m]
    OBVIOUS
  <1>2. PICK v : v = [s EXCEPT !.fat = link]
    OBVIOUS
  <1>3. link \in Table /\ \A x \in Cluster : link[x] = IF x = z THEN m ELSE s.fat[x]
    BY <1>1 DEF Typed, Table
  <1>4. Typed(v) /\ v.disk = s.disk /\ v.state = s.state /\ v.fat = link
    BY <1>2, <1>3, SetFat
  <1>5. v = Linked(s, z, m)
    BY <1>1, <1>2 DEF Linked
  <1> QED BY <1>3, <1>4, <1>5

\* Whatever is linked, the table stays one.
LEMMA GrowTyped ==
  ASSUME NEW s, Typed(s), NEW last \in Cluster, NEW n \in Nat
  PROVE  Typed(Grow(s, last, n)) /\ (Up(Grow(s, last, n)) => Up(s))
  <1>1. PICK new : new = LowestFree(s, n)
    OBVIOUS
  <1>2. new \in Seq(Cluster) /\ Len(new) \in Nat
    BY <1>1, LowestFreeFacts
  <1>3. PICK p : p = <<last>> \o new
    OBVIOUS
  <1>4. p \in Seq(Cluster) /\ Len(p) \in Nat \ {0}
    <2>1. <<last>> \in Seq(Cluster) /\ Len(<<last>>) = 1
      OBVIOUS
    <2> QED BY <1>2, <1>3, <2>1, ConcatProperties
  <1> DEFINE I(c) == CHOOSE i \in DOMAIN p : p[i] = c
  <1>5. PICK fat : fat = [c \in DOMAIN s.fat |->
                            IF c \notin Range(p) THEN s.fat[c]
                            ELSE IF c = Last(p) THEN EOF_CLUSTER ELSE p[I(c) + 1]]
    OBVIOUS
  <1>6. \A c \in Range(p) : I(c) \in DOMAIN p /\ p[I(c)] = c
    BY DEF Range
  <1> HIDE DEF I
  <1>7. DOMAIN s.fat = Cluster /\ \A c \in Cluster : s.fat[c] \in Cluster \union Mark
    BY DEF Typed, Table
  <1>8. \A c \in Cluster : fat[c] \in Cluster \union Mark
    <2> SUFFICES ASSUME NEW c \in Cluster PROVE fat[c] \in Cluster \union Mark
      OBVIOUS
    <2>1. CASE c \notin Range(p)
      BY <1>5, <1>7, <2>1
    <2>2. CASE c \in Range(p) /\ c = Last(p)
      BY <1>5, <1>7, <2>2 DEF Mark
    <2>3. CASE c \in Range(p) /\ c # Last(p)
      <3>1. PICK i : i = I(c)
        OBVIOUS
      <3>2. i \in 1..Len(p) /\ p[i] = c
        BY <1>4, <1>6, <2>3, <3>1
      <3>3. i # Len(p)
        BY <2>3, <3>2 DEF Last
      <3>4. i + 1 \in 1..Len(p)
        BY <1>4, <3>2, <3>3
      <3>5. fat[c] = p[i + 1]
        BY <1>5, <1>7, <2>3, <3>1
      <3> QED BY <1>4, <3>4, <3>5
    <2> QED BY <2>1, <2>2, <2>3
  <1>9. fat \in Table
    BY <1>5, <1>7, <1>8 DEF Table
  <1> DEFINE x == IF exists_n_free_clusters(s, n) THEN "undefined" ELSE "panic"
  <1>10. Grow(s, last, n) = IF Len(p) <= n THEN [s EXCEPT !.state = x]
                            ELSE [s EXCEPT !.fat = fat]
    BY <1>1, <1>3, <1>5 DEF Grow, I
  <1>11. CASE Len(p) <= n
    BY <1>10, <1>11, SetState DEF Up
  <1>12. CASE ~(Len(p) <= n)
    BY <1>9, <1>10, <1>12, SetFat DEF Up
  <1> QED BY <1>11, <1>12

-----------------------------------------------------------------------------
(* The clusters that a call takes *)

\* The kernel has not panicked; what happens after a broken directory is unknown.
Calm(s) == s.state # "panic"

\* Who finds the directory broken does not panic.
LEMMA CheckedSame ==
  ASSUME NEW s, Typed(s), Calm(s)
  PROVE  Calm(Checked(s)) /\ Checked(s).fat = s.fat
  BY SetState DEF Checked, Calm, Up

\* The directory is written when there are the clusters it asks for (vfs.cpp:181).
LEMMA SaveCalm ==
  ASSUME NEW s, Typed(s), Calm(s), NEW files,
         Up(s) => /\ Len(files) \in Nat /\ s.fat[Root] # FREE_CLUSTER
                  /\ Spare(s) >= ClustersFor(Len(files))
  PROVE  LET r == save_root_folder(s, files)
         IN  /\ Calm(r)
             /\ Up(s) =>
                  /\ Spare(r) + ClustersFor(Len(files)) >= Spare(s)
                  /\ \A c \in Cluster : c # Root /\ s.fat[c] # FREE_CLUSTER => r.fat[c] = s.fat[c]
  <1>1. PICK needed : needed = ClustersFor(Len(files))
    OBVIOUS
  <1>2. Up(s) => needed \in Nat
    BY <1>1, OneMoreEntry
  <1>3. PICK r, t : r = save_root_folder(s, files) /\ t = Grow(s, Root, needed)
    OBVIOUS
  <1>4. CASE ~Up(s)
    BY <1>4 DEF save_root_folder
  <1>5. CASE Up(s)
    <2>1. /\ Typed(t) /\ t.disk = s.disk
           /\ \/ t.state = s.state
              \/ t.state = "undefined" /\ t.fat = s.fat
      BY <1>1, <1>2, <1>3, <1>5, GrowFacts, GrowCalm, Sizes
    <2>2. exists_n_free_clusters(s, needed)
      BY <1>1, <1>5, SpareIs
    <2>3. r = WriteRoot(t, files)
      BY <1>1, <1>3, <1>5, <2>2 DEF save_root_folder, ClustersFor
    <2>4. CASE ~(t.state = s.state)
      <3>1. r = t /\ Calm(t) /\ t.fat = s.fat
        BY <2>1, <2>3, <2>4 DEF WriteRoot, WriteEntries, Up, Calm
      <3>2. Spare(r) = Spare(s) /\ Spare(s) \in Nat /\ needed \in Nat
        BY <1>2, <1>5, <3>1, SpareIs DEF Spare, FreeClusters
      <3> QED BY <1>1, <1>3, <3>1, <3>2
    <2> SUFFICES ASSUME t.state = s.state
                 PROVE  /\ Calm(r)
                        /\ Spare(r) + needed >= Spare(s)
                        /\ \A c \in Cluster : c # Root /\ s.fat[c] # FREE_CLUSTER
                                              => r.fat[c] = s.fat[c]
      BY <1>1, <1>3, <2>4
    <2>5. Typed(t) /\ t.disk = s.disk /\ t.state = s.state
      BY <2>1
    <2>6. Up(t)
      BY <1>5, <2>5 DEF Up
    <2>7. PICK p : p[1] = Root /\ Grown(s, t, p, needed)
      BY <1>2, <1>3, <1>5, <2>6, GrowFacts, Sizes
    <2>8. PICK slots : slots = [i \in DOMAIN files |-> Slot(Chain(t, Root), i)]
      OBVIOUS
    <2>9. PICK disk : disk = [x \in DOMAIN t.disk |-> Directory(slots, files, x, t.disk[x])]
      OBVIOUS
    <2>10. DOMAIN disk = Disk
      BY <2>5, <2>9 DEF Typed
    <2>11. PICK u : u = [t EXCEPT !.disk = disk]
      OBVIOUS
    <2>12. Typed(u) /\ u.fat = t.fat /\ u.state = t.state
      BY <2>5, <2>10, <2>11, SetDisk
    <2>13. r = Checked(u)
      BY <2>6, <2>8, <2>9, <2>11, <2>3 DEF WriteRoot, WriteEntries
    <2>14. Calm(r) /\ r.fat = t.fat
      BY <2>5, <2>12, <2>13, CheckedSame DEF Calm
    <2>15. Spare(r) = Spare(t)
      BY <2>14 DEF Spare, FreeClusters
    <2>16. /\ Spare(t) + needed >= Spare(s)
           /\ \A c \in Cluster : c # Root /\ s.fat[c] # FREE_CLUSTER => t.fat[c] = s.fat[c]
      <3>1. s.fat[p[1]] # FREE_CLUSTER /\ p[1] = Root
        BY <1>5, <2>7
      <3>2. PICK m \in Nat : m = needed
        BY <1>2, <1>5
      <3>3. Grown(s, t, p, m) /\ s.fat[p[1]] # FREE_CLUSTER
        BY <2>7, <3>1, <3>2
      <3>4. /\ Spare(t) + m >= Spare(s)
            /\ \A c \in Cluster : c # p[1] /\ s.fat[c] # FREE_CLUSTER => t.fat[c] = s.fat[c]
        BY <3>3, GrownSpare, Z3
      <3> QED BY <3>1, <3>2, <3>4
    <2> QED BY <2>14, <2>15, <2>16
  <1> QED BY <1>4, <1>5

\* The directory returns the clusters it had first.
LEMMA RestoreCalm ==
  ASSUME NEW s, Typed(s), Calm(s), NEW files, NEW n \in Nat,
         Up(s) => /\ Len(files) \in Nat /\ IsChain(s.fat, Path(s.fat, Root), Root)
                  /\ Len(Path(s.fat, Root)) = n + 1 /\ n > 0
                  /\ Spare(s) + n >= ClustersFor(Len(files))
  PROVE  LET r == Restore(s, files)
         IN  /\ Calm(r)
             /\ Up(s) =>
                  /\ Spare(r) + ClustersFor(Len(files)) >= Spare(s) + n
                  /\ \A c \in Cluster : c \notin Range(Path(s.fat, Root)) /\ s.fat[c] # FREE_CLUSTER
                                        => r.fat[c] = s.fat[c]
  <1>1. PICK u, r : u = free_all_occupied_clusters(s, Root) /\ r = Restore(s, files)
    OBVIOUS
  <1>2. Typed(u) /\ (Up(u) => Up(s)) /\ r = save_root_folder(u, files)
    BY <1>1, FreeAllTyped DEF Restore
  <1>3. CASE ~Up(s)
    <2>1. r = u
      BY <1>2, <1>3 DEF save_root_folder
    <2>2. PICK v : v = [s EXCEPT !.state = "undefined"]
      OBVIOUS
    <2>3. v.state = "undefined"
      BY <2>2, SetState
    <2>4. u = v \/ \E X : u = Free(s, X)
      BY <1>1, <2>2 DEF free_all_occupied_clusters
    <2>5. Calm(u)
      BY <2>3, <2>4, FreeFacts DEF Calm
    <2> QED BY <1>1, <1>3, <2>1, <2>5
  <1>4. CASE Up(s)
    <2>1. PICK p, R : p = Path(s.fat, Root) /\ R = Range(Tail(p))
      OBVIOUS
    <2>2. IsChain(s.fat, p, Root) /\ Len(p) = n + 1 /\ n > 0
      BY <1>4, <2>1
    <2>3. u = Free(s, R)
      <3>1. Len(p) # 1
        BY <2>2
      <3>2. s.fat[Last(p)] # TAKEN_CLUSTER
        BY <2>2, MarksApart DEF IsChain, Last
      <3> QED BY <1>1, <2>1, <3>1, <3>2 DEF free_all_occupied_clusters
    <2>4. /\ u.state = s.state
          /\ \A c \in Cluster : u.fat[c] = IF c \in R THEN FREE_CLUSTER ELSE s.fat[c]
      BY <2>3, FreeFacts
    <2>5. /\ Cardinality(R) = n /\ R \subseteq Cluster /\ \A d \in R : s.fat[d] # FREE_CLUSTER
      BY <2>1, <2>2, TailSize
    <2>6. Spare(u) = Spare(s) + n
      BY <2>4, <2>5, FreedSpare
    <2>7. Root \in Cluster /\ s.fat[Root] # FREE_CLUSTER /\ Root \notin R /\ R \subseteq Range(p)
      <3>1. p \in Seq(Cluster) /\ Len(p) \in Nat \ {0} /\ p[1] = Root /\ IsInjective(p)
        BY <2>2 DEF IsChain
      <3>2. Queue(p, Cluster) /\ p # <<>>
        BY <3>1 DEF Queue
      <3>3. Head(p) \in Range(p) /\ Range(Tail(p)) = Range(p) \ {Head(p)} /\ Head(p) = Root
        <4>1. Head(p) \in Range(p) /\ Range(Tail(p)) = Range(p) \ {Head(p)}
          BY <3>2, TailQueue
        <4>2. Head(p) = Root
          BY <3>1
        <4> QED BY <4>1, <4>2
      <3>4. \A d \in Range(p) : s.fat[d] # FREE_CLUSTER
        BY <2>2, TailSize
      <3> QED BY <2>1, <3>3, <3>4, Sizes
    <2>8. Up(u) /\ Calm(u) /\ u.fat[Root] # FREE_CLUSTER
      BY <1>4, <2>4, <2>7 DEF Up, Calm
    <2>9. Spare(u) >= ClustersFor(Len(files)) /\ Len(files) \in Nat
      BY <1>4, <2>6
    <2>10. /\ Calm(r) /\ Spare(r) + ClustersFor(Len(files)) >= Spare(u)
           /\ \A c \in Cluster : c # Root /\ u.fat[c] # FREE_CLUSTER => r.fat[c] = u.fat[c]
      BY <1>2, <2>8, <2>9, SaveCalm
    <2>11. ASSUME NEW c \in Cluster, c \notin Range(p), s.fat[c] # FREE_CLUSTER
           PROVE  r.fat[c] = s.fat[c]
      <3>1. c \notin R /\ c # Root
        <4>1. Root \in Range(p)
          BY <2>2 DEF IsChain, Range
        <4> QED BY <2>7, <2>11, <4>1
      <3> QED BY <2>4, <2>10, <2>11, <3>1
    <2> QED BY <1>1, <2>1, <2>6, <2>10, <2>11
  <1> QED BY <1>3, <1>4

\* The chain of a sound directory.
LEMMA SoundRoot ==
  ASSUME NEW s, Sound(s)
  PROVE  LET n == ClustersFor(Len(load_root_folder(s)))
         IN  /\ Len(load_root_folder(s)) \in Nat /\ n \in Nat /\ n > 0
             /\ IsChain(s.fat, Path(s.fat, Root), Root) /\ Len(Path(s.fat, Root)) = n + 1
             /\ Root \in StartsOf(load_root_folder(s))
  <1>1. PICK files, S : files = load_root_folder(s) /\ S = StartsOf(files)
    OBVIOUS
  <1>2. Root \in S /\ Tidy(s.fat, S) /\ s.fat \in Table
    BY <1>1 DEF Sound, StartsOf, Typed
  <1>3. IsChain(s.fat, Path(s.fat, Root), Root)
    BY <1>2, StartPath
  <1>4. Len(files) \in Nat
    BY <1>1 DEF Sound, GoodFiles
  <1>5. ClustersFor(Len(files)) \in Nat \ {0}
    BY <1>4, OneMoreEntry
  <1>6. Len(Path(s.fat, Root)) = ClustersFor(Len(files)) + 1
    BY <1>1 DEF Sound
  <1> QED BY <1>1, <1>2, <1>3, <1>4, <1>5, <1>6

\* A changed entry takes no cluster.
LEMMA UpdateCalm ==
  ASSUME NEW s, Good(s), Calm(s), NEW e
  PROVE  LET r == Update(s, e)
         IN  /\ Calm(r)
             /\ Up(s) =>
                  /\ Spare(r) >= Spare(s)
                  /\ \A c \in Cluster : c \notin Range(Path(s.fat, Root)) /\ s.fat[c] # FREE_CLUSTER
                                        => r.fat[c] = s.fat[c]
  <1>1. PICK files, r : files = load_root_folder(s) /\ r = Update(s, e)
    OBVIOUS
  <1>2. PICK new : new = [files EXCEPT ![Index(files, e.name)] = e]
    OBVIOUS
  <1>3. r = Restore(s, new)
    BY <1>1, <1>2 DEF Update
  <1>4. Typed(s)
    BY DEF Good
  <1>5. CASE ~Up(s)
    <2>1. 0 \in Nat
      OBVIOUS
    <2>2. Calm(Restore(s, new))
      BY <1>4, <1>5, <2>1, RestoreCalm
    <2> QED BY <1>1, <1>3, <1>5, <2>2
  <1>6. CASE Up(s)
    <2>1. Sound(s)
      BY <1>6 DEF Good
    <2>2. Len(new) = Len(files)
      <3>1. files \in Seq(Entry)
        BY <1>1, <2>1 DEF Sound, GoodFiles
      <3>2. DOMAIN new = DOMAIN files
        BY <1>2
      <3> QED BY <1>2, <3>1, <3>2
    <2>3. PICK n : n = ClustersFor(Len(files))
      OBVIOUS
    <2>4. /\ Len(files) \in Nat /\ n \in Nat /\ n > 0
          /\ IsChain(s.fat, Path(s.fat, Root), Root) /\ Len(Path(s.fat, Root)) = n + 1
      BY <1>1, <2>1, <2>3, SoundRoot
    <2>5. Spare(s) \in Nat /\ Spare(s) + n >= ClustersFor(Len(new)) /\ Len(new) \in Nat
      BY <2>2, <2>3, <2>4, SpareIs
    <2>6. /\ Calm(r) /\ Spare(r) + ClustersFor(Len(new)) >= Spare(s) + n
          /\ \A c \in Cluster : c \notin Range(Path(s.fat, Root)) /\ s.fat[c] # FREE_CLUSTER
                                => r.fat[c] = s.fat[c]
      BY <1>3, <1>4, <1>6, <2>4, <2>5, RestoreCalm
    <2>7. Spare(r) \in Nat
      BY SpareIs
    <2> QED BY <1>1, <2>2, <2>3, <2>4, <2>5, <2>6, <2>7
  <1> QED BY <1>5, <1>6

\* A new file and its entry take three clusters at most (vfs.cpp:379).
LEMMA CreateCalm ==
  ASSUME NEW s, Good(s), Calm(s), NEW f,
         Up(s) => LET l == Len(load_root_folder(s))
                  IN  Spare(s) + ClustersFor(l) >= ClustersFor(l + 1) + 2
  PROVE  LET r == create_file(s, f)
         IN  /\ Calm(r)
             /\ Up(s) /\ Up(r) => \A c \in Cluster :
                  c \notin Range(Path(s.fat, Root)) /\ s.fat[c] # FREE_CLUSTER => r.fat[c] = s.fat[c]
  <1>1. PICK files, r : files = load_root_folder(s) /\ r = create_file(s, f)
    OBVIOUS
  <1>2. PICK l, n : l = Len(files) /\ n = ClustersFor(l)
    OBVIOUS
  <1>3. Typed(s)
    BY DEF Good
  <1>4. Up(s) => /\ Sound(s) /\ l \in Nat /\ n \in Nat /\ n > 0
                 /\ IsChain(s.fat, Path(s.fat, Root), Root) /\ Len(Path(s.fat, Root)) = n + 1
    BY <1>1, <1>2, SoundRoot DEF Good
  <1>5. Spare(s) \in Nat /\ 0 \in Nat
    BY SpareIs
  <1>6. CASE ~exists_n_free_clusters(s, 2)
    <2>1. r = Restore(s, files)
      BY <1>1, <1>6 DEF create_file
    <2>2. CASE Up(s)
      <3>1. /\ Spare(s) + n >= ClustersFor(Len(files)) /\ Len(files) \in Nat /\ n \in Nat /\ n > 0
            /\ IsChain(s.fat, Path(s.fat, Root), Root) /\ Len(Path(s.fat, Root)) = n + 1
        BY <1>2, <1>4, <1>5, <2>2
      <3>2. /\ Calm(Restore(s, files))
            /\ \A c \in Cluster : c \notin Range(Path(s.fat, Root)) /\ s.fat[c] # FREE_CLUSTER
                                  => Restore(s, files).fat[c] = s.fat[c]
        BY <1>3, <2>2, <3>1, RestoreCalm
      <3> QED BY <1>1, <2>1, <3>2
    <2>3. CASE ~Up(s)
      <3>1. Calm(Restore(s, files))
        BY <1>3, <1>5, <2>3, RestoreCalm
      <3> QED BY <1>1, <2>1, <2>3, <3>1
    <2> QED BY <2>2, <2>3
  <1>7. CASE exists_n_free_clusters(s, 2) /\ FreeClusters(s) # {}
    <2>1. PICK c : c = Min(FreeClusters(s))
      OBVIOUS
    <2>2. Spare(s) >= 2 /\ c \in FreeClusters(s)
      <3>1. Spare(s) >= 2
        BY <1>7, SpareIs
      <3>2. FreeClusters(s) # {}
        BY <1>7
      <3>3. FreeClusters(s) \subseteq Nat
        BY Sizes DEF FreeClusters
      <3> QED BY <2>1, <3>1, <3>2, <3>3, MinOf
    <2>3. c \in Cluster /\ s.fat[c] = FREE_CLUSTER
      BY <2>2 DEF FreeClusters
    <2>4. PICK t0, t : t0 = Linked(s, c, TAKEN_CLUSTER) /\ t = Grow(t0, c, 1)
      OBVIOUS
    <2>5. PICK new : new = Append(files, [name |-> f, start |-> c, size |-> 0,
                                          open |-> FALSE, system |-> FALSE])
      OBVIOUS
    <2>6. r = Restore(t, new)
      BY <1>1, <1>7, <2>1, <2>4, <2>5 DEF create_file, Linked
    <2>7. /\ Typed(t0) /\ t0.state = s.state
          /\ \A x \in Cluster : t0.fat[x] = IF x = c THEN TAKEN_CLUSTER ELSE s.fat[x]
      <3>1. TAKEN_CLUSTER \in Mark
        BY DEF Mark
      <3> QED BY <1>3, <2>4, <3>1, OneLink
    <2>8. Spare(t0) = Spare(s) - 1
      <3>1. FreeClusters(t0) = FreeClusters(s) \ {c}
        BY <2>7, MarksApart DEF FreeClusters
      <3>2. IsFiniteSet(FreeClusters(s))
        BY SpareIs
      <3>3. Cardinality(FreeClusters(s) \ {c}) = Cardinality(FreeClusters(s)) - 1
        BY <2>2, <3>2, FS_RemoveElement
      <3>4. Cardinality(FreeClusters(s)) \in Nat /\ Cardinality(Beyond) \in Nat
        BY SpareIs, ClustersAre
      <3> QED BY <3>1, <3>3, <3>4 DEF Spare
    <2>9. Typed(t) /\ (t.state = s.state \/ t.state = "undefined") /\ Calm(t)
      <3>1. 1 \in Nat /\ Spare(t0) >= 1
        BY <1>5, <2>2, <2>8
      <3>2. t.state = t0.state \/ t.state = "undefined"
        BY <2>3, <2>4, <2>7, <3>1, GrowCalm
      <3>3. Typed(t)
        BY <2>3, <2>4, <2>7, <3>1, GrowTyped
      <3> QED BY <2>7, <3>2, <3>3 DEF Calm
    <2>10. CASE ~Up(t)
      <3>1. Calm(Restore(t, new))
        BY <1>5, <2>9, <2>10, RestoreCalm
      <3>2. ~Up(r)
        BY <2>6, <2>9, <2>10, RestoreUp
      <3> QED BY <1>1, <2>6, <3>1, <3>2
    <2>11. Up(t) => Up(s)
      BY <2>9 DEF Up
    <2>12. CASE Up(t)
      <3>1. t0.fat[c] # FREE_CLUSTER
        BY <2>3, <2>7, MarksApart
      <3>2. Up(t) /\ Up(s)
        BY <2>12, <2>11
      <3>3. PICK q : q[1] = c /\ Grown(t0, t, q, 1)
        BY <2>3, <2>4, <2>7, <3>1, <3>2, GrowFacts
      <3>4. /\ Spare(t) + 1 >= Spare(t0)
            /\ \A x \in Cluster : x # c /\ t0.fat[x] # FREE_CLUSTER => t.fat[x] = t0.fat[x]
        <4>1. PICK m \in Nat : m = 1
          OBVIOUS
        <4>2. Grown(t0, t, q, m) /\ t0.fat[q[1]] # FREE_CLUSTER
          BY <3>1, <3>3, <4>1
        <4>3. /\ Spare(t) + m >= Spare(t0)
              /\ \A x \in Cluster : x # q[1] /\ t0.fat[x] # FREE_CLUSTER => t.fat[x] = t0.fat[x]
          BY <4>2, GrownSpare, Z3
        <4> QED BY <3>3, <4>1, <4>3
      <3>5. \A x \in Cluster : s.fat[x] # FREE_CLUSTER => t.fat[x] = s.fat[x]
        BY <2>3, <2>7, <3>4
      <3>6. PICK p : p = Path(s.fat, Root)
        OBVIOUS
      <3>7. IsChain(s.fat, p, Root) /\ Len(p) = n + 1
        BY <1>4, <3>2, <3>6
      <3>8. \A x \in Range(p) : t.fat[x] = s.fat[x]
        BY <3>5, <3>7, TailSize
      <3>9. Path(t.fat, Root) = p /\ IsChain(t.fat, p, Root)
        BY <3>6, <3>7, <3>8, SameChain, Sizes
      <3>10. Len(new) = l + 1 /\ l \in Nat
        <4>1. files \in Seq(Entry)
          BY <1>1, <1>4, <3>2 DEF Sound, GoodFiles
        <4>2. Len(new) = Len(files) + 1
          BY <2>5, <4>1
        <4> QED BY <1>2, <1>4, <3>2, <4>2
      <3>11. ClustersFor(l + 1) \in Nat /\ Spare(t) \in Nat
        BY <3>10, OneMoreEntry, SpareIs
      <3>12. Spare(t) + n >= ClustersFor(Len(new))
        BY <1>1, <1>2, <1>4, <1>5, <2>8, <3>2, <3>4, <3>10, <3>11
      <3>13. /\ Calm(r)
             /\ \A x \in Cluster : x \notin Range(p) /\ t.fat[x] # FREE_CLUSTER => r.fat[x] = t.fat[x]
        <4>1. n \in Nat /\ n > 0 /\ Len(new) \in Nat
          BY <1>4, <3>2, <3>10
        <4>2. IsChain(t.fat, Path(t.fat, Root), Root) /\ Len(Path(t.fat, Root)) = n + 1
          BY <3>7, <3>9
        <4>3. /\ Calm(Restore(t, new))
              /\ \A x \in Cluster : x \notin Range(Path(t.fat, Root)) /\ t.fat[x] # FREE_CLUSTER
                                    => Restore(t, new).fat[x] = t.fat[x]
          BY <2>9, <3>2, <3>12, <4>1, <4>2, RestoreCalm
        <4> QED BY <2>6, <3>9, <4>3
      <3>14. \A x \in Cluster : x \notin Range(p) /\ s.fat[x] # FREE_CLUSTER => r.fat[x] = s.fat[x]
        BY <3>5, <3>13
      <3> QED BY <1>1, <3>6, <3>13, <3>14
    <2> QED BY <2>10, <2>12
  <1>8. CASE exists_n_free_clusters(s, 2) /\ FreeClusters(s) = {}
    <2>1. r = [s EXCEPT !.state = "undefined"]
      BY <1>1, <1>8 DEF create_file
    <2>2. r.state = "undefined"
      BY <1>3, <2>1, SetState
    <2> QED BY <1>1, <2>2 DEF Calm, Up
  <1> QED BY <1>6, <1>7, <1>8

\* A deletion returns two clusters at least, besides those of the directory.
LEMMA DeleteCalm ==
  ASSUME NEW s, Sound(s), NEW f, exists_file(s, f)
  PROVE  LET l == Len(load_root_folder(s))
         IN  /\ Calm(delete_file(s, f)) /\ l \in Nat \ {0}
             /\ Spare(delete_file(s, f)) + ClustersFor(l - 1) >= Spare(s) + ClustersFor(l) + 2
  <1>1. PICK files, S, fat : files = load_root_folder(s) /\ S = StartsOf(files) /\ fat = s.fat
    OBVIOUS
  <1>2. /\ Typed(s) /\ Up(s) /\ GoodFiles(files) /\ Tidy(fat, S) /\ fat \in Table
    BY <1>1 DEF Sound, Typed
  <1>3. PICK k, e, c, r : /\ k = Index(files, f) /\ e = get_file(s, f) /\ c = e.start
                          /\ r = delete_file(s, f)
    OBVIOUS
  <1>4. /\ k \in DOMAIN files /\ c \in S /\ c # Root /\ c \in Cluster /\ fat[c] \in Cluster
    BY <1>1, <1>3, FileIs
  <1>5. PICK p, R, u : /\ p = Path(fat, c) /\ R = Range(Tail(p))
                       /\ u = free_all_occupied_clusters(s, c)
    OBVIOUS
  <1>6. u = Free(s, R)
    BY <1>1, <1>2, <1>4, <1>5, FreeAll
  <1>7. PICK t, new : t = Free(u, {c}) /\ new = RemoveAt(files, k)
    OBVIOUS
  <1>8. IsChain(fat, p, c) /\ Len(p) >= 2
    BY <1>1, <1>2, <1>4, <1>5, StartChain
  <1>9. Range(p) = {c} \union R
    BY <1>2, <1>4, <1>5, <1>8, TailOfPath
  <1>10. /\ Typed(u) /\ u.state = s.state
         /\ \A d \in Cluster : u.fat[d] = IF d \in R THEN FREE_CLUSTER ELSE fat[d]
    BY <1>1, <1>2, <1>6, FreeFacts
  <1>11. /\ Typed(t) /\ t.state = s.state
         /\ \A d \in Cluster : t.fat[d] = IF d \in {c} THEN FREE_CLUSTER ELSE u.fat[d]
    BY <1>7, <1>10, FreeFacts
  <1>12. r = Restore(t, new)
    BY <1>1, <1>3, <1>5, <1>7 DEF delete_file
  <1>13. \A d \in Cluster : t.fat[d] = IF d \in Range(p) THEN FREE_CLUSTER ELSE s.fat[d]
    BY <1>1, <1>9, <1>10, <1>11
  <1>14. PICK l, n : l = Len(files) /\ n = ClustersFor(l)
    OBVIOUS
  <1>15. l \in Nat \ {0} /\ Len(new) = l - 1
    BY <1>2, <1>4, <1>7, <1>14, RemovedEntry
  <1>16. PICK a : a = l - 1
    OBVIOUS
  <1>17. a \in Nat /\ n \in Nat /\ n > 0 /\ ClustersFor(a) \in Nat /\ ClustersFor(a) <= n
    <2>1. a \in Nat /\ a + 1 = l
      BY <1>15, <1>16
    <2>2. /\ ClustersFor(a) \in Nat \ {0} /\ ClustersFor(a + 1) \in Nat \ {0}
          /\ ClustersFor(a) <= ClustersFor(a + 1)
      BY <2>1, OneMoreEntry
    <2>3. n = ClustersFor(a + 1)
      BY <1>14, <2>1
    <2> QED BY <2>1, <2>2, <2>3
  <1>18. Spare(t) = Spare(s) + Len(p) /\ Len(p) \in Nat
    <2>1. Range(p) \subseteq Cluster /\ \A d \in Range(p) : s.fat[d] # FREE_CLUSTER
      BY <1>1, <1>8, TailSize
    <2>2. Cardinality(Range(p)) = Len(p)
      BY <1>8, TailSize
    <2>3. Spare(t) = Spare(s) + Cardinality(Range(p))
      BY <1>13, <2>1, FreedSpare
    <2> QED BY <1>8, <2>2, <2>3 DEF IsChain
  <1>19. PICK q : q = Path(fat, Root)
    OBVIOUS
  <1>20. IsChain(fat, q, Root) /\ Len(q) = n + 1 /\ Root \in S
    BY <1>1, <1>14, <1>19, SoundRoot
  <1>21. \A d \in Range(q) : t.fat[d] = fat[d]
    <2>1. Range(p) \intersect Range(q) = {}
      BY <1>2, <1>4, <1>5, <1>19, <1>20, PathsApart
    <2>2. \A d \in Range(q) : d \in Cluster
      BY <1>20, TailSize
    <2> QED BY <1>1, <1>13, <2>1, <2>2
  <1>22. Path(t.fat, Root) = q /\ IsChain(t.fat, q, Root)
    BY <1>19, <1>20, <1>21, SameChain, Sizes
  <1>23. Up(t) /\ Calm(t)
    BY <1>2, <1>11 DEF Up, Calm
  <1>24. Spare(s) \in Nat /\ Spare(t) + n >= ClustersFor(Len(new)) /\ Len(new) \in Nat
    <2>1. Spare(s) \in Nat
      BY SpareIs
    <2> QED BY <1>15, <1>16, <1>17, <1>18, <2>1
  <1>25. Calm(r) /\ Spare(r) + ClustersFor(Len(new)) >= Spare(t) + n
    BY <1>11, <1>12, <1>17, <1>20, <1>22, <1>23, <1>24, RestoreCalm
  <1>26. Spare(r) \in Nat
    BY SpareIs
  <1>27. Spare(r) + ClustersFor(a) >= Spare(s) + n + 2
    BY <1>8, <1>15, <1>16, <1>17, <1>18, <1>24, <1>25, <1>26
  <1> QED BY <1>1, <1>3, <1>14, <1>15, <1>16, <1>25, <1>27

\* Three free clusters are enough for a new file.
LEMMA RoomForFile ==
  ASSUME NEW s, Good(s), Spare(s) >= 3, Up(s)
  PROVE  LET l == Len(load_root_folder(s))
         IN  Spare(s) + ClustersFor(l) >= ClustersFor(l + 1) + 2
  <1>1. PICK l : l = Len(load_root_folder(s))
    OBVIOUS
  <1>2. l \in Nat
    BY <1>1 DEF Good, Sound, GoodFiles
  <1>3. ClustersFor(l) \in Nat /\ ClustersFor(l + 1) \in Nat /\ ClustersFor(l + 1) <= ClustersFor(l) + 1
    BY <1>2, OneMoreEntry
  <1>4. Spare(s) \in Nat
    BY SpareIs
  <1> QED BY <1>1, <1>3, <1>4

\* A file that exists is not made again.
LEMMA TouchCalm ==
  ASSUME NEW s, Good(s), Calm(s), NEW f,
         Up(s) => LET l == Len(load_root_folder(s))
                  IN  Spare(s) + ClustersFor(l) >= ClustersFor(l + 1) + 2
  PROVE  Calm(touch(s, f))
  <1>1. Calm(create_file(s, f))
    BY CreateCalm
  <1> QED BY <1>1 DEF touch

-----------------------------------------------------------------------------
(* Calls that write to files *)

\* A chain that is cut behind one of its clusters and grows again there.
LEMMA RegrowSound ==
  ASSUME NEW s, Sound(s),
         NEW c \in StartsOf(load_root_folder(s)), c # Root,
         NEW last \in Range(Path(s.fat, c)), s.fat[last] \in Cluster, NEW n \in Nat \ {0},
         NEW v, Typed(v), v.disk = s.disk, v.state = s.state,
         \A x \in Cluster : v.fat[x] = IF x = s.fat[last] THEN FREE_CLUSTER ELSE s.fat[x],
         NEW u, u = Grow(v, last, n)
  PROVE  /\ Typed(u)
         /\ Up(u) => /\ Sound(u) /\ load_root_folder(u) = load_root_folder(s)
                     /\ Chain(u, last) \in Seq(Cluster) /\ Len(Chain(u, last)) = n
                     /\ \A x \in Range(Chain(u, last)) :
                          x \in Cluster /\ x \notin Range(Path(u.fat, Root))
                     /\ s.fat[s.fat[last]] = EOF_CLUSTER => LosesNone(s, u)
  <1>1. PICK files, S, fat : files = load_root_folder(s) /\ S = StartsOf(files) /\ fat = s.fat
    OBVIOUS
  <1>2. /\ Typed(s) /\ Up(s) /\ Tidy(fat, S) /\ Filled(fat, S) /\ fat \in Table
        /\ DOMAIN fat = Cluster
    BY <1>1 DEF Sound, Typed, Table
  <1>3. PICK z, p, pr : z = fat[last] /\ p = Path(fat, c) /\ pr = Path(fat, Root)
    OBVIOUS
  <1>4. c \in S /\ Root \in S
    BY <1>1 DEF StartsOf
  <1>5. IsChain(fat, p, c) /\ IsChain(fat, pr, Root) /\ Range(p) \intersect Range(pr) = {}
    BY <1>2, <1>3, <1>4, StartPath, PathsApart
  <1>6. z \in Cluster /\ last \in Cluster /\ last # z /\ z \in Range(p) /\ last \in Range(p)
    <2>1. p \in Seq(Cluster) /\ Len(p) \in Nat \ {0}
      BY <1>5 DEF IsChain
    <2>2. PICK i \in 1..Len(p) : last = p[i]
      BY <1>1, <1>3, <2>1 DEF Range
    <2>3. i # Len(p)
      BY <1>1, <1>5, <2>2, MarksApart DEF IsChain, Mark
    <2>4. i \in 1..(Len(p) - 1) /\ i + 1 \in 1..Len(p)
      BY <2>1, <2>3
    <2>5. z = p[i + 1]
      BY <1>3, <1>5, <2>2, <2>4 DEF IsChain
    <2>6. last # z
      BY <1>5, <2>1, <2>2, <2>4, <2>5 DEF IsChain, IsInjective
    <2> QED BY <2>1, <2>2, <2>4, <2>5, <2>6 DEF Range
  <1>8. /\ Typed(v) /\ v.disk = s.disk /\ v.state = s.state
        /\ \A x \in Cluster : v.fat[x] = IF x = z THEN FREE_CLUSTER ELSE fat[x]
    BY <1>1, <1>3
  <1>9. u = Grow(v, last, n) /\ n \in Nat /\ n > 0
    OBVIOUS
  <1>10. v.fat[last] # FREE_CLUSTER
    BY <1>3, <1>6, <1>8, MarksApart DEF Mark
  <1>11. /\ Typed(u) /\ u.disk = s.disk
         /\ Up(u) => \E q : q[1] = last /\ Grown(v, u, q, n)
    <2>1. /\ Typed(Grow(v, last, n)) /\ Grow(v, last, n).disk = v.disk
          /\ Up(Grow(v, last, n)) => \E q : q[1] = last /\ Grown(v, Grow(v, last, n), q, n)
      BY <1>6, <1>8, <1>9, <1>10, GrowFacts
    <2>2. u = Grow(v, last, n)
      BY <1>9
    <2> QED BY <1>8, <2>1, <2>2
  <1>12. SUFFICES ASSUME Up(u)
                  PROVE  /\ Sound(u) /\ load_root_folder(u) = files
                         /\ Chain(u, last) \in Seq(Cluster) /\ Len(Chain(u, last)) = n
                         /\ \A x \in Range(Chain(u, last)) :
                              x \in Cluster /\ x \notin Range(Path(u.fat, Root))
                         /\ fat[z] = EOF_CLUSTER => LosesNone(s, u)
    BY <1>1, <1>3, <1>11
  <1>13. PICK q : q[1] = last /\ Grown(v, u, q, n)
    BY <1>11, <1>12
  <1>14. PICK cut : cut = [v.fat EXCEPT ![last] = EOF_CLUSTER]
    OBVIOUS
  <1>15. cut \in Table /\ \A x \in Cluster : cut[x] = IF x = last THEN EOF_CLUSTER ELSE v.fat[x]
    <2>1. v.fat \in Table
      BY <1>8 DEF Typed
    <2> QED BY <1>14, <2>1 DEF Table, Mark
  <1>16. \A x \in S : x \in Cluster /\ x # z /\ fat[x] \in Cluster /\ First(fat, x)
    <2>1. ~First(fat, z)
      BY <1>3, <1>6 DEF First
    <2> QED BY <1>2, <2>1 DEF Tidy, Filled
  <1>17. Tidy(cut, S)
    <2>1. PICK R, E : R = {z} /\ E = {last}
      OBVIOUS
    <2>2. \A x \in Cluster : cut[x] = IF x \in R THEN FREE_CLUSTER
                                      ELSE IF x \in E THEN EOF_CLUSTER ELSE fat[x]
      BY <1>6, <1>8, <1>15, <2>1
    <2>3. \A x \in Cluster : fat[x] \in R => x \in R \union E
      BY <1>2, <1>3, <1>6, <2>1 DEF Tidy
    <2>4. \A x \in S : x \in Cluster /\ cut[x] # FREE_CLUSTER /\ First(fat, x)
      BY <1>8, <1>15, <1>16, MarksApart DEF Mark
    <2> QED BY <1>2, <1>15, <2>2, <2>3, <2>4, Release
  <1>18. /\ Tidy(u.fat, S) /\ u.fat[last] \in Cluster
         /\ \A x \in Cluster : x # last /\ v.fat[x] # FREE_CLUSTER => u.fat[x] = v.fat[x]
         /\ Path(u.fat, last) = q /\ IsChain(u.fat, q, last)
    <2>1. n \in Nat /\ n > 0 /\ last \in Cluster /\ Typed(v) /\ Typed(u)
      BY <1>6, <1>8, <1>9, <1>11
    <2>2. /\ Tidy(u.fat, S) /\ (n > 0 => u.fat[last] \in Cluster)
          /\ \A x \in Cluster : x # last /\ v.fat[x] # FREE_CLUSTER => u.fat[x] = v.fat[x]
          /\ Path(u.fat, last) = q /\ IsChain(u.fat, q, last)
      BY <2>1, <1>13, <1>15, <1>17, GrowTidy
    <2> QED BY <2>1, <2>2
  <1>19. \A x \in Range(pr) : x \in Cluster /\ x # last /\ v.fat[x] = fat[x] /\ fat[x] # FREE_CLUSTER
    <2>1. \A x \in Range(pr) : x \in Cluster /\ fat[x] # FREE_CLUSTER
      <3>1. pr \in Seq(Cluster) /\ \A i \in 1..Len(pr) : fat[pr[i]] # FREE_CLUSTER
        BY <1>5 DEF IsChain
      <3>2. \A x \in Range(pr) : \E i \in 1..Len(pr) : x = pr[i]
        BY <3>1 DEF Range
      <3> QED BY <3>1, <3>2
    <2> QED BY <1>5, <1>6, <1>8, <2>1
  <1>20. \A x \in Range(pr) : u.fat[x] = s.fat[x]
    BY <1>1, <1>18, <1>19
  <1>21. Filled(u.fat, S)
    <2> SUFFICES ASSUME NEW x \in S PROVE u.fat[x] \in Cluster
      BY DEF Filled
    <2>1. CASE x = last
      BY <1>18, <2>1
    <2>2. CASE x # last
      <3>1. v.fat[x] = fat[x] /\ fat[x] \in Cluster /\ x \in Cluster
        BY <1>8, <1>16
      <3> QED BY <1>18, <2>2, <3>1, MarksApart DEF Mark
    <2> QED BY <2>1, <2>2
  <1>22. \A x \in Range(Path(s.fat, Root)) : \A a \in Cells(At(x), CLUSTER_SIZE) :
           u.disk[a] = s.disk[a]
    BY <1>11
  <1>23. Path(u.fat, Root) = pr /\ load_root_folder(u) = files /\ Sound(u)
    BY <1>1, <1>3, <1>11, <1>12, <1>18, <1>20, <1>21, <1>22, SameDirectory
  <1>24. /\ Chain(u, last) \in Seq(Cluster) /\ Len(Chain(u, last)) = Len(q) - 1
         /\ \A i \in 1..(Len(q) - 1) : Chain(u, last)[i] = q[i]
    <2>1. IsChain(u.fat, Path(u.fat, last), last)
      BY <1>18
    <2>2. /\ Chain(u, last) \in Seq(Cluster)
          /\ Len(Chain(u, last)) = Len(Path(u.fat, last)) - 1
          /\ \A i \in 1..(Len(Path(u.fat, last)) - 1) : Chain(u, last)[i] = Path(u.fat, last)[i]
      BY <1>6, <1>11, <2>1, ChainIs
    <2> QED BY <1>18, <2>2
  <1>25. Len(q) = n + 1 /\ \A i \in 2..(n + 1) : v.fat[q[i]] = FREE_CLUSTER
    BY <1>13 DEF Grown
  <1>26. Len(Chain(u, last)) = n
    BY <1>9, <1>24, <1>25
  <1>27. ASSUME NEW x \in Range(Chain(u, last)) PROVE x \in Cluster /\ x \notin Range(pr)
    <2>1. PICK i \in 1..n : x = Chain(u, last)[i]
      <3>1. DOMAIN Chain(u, last) = 1..n
        BY <1>24, <1>26
      <3> QED BY <1>27, <3>1 DEF Range
    <2>2. x = q[i]
      <3>1. n + 1 - 1 = n
        OBVIOUS
      <3>2. \A j \in 1..n : Chain(u, last)[j] = q[j]
        BY <1>24, <1>25, <3>1
      <3> QED BY <2>1, <3>2
    <2>3. x \in Cluster
      BY <1>24, <1>26, <2>1
    <2>4. CASE i = 1
      BY <1>13, <1>19, <2>2, <2>3, <2>4
    <2>5. CASE i # 1
      <3>1. i \in 2..(n + 1)
        BY <1>9, <2>5
      <3> QED BY <1>19, <1>25, <2>2, <2>3, <3>1
    <2> QED BY <2>4, <2>5
  <1>28. ASSUME fat[z] = EOF_CLUSTER PROVE LosesNone(s, u)
    <2>1. PICK k \in 1..(Len(p) - 1) : last = p[k] /\ k + 1 = Len(p)
      <3>1. p \in Seq(Cluster) /\ Len(p) \in Nat \ {0}
        BY <1>5 DEF IsChain
      <3>2. PICK i \in 1..Len(p) : last = p[i]
        BY <1>6, <3>1 DEF Range
      <3>3. i # Len(p)
        BY <1>3, <1>5, <1>6, <3>2, MarksApart DEF IsChain, Mark
      <3>4. i \in 1..(Len(p) - 1) /\ i + 1 \in 1..Len(p)
        BY <3>1, <3>3
      <3>5. z = p[i + 1]
        BY <1>3, <1>5, <3>2, <3>4 DEF IsChain
      <3>6. i + 1 = Len(p)
        <4> SUFFICES ASSUME i + 1 # Len(p) PROVE FALSE
          OBVIOUS
        <4>1. i + 1 \in 1..(Len(p) - 1) /\ (i + 1) + 1 \in 1..Len(p)
          BY <3>1, <3>4
        <4>2. fat[z] = p[(i + 1) + 1]
          BY <1>5, <3>5, <4>1 DEF IsChain
        <4>3. fat[z] \in Cluster
          BY <3>1, <4>1, <4>2
        <4> QED BY <1>28, <4>3, MarksApart DEF Mark
      <3> QED BY <3>2, <3>4, <3>6
    <2>2. /\ p \in Seq(Cluster) /\ Len(p) \in Nat \ {0} /\ p[1] = c /\ IsInjective(p)
          /\ DOMAIN p = 1..Len(p)
          /\ \A i \in 1..(Len(p) - 1) : p[i + 1] = fat[p[i]]
      BY <1>5 DEF IsChain
    <2>3. PICK Q : Q = Range(Path(u.fat, c))
      OBVIOUS
    <2>4. u.fat \in Table /\ Tidy(u.fat, S)
      BY <1>11, <1>18 DEF Typed
    <2>5. c \in Q /\ \A x \in Q : u.fat[x] \in Cluster => u.fat[x] \in Q
      BY <1>4, <2>3, <2>4, ClosedPath
    <2>6. \A i \in 1..(k - 1) : p[i] \in Q => p[i + 1] \in Q
      <3> SUFFICES ASSUME NEW i \in 1..(k - 1), p[i] \in Q PROVE p[i + 1] \in Q
        OBVIOUS
      <3>1. i \in 1..(Len(p) - 1) /\ i \in 1..Len(p) /\ i + 1 \in 1..Len(p) /\ i # k /\ i # Len(p)
            /\ k \in 1..Len(p) /\ Len(p) \in 1..Len(p)
        BY <2>1, <2>2
      <3>2. p[i] \in Cluster /\ p[i + 1] \in Cluster /\ p[i + 1] = fat[p[i]]
        <4>1. \A j \in 1..Len(p) : p[j] \in Cluster
          BY <2>2
        <4> QED BY <2>2, <3>1, <4>1
      <3>3. p[i] # last
        BY <2>1, <2>2, <3>1 DEF IsInjective
      <3>4. z = p[Len(p)]
        BY <1>3, <2>1, <2>2
      <3>5. p[i] # z
        BY <2>2, <3>1, <3>4 DEF IsInjective
      <3>6. v.fat[p[i]] = p[i + 1] /\ v.fat[p[i]] # FREE_CLUSTER
        BY <1>8, <3>2, <3>5, MarksApart DEF Mark
      <3>7. u.fat[p[i]] = p[i + 1]
        BY <1>18, <3>2, <3>3, <3>6
      <3> QED BY <2>5, <3>2, <3>7
    <2>7. \A i \in 1..k : p[i] \in Q
      <3>1. k \in Nat /\ p[1] \in Q
        BY <2>2, <2>5
      <3> QED BY <2>6, <3>1, Along
    <2>8. \A x \in Cluster : v.fat[x] = FREE_CLUSTER => u.fat[x] = FREE_CLUSTER \/ x \in Q
      <3>1. q[1] \in Range(Path(u.fat, c))
        BY <1>13, <2>1, <2>3, <2>7
      <3>2. PICK m \in Nat : m = n
        BY <1>9
      <3>3. Grown(v, u, q, m)
        BY <1>13, <3>2
      <3>4. \A x \in Cluster : v.fat[x] = FREE_CLUSTER =>
              u.fat[x] = FREE_CLUSTER \/ x \in Range(Path(u.fat, c))
        BY <1>4, <2>4, <3>1, <3>3, GrownOnPath
      <3> QED BY <2>3, <3>4
    <2>9. ASSUME NEW x \in Accounted(fat, S) PROVE x \in Accounted(u.fat, S)
      <3>1. x \in Cluster
        BY <2>9 DEF Accounted
      <3>2. CASE fat[x] = FREE_CLUSTER \/ x = z
        <4>1. v.fat[x] = FREE_CLUSTER
          BY <1>8, <3>1, <3>2
        <4> QED BY <1>4, <2>3, <2>8, <3>1, <4>1 DEF Accounted
      <3>3. CASE x \in Range(p) /\ x # z
        <4>1. PICK i \in 1..Len(p) : x = p[i]
          BY <2>2, <3>3 DEF Range
        <4>2. i # Len(p)
          BY <1>3, <2>1, <2>2, <3>3, <4>1
        <4>3. i \in 1..k
          BY <2>1, <2>2, <4>2
        <4> QED BY <1>4, <2>3, <2>7, <3>1, <4>1, <4>3 DEF Accounted
      <3>4. CASE fat[x] # FREE_CLUSTER /\ x \notin Range(p)
        <4>1. PICK d \in S : x \in Range(Path(fat, d))
          BY <2>9, <3>4 DEF Accounted
        <4>2. d # c
          BY <1>3, <3>4, <4>1
        <4>3. d \in Cluster /\ IsChain(fat, Path(fat, d), d)
          BY <1>2, StartPath DEF Tidy
        <4>4. Range(Path(fat, d)) \intersect Range(p) = {}
          BY <1>2, <1>3, <1>4, <4>2, PathsApart
        <4>5. \A y \in Range(Path(fat, d)) : y \in Cluster /\ fat[y] # FREE_CLUSTER
          BY <4>3, TailSize
        <4>6. \A y \in Range(Path(fat, d)) : y # last /\ v.fat[y] = fat[y]
          BY <1>6, <1>8, <4>4, <4>5
        <4>7. \A y \in Range(Path(fat, d)) : u.fat[y] = fat[y]
          BY <1>18, <4>5, <4>6
        <4>8. Path(u.fat, d) = Path(fat, d)
          BY <4>3, <4>7, SamePath
        <4> QED BY <3>1, <4>1, <4>8 DEF Accounted
      <3> QED BY <3>2, <3>3, <3>4
    <2> QED BY <1>1, <1>23, <2>9 DEF LosesNone
  <1> QED BY <1>3, <1>23, <1>24, <1>26, <1>27, <1>28

LEMMA Needed ==
  ASSUME NEW size \in Nat
  PROVE  get_cluster_count_needed(size) \in Nat
  <1>1. size + CLUSTER_SIZE - 1 \in Nat
    BY Sizes
  <1> QED BY <1>1, Sizes, DivBounds DEF get_cluster_count_needed

\* An append writes only to the file's last cluster and to free ones (vfs.cpp:573).
LEMMA AppendSound ==
  ASSUME NEW s, Good(s), NEW f, NEW data, NEW bytes,
         Up(s) => bytes \in Nat
  PROVE  /\ Good(append_data(s, f, data, bytes))
         /\ Calm(s) => Calm(append_data(s, f, data, bytes))
         /\ Up(append_data(s, f, data, bytes)) =>
              /\ Up(s) /\ Keeps(s, append_data(s, f, data, bytes))
              /\ LosesNone(s, append_data(s, f, data, bytes))
              /\ get_file(append_data(s, f, data, bytes), f).size
                   \in {get_file(s, f).size, get_file(s, f).size + bytes}
  <1>1. PICK r : r = append_data(s, f, data, bytes)
    OBVIOUS
  <1>2. CASE ~Up(s)
    BY <1>2 DEF append_data
  <1>3. CASE /\ Up(s)
             /\ \/ ~Intact(s) \/ ~exists_file(s, f)
                \/ Nowhere \in Range(Chain(s, get_file(s, f).start))
    <2>1. r = [s EXCEPT !.state = "undefined"]
      BY <1>1, <1>3 DEF append_data
    <2>2. Typed(r) /\ ~Up(r) /\ Calm(r)
      BY <2>1, SetState DEF Good, Up, Calm
    <2> QED BY <1>1, <2>2 DEF Good
  <1>4. CASE /\ Up(s) /\ Intact(s) /\ exists_file(s, f)
             /\ Nowhere \notin Range(Chain(s, get_file(s, f).start))
    <2>1. Sound(s) /\ bytes \in Nat
      BY <1>4 DEF Good
    <2>2. PICK files, S : files = load_root_folder(s) /\ S = StartsOf(files)
      OBVIOUS
    <2>3. PICK e, c : e = get_file(s, f) /\ c = e.start
      OBVIOUS
    <2>4. /\ e \in Entry /\ e.name = f /\ e.size \in Nat
          /\ c \in S /\ c # Root /\ s.fat[c] \in Cluster
      BY <1>4, <2>1, <2>2, <2>3, FileIs
    <2>5. PICK p, h, last : p = Path(s.fat, c) /\ h = Chain(s, c) /\ last = Last(h)
      OBVIOUS
    <2>6. Typed(s) /\ Tidy(s.fat, S) /\ s.fat \in Table /\ Root \in S
      BY <2>1, <2>2 DEF Sound, Typed, StartsOf
    <2>7. /\ IsChain(s.fat, p, c) /\ Len(p) >= 2 /\ h \in Seq(Cluster) /\ Len(h) = Len(p) - 1
          /\ \A i \in 1..(Len(p) - 1) : h[i] = p[i]
      <3>1. /\ IsChain(s.fat, Path(s.fat, c), c) /\ Len(Path(s.fat, c)) >= 2
            /\ Chain(s, c) \in Seq(Cluster) /\ Len(Chain(s, c)) = Len(Path(s.fat, c)) - 1
            /\ \A i \in 1..(Len(Path(s.fat, c)) - 1) : Chain(s, c)[i] = Path(s.fat, c)[i]
        <4>1. c \in S /\ s.fat[c] \in Cluster /\ Typed(s) /\ Tidy(s.fat, S)
          BY <2>4, <2>6
        <4>2. c \in Cluster /\ IsChain(s.fat, Path(s.fat, c), c) /\ Len(Path(s.fat, c)) >= 2
          BY <4>1, StartChain
        <4>3. Chain(s, c) \in Seq(Cluster) /\ Len(Chain(s, c)) = Len(Path(s.fat, c)) - 1
          BY <4>1, StartChain
        <4>4. \A i \in 1..(Len(Path(s.fat, c)) - 1) : Chain(s, c)[i] = Path(s.fat, c)[i]
          BY <4>1, <4>2, ChainIs
        <4> QED BY <4>2, <4>3, <4>4
      <3> QED BY <2>5, <3>1
    <2>8. /\ last \in Range(p) /\ last \in Cluster /\ s.fat[last] \in Cluster
          /\ s.fat[s.fat[last]] = EOF_CLUSTER
      <3>1. p \in Seq(Cluster) /\ Len(p) \in Nat
        BY <2>7 DEF IsChain
      <3>2. Len(p) - 1 \in 1..(Len(p) - 1) /\ Len(p) - 1 \in 1..Len(p) /\ Len(p) \in 1..Len(p)
        BY <2>7, <3>1
      <3>3. last = p[Len(p) - 1] /\ (Len(p) - 1) + 1 = Len(p)
        BY <2>5, <2>7, <3>1, <3>2 DEF Last
      <3>4. s.fat[last] = p[Len(p)]
        BY <2>7, <3>2, <3>3 DEF IsChain
      <3>5. s.fat[p[Len(p)]] = EOF_CLUSTER
        BY <2>7 DEF IsChain
      <3> QED BY <3>1, <3>2, <3>3, <3>4, <3>5 DEF Range
    <2>9. last \notin Range(Path(s.fat, Root))
      BY <2>4, <2>5, <2>6, <2>8, PathsApart
    <2>10. PICK offset, here : /\ offset = e.size % CLUSTER_SIZE
                               /\ here = Min({bytes, CLUSTER_SIZE - offset})
      OBVIOUS
    <2>11. offset \in Nat /\ here \in Nat /\ here <= bytes /\ offset + here <= CLUSTER_SIZE
      <3>1. offset \in 0..(CLUSTER_SIZE - 1) /\ CLUSTER_SIZE \in Nat
        BY <2>4, <2>10, Sizes
      <3>2. PICK room : room = CLUSTER_SIZE - offset
        OBVIOUS
      <3>3. room \in Nat
        BY <3>1, <3>2
      <3>4. here \in Nat /\ here <= bytes /\ here <= room
        BY <2>1, <2>10, <3>2, <3>3, MinOfTwo
      <3> QED BY <3>1, <3>2, <3>4
    <2>12. PICK text : text = [j \in 1..here |-> IF j \in DOMAIN data THEN data[j] ELSE Garbage]
      OBVIOUS
    <2>13. Len(text) = here
      BY <2>11, <2>12
    <2>14. PICK t, place : place = At(last) + offset /\ t = Poke(s, place, text)
      OBVIOUS
    <2>15. Sound(t) /\ t.fat = s.fat /\ load_root_folder(t) = files
      <3>1. Len(text) \in Nat /\ offset + Len(text) <= CLUSTER_SIZE
        BY <2>11, <2>13
      <3>2. /\ Sound(Poke(s, At(last) + offset, text))
            /\ Poke(s, At(last) + offset, text).fat = s.fat
            /\ load_root_folder(Poke(s, At(last) + offset, text)) = load_root_folder(s)
        BY <2>1, <2>8, <2>9, <2>11, <3>1, PokeSound
      <3>3. /\ Sound(Poke(s, place, text)) /\ Poke(s, place, text).fat = s.fat
            /\ load_root_folder(Poke(s, place, text)) = load_root_folder(s)
        BY <2>14, <3>2
      <3> QED BY <2>2, <2>14, <3>3
    <2>16. PICK needed : needed = get_cluster_count_needed(bytes - here)
      OBVIOUS
    <2>17. needed \in Nat
      <3>1. bytes - here \in Nat
        BY <2>1, <2>11
      <3> QED BY <2>16, <3>1, Needed
    <2>18. PICK v : /\ v = Linked(t, t.fat[last], FREE_CLUSTER)
                    /\ Typed(v) /\ v.disk = t.disk /\ v.state = t.state
                    /\ \A x \in Cluster :
                         v.fat[x] = IF x = t.fat[last] THEN FREE_CLUSTER ELSE t.fat[x]
      <3>1. Typed(t) /\ t.fat[last] \in Cluster
        BY <2>8, <2>15 DEF Sound
      <3> QED BY <3>1, OneLink DEF Mark
    <2>19. PICK u, n : n = needed + 1 /\ u = Grow(v, last, n)
      OBVIOUS
    <2>20. PICK rest : rest = SubSeq(data, here + 1, bytes)
      OBVIOUS
    <2>21. PICK w : w = PokeAll(u, Tail(Chain(u, last)), rest)
      OBVIOUS
    <2>22. /\ Typed(u)
           /\ Up(u) => /\ Sound(u) /\ load_root_folder(u) = files
                       /\ Chain(u, last) \in Seq(Cluster) /\ Len(Chain(u, last)) = needed + 1
                       /\ \A x \in Range(Chain(u, last)) :
                            x \in Cluster /\ x \notin Range(Path(u.fat, Root))
                       /\ LosesNone(t, u)
      <3>1. n \in Nat \ {0}
        BY <2>17, <2>19
      <3>2. c \in StartsOf(load_root_folder(t)) /\ last \in Range(Path(t.fat, c)) /\ t.fat[last] \in Cluster
        BY <2>2, <2>4, <2>5, <2>8, <2>15
      <3>3. /\ Typed(u)
            /\ Up(u) => /\ Sound(u) /\ load_root_folder(u) = load_root_folder(t)
                        /\ Chain(u, last) \in Seq(Cluster) /\ Len(Chain(u, last)) = n
                        /\ \A x \in Range(Chain(u, last)) :
                             x \in Cluster /\ x \notin Range(Path(u.fat, Root))
                        /\ LosesNone(t, u)
        <4>1. Sound(t) /\ c # Root /\ u = Grow(v, last, n)
          BY <2>4, <2>15, <2>19
        <4>2. /\ Typed(v) /\ v.disk = t.disk /\ v.state = t.state
              /\ \A x \in Cluster : v.fat[x] = IF x = t.fat[last] THEN FREE_CLUSTER ELSE t.fat[x]
          BY <2>18
        <4>3. t.fat[t.fat[last]] = EOF_CLUSTER
          BY <2>8, <2>15
        <4> QED BY <3>1, <3>2, <4>1, <4>2, <4>3, RegrowSound
      <3> QED BY <2>15, <2>19, <3>3
    <2>23. /\ Good(w) /\ w.state = u.state
           /\ Up(w) => Sound(w) /\ load_root_folder(w) = files /\ LosesNone(s, w)
      <3>1. Typed(w) /\ w.state = u.state /\ w.fat = u.fat
        BY <2>21, <2>22, PokeAllFacts
      <3>2. ASSUME Up(w) PROVE Sound(w) /\ load_root_folder(w) = files
        <4>1. Up(u)
          BY <3>1, <3>2 DEF Up
        <4>2. PICK ch : ch = Chain(u, last)
          OBVIOUS
        <4>3. /\ ch \in Seq(Cluster) /\ Len(ch) = needed + 1
              /\ \A x \in Range(ch) : x \in Cluster /\ x \notin Range(Path(u.fat, Root))
          BY <2>22, <4>1, <4>2
        <4>4. \A i \in DOMAIN Tail(ch) : Tail(ch)[i] \in Range(ch)
          <5>1. /\ Tail(ch) \in Seq(Cluster) /\ Len(Tail(ch)) = needed
                /\ \A i \in 1..needed : Tail(ch)[i] = ch[i + 1]
            BY <2>17, <4>3
          <5>2. \A i \in 1..needed : i + 1 \in DOMAIN ch
            BY <2>17, <4>3
          <5>3. DOMAIN Tail(ch) = 1..needed
            BY <5>1
          <5> QED BY <5>1, <5>2, <5>3 DEF Range
        <4>5. \A i \in DOMAIN Tail(ch) :
                Tail(ch)[i] \in Cluster /\ Tail(ch)[i] \notin Range(Path(u.fat, Root))
          BY <4>3, <4>4
        <4>6. w = PokeAll(u, Tail(ch), rest) /\ Sound(u) /\ load_root_folder(u) = files
          BY <2>21, <2>22, <4>1, <4>2
        <4> QED BY <4>5, <4>6, PokeAllSound
      <3>3. ASSUME Up(w) PROVE LosesNone(s, w)
        <4>1. Up(u)
          BY <3>1, <3>3 DEF Up
        <4>2. LosesNone(t, u) /\ load_root_folder(u) = files
          BY <2>22, <4>1
        <4> QED BY <2>2, <2>15, <3>1, <3>2, <3>3, <4>2 DEF LosesNone
      <3> QED BY <3>1, <3>2, <3>3 DEF Good
    <2>24. ASSUME NEW x, Good(x), Calm(x), Up(x) => load_root_folder(x) = files, NEW k \in Nat,
                  Up(x) => LosesNone(s, x)
           PROVE  /\ Good(Update(x, [e EXCEPT !.size = k]))
                  /\ Calm(Update(x, [e EXCEPT !.size = k]))
                  /\ Up(Update(x, [e EXCEPT !.size = k])) =>
                       /\ Keeps(s, Update(x, [e EXCEPT !.size = k]))
                       /\ LosesNone(s, Update(x, [e EXCEPT !.size = k]))
                       /\ get_file(Update(x, [e EXCEPT !.size = k]), f).size = k
      <3>1. PICK new : new = [e EXCEPT !.size = k]
        OBVIOUS
      <3>2. new \in Entry /\ new.name = f /\ new.start = e.start /\ new.size = k
        BY <2>4, <3>1, EntryChanges DEF Entry
      <3>3. Up(x) => exists_file(x, f) /\ get_file(x, f) = e
        BY <1>4, <2>2, <2>3, <2>24 DEF exists_file, get_file
      <3>4. Good(Update(x, new)) /\ (Up(Update(x, new)) => Up(x) /\ Keeps(x, Update(x, new)))
        BY <2>24, <3>2, <3>3, UpdateSound
      <3>5. Up(x) => /\ \A g \in File : exists_file(s, g) => exists_file(x, g)
                     /\ Len(load_root_folder(x)) = Len(load_root_folder(s))
        BY <2>2, <2>24 DEF exists_file
      <3>6. Calm(Update(x, new))
        BY <2>24, UpdateCalm
      <3>7. ASSUME Up(Update(x, new))
            PROVE  LosesNone(s, Update(x, new)) /\ get_file(Update(x, new), f).size = k
        <4>1. Up(x) /\ Sound(x)
          BY <2>24, <3>4, <3>7 DEF Good
        <4>2. PICK y : y = Update(x, new)
          OBVIOUS
        <4>3. LosesNone(x, y) /\ get_file(y, f) = new
          BY <3>2, <3>3, <3>7, <4>1, <4>2, UpdateFound
        <4> QED BY <2>24, <3>2, <4>1, <4>2, <4>3 DEF LosesNone
      <3> QED BY <3>1, <3>4, <3>5, <3>6, <3>7 DEF Keeps
    <2>25. r = IF bytes <= here THEN Update(t, [e EXCEPT !.size = e.size + here])
               ELSE IF ~exists_n_free_clusters(t, needed) THEN t
               ELSE Update(w, [e EXCEPT !.size = e.size + bytes])
      <3>1. append_data(s, f, data, bytes) = AppendTo(s, get_file(s, f), data, bytes)
        BY <1>4 DEF append_data
      <3>2. r = AppendTo(s, e, data, bytes)
        BY <1>1, <2>3, <3>1
      <3>3. w = Spill(t, last, rest, needed)
        BY <2>18, <2>19, <2>21, Zenon DEF Spill, Linked
      <3> QED BY <2>3, <2>5, <2>10, <2>12, <2>14, <2>16, <2>20, <3>2, <3>3, ZenonT(30) DEF AppendTo
    <2>26. Good(t) /\ Keeps(s, t) /\ Calm(t) /\ LosesNone(s, t) /\ get_file(t, f) = e
      <3>1. Good(t) /\ Keeps(s, t) /\ Calm(t)
        BY <2>2, <2>15 DEF Good, Sound, Keeps, exists_file, Up, Calm
      <3>2. LosesNone(s, t) /\ get_file(t, f) = e
        BY <2>2, <2>3, <2>15 DEF LosesNone, get_file
      <3> QED BY <3>1, <3>2
    <2>27. e.size + here \in Nat /\ e.size + bytes \in Nat
      BY <2>1, <2>4, <2>11
    <2>28. CASE bytes <= here
      <3>1. PICK k \in Nat : k = e.size + here
        BY <2>27
      <3>2. r = Update(t, [e EXCEPT !.size = k])
        BY <2>25, <2>28, <3>1
      <3>3. k = e.size + bytes
        BY <2>1, <2>11, <2>28, <3>1
      <3> QED BY <1>1, <1>4, <2>3, <2>15, <2>24, <2>26, <3>2, <3>3
    <2>29. CASE ~(bytes <= here) /\ ~exists_n_free_clusters(t, needed)
      BY <1>1, <1>4, <2>3, <2>25, <2>26, <2>29
    <2>30. CASE ~(bytes <= here) /\ exists_n_free_clusters(t, needed)
      <3>1. PICK k \in Nat : k = e.size + bytes
        BY <2>27
      <3>2. r = Update(w, [e EXCEPT !.size = k])
        BY <2>25, <2>30, <3>1
      <3>3. PICK z : z = t.fat[last]
        OBVIOUS
      <3>4. z \in Cluster /\ t.fat[z] # FREE_CLUSTER
        BY <2>8, <2>15, <3>3 DEF Sound, Tidy
      <3>5. \A x \in Cluster : v.fat[x] = IF x \in {z} THEN FREE_CLUSTER ELSE t.fat[x]
        BY <2>18, <3>3
      <3>6. Spare(v) = Spare(t) + 1
        <4>1. Spare(v) = Spare(t) + Cardinality({z})
          BY <3>4, <3>5, FreedSpare
        <4> QED BY <4>1, FS_Singleton
      <3>7. Spare(t) >= needed /\ Spare(t) \in Nat
        BY <2>30, SpareIs
      <3>8. n \in Nat /\ Spare(v) >= n
        BY <2>17, <2>19, <3>6, <3>7
      <3>9. u.state = v.state \/ u.state = "undefined"
        BY <2>8, <2>18, <2>19, <3>8, GrowCalm
      <3>10. Calm(w)
        BY <2>18, <2>23, <2>26, <3>9 DEF Calm
      <3> QED BY <1>1, <1>4, <2>3, <2>23, <2>24, <3>1, <3>2, <3>10
    <2> QED BY <2>28, <2>29, <2>30
  <1> QED BY <1>2, <1>3, <1>4 DEF Keeps

\* The clusters behind the cut but the first become free (vfs.cpp:957).
LEMMA CutSound ==
  ASSUME NEW s, Sound(s), NEW c \in StartsOf(load_root_folder(s)), c # Root,
         NEW m \in 1..(Len(Chain(s, c)) - 1),
         NEW behind, behind = SubSeq(Chain(s, c), m + 1, Len(Chain(s, c))),
         NEW v, Typed(v), v.disk = s.disk, v.state = s.state,
         \A x \in Cluster : v.fat[x] = IF x = behind[1] THEN EOF_CLUSTER ELSE s.fat[x]
  PROVE  /\ Sound(Free(v, Range(Tail(behind))))
         /\ load_root_folder(Free(v, Range(Tail(behind)))) = load_root_folder(s)
         /\ LosesOne(s, Free(v, Range(Tail(behind))))
  <1>1. PICK files, S, fat : files = load_root_folder(s) /\ S = StartsOf(files) /\ fat = s.fat
    OBVIOUS
  <1>2. /\ Typed(s) /\ Up(s) /\ Tidy(fat, S) /\ Filled(fat, S) /\ fat \in Table
        /\ c \in S /\ Root \in S /\ fat[c] \in Cluster /\ c \in Cluster
    BY <1>1 DEF Sound, Typed, StartsOf, Filled, Tidy
  <1>3. PICK p, h, l : p = Path(fat, c) /\ h = Chain(s, c) /\ l = Len(h)
    OBVIOUS
  <1>4. IsChain(fat, p, c)
    BY <1>2, <1>3, StartPath
  <1>5. h \in Seq(Cluster) /\ l \in Nat /\ Len(p) = l + 1 /\ \A i \in 1..l : h[i] = p[i]
    <2>1. /\ Chain(s, c) \in Seq(Cluster) /\ Len(Chain(s, c)) = Len(Path(fat, c)) - 1
          /\ \A i \in 1..(Len(Path(fat, c)) - 1) : Chain(s, c)[i] = Path(fat, c)[i]
      <3>1. IsChain(s.fat, Path(s.fat, c), c)
        BY <1>1, <1>3, <1>4
      <3>2. /\ Chain(s, c) \in Seq(Cluster) /\ Len(Chain(s, c)) = Len(Path(s.fat, c)) - 1
            /\ \A i \in 1..(Len(Path(s.fat, c)) - 1) : Chain(s, c)[i] = Path(s.fat, c)[i]
        <4>1. Typed(s) /\ c \in Cluster
          BY <1>2
        <4> QED BY <3>1, <4>1, ChainIs
      <3> QED BY <1>1, <3>2
    <2>2. Len(p) \in Nat
      BY <1>4 DEF IsChain
    <2>3. l = Len(p) - 1 /\ l \in Nat
      BY <1>3, <2>1, <2>2
    <2>4. \A i \in 1..(Len(p) - 1) : h[i] = p[i]
      BY <1>3, <2>1
    <2> QED BY <1>3, <2>1, <2>2, <2>3, <2>4
  <1>6. m \in Nat \ {0} /\ m + 1 <= l
    BY <1>3, <1>5
  <1>7. /\ behind \in Seq(Cluster) /\ Len(behind) = l - m
        /\ \A i \in 1..(l - m) : behind[i] = p[m + i]
    <2>1. PICK k : k = m + 1
      OBVIOUS
    <2>2. k \in 1..(Len(h) + 1) /\ l \in 0..Len(h) /\ k <= l + 1
      BY <1>3, <1>5, <1>6, <2>1
    <2>3. behind = SubSeq(h, k, l)
      BY <1>3, <2>1
    <2>4. /\ behind \in Seq(Cluster) /\ Len(behind) = l - k + 1
          /\ \A i \in 1..(l - k + 1) : behind[i] = h[k + i - 1]
      <3>1. /\ SubSeq(h, k, l) \in Seq(Cluster) /\ Len(SubSeq(h, k, l)) = l - k + 1
            /\ \A i \in 1..(l - k + 1) : SubSeq(h, k, l)[i] = h[k + i - 1]
        BY <1>5, <2>2, PartOf
      <3> QED BY <2>3, <3>1
    <2>5. l - k + 1 = l - m /\ \A i \in 1..(l - m) : k + i - 1 = m + i /\ m + i \in 1..l
      BY <1>5, <1>6, <2>1
    <2> QED BY <1>5, <2>4, <2>5
  <1>8. \A i \in 1..l : /\ p[i] \in Cluster /\ p[i + 1] \in Cluster /\ p[i + 1] = fat[p[i]]
                        /\ p[i] \in Range(p) /\ p[i + 1] \in Range(p)
    <2>1. \A i \in 1..l : i \in 1..(Len(p) - 1) /\ i \in 1..Len(p) /\ i + 1 \in 1..Len(p)
      BY <1>5
    <2> QED BY <1>4, <2>1 DEF IsChain, Range
  <1>9. PICK z, R : z = behind[1] /\ R = Range(Tail(behind))
    OBVIOUS
  <1>10. z = p[m + 1] /\ z \in Cluster /\ ~First(fat, z)
    <2>1. z = p[m + 1]
      <3>1. 1 \in 1..(l - m)
        BY <1>5, <1>6
      <3> QED BY <1>7, <1>9, <3>1
    <2>2. z \in Cluster /\ z = fat[p[m]] /\ p[m] \in Cluster
      BY <1>5, <1>6, <1>8, <2>1
    <2> QED BY <2>1, <2>2 DEF First
  <1>11. \A x : x \in R <=> \E i \in (m + 1)..(l - 1) : x = p[i + 1]
    <2>1. PICK q : q = Tail(behind)
      OBVIOUS
    <2>2. /\ q \in Seq(Cluster) /\ Len(q) = l - m - 1
          /\ \A i \in 1..(l - m - 1) : q[i] = behind[i + 1]
      <3>1. PICK n : n = l - m
        OBVIOUS
      <3>2. n \in Nat \ {0} /\ behind \in Seq(Cluster) /\ Len(behind) = n
        BY <1>5, <1>6, <1>7, <3>1
      <3>3. /\ q \in Seq(Cluster) /\ Len(q) = n - 1
            /\ \A i \in 1..(n - 1) : q[i] = behind[i + 1]
        <4>1. behind # <<>>
          BY <3>2
        <4>2. /\ Tail(behind) \in Seq(Cluster) /\ Len(Tail(behind)) = Len(behind) - 1
              /\ \A i \in 1..Len(Tail(behind)) : Tail(behind)[i] = behind[i + 1]
          BY <3>2, <4>1, HeadTailProperties
        <4> QED BY <2>1, <3>2, <4>2
      <3> QED BY <3>1, <3>3
    <2>3. \A i \in 1..(l - m - 1) : q[i] = p[m + i + 1]
      <3>1. \A i \in 1..(l - m - 1) : i + 1 \in 1..(l - m) /\ m + (i + 1) = m + i + 1
        BY <1>5, <1>6
      <3> SUFFICES ASSUME NEW i \in 1..(l - m - 1) PROVE q[i] = p[m + i + 1]
        OBVIOUS
      <3>2. i + 1 \in 1..(l - m) /\ m + (i + 1) = m + i + 1
        BY <3>1
      <3>3. behind[i + 1] = p[m + (i + 1)]
        BY <1>7, <3>2
      <3> QED BY <2>2, <3>2, <3>3
    <2>4. DOMAIN q = 1..(l - m - 1) /\ R = {q[i] : i \in 1..(l - m - 1)}
      <3>1. DOMAIN q = 1..(l - m - 1)
        BY <2>2
      <3>2. R = Range(q)
        BY <1>9, <2>1
      <3> QED BY <3>1, <3>2 DEF Range
    <2>5. \A i \in 1..(l - m - 1) : m + i \in (m + 1)..(l - 1)
      BY <1>5, <1>6
    <2>6. \A i \in (m + 1)..(l - 1) : i - m \in 1..(l - m - 1) /\ m + (i - m) + 1 = i + 1
      BY <1>5, <1>6
    <2>7. \A x \in R : \E i \in (m + 1)..(l - 1) : x = p[i + 1]
      BY <2>3, <2>4, <2>5
    <2>8. \A i \in (m + 1)..(l - 1) : p[i + 1] \in R
      <3> SUFFICES ASSUME NEW i \in (m + 1)..(l - 1) PROVE p[i + 1] \in R
        OBVIOUS
      <3>1. q[i - m] = p[i + 1] /\ i - m \in 1..(l - m - 1)
        BY <2>3, <2>6
      <3> QED BY <2>4, <3>1
    <2> QED BY <2>7, <2>8
  <1>12. \A i \in (m + 1)..(l - 1) : i \in 1..l
    BY <1>5, <1>6
  <1>13. \A x \in R : x \in Cluster /\ ~First(fat, x) /\ x \in Range(p)
    BY <1>8, <1>11, <1>12 DEF First
  <1>14. ASSUME NEW d \in Cluster, fat[d] \in R PROVE d \in R \union {z}
    <2>1. PICK i \in (m + 1)..(l - 1) : fat[d] = p[i + 1]
      BY <1>11, <1>14
    <2>2. fat[d] = fat[p[i]] /\ p[i] \in Cluster /\ fat[d] \in Cluster
      BY <1>8, <1>12, <2>1
    <2>3. d = p[i]
      BY <1>2, <2>2 DEF Tidy
    <2>4. CASE i = m + 1
      BY <1>10, <2>3, <2>4
    <2>5. CASE i # m + 1
      <3>1. i - 1 \in (m + 1)..(l - 1) /\ (i - 1) + 1 = i
        BY <1>5, <1>6, <2>5
      <3>2. p[(i - 1) + 1] \in R
        BY <1>11, <3>1
      <3> QED BY <2>3, <3>1, <3>2
    <2> QED BY <2>4, <2>5
  <1>15. PICK t : t = Free(v, R)
    OBVIOUS
  <1>16. /\ Typed(t) /\ t.state = s.state
         /\ \A x \in Cluster : t.fat[x] = IF x \in R THEN FREE_CLUSTER ELSE v.fat[x]
         /\ \A a \in Disk : (\A x \in R : a \notin Cells(At(x), CLUSTER_SIZE))
                              => t.disk[a] = s.disk[a]
    BY <1>15, FreeFacts
  <1>17. \A x \in Cluster : t.fat[x] = IF x \in R THEN FREE_CLUSTER
                                       ELSE IF x \in {z} THEN EOF_CLUSTER ELSE fat[x]
    BY <1>1, <1>9, <1>16
  <1>18. \A x \in S : /\ x \in Cluster /\ fat[x] # FREE_CLUSTER /\ First(fat, x)
                      /\ x \notin R /\ x # z /\ fat[x] \in Cluster
    BY <1>2, <1>10, <1>13 DEF Tidy, Filled
  <1>19. Tidy(t.fat, S)
    <2>1. t.fat \in Table
      BY <1>16 DEF Typed
    <2>2. \A x \in S : x \in Cluster /\ t.fat[x] # FREE_CLUSTER /\ First(fat, x)
      BY <1>17, <1>18
    <2> QED BY <1>2, <1>14, <1>17, <2>1, <2>2, Release
  <1>20. Filled(t.fat, S)
    BY <1>17, <1>18 DEF Filled
  <1>21. PICK pr : pr = Path(fat, Root)
    OBVIOUS
  <1>22. Range(pr) \intersect Range(p) = {}
    BY <1>2, <1>3, <1>21, PathsApart
  <1>23. \A x \in Range(pr) : x \in Cluster /\ x \notin R /\ x # z
    <2>1. z \in Range(p)
      BY <1>6, <1>8, <1>10, <1>5
    <2>2. IsPath(fat, pr, Root)
      BY <1>21, Sizes, PathIsPath
    <2>3. \A x \in Range(pr) : x \in Cluster
      BY <2>2 DEF IsPath, Range
    <2> QED BY <1>13, <1>22, <2>1, <2>3
  <1>24. \A x \in Range(pr) : t.fat[x] = fat[x]
    BY <1>17, <1>23
  <1>25. ASSUME NEW x \in Range(pr), NEW a \in Cells(At(x), CLUSTER_SIZE)
         PROVE  t.disk[a] = s.disk[a]
    <2>1. x \in Cluster /\ a \in Disk
      BY <1>23, <1>25, CellsOnDisk
    <2>2. \A y \in R : a \notin Cells(At(y), CLUSTER_SIZE)
      BY <1>13, <1>23, <1>25, CellsApart
    <2> QED BY <1>16, <2>1, <2>2
  <1>26. Up(t)
    BY <1>2, <1>16 DEF Up
  <1>27. \A x \in Range(Path(s.fat, Root)) : t.fat[x] = s.fat[x]
    BY <1>1, <1>21, <1>24
  <1>28. \A x \in Range(Path(s.fat, Root)) : \A a \in Cells(At(x), CLUSTER_SIZE) :
           t.disk[a] = s.disk[a]
    BY <1>1, <1>21, <1>25
  <1>29. /\ Tidy(t.fat, StartsOf(load_root_folder(s)))
         /\ Filled(t.fat, StartsOf(load_root_folder(s)))
    BY <1>1, <1>19, <1>20
  <1>30. Sound(t) /\ load_root_folder(t) = load_root_folder(s)
    BY <1>16, <1>26, <1>27, <1>28, <1>29, SameDirectory
  <1>31. PICK Q : Q = Range(Path(t.fat, c))
    OBVIOUS
  <1>32. \A i \in 1..(m + 1) : p[i] \in Q
    <2>1. t.fat \in Table
      BY <1>16 DEF Typed
    <2>2. c \in Q /\ \A x \in Q : t.fat[x] \in Cluster => t.fat[x] \in Q
      BY <1>2, <1>19, <1>31, <2>1, ClosedPath
    <2>3. p[1] = c /\ IsInjective(p) /\ DOMAIN p = 1..(l + 1)
      BY <1>4, <1>5 DEF IsChain
    <2>4. ASSUME NEW i \in 1..m, p[i] \in Q PROVE p[i + 1] \in Q
      <3>1. i \in 1..l /\ i \in DOMAIN p /\ m + 1 \in DOMAIN p /\ i # m + 1
        BY <1>5, <1>6, <2>3
      <3>2. p[i] # z
        BY <1>10, <2>3, <3>1 DEF IsInjective
      <3>3. p[i] \notin R
        <4> SUFFICES ASSUME NEW j \in (m + 1)..(l - 1), p[i] = p[j + 1] PROVE FALSE
          BY <1>11
        <4>1. j + 1 \in DOMAIN p /\ j + 1 # i
          BY <1>5, <1>6, <2>3
        <4> QED BY <2>3, <3>1, <4>1 DEF IsInjective
      <3>4. p[i] \in Cluster /\ p[i + 1] \in Cluster /\ p[i + 1] = fat[p[i]]
        BY <1>8, <3>1
      <3>5. t.fat[p[i]] = p[i + 1]
        BY <1>17, <3>2, <3>3, <3>4
      <3> QED BY <2>2, <2>4, <3>4, <3>5
    <2>5. PICK k \in Nat : k = m + 1
      BY <1>6
    <2>6. \A i \in 1..(k - 1) : p[i] \in Q => p[i + 1] \in Q
      <3>1. k - 1 = m
        BY <1>6, <2>5
      <3> QED BY <2>4, <3>1
    <2>7. p[1] \in Q
      BY <2>2, <2>3
    <2> QED BY <2>5, <2>6, <2>7, Along
  <1>33. ASSUME NEW x \in Accounted(fat, S), x # p[l + 1] PROVE x \in Accounted(t.fat, S)
    <2>1. x \in Cluster
      BY <1>33 DEF Accounted
    <2>2. \A y \in Range(p) : y \in Cluster /\ fat[y] # FREE_CLUSTER
      BY <1>4, TailSize
    <2>3. z \in Range(p)
      BY <1>5, <1>6, <1>8, <1>10
    <2>4. CASE fat[x] = FREE_CLUSTER
      <3>1. t.fat[x] = FREE_CLUSTER
        BY <1>17, <2>1, <2>2, <2>3, <2>4
      <3> QED BY <2>1, <3>1 DEF Accounted
    <2>5. CASE x \in Range(p)
      <3>1. PICK i \in 1..(l + 1) : x = p[i]
        <4>1. DOMAIN p = 1..(l + 1)
          BY <1>4, <1>5 DEF IsChain
        <4> QED BY <2>5, <4>1 DEF Range
      <3>2. CASE i \in 1..(m + 1)
        BY <1>2, <1>31, <1>32, <2>1, <3>1, <3>2 DEF Accounted
      <3>3. CASE i \notin 1..(m + 1)
        <4>1. i # l + 1
          BY <1>33, <3>1
        <4>2. i - 1 \in (m + 1)..(l - 1) /\ (i - 1) + 1 = i
          BY <1>5, <1>6, <3>3, <4>1
        <4>3. x \in R
          BY <1>11, <3>1, <4>2
        <4> QED BY <1>17, <2>1, <4>3 DEF Accounted
      <3> QED BY <3>2, <3>3
    <2>6. CASE fat[x] # FREE_CLUSTER /\ x \notin Range(p)
      <3>1. PICK d \in S : x \in Range(Path(fat, d))
        BY <1>33, <2>6 DEF Accounted
      <3>2. d # c
        BY <1>3, <2>6, <3>1
      <3>3. d \in Cluster /\ IsChain(fat, Path(fat, d), d)
        BY <1>2, StartPath DEF Tidy
      <3>4. Range(Path(fat, d)) \intersect Range(p) = {}
        BY <1>2, <1>3, <3>2, PathsApart
      <3>5. \A y \in Range(Path(fat, d)) : y \in Cluster
        BY <3>3, TailSize
      <3>6. \A y \in Range(Path(fat, d)) : t.fat[y] = fat[y]
        BY <1>13, <1>17, <2>3, <3>4, <3>5
      <3>7. Path(t.fat, d) = Path(fat, d)
        BY <3>3, <3>6, SamePath
      <3> QED BY <2>1, <3>1, <3>7 DEF Accounted
    <2> QED BY <2>4, <2>5, <2>6
  <1>34. LosesOne(s, t)
    <2>1. Accounted(fat, S) \ {p[l + 1]} \subseteq Accounted(t.fat, S)
      BY <1>33
    <2>2. S = StartsOf(load_root_folder(t)) /\ S = StartsOf(load_root_folder(s)) /\ fat = s.fat
      BY <1>1, <1>30
    <2> QED BY <2>1, <2>2 DEF LosesOne
  <1> QED BY <1>9, <1>15, <1>30, <1>34

\* What is behind the offset has a length.
LEMMA RestIs ==
  ASSUME NEW t, NEW q, Len(q) \in Nat \ {0}, NEW k \in 1..CLUSTER_SIZE
  PROVE  Len(SubSeq(PeekAll(t, q), k, Len(PeekAll(t, q)))) \in Nat
  <1>1. PICK n : n = Len(q) * CLUSTER_SIZE
    OBVIOUS
  <1>2. n \in Nat /\ CLUSTER_SIZE <= n
    <2>1. 1 * CLUSTER_SIZE <= Len(q) * CLUSTER_SIZE /\ Len(q) * CLUSTER_SIZE \in Nat
      BY Sizes, Mono
    <2> QED BY <1>1, <2>1, Sizes
  <1>3. PICK p, S : p = PeekAll(t, q) /\ S = {t.disk[Place(q, j)] : j \in 1..n}
    OBVIOUS
  <1>4. p = [j \in 1..n |-> t.disk[Place(q, j)]]
    BY <1>1, <1>3 DEF PeekAll
  <1>5. \A j \in 1..n : p[j] \in S
    BY <1>3, <1>4
  <1>6. p = [j \in 1..n |-> p[j]]
    BY <1>4
  <1>7. p \in Seq(S) /\ Len(p) = n
    BY <1>2, <1>5, <1>6
  <1>8. k \in 1..(Len(p) + 1) /\ n \in 0..Len(p) /\ k <= n + 1
    BY <1>2, <1>7, Sizes
  <1>9. Len(SubSeq(p, k, n)) = n - k + 1
    BY <1>7, <1>8, PartOf
  <1>10. n - k + 1 \in Nat
    BY <1>2, <1>7, <1>8
  <1> QED BY <1>3, <1>7, <1>9, <1>10

\* An insertion cuts the file, appends the data, then what was behind
\* the offset (vfs.cpp:889).
LEMMA InsertSound ==
  ASSUME NEW s, Sound(s), NEW f, exists_file(s, f),
         NEW data, Len(data) \in Nat, NEW offset \in Nat
  PROVE  /\ Good(insert(s, f, data, offset)) /\ Calm(insert(s, f, data, offset))
         /\ Up(insert(s, f, data, offset)) =>
              Keeps(s, insert(s, f, data, offset)) /\ LosesOne(s, insert(s, f, data, offset))
  <1>1. PICK e, c : e = get_file(s, f) /\ c = e.start
    OBVIOUS
  <1>2. /\ e \in Entry /\ e.name = f /\ e.size \in Nat /\ c \in Cluster
        /\ c \in StartsOf(load_root_folder(s)) /\ c # Root
    BY <1>1, FileIs
  <1>3. PICK new : new = [e EXCEPT !.size = offset]
    OBVIOUS
  <1>4. new \in Entry /\ new.name = f /\ new.start = c
    BY <1>1, <1>2, <1>3, EntryChanges
  <1>5. PICK t : t = Update(s, new)
    OBVIOUS
  <1>6. /\ Good(t) /\ Calm(t)
        /\ Up(t) => /\ Keeps(s, t) /\ StartsOf(load_root_folder(t)) = StartsOf(load_root_folder(s))
                    /\ LosesNone(s, t)
    <2>1. Good(s) /\ Calm(s)
      BY DEF Good, Sound, Up, Calm
    <2>2. /\ Good(Update(s, new)) /\ Calm(Update(s, new))
          /\ Up(Update(s, new)) =>
               /\ Keeps(s, Update(s, new))
               /\ StartsOf(load_root_folder(Update(s, new))) = StartsOf(load_root_folder(s))
      BY <1>1, <1>4, <2>1, UpdateSound, UpdateCalm
    <2>3. Up(t) => LosesNone(s, t)
      BY <1>1, <1>4, <1>5, UpdateFound
    <2> QED BY <1>5, <2>2, <2>3
  <1>7. PICK clusters, start : clusters = Chain(t, c) /\ start = offset \div CLUSTER_SIZE
    OBVIOUS
  <1>8. PICK behind : behind = SubSeq(clusters, start + 2, Len(clusters))
    OBVIOUS
  <1>9. PICK kept : kept = PeekAll(t, SubSeq(clusters, start + 1, Len(clusters)))
    OBVIOUS
  <1>10. PICK tmp_buff : tmp_buff = SubSeq(kept, (offset % CLUSTER_SIZE) + 1, Len(kept))
    OBVIOUS
  <1>11. PICK length :
           length = (Len(tmp_buff) - (CLUSTER_SIZE - (e.size % CLUSTER_SIZE))) % WORD
    OBVIOUS
  <1>12. PICK cut : cut = IF behind = <<>> THEN t
                          ELSE Free([t EXCEPT !.fat[behind[1]] = EOF_CLUSTER], Range(Tail(behind)))
    OBVIOUS
  <1>13. PICK a, b, r : /\ a = append_data(cut, f, data, Len(data))
                        /\ b = append_data(a, f, tmp_buff, length)
                        /\ r = insert(s, f, data, offset)
    OBVIOUS
  <1>14. r = IF start >= Len(clusters) \/ Nowhere \in Range(clusters)
               THEN [t EXCEPT !.state = "undefined"] ELSE b
    BY <1>1, <1>3, <1>5, <1>7, <1>8, <1>9, <1>10, <1>11, <1>12, <1>13, ZenonT(30) DEF insert, CutIn
  <1>15. start \in Nat
    BY <1>7, Sizes, DivBounds
  <1>16. CASE start >= Len(clusters) \/ Nowhere \in Range(clusters)
    <2>1. r = [t EXCEPT !.state = "undefined"]
      BY <1>14, <1>16
    <2>2. Typed(r) /\ ~Up(r) /\ Calm(r)
      BY <1>6, <2>1, SetState DEF Good, Up, Calm
    <2> QED BY <1>13, <2>2 DEF Good
  <1>17. CASE ~(start >= Len(clusters) \/ Nowhere \in Range(clusters))
    <2>1. ASSUME Up(t)
          PROVE  /\ Sound(t) /\ c \in StartsOf(load_root_folder(t))
                 /\ clusters \in Seq(Cluster) /\ Len(clusters) \in Nat /\ start < Len(clusters)
      <3>1. Sound(t) /\ c \in StartsOf(load_root_folder(t))
        BY <1>2, <1>6, <2>1 DEF Good
      <3>2. PICK S : S = StartsOf(load_root_folder(t))
        OBVIOUS
      <3>3. Typed(t) /\ Tidy(t.fat, S) /\ c \in S /\ t.fat[c] \in Cluster
        BY <3>1, <3>2 DEF Sound, Filled
      <3>4. Chain(t, c) \in Seq(Cluster)
        BY <3>3, StartChain
      <3>5. clusters \in Seq(Cluster) /\ Len(clusters) \in Nat
        BY <1>7, <3>4
      <3> QED BY <1>15, <1>17, <3>1, <3>5
    <2>2. /\ Good(cut) /\ Calm(cut)
          /\ Up(cut) => Up(t) /\ load_root_folder(cut) = load_root_folder(t) /\ LosesOne(t, cut)
      <3>1. CASE behind = <<>>
        BY <1>6, <1>12, <3>1 DEF LosesOne
      <3>2. CASE behind # <<>>
        <4>1. PICK z, R : z = behind[1] /\ R = Range(Tail(behind))
          OBVIOUS
        <4>2. PICK v : /\ v = Linked(t, z, EOF_CLUSTER)
                       /\ Typed(v) /\ v.disk = t.disk /\ v.state = t.state
                       /\ \A x \in Cluster : v.fat[x] = IF x = z THEN EOF_CLUSTER ELSE t.fat[x]
          <5>1. EOF_CLUSTER \in Mark /\ Typed(t)
            BY <1>6 DEF Good, Mark
          <5> QED BY <5>1, OneLink
        <4>3. cut = Free(v, R)
          BY <1>12, <3>2, <4>1, <4>2 DEF Linked
        <4>4. Typed(cut) /\ cut.state = t.state
          <5>1. Typed(v) /\ v.state = t.state
            BY <4>2
          <5>2. Typed(Free(v, R)) /\ Free(v, R).state = v.state
            BY <5>1, FreeFacts
          <5> QED BY <4>3, <5>1, <5>2
        <4>5. ASSUME Up(cut)
              PROVE  Sound(cut) /\ load_root_folder(cut) = load_root_folder(t) /\ LosesOne(t, cut)
          <5>1. Up(t)
            BY <4>4, <4>5 DEF Up
          <5>2. PICK m : m = start + 1
            OBVIOUS
          <5>3. m \in Nat /\ m <= Len(clusters)
            BY <1>15, <2>1, <5>1, <5>2
          <5>4. m # Len(clusters)
            <6> SUFFICES ASSUME m = Len(clusters) PROVE FALSE
              OBVIOUS
            <6>1. start + 2 = Len(clusters) + 1
              BY <1>15, <5>2
            <6>2. SubSeq(clusters, Len(clusters) + 1, Len(clusters)) = <<>>
              BY <2>1, <5>1
            <6> QED BY <1>8, <3>2, <6>1, <6>2
          <5>5. m \in 1..(Len(Chain(t, c)) - 1)
            BY <1>7, <1>15, <2>1, <5>1, <5>2, <5>3, <5>4
          <5>6. behind = SubSeq(Chain(t, c), m + 1, Len(Chain(t, c)))
            <6>1. m + 1 = start + 2
              BY <1>15, <5>2
            <6> QED BY <1>7, <1>8, <6>1
          <5>7. Sound(t) /\ c \in StartsOf(load_root_folder(t)) /\ c # Root
            BY <1>2, <2>1, <5>1
          <5>8. /\ Sound(Free(v, Range(Tail(behind))))
                /\ load_root_folder(Free(v, Range(Tail(behind)))) = load_root_folder(t)
                /\ LosesOne(t, Free(v, Range(Tail(behind))))
            <6>1. /\ Typed(v) /\ v.disk = t.disk /\ v.state = t.state
                  /\ \A x \in Cluster : v.fat[x] = IF x = behind[1] THEN EOF_CLUSTER ELSE t.fat[x]
              BY <4>2, <4>1
            <6> QED BY <5>5, <5>6, <5>7, <6>1, CutSound
          <5> QED BY <4>3, <4>1, <5>8
        <4> QED BY <1>6, <4>4, <4>5 DEF Good, Up, Calm
      <3> QED BY <3>1, <3>2
    <2>3. ASSUME Up(cut) PROVE length \in Nat
      <3>1. clusters \in Seq(Cluster) /\ Len(clusters) \in Nat /\ start < Len(clusters)
        BY <2>1, <2>2, <2>3
      <3>2. PICK q, k : q = SubSeq(clusters, start + 1, Len(clusters)) /\ k = (offset % CLUSTER_SIZE) + 1
        OBVIOUS
      <3>3. Len(q) \in Nat \ {0}
        <4>1. start + 1 \in 1..(Len(clusters) + 1) /\ Len(clusters) \in 0..Len(clusters)
              /\ start + 1 <= Len(clusters) + 1
          BY <1>15, <3>1
        <4>2. Len(q) = Len(clusters) - (start + 1) + 1
          BY <3>1, <3>2, <4>1, PartOf
        <4> QED BY <1>15, <3>1, <4>2
      <3>4. k \in 1..CLUSTER_SIZE
        BY <3>2, Sizes
      <3>5. Len(SubSeq(PeekAll(t, q), k, Len(PeekAll(t, q)))) \in Nat
        BY <3>3, <3>4, RestIs
      <3>6. Len(tmp_buff) \in Nat
        BY <1>9, <1>10, <3>2, <3>5
      <3>7. PICK x : x = Len(tmp_buff) - (CLUSTER_SIZE - (e.size % CLUSTER_SIZE))
        OBVIOUS
      <3>8. e.size % CLUSTER_SIZE \in Nat /\ CLUSTER_SIZE \in Nat
        BY <1>2, Sizes
      <3>9. x \in Int
        BY <3>6, <3>7, <3>8
      <3>10. WORD \in Nat \ {0}
        BY Geometry
      <3>11. x % WORD \in Nat
        BY <3>9, <3>10
      <3> QED BY <1>11, <3>7, <3>11
    <2>4. Good(a) /\ Calm(a) /\ (Up(a) => Up(cut) /\ Keeps(cut, a) /\ LosesNone(cut, a))
      BY <1>13, <2>2, AppendSound
    <2>5. Good(b) /\ Calm(b) /\ (Up(b) => Up(a) /\ Keeps(a, b) /\ LosesNone(a, b))
      BY <1>13, <2>3, <2>4, AppendSound
    <2>6. ASSUME Up(b) PROVE Keeps(s, b)
      <3>1. Keeps(s, t) /\ Keeps(cut, a) /\ Keeps(a, b)
        BY <1>6, <2>2, <2>4, <2>5, <2>6
      <3>2. Keeps(t, cut)
        BY <2>2, <2>4, <2>5, <2>6 DEF Keeps, exists_file
      <3> QED BY <3>1, <3>2 DEF Keeps
    <2>7. ASSUME Up(b) PROVE LosesOne(s, b)
      <3>1. LosesNone(s, t) /\ LosesOne(t, cut) /\ LosesNone(cut, a) /\ LosesNone(a, b)
        BY <1>6, <2>2, <2>4, <2>5, <2>7
      <3> QED BY <3>1 DEF LosesNone, LosesOne
    <2> QED BY <1>13, <1>14, <1>17, <2>5, <2>6, <2>7
  <1> QED BY <1>16, <1>17

\* write inserts, appends, or leaves all as it is (vfs.cpp:889).
LEMMA WriteSound ==
  ASSUME NEW s, Sound(s), NEW f, exists_file(s, f),
         NEW data, Len(data) \in Nat, NEW offset \in Nat
  PROVE  /\ Good(write(s, f, data, offset)) /\ Calm(write(s, f, data, offset))
         /\ Up(write(s, f, data, offset)) =>
              /\ Keeps(s, write(s, f, data, offset)) /\ LosesOne(s, write(s, f, data, offset))
              /\ offset >= get_file(s, f).size => LosesNone(s, write(s, f, data, offset))
              /\ offset = get_file(s, f).size =>
                   get_file(write(s, f, data, offset), f).size
                     \in {get_file(s, f).size, get_file(s, f).size + Len(data)}
  <1>1. Good(s) /\ Keeps(s, s) /\ Calm(s)
    BY DEF Good, Sound, Keeps, Up, Calm
  <1>2. /\ Good(append_data(s, f, data, Len(data))) /\ Calm(append_data(s, f, data, Len(data)))
        /\ Up(append_data(s, f, data, Len(data))) =>
             /\ Keeps(s, append_data(s, f, data, Len(data)))
             /\ LosesNone(s, append_data(s, f, data, Len(data)))
             /\ get_file(append_data(s, f, data, Len(data)), f).size
                  \in {get_file(s, f).size, get_file(s, f).size + Len(data)}
    BY <1>1, AppendSound
  <1>3. /\ Good(insert(s, f, data, offset)) /\ Calm(insert(s, f, data, offset))
        /\ Up(insert(s, f, data, offset)) =>
             Keeps(s, insert(s, f, data, offset)) /\ LosesOne(s, insert(s, f, data, offset))
    BY InsertSound
  <1>4. write(s, f, data, offset) \in
          {s, append_data(s, f, data, Len(data)), insert(s, f, data, offset)}
    BY DEF write
  <1>5. get_file(s, f).size \in Nat
    BY FileIs
  <1>6. /\ offset >= get_file(s, f).size =>
             write(s, f, data, offset) \in {s, append_data(s, f, data, Len(data))}
        /\ offset = get_file(s, f).size =>
             write(s, f, data, offset) = append_data(s, f, data, Len(data))
    BY <1>5 DEF write
  <1>7. LosesNone(s, s) /\ \A t : LosesNone(s, t) => LosesOne(s, t)
    BY DEF LosesNone, LosesOne
  <1> QED BY <1>1, <1>2, <1>3, <1>4, <1>6, <1>7

\* The first two clusters of a file's chain are none of the directory's.
LEMMA OffRoot ==
  ASSUME NEW s, Sound(s), NEW c \in StartsOf(load_root_folder(s)), c # Root
  PROVE  /\ c \in Cluster /\ c \notin Range(Path(s.fat, Root)) /\ s.fat[c] # FREE_CLUSTER
         /\ s.fat[c] \in Cluster /\ s.fat[c] \notin Range(Path(s.fat, Root))
         /\ s.fat[s.fat[c]] # FREE_CLUSTER
  <1>1. PICK S : S = StartsOf(load_root_folder(s))
    OBVIOUS
  <1>2. /\ s.fat \in Table /\ Tidy(s.fat, S) /\ c \in S /\ Root \in S
        /\ c \in Cluster /\ s.fat[c] \in Cluster
    BY <1>1 DEF Sound, Typed, StartsOf, Filled, Tidy
  <1>3. Range(Path(s.fat, c)) \intersect Range(Path(s.fat, Root)) = {}
    BY <1>2, PathsApart
  <1>4. /\ c \in Range(Path(s.fat, c)) /\ s.fat[c] \in Range(Path(s.fat, c))
        /\ s.fat[c] # FREE_CLUSTER /\ s.fat[s.fat[c]] # FREE_CLUSTER
    BY <1>2, ClosedPath
  <1> QED BY <1>2, <1>3, <1>4

\* A copy writes to the clusters it has linked to the destination (vfs.cpp:661).
LEMMA CpSound ==
  ASSUME NEW s, Sound(s), NEW src, exists_file(s, src), NEW des,
         NEW checked, NEW stored \in Nat
  PROVE  /\ Good(cp(s, src, des, checked, stored))
         /\ Up(cp(s, src, des, checked, stored)) /\ OneCluster(s, des)
              => LosesNone(s, cp(s, src, des, checked, stored))
  <1>1. PICK r : r = cp(s, src, des, checked, stored)
    OBVIOUS
  <1>2. Good(s)
    BY DEF Good, Sound
  <1>3. PICK e, c, b : e = get_file(s, des) /\ c = e.start /\ b = get_file(s, src).start
    OBVIOUS
  <1>4. PICK new : new = [e EXCEPT !.size = stored]
    OBVIOUS
  <1>5. PICK t : t = Update(s, new)
    OBVIOUS
  <1>6. PICK source, n : source = Chain(t, b) /\ n = Len(source)
    OBVIOUS
  <1>7. PICK v : v = Linked(t, t.fat[c], FREE_CLUSTER)
    OBVIOUS
  <1>8. PICK u : u = Grow(v, c, n)
    OBVIOUS
  <1>9. r = IF ~exists_n_free_clusters(s, get_cluster_count_needed(checked)) THEN s
            ELSE IF ~exists_file(s, des) THEN [s EXCEPT !.state = "undefined"]
            ELSE CopyOver(t, b, c)
    BY <1>1, <1>3, <1>4, <1>5 DEF cp
  <1>10. CopyOver(t, b, c) = IF Nowhere \in Range(source) THEN [t EXCEPT !.state = "undefined"]
                             ELSE IF ~Up(u) THEN u
                             ELSE PokeAll(u, Chain(u, c), PeekAll(u, source))
    BY <1>6, <1>7, <1>8 DEF CopyOver, Linked
  <1>11. CASE r = s
    BY <1>1, <1>2, <1>11 DEF LosesNone
  <1>12. CASE r = [s EXCEPT !.state = "undefined"]
    <2>1. Typed(r) /\ ~Up(r)
      BY <1>2, <1>12, SetState DEF Good, Up
    <2> QED BY <1>1, <2>1 DEF Good
  <1>13. CASE exists_file(s, des) /\ r = CopyOver(t, b, c)
    <2>1. /\ e \in Entry /\ e.name = des /\ c \in Cluster
          /\ c \in StartsOf(load_root_folder(s)) /\ c # Root
      BY <1>3, <1>13, FileIs
    <2>2. b \in Cluster /\ b \in StartsOf(load_root_folder(s))
      BY <1>3, FileIs
    <2>3. new \in Entry /\ new.name = des /\ new.start = c
      BY <1>3, <1>4, <2>1, EntryChanges
    <2>4. /\ Good(t)
          /\ Up(t) => StartsOf(load_root_folder(t)) = StartsOf(load_root_folder(s))
      <3>1. /\ Good(Update(s, new))
            /\ Up(Update(s, new)) =>
                 StartsOf(load_root_folder(Update(s, new))) = StartsOf(load_root_folder(s))
        BY <1>2, <1>3, <1>13, <2>3, UpdateSound
      <3> QED BY <1>5, <3>1
    <2>5. /\ Typed(v) /\ v.disk = t.disk /\ v.state = t.state
          /\ \A x \in Cluster : v.fat[x] = IF x = t.fat[c] THEN FREE_CLUSTER ELSE t.fat[x]
      <3>1. FREE_CLUSTER \in Mark /\ Typed(t)
        BY <2>4 DEF Good, Mark
      <3> QED BY <1>7, <3>1, OneLink
    <2>6. n \in Nat
      BY <1>6, <2>2, <2>4, ChainIs DEF Good
    <2>7. Typed(u) /\ (Up(u) => Up(t))
      <3>1. Typed(u) /\ (Up(u) => Up(v))
        BY <1>8, <2>1, <2>5, <2>6, GrowTyped
      <3> QED BY <2>5, <3>1 DEF Up
    <2>8. CASE Nowhere \in Range(source)
      <3>1. r = [t EXCEPT !.state = "undefined"]
        BY <1>13, <1>10, <2>8
      <3>2. Typed(r) /\ ~Up(r)
        BY <2>4, <3>1, SetState DEF Good, Up
      <3> QED BY <1>1, <3>2 DEF Good
    <2>9. CASE Nowhere \notin Range(source) /\ ~Up(u)
      BY <1>1, <1>13, <1>10, <2>7, <2>9 DEF Good
    <2>10. CASE Nowhere \notin Range(source) /\ Up(u)
      <3>1. Sound(t)
        BY <2>4, <2>7, <2>10 DEF Good
      <3>2. PICK S : S = StartsOf(load_root_folder(t))
        OBVIOUS
      <3>3. b \in S /\ c \in S
        BY <2>1, <2>2, <2>4, <2>7, <2>10, <3>2
      <3>4. Typed(t) /\ Tidy(t.fat, S) /\ t.fat[b] \in Cluster /\ t.fat[c] \in Cluster
        BY <3>1, <3>2, <3>3 DEF Sound, Filled
      <3>5. n \in Nat \ {0}
        <4>1. Len(Path(t.fat, b)) >= 2 /\ Len(Chain(t, b)) = Len(Path(t.fat, b)) - 1
              /\ IsChain(t.fat, Path(t.fat, b), b)
          BY <3>3, <3>4, StartChain
        <4>2. PICK l : l = Len(Path(t.fat, b))
          OBVIOUS
        <4>3. l \in Nat
          BY <4>1, <4>2 DEF IsChain
        <4>4. l >= 2 /\ n = l - 1
          BY <1>6, <4>1, <4>2
        <4> QED BY <4>3, <4>4
      <3>6. c \in Range(Path(t.fat, c))
        <4>1. Range(Chain(t, c)) \subseteq Range(Path(t.fat, c)) /\ c \in Range(Chain(t, c))
          BY <3>3, <3>4, StartChain
        <4> QED BY <4>1
      <3>7. /\ Sound(u)
            /\ \A x \in Range(Chain(u, c)) : x \in Cluster /\ x \notin Range(Path(u.fat, Root))
        <4>1. c \in StartsOf(load_root_folder(t)) /\ c # Root /\ u = Grow(v, c, n)
          BY <1>8, <2>1, <3>2, <3>3
        <4> QED BY <2>5, <2>10, <3>1, <3>4, <3>5, <3>6, <4>1, RegrowSound
      <3>8. \A i \in DOMAIN Chain(u, c) :
              Chain(u, c)[i] \in Cluster /\ Chain(u, c)[i] \notin Range(Path(u.fat, Root))
        BY <3>7 DEF Range
      <3>9. PICK data, w : data = PeekAll(u, source) /\ w = PokeAll(u, Chain(u, c), data)
        OBVIOUS
      <3>10. Sound(w) /\ load_root_folder(w) = load_root_folder(u) /\ w.fat = u.fat
        BY <2>7, <3>7, <3>8, <3>9, PokeAllSound, PokeAllFacts
      <3>11. r = w
        BY <1>1, <1>13, <1>10, <2>10, <3>9
      <3>12. ASSUME OneCluster(s, des) PROVE LosesNone(s, w)
        <4>1. /\ LosesNone(s, t)
              /\ \A x \in Cluster : x \notin Range(Path(s.fat, Root)) /\ s.fat[x] # FREE_CLUSTER
                                    => t.fat[x] = s.fat[x]
          <5>1. Up(t) /\ new.start = get_file(s, des).start
            BY <1>3, <2>3, <2>7, <2>10
          <5> QED BY <1>5, <1>13, <2>3, <5>1, UpdateFound
        <4>2. t.fat[c] = s.fat[c] /\ t.fat[s.fat[c]] = s.fat[s.fat[c]]
          BY <2>1, <4>1, OffRoot
        <4>3. t.fat[t.fat[c]] = EOF_CLUSTER
          BY <1>3, <1>13, <3>12, <4>2 DEF OneCluster
        <4>4. LosesNone(t, u)
          <5>1. c \in StartsOf(load_root_folder(t)) /\ c # Root /\ u = Grow(v, c, n)
            BY <1>8, <2>1, <3>2, <3>3
          <5> QED BY <2>5, <2>10, <3>1, <3>4, <3>5, <3>6, <4>3, <5>1, RegrowSound
        <4> QED BY <3>10, <4>1, <4>4 DEF LosesNone
      <3> QED BY <1>1, <3>10, <3>11, <3>12 DEF Good, Sound
    <2> QED BY <2>9, <2>10, <2>8
  <1> QED BY <1>9, <1>11, <1>12, <1>13

\* Who writes to no cluster but free ones and the directory's keeps a file's chain.
LEMMA KeptChain ==
  ASSUME NEW s, Sound(s), NEW c \in StartsOf(load_root_folder(s)), c # Root,
         NEW t, Typed(t),
         \A x \in Cluster : x \notin Range(Path(s.fat, Root)) /\ s.fat[x] # FREE_CLUSTER
                            => t.fat[x] = s.fat[x]
  PROVE  /\ Len(Chain(t, c)) = Len(Chain(s, c)) /\ Len(Chain(s, c)) \in Nat
         /\ c \in Cluster /\ t.fat[c] \in Cluster /\ t.fat[t.fat[c]] # FREE_CLUSTER
  <1>1. PICK S, p, q : /\ S = StartsOf(load_root_folder(s))
                       /\ p = Path(s.fat, c) /\ q = Path(s.fat, Root)
    OBVIOUS
  <1>2. /\ Typed(s) /\ Tidy(s.fat, S) /\ s.fat \in Table /\ c \in S /\ Root \in S
        /\ c \in Cluster /\ s.fat[c] \in Cluster
    BY <1>1 DEF Sound, Typed, StartsOf, Filled, Tidy
  <1>3. IsChain(s.fat, p, c) /\ Len(p) >= 2
    BY <1>1, <1>2, StartChain
  <1>4. Range(p) \intersect Range(q) = {}
    BY <1>1, <1>2, PathsApart
  <1>5. \A d \in Range(p) : d \in Cluster /\ s.fat[d] # FREE_CLUSTER
    BY <1>3, TailSize
  <1>6. \A d \in Range(p) : t.fat[d] = s.fat[d]
    BY <1>1, <1>4, <1>5
  <1>7. Path(t.fat, c) = p /\ IsChain(t.fat, p, c)
    BY <1>1, <1>2, <1>3, <1>6, SameChain
  <1>8. Len(Chain(s, c)) = Len(p) - 1 /\ Len(Chain(s, c)) \in Nat
    BY <1>1, <1>2, <1>3, ChainIs
  <1>9. Len(Chain(t, c)) = Len(p) - 1
    BY <1>2, <1>7, ChainIs
  <1>10. c \in Range(p) /\ s.fat[c] \in Range(p)
    <2>1. p \in Seq(Cluster) /\ Len(p) \in Nat /\ 1 \in 1..Len(p) /\ 2 \in 1..Len(p)
      BY <1>3 DEF IsChain
    <2>2. 1 \in 1..(Len(p) - 1) /\ 1 + 1 = 2
      BY <1>3, <2>1
    <2>3. p[1] = c /\ p[2] = s.fat[p[1]]
      BY <1>3, <2>2 DEF IsChain
    <2> QED BY <2>1, <2>3 DEF Range
  <1> QED BY <1>2, <1>5, <1>6, <1>8, <1>9, <1>10

\* A copy takes no more clusters than its source's size asks for, but for the
\* one that marked the end of the destination (vfs.cpp:661).
LEMMA CpCalm ==
  ASSUME NEW s, Sound(s), NEW src, exists_file(s, src), NEW des,
         NEW size \in Nat,
         Len(Chain(s, get_file(s, src).start)) <= get_cluster_count_needed(size) + 1
  PROVE  Calm(cp(s, src, des, size, size))
  <1>1. PICK r, needed : /\ r = cp(s, src, des, size, size)
                         /\ needed = get_cluster_count_needed(size)
    OBVIOUS
  <1>2. Good(s) /\ Calm(s)
    BY DEF Good, Sound, Up, Calm
  <1>3. PICK e, c, b : e = get_file(s, des) /\ c = e.start /\ b = get_file(s, src).start
    OBVIOUS
  <1>4. PICK new : new = [e EXCEPT !.size = size]
    OBVIOUS
  <1>5. PICK t : t = Update(s, new)
    OBVIOUS
  <1>6. PICK source, n : source = Chain(t, b) /\ n = Len(source)
    OBVIOUS
  <1>7. PICK v, u : v = Linked(t, t.fat[c], FREE_CLUSTER) /\ u = Grow(v, c, n)
    OBVIOUS
  <1>8. r = IF ~exists_n_free_clusters(s, needed) THEN s
            ELSE IF ~exists_file(s, des) THEN [s EXCEPT !.state = "undefined"]
            ELSE CopyOver(t, b, c)
    BY <1>1, <1>3, <1>4, <1>5 DEF cp
  <1>9. CopyOver(t, b, c) = IF Nowhere \in Range(source) THEN [t EXCEPT !.state = "undefined"]
                            ELSE IF ~Up(u) THEN u
                            ELSE PokeAll(u, Chain(u, c), PeekAll(u, source))
    BY <1>6, <1>7 DEF CopyOver, Linked
  <1>10. CASE r = s
    BY <1>1, <1>2, <1>10
  <1>11. CASE r = [s EXCEPT !.state = "undefined"]
    BY <1>1, <1>2, <1>11, SetState DEF Good, Calm
  <1>12. CASE exists_file(s, des) /\ exists_n_free_clusters(s, needed) /\ r = CopyOver(t, b, c)
    <2>1. PICK S : S = StartsOf(load_root_folder(s))
      OBVIOUS
    <2>2. b \in S /\ c \in S /\ b # Root /\ c # Root
      BY <1>3, <1>12, <2>1, FileIs
    <2>3. /\ Calm(t) /\ Spare(t) >= Spare(s)
          /\ \A x \in Cluster : x \notin Range(Path(s.fat, Root)) /\ s.fat[x] # FREE_CLUSTER
                                => t.fat[x] = s.fat[x]
      BY <1>2, <1>5, UpdateCalm DEF Sound
    <2>4. Typed(t)
      <3>1. e \in Entry /\ e.name = des
        BY <1>3, <1>12, FileIs
      <3>2. new \in Entry /\ new.name = des /\ new.start = e.start
        BY <1>4, <3>1, EntryChanges
      <3>3. Good(Update(s, new))
        BY <1>2, <1>3, <1>12, <3>2, UpdateSound
      <3> QED BY <1>5, <3>3 DEF Good
    <2>5. n = Len(Chain(s, b)) /\ n \in Nat
      BY <1>6, <2>1, <2>2, <2>3, <2>4, KeptChain
    <2>6. PICK z : z = t.fat[c]
      OBVIOUS
    <2>7. c \in Cluster /\ z \in Cluster /\ t.fat[z] # FREE_CLUSTER
      BY <2>1, <2>2, <2>3, <2>4, <2>6, KeptChain
    <2>8. /\ Typed(v) /\ v.state = t.state
          /\ \A x \in Cluster : v.fat[x] = IF x \in {z} THEN FREE_CLUSTER ELSE t.fat[x]
      <3>1. FREE_CLUSTER \in Mark
        BY DEF Mark
      <3>2. /\ Typed(Linked(t, z, FREE_CLUSTER)) /\ Linked(t, z, FREE_CLUSTER).state = t.state
            /\ \A x \in Cluster :
                 Linked(t, z, FREE_CLUSTER).fat[x] = IF x = z THEN FREE_CLUSTER ELSE t.fat[x]
        BY <2>4, <3>1, OneLink
      <3> QED BY <1>7, <2>6, <3>2
    <2>9. Spare(v) = Spare(t) + 1
      <3>1. Spare(v) = Spare(t) + Cardinality({z})
        BY <2>7, <2>8, FreedSpare
      <3> QED BY <3>1, FS_Singleton
    <2>10. Spare(s) >= needed /\ needed \in Nat /\ Spare(s) \in Nat /\ Spare(t) \in Nat
      BY <1>1, <1>12, SpareIs, Needed
    <2>11. Spare(v) >= n
      BY <1>1, <1>3, <2>3, <2>5, <2>9, <2>10
    <2>12. Calm(u)
      <3>1. u.state = v.state \/ u.state = "undefined"
        BY <1>7, <2>5, <2>7, <2>8, <2>11, GrowCalm
      <3> QED BY <2>3, <2>8, <3>1 DEF Calm
    <2>13. Typed(u)
      BY <1>7, <2>5, <2>7, <2>8, GrowTyped
    <2>14. CASE r = [t EXCEPT !.state = "undefined"]
      BY <1>1, <2>4, <2>14, SetState DEF Calm
    <2>15. CASE r = u
      BY <1>1, <2>12, <2>15
    <2>16. CASE r = PokeAll(u, Chain(u, c), PeekAll(u, source))
      BY <1>1, <2>12, <2>13, <2>16, PokeAllFacts DEF Calm
    <2> QED BY <1>9, <1>12, <2>14, <2>15, <2>16
  <1> QED BY <1>8, <1>10, <1>11, <1>12

\* The sizes cp may find are sizes.
LEMMA SizesAreNumbers ==
  ASSUME NEW s, Sound(s), NEW t, Sound(t), NEW src, exists_file(s, src)
  PROVE  StaleSizes(s, t, src) \subseteq Nat
  <1>1. get_file(s, src).size \in Nat
    BY FileIs
  <1>2. PICK now : now = load_root_folder(t)
    OBVIOUS
  <1>3. now \in Seq(Entry)
    BY <1>2 DEF Sound, GoodFiles
  <1>4. \A j \in DOMAIN now : now[j].size \in Nat
    <2>1. \A x \in Entry : x.size \in Nat
      BY DEF Entry
    <2> QED BY <1>3, <2>1
  <1>5. \A i : {now[j].size : j \in {i} \intersect DOMAIN now} \subseteq Nat
    BY <1>4
  <1> QED BY <1>1, <1>2, <1>5 DEF StaleSizes

\* A kernel that is no longer up creates nothing that counts.
LEMMA CreateTyped ==
  ASSUME NEW s, Typed(s), ~Up(s), NEW f
  PROVE  Good(create_file(s, f)) /\ ~Up(create_file(s, f))
  <1>1. PICK r, files : r = create_file(s, f) /\ files = load_root_folder(s)
    OBVIOUS
  <1>2. CASE ~exists_n_free_clusters(s, 2)
    <2>1. r = Restore(s, files)
      BY <1>1, <1>2 DEF create_file
    <2>2. Good(Restore(s, files)) /\ ~Up(Restore(s, files))
      BY RestoreSound
    <2> QED BY <1>1, <2>1, <2>2
  <1>3. CASE exists_n_free_clusters(s, 2) /\ FreeClusters(s) # {}
    <2>1. PICK c : c = Min(FreeClusters(s))
      OBVIOUS
    <2>2. c \in Cluster
      <3>1. FreeClusters(s) # {}
        BY <1>3
      <3>2. FreeClusters(s) \subseteq Nat /\ FreeClusters(s) \subseteq Cluster
        BY Sizes DEF FreeClusters
      <3> QED BY <2>1, <3>1, <3>2, MinOf
    <2>3. PICK t0, t : t0 = Linked(s, c, TAKEN_CLUSTER) /\ t = Grow(t0, c, 1)
      OBVIOUS
    <2>4. PICK e, new : /\ e = [name |-> f, start |-> c, size |-> 0, open |-> FALSE, system |-> FALSE]
                        /\ new = Append(files, e)
      OBVIOUS
    <2>5. r = Restore(t, new)
      BY <1>1, <1>3, <2>1, <2>3, <2>4 DEF create_file, Linked
    <2>6. Typed(t0) /\ t0.state = s.state
      <3>1. TAKEN_CLUSTER \in Mark
        BY DEF Mark
      <3> QED BY <2>3, <3>1, OneLink
    <2>7. Typed(t) /\ ~Up(t)
      <3>1. Typed(t) /\ (Up(t) => Up(t0))
        BY <2>2, <2>3, <2>6, GrowTyped
      <3> QED BY <2>6, <3>1 DEF Up
    <2>8. Good(Restore(t, new)) /\ ~Up(Restore(t, new))
      BY <2>7, RestoreSound
    <2> QED BY <1>1, <2>5, <2>8
  <1>4. CASE exists_n_free_clusters(s, 2) /\ FreeClusters(s) = {}
    <2>1. r = [s EXCEPT !.state = "undefined"]
      BY <1>1, <1>4 DEF create_file
    <2>2. Typed(r) /\ ~Up(r)
      BY <2>1, SetState DEF Up
    <2> QED BY <1>1, <2>2 DEF Good
  <1> QED BY <1>2, <1>3, <1>4

LEMMA TouchGood ==
  ASSUME NEW s, Good(s), NEW f \in File, Up(s) => EntryFits(s, f)
  PROVE  /\ Good(touch(s, f))
         /\ Up(touch(s, f)) =>
              /\ Up(s) /\ Gains(s, touch(s, f)) /\ LosesNone(s, touch(s, f))
              /\ ~exists_file(s, f) => OneCluster(touch(s, f), f)
  <1>1. CASE Up(s)
    BY <1>1, TouchSound
  <1>2. CASE ~Up(s)
    <2>1. Good(create_file(s, f)) /\ ~Up(create_file(s, f))
      BY <1>2, CreateTyped DEF Good
    <2> QED BY <1>2, <2>1 DEF touch
  <1> QED BY <1>1, <1>2

\* rm takes away one file, and no system file (vfs.cpp:428).
LEMMA RmSound ==
  ASSUME NEW s, Sound(s), NEW f
  PROVE  /\ Good(rm(s, f)) /\ Calm(rm(s, f))
         /\ Up(rm(s, f)) =>
              /\ \A g \in File \ {f} : exists_file(s, g) => exists_file(rm(s, f), g)
              /\ LosesNone(s, rm(s, f))
              /\ CanRemove(s, f) =>
                   /\ ~exists_file(rm(s, f), f)
                   /\ Len(load_root_folder(rm(s, f))) = Len(load_root_folder(s)) - 1
  <1>1. CASE CanRemove(s, f)
    BY <1>1, DeleteSound, DeleteCalm DEF rm, CanRemove
  <1>2. CASE ~CanRemove(s, f)
    BY <1>2 DEF rm, Good, Sound, Up, Calm, LosesNone
  <1> QED BY <1>1, <1>2

\* A terminal's file becomes a system file.
LEMMA AsSystemSound ==
  ASSUME NEW s, Good(s), NEW f
  PROVE  /\ Good(AsSystem(s, f)) /\ (Calm(s) => Calm(AsSystem(s, f)))
         /\ Up(AsSystem(s, f)) =>
              Up(s) /\ Keeps(s, AsSystem(s, f)) /\ LosesNone(s, AsSystem(s, f))
  <1>1. PICK r : r = AsSystem(s, f)
    OBVIOUS
  <1>2. CASE ~Up(s)
    <2>1. r = [s EXCEPT !.state = s.state]
      BY <1>1, <1>2 DEF AsSystem
    <2>2. s.state \in {"up", "panic", "undefined"}
      BY DEF Good, Typed
    <2>3. Typed(r) /\ r.state = s.state
      BY <2>1, <2>2, SetState DEF Good
    <2> QED BY <1>1, <1>2, <2>3 DEF Good, Up, Calm
  <1>3. CASE Up(s) /\ ~exists_file(s, f)
    <2>1. r = [s EXCEPT !.state = "undefined"]
      BY <1>1, <1>3 DEF AsSystem
    <2>2. Typed(r) /\ ~Up(r) /\ Calm(r)
      BY <2>1, SetState DEF Good, Up, Calm
    <2> QED BY <1>1, <2>2 DEF Good
  <1>4. CASE Up(s) /\ exists_file(s, f)
    <2>1. PICK e, new : e = get_file(s, f) /\ new = [e EXCEPT !.system = TRUE]
      OBVIOUS
    <2>2. e \in Entry /\ e.name = f
      BY <1>4, <2>1, FileIs DEF Good
    <2>3. new \in Entry /\ new.name = f /\ new.start = e.start
      BY <2>1, <2>2, EntryChanges
    <2>4. r = Update(s, new)
      BY <1>1, <1>4, <2>1 DEF AsSystem
    <2>5. Good(Update(s, new)) /\ (Up(Update(s, new)) => Up(s) /\ Keeps(s, Update(s, new)))
      BY <1>4, <2>1, <2>3, UpdateSound
    <2>6. Calm(s) => Calm(Update(s, new))
      BY UpdateCalm
    <2>7. Up(r) => LosesNone(s, r)
      BY <1>4, <2>1, <2>3, <2>4, UpdateFound DEF Good
    <2> QED BY <1>1, <2>4, <2>5, <2>6, <2>7
  <1> QED BY <1>2, <1>3, <1>4

\* A long file is deleted and made again from its end (common.cpp:33).
LEMMA ShortenSound ==
  ASSUME NEW s, Good(s), NEW f \in File, Up(s) => exists_file(s, f)
  PROVE  /\ Good(Shorten(s, f)) /\ (Calm(s) => Calm(Shorten(s, f)))
         /\ Up(Shorten(s, f)) => Up(s) /\ LosesNone(s, Shorten(s, f))
  <1>1. PICK text, n : text = Contents(s, f) /\ n = Len(text)
    OBVIOUS
  <1>2. CASE ~Intact(s) \/ n < MAX_SHELL_FILE_SIZE
    BY <1>1, <1>2 DEF Shorten, LosesNone
  <1>3. CASE ~(~Intact(s) \/ n < MAX_SHELL_FILE_SIZE)
    <2>1. Sound(s) /\ exists_file(s, f)
      BY <1>3 DEF Intact, IntactIn, Good
    <2>2. PICK size : size = get_file(s, f).size
      OBVIOUS
    <2>3. size \in Nat
      BY <2>1, <2>2, FileIs
    <2>4. n = size /\ \E S : text \in Seq(S)
      <3>1. PICK cells :
              text = [j \in 1..size |-> IF j \in DOMAIN cells THEN cells[j] ELSE Garbage]
        BY <1>1, <2>2 DEF Contents
      <3>2. PICK S : S = {text[j] : j \in 1..size}
        OBVIOUS
      <3>3. \A j \in 1..size : text[j] \in S
        BY <3>2
      <3>4. text = [j \in 1..size |-> text[j]]
        BY <3>1
      <3>5. text \in Seq(S) /\ Len(text) = size
        BY <2>3, <3>3, <3>4
      <3> QED BY <1>1, <3>5
    <2>5. PICK k : k = n - MAX_SHELL_FILE_SIZE + 1
      OBVIOUS
    <2>6. k \in 1..(n + 1) /\ n \in 0..n /\ k <= n + 1 /\ n - k + 1 \in Nat
      <3>1. MAX_SHELL_FILE_SIZE \in Nat
        BY Geometry
      <3> QED BY <1>3, <2>3, <2>4, <2>5, <3>1
    <2>7. PICK kept : kept = SubSeq(text, k, n)
      OBVIOUS
    <2>8. Len(kept) \in Nat
      <3>1. PICK S : text \in Seq(S)
        BY <2>4
      <3>2. k \in 1..(Len(text) + 1) /\ n \in 0..Len(text)
        BY <1>1, <2>6
      <3>3. Len(SubSeq(text, k, n)) = n - k + 1
        BY <2>6, <3>1, <3>2, PartOf
      <3> QED BY <2>6, <2>7, <3>3
    <2>9. PICK d, a, b : d = delete_file(s, f) /\ a = touch(d, f) /\ b = AsSystem(a, f)
      OBVIOUS
    <2>10. Good(d) /\ Calm(d)
      BY <2>1, <2>9, DeleteSound, DeleteCalm
    <2>11. Up(d) => EntryFits(d, f)
      <3>1. PICK l : l = Len(load_root_folder(s))
        OBVIOUS
      <3>2. l \in Nat /\ RoomFor(l)
        BY <2>1, <3>1 DEF Sound, GoodFiles
      <3>3. Up(d) => Len(load_root_folder(d)) = l - 1
        BY <2>1, <2>9, <3>1, DeleteSound
      <3>4. l - 1 + 1 = l
        BY <3>2
      <3> QED BY <3>2, <3>3, <3>4 DEF EntryFits
    <2>12. Good(a) /\ Calm(a)
      <3>1. ASSUME Up(d)
            PROVE  LET m == Len(load_root_folder(d))
                   IN  Spare(d) + ClustersFor(m) >= ClustersFor(m + 1) + 2
        <4>1. PICK l, m : l = Len(load_root_folder(s)) /\ m = Len(load_root_folder(d))
          OBVIOUS
        <4>2. l \in Nat \ {0} /\ Spare(d) + ClustersFor(l - 1) >= Spare(s) + ClustersFor(l) + 2
          BY <2>1, <2>9, <4>1, DeleteCalm
        <4>3. m = l - 1
          BY <2>1, <2>9, <3>1, <4>1, DeleteSound
        <4>4. m \in Nat /\ m + 1 = l
          BY <4>2, <4>3
        <4>5. ClustersFor(m) \in Nat /\ ClustersFor(m + 1) \in Nat
          BY <4>4, OneMoreEntry
        <4>6. Spare(d) \in Nat /\ Spare(s) \in Nat
          BY SpareIs
        <4>7. Spare(d) + ClustersFor(m) >= Spare(s) + ClustersFor(m + 1) + 2
          BY <4>2, <4>3, <4>4
        <4> QED BY <4>1, <4>5, <4>6, <4>7
      <3>2. Calm(touch(d, f))
        BY <2>10, <3>1, TouchCalm
      <3> QED BY <2>9, <2>10, <2>11, <3>2, TouchGood
    <2>13. Good(b) /\ Calm(b)
      BY <2>9, <2>12, AsSystemSound
    <2>14. Good(append_data(b, f, kept, Len(kept))) /\ Calm(append_data(b, f, kept, Len(kept)))
      BY <2>8, <2>13, AppendSound
    <2>15. Shorten(s, f) = append_data(b, f, kept, Len(kept))
      BY <1>1, <1>3, <2>5, <2>7, <2>9 DEF Shorten
    <2>16. ASSUME Up(Shorten(s, f)) PROVE LosesNone(s, Shorten(s, f))
      <3>1. Up(b) /\ LosesNone(b, Shorten(s, f))
        BY <2>8, <2>13, <2>15, <2>16, AppendSound
      <3>2. Up(a) /\ LosesNone(a, b)
        BY <2>9, <2>12, <3>1, AsSystemSound
      <3>3. Up(d) /\ LosesNone(d, a)
        BY <2>9, <2>10, <2>11, <3>2, TouchGood
      <3>4. LosesNone(s, d)
        BY <2>1, <2>9, <3>3, DeleteSound
      <3> QED BY <3>1, <3>2, <3>3, <3>4 DEF LosesNone
    <2> QED BY <2>1, <2>14, <2>15, <2>16 DEF Sound
  <1> QED BY <1>2, <1>3

\* With three clusters free touch does not make the kernel panic.
LEMMA TouchedCalm ==
  ASSUME NEW s, Good(s), Calm(s), Spare(s) >= 3, NEW f \in File, Up(s) => EntryFits(s, f)
  PROVE  Good(touch(s, f)) /\ Calm(touch(s, f))
  <1>1. Good(touch(s, f))
    BY TouchGood
  <1>2. Calm(touch(s, f))
    BY RoomForFile, TouchCalm
  <1> QED BY <1>1, <1>2

\* The directory of t is that of s, or has one entry more behind the others.
OneMore(s, t, f) ==
  \/ load_root_folder(t) = load_root_folder(s)
  \/ \E e : e.name = f /\ load_root_folder(t) = Append(load_root_folder(s), e)

\* A new entry behind the others leaves an entry, and the size cp may find for
\* it, as they were.
LEMMA SameEntry ==
  ASSUME NEW s, Sound(s), NEW t, Sound(t), NEW src, exists_file(s, src), NEW des, des # src,
         OneMore(s, t, des)
  PROVE  /\ exists_file(t, src) /\ get_file(t, src) = get_file(s, src)
         /\ StaleSizes(s, t, src) = {get_file(s, src).size}
  <1>1. PICK files, now, k : /\ files = load_root_folder(s) /\ now = load_root_folder(t)
                             /\ k = Index(files, src)
    OBVIOUS
  <1>2. /\ files \in Seq(Entry) /\ now \in Seq(Entry) /\ GoodFiles(files)
        /\ k \in DOMAIN files /\ files[k] = get_file(s, src) /\ files[k].name = src
    BY <1>1, FileIs DEF Sound, GoodFiles
  <1>3. /\ k \in DOMAIN now /\ now[k] = files[k]
        /\ \A j \in DOMAIN now : now[j].name = src => j \in DOMAIN files /\ now[j] = files[j]
    <2>1. CASE now = files
      BY <1>2, <2>1
    <2>2. CASE \E e : e.name = des /\ now = Append(files, e)
      <3>1. PICK e : e.name = des /\ now = Append(files, e)
        BY <2>2
      <3>2. PICK n : n = Len(files)
        OBVIOUS
      <3>3. n \in Nat /\ DOMAIN files = 1..n
        BY <1>2, <3>2
      <3>4. DOMAIN now = 1..(n + 1) /\ now[n + 1] = e /\ \A j \in 1..n : now[j] = files[j]
        BY <1>2, <3>1, <3>2, <3>3
      <3>5. \A j \in 1..(n + 1) : j \in 1..n \/ j = n + 1
        BY <3>3
      <3>6. k \in 1..(n + 1)
        BY <1>2, <3>3
      <3> QED BY <1>2, <3>1, <3>3, <3>4, <3>5, <3>6
    <2> QED BY <1>1, <2>1, <2>2 DEF OneMore
  <1>4. exists_file(t, src)
    BY <1>1, <1>2, <1>3 DEF exists_file, Range
  <1>5. PICK j : j = Index(now, src)
    OBVIOUS
  <1>6. j \in DOMAIN now /\ now[j].name = src /\ get_file(t, src) = now[j]
    BY <1>1, <1>4, <1>5, FileIs
  <1>7. j = k
    BY <1>2, <1>3, <1>6 DEF GoodFiles
  <1>8. get_file(t, src) = get_file(s, src)
    BY <1>2, <1>3, <1>6, <1>7
  <1>9. {now[i].size : i \in {k} \intersect DOMAIN now} = {files[k].size}
    BY <1>3
  <1> QED BY <1>1, <1>2, <1>4, <1>8, <1>9 DEF StaleSizes

\* A file has one cluster for data at least.
LEMMA MaxWithOne ==
  ASSUME NEW n \in Nat
  PROVE  Max({1, n}) \in Nat /\ Max({1, n}) <= n + 1
  <1>1. \E x \in {1, n} : \A y \in {1, n} : x >= y
    OBVIOUS
  <1>2. Max({1, n}) \in {1, n}
    BY <1>1 DEF Max
  <1> QED BY <1>2

-----------------------------------------------------------------------------
(* From boot on *)

\* The steps of fs_init, and of init_process_scheduler after it.
BootStep(what, i, s) ==
  IF what = "default"
    THEN DefaultFile(s, DefaultFiles[i][1], DefaultFiles[i][2])
    ELSE StreamFile(s, SetToSeq(Stream)[i])

IsBoot(g, what, n, b) ==
  g = [i \in 0..n |-> IF i = 0 THEN b ELSE BootStep(what, i, g[i - 1])]

LEMMA BootValues ==
  ASSUME NEW what, NEW n \in Nat, NEW b, NEW g
  PROVE  IsBoot(g, what, n, b) <=>
           /\ g = [i \in 0..n |-> g[i]] /\ g[0] = b
           /\ \A i \in 1..n : g[i] = BootStep(what, i, g[i - 1])
  <1>1. ASSUME IsBoot(g, what, n, b)
        PROVE  /\ g = [i \in 0..n |-> g[i]] /\ g[0] = b
               /\ \A i \in 1..n : g[i] = BootStep(what, i, g[i - 1])
    <2>1. g = [i \in 0..n |-> IF i = 0 THEN b ELSE BootStep(what, i, g[i - 1])]
      BY <1>1 DEF IsBoot
    <2>2. g = [i \in 0..n |-> g[i]]
      BY <2>1
    <2>3. g[0] = b
      BY <2>1
    <2>4. ASSUME NEW i \in 1..n PROVE g[i] = BootStep(what, i, g[i - 1])
      <3>1. i \in 0..n /\ i # 0
        OBVIOUS
      <3> QED BY <2>1, <3>1
    <2> QED BY <2>2, <2>3, <2>4
  <1>2. ASSUME /\ g = [i \in 0..n |-> g[i]] /\ g[0] = b
               /\ \A i \in 1..n : g[i] = BootStep(what, i, g[i - 1])
        PROVE  IsBoot(g, what, n, b)
    <2>1. \A i \in 0..n : g[i] = IF i = 0 THEN b ELSE BootStep(what, i, g[i - 1])
      <3>1. \A i \in 0..n : i = 0 \/ i \in 1..n
        OBVIOUS
      <3>2. \A i \in 1..n : i # 0
        OBVIOUS
      <3> QED BY <1>2, <3>1, <3>2
    <2>2. [i \in 0..n |-> g[i]] = [i \in 0..n |-> IF i = 0 THEN b ELSE BootStep(what, i, g[i - 1])]
      BY <2>1
    <2> QED BY <1>2, <2>2 DEF IsBoot
  <1> QED BY <1>1, <1>2

LEMMA BootSteps ==
  ASSUME NEW what, NEW n \in Nat, NEW b, NEW g, IsBoot(g, what, n, b)
  PROVE  g[0] = b /\ \A i \in 1..n : g[i] = BootStep(what, i, g[i - 1])
  <1>1. PICK m : m = n
    OBVIOUS
  <1>2. m \in Nat /\ IsBoot(g, what, m, b)
    BY <1>1
  <1>3. /\ g = [i \in 0..m |-> g[i]] /\ g[0] = b
        /\ \A i \in 1..m : g[i] = BootStep(what, i, g[i - 1])
    BY <1>2, BootValues
  <1> QED BY <1>1, <1>3

\* One step more.
LEMMA BootOnce ==
  ASSUME NEW what, NEW b, NEW n \in Nat, n # 0, NEW g, IsBoot(g, what, n - 1, b)
  PROVE  \E h : IsBoot(h, what, n, b)
  <1>1. PICK m, x : m = n - 1 /\ x = BootStep(what, n, g[n - 1])
    OBVIOUS
  <1>2. m \in Nat /\ n = m + 1
    BY <1>1
  <1>3. /\ g = [i \in 0..m |-> g[i]] /\ g[0] = b
        /\ \A i \in 1..m : g[i] = BootStep(what, i, g[i - 1])
    BY <1>1, <1>2, BootValues
  <1>4. PICK h : h = [i \in 0..n |-> IF i = n THEN x ELSE g[i]]
    OBVIOUS
  <1>5. h[n] = x /\ \A i \in 0..m : h[i] = g[i]
    BY <1>2, <1>4
  <1>6. h = [i \in 0..n |-> h[i]]
    BY <1>4
  <1>7. h[0] = b
    BY <1>2, <1>3, <1>5
  <1>8. ASSUME NEW i \in 1..n PROVE h[i] = BootStep(what, i, h[i - 1])
    <2>1. i - 1 \in 0..m /\ h[i - 1] = g[i - 1]
      BY <1>2, <1>5
    <2>2. CASE i = n
      BY <1>1, <1>5, <2>1, <2>2
    <2>3. CASE i # n
      <3>1. i \in 1..m /\ i \in 0..m
        BY <1>2, <2>3
      <3> QED BY <1>3, <1>5, <2>1, <3>1
    <2> QED BY <2>2, <2>3
  <1>9. IsBoot(h, what, n, b)
    BY <1>6, <1>7, <1>8, BootValues
  <1> QED BY <1>9

LEMMA BootIs ==
  ASSUME NEW what, NEW b, NEW n \in Nat
  PROVE  \E g : IsBoot(g, what, n, b)
  <1>1. PICK T : T = {i \in 0..n : \E g : IsBoot(g, what, i, b)}
    OBVIOUS
  <1>2. 0 \in T
    <2>1. PICK g : g = [i \in 0..0 |-> b]
      OBVIOUS
    <2>2. g = [i \in 0..0 |-> g[i]] /\ g[0] = b /\ \A i \in 1..0 : g[i] = BootStep(what, i, g[i - 1])
      BY <2>1
    <2>3. IsBoot(g, what, 0, b)
      BY <2>2, BootValues
    <2> QED BY <1>1, <2>3
  <1>3. ASSUME NEW i \in 1..n, i - 1 \in T PROVE i \in T
    <2>1. PICK g : IsBoot(g, what, i - 1, b)
      BY <1>1, <1>3
    <2>2. i \in Nat /\ i # 0
      OBVIOUS
    <2>3. \E h : IsBoot(h, what, i, b)
      BY <2>1, <2>2, BootOnce
    <2> QED BY <1>1, <2>3
  <1>4. T \subseteq 0..n
    BY <1>1
  <1>5. \A i \in 0..n : i \in T
    BY <1>2, <1>3, <1>4, Induct
  <1>6. n \in T
    BY <1>5
  <1> QED BY <1>1, <1>6

\* What every step preserves holds after the last; each makes one file at most.
GoodAndFew(s, n) == Good(s) /\ (Up(s) => Len(load_root_folder(s)) <= n)

LEMMA BootTouch ==
  ASSUME NEW n \in Nat, RoomFor(n + 1), NEW s, GoodAndFew(s, n), NEW f \in File
  PROVE  GoodAndFew(touch(s, f), n + 1)
  <1>1. PICK l : l = Len(load_root_folder(s))
    OBVIOUS
  <1>2. Up(s) => l \in Nat /\ l <= n
    BY <1>1 DEF GoodAndFew, Good, Sound, GoodFiles
  <1>3. Up(s) => RoomFor(l + 1)
    BY <1>2, LessRoom
  <1>4. Up(s) => EntryFits(s, f)
    BY <1>1, <1>3 DEF EntryFits
  <1>5. PICK t : t = touch(s, f)
    OBVIOUS
  <1>6. Good(t) /\ (Up(t) => Up(s) /\ Len(load_root_folder(t)) <= l + 1)
    BY <1>1, <1>4, <1>5, TouchGood DEF GoodAndFew, Gains
  <1>7. Up(t) => Len(load_root_folder(t)) \in Nat
    BY <1>6 DEF Good, Sound, GoodFiles
  <1> QED BY <1>2, <1>5, <1>6, <1>7 DEF GoodAndFew

LEMMA BootGood ==
  ASSUME NEW what, NEW n \in Nat, NEW k \in Nat, NEW b, GoodAndFew(b, k),
         NEW g, IsBoot(g, what, n, b),
         \A i \in 1..n : \A s : GoodAndFew(s, k + i - 1) => GoodAndFew(BootStep(what, i, s), k + i)
  PROVE  GoodAndFew(g[n], k + n)
  <1>1. g[0] = b /\ \A i \in 1..n : g[i] = BootStep(what, i, g[i - 1])
    BY BootSteps
  <1>2. PICK T : T = {i \in 0..n : GoodAndFew(g[i], k + i)}
    OBVIOUS
  <1>3. 0 \in T
    <2>1. k + 0 = k /\ 0 \in 0..n
      OBVIOUS
    <2> QED BY <1>1, <1>2, <2>1
  <1>4. ASSUME NEW i \in 1..n, i - 1 \in T PROVE i \in T
    <2>1. k + (i - 1) = k + i - 1
      OBVIOUS
    <2>2. GoodAndFew(g[i - 1], k + i - 1)
      BY <1>2, <1>4, <2>1
    <2>3. GoodAndFew(g[i], k + i)
      BY <1>1, <2>2
    <2> QED BY <1>2, <2>3
  <1>5. T \subseteq 0..n
    BY <1>2
  <1>6. \A i \in 0..n : i \in T
    BY <1>3, <1>4, <1>5, Induct
  <1>7. n \in T
    BY <1>6
  <1> QED BY <1>2, <1>7

\* An empty directory on an empty disk (vfs.cpp:52).
LEMMA FirstDirectory ==
  GoodAndFew(save_root_folder(Empty, <<>>), 0)
  <1>1. PICK s, fat, disk :
          /\ fat = [c \in Cluster |-> IF c = Root THEN TAKEN_CLUSTER ELSE FREE_CLUSTER]
          /\ disk = [a \in 0 .. At(CLUSTER_COUNT + 1) - 1 |-> Blank]
          /\ s = [fat |-> fat, disk |-> disk, state |-> "up"]
    OBVIOUS
  <1>2. s = Empty
    BY <1>1 DEF Empty
  <1>3. s.fat = fat /\ s.disk = disk /\ s.state = "up"
    BY <1>1
  <1>4. fat \in Table
    BY <1>1 DEF Table, Mark
  <1>5. Typed(s)
    BY <1>1, <1>3, <1>4 DEF Typed, Disk
  <1>6. PICK files : files = <<>>
    OBVIOUS
  <1>7. files \in Seq(Entry) /\ DOMAIN files = {}
    BY <1>6
  <1>8. GoodFiles(files) /\ StartsOf(files) = {Root} /\ Len(files) = 0
    <2>1. Len(files) = 0
      BY <1>6
    <2>2. RoomFor(0)
      BY DEF RoomFor
    <2> QED BY <1>7, <2>1, <2>2 DEF GoodFiles, StartsOf
  <1>9. PICK cut : cut = [fat EXCEPT ![Root] = EOF_CLUSTER]
    OBVIOUS
  <1>10. /\ cut \in Table
         /\ \A c \in Cluster : cut[c] = IF c = Root THEN EOF_CLUSTER ELSE FREE_CLUSTER
         /\ \A c \in Cluster : cut[c] = IF c = Root THEN EOF_CLUSTER ELSE s.fat[c]
    BY <1>1, <1>3, <1>4, <1>9 DEF Table, Mark
  <1>11. \A c \in Cluster : cut[c] \notin Cluster /\ cut[c] # TAKEN_CLUSTER
    BY <1>10, MarksApart DEF Mark
  <1>12. Root \in Cluster /\ cut[Root] # FREE_CLUSTER
    BY <1>10, Sizes, MarksApart
  <1>13. Tidy(cut, StartsOf(files))
    BY <1>8, <1>11, <1>12 DEF Tidy, First
  <1>14. s.fat[Root] # FREE_CLUSTER
    BY <1>1, <1>3, <1>12, MarksApart
  <1>15. Filled(s.fat, StartsOf(files) \ {Root})
    BY <1>8 DEF Filled
  <1>16. PICK r : r = save_root_folder(s, files)
    OBVIOUS
  <1>17. Typed(r) /\ (Up(r) => Sound(r) /\ load_root_folder(r) = files)
    BY <1>5, <1>8, <1>10, <1>13, <1>14, <1>15, <1>16, SaveSound
  <1> QED BY <1>2, <1>6, <1>8, <1>16, <1>17 DEF Good, GoodAndFew

\* The streams are a sequence of file names.
LEMMA StreamsAre ==
  /\ Len(SetToSeq(Stream)) \in Nat /\ Len(SetToSeq(Stream)) = Cardinality(Stream)
  /\ \A i \in 1..Len(SetToSeq(Stream)) : SetToSeq(Stream)[i] \in File
  <1>1. IsFiniteSet(File) /\ Stream \subseteq File
    BY Names
  <1>2. IsFiniteSet(Stream)
    BY <1>1, FS_Subset
  <1>3. PICK n : n = Cardinality(Stream)
    OBVIOUS
  <1>4. n \in Nat /\ ExistsBijection(1..n, Stream)
    BY <1>2, <1>3, FS_CardinalityType
  <1>5. PICK h \in Bijection(1..n, Stream) : TRUE
    BY <1>4 DEF ExistsBijection
  <1>6. h \in [1..n -> Stream] /\ IsInjective(h)
    BY <1>5 DEF Bijection, Injection, Surjection, IsInjective
  <1>7. PICK q : q = SetToSeq(Stream)
    OBVIOUS
  <1>8. q \in [1..n -> Stream]
    <2>1. q = CHOOSE f \in [1..n -> Stream] : IsInjective(f)
      BY <1>3, <1>7 DEF SetToSeq
    <2> QED BY <1>6, <2>1
  <1>9. Len(q) = n
    BY <1>4, <1>8
  <1> QED BY <1>1, <1>3, <1>4, <1>7, <1>8, <1>9

\* The kernel boots with a sound file system, or panics (vfs.cpp:37).
LEMMA FsInitGood ==
  Good(fs_init)
  <1>1. PICK n, b : n = Len(DefaultFiles) /\ b = save_root_folder(Empty, <<>>)
    OBVIOUS
  <1>2. n \in Nat /\ GoodAndFew(b, 0) /\ 0 \in Nat
    BY <1>1, Names, FirstDirectory
  <1>3. PICK m : m = Len(SetToSeq(Stream))
    OBVIOUS
  <1>4. m \in Nat /\ RoomFor(n + m)
    BY <1>1, <1>3, StreamsAre, BootFits
  <1>5. PICK c : c = create_default_files(b)
    OBVIOUS
  <1>6. GoodAndFew(c, n)
    <2>1. PICK g : g = CHOOSE h : IsBoot(h, "default", n, b)
      OBVIOUS
    <2>2. IsBoot(g, "default", n, b)
      BY <1>2, <2>1, BootIs
    <2>3. c = g[n]
      BY <1>1, <1>5, <2>1 DEF create_default_files, IsBoot, BootStep
    <2>4. ASSUME NEW i \in 1..n, NEW s, GoodAndFew(s, 0 + i - 1)
          PROVE  GoodAndFew(BootStep("default", i, s), 0 + i)
      <3>1. PICK f, text : f = DefaultFiles[i][1] /\ text = DefaultFiles[i][2]
        OBVIOUS
      <3>2. f \in File /\ Len(text) \in Nat
        BY <1>1, <3>1, Names
      <3>3. i - 1 \in Nat /\ (i - 1) + 1 = i /\ i <= n + m /\ 0 + i - 1 = i - 1 /\ 0 + i = i
            /\ n + m \in Nat /\ i \in Nat
        BY <1>2, <1>4
      <3>4. RoomFor(i)
        BY <1>4, <3>3, LessRoom
      <3>5. PICK j : j = i - 1
        OBVIOUS
      <3>6. j \in Nat /\ j + 1 = i /\ GoodAndFew(s, j)
        BY <2>4, <3>3, <3>5
      <3>7. GoodAndFew(touch(s, f), i)
        BY <3>2, <3>4, <3>6, BootTouch
      <3>8. PICK t, a : t = touch(s, f) /\ a = append_data(t, f, text, Len(text))
        OBVIOUS
      <3>9. GoodAndFew(a, i)
        BY <3>2, <3>7, <3>8, AppendSound DEF GoodAndFew, Keeps
      <3> QED BY <3>1, <3>3, <3>8, <3>9 DEF BootStep, DefaultFile
    <2>5. GoodAndFew(g[n], 0 + n)
      BY <1>2, <2>2, <2>4, BootGood
    <2>6. 0 + n = n
      BY <1>2
    <2> QED BY <2>3, <2>5, <2>6
  <1>7. PICK g : g = CHOOSE h : IsBoot(h, "stream", m, c)
    OBVIOUS
  <1>8. IsBoot(g, "stream", m, c)
    BY <1>4, <1>7, BootIs
  <1>9. fs_init = g[m]
    BY <1>1, <1>3, <1>5, <1>7 DEF fs_init, MakeStreams, IsBoot, BootStep
  <1>10. ASSUME NEW i \in 1..m, NEW s, GoodAndFew(s, n + i - 1)
         PROVE  GoodAndFew(BootStep("stream", i, s), n + i)
    <2>1. PICK f : f = SetToSeq(Stream)[i]
      OBVIOUS
    <2>2. f \in File
      BY <1>3, <2>1, StreamsAre
    <2>3. PICK j : j = n + i - 1
      OBVIOUS
    <2>4. j \in Nat /\ j + 1 = n + i /\ n + i <= n + m /\ n + m \in Nat /\ n + i \in Nat
      BY <1>2, <1>4, <2>3
    <2>5. RoomFor(j + 1)
      BY <1>4, <2>4, LessRoom
    <2>6. GoodAndFew(touch(s, f), j + 1)
      BY <1>10, <2>2, <2>3, <2>4, <2>5, BootTouch
    <2>7. PICK t, a : t = touch(s, f) /\ a = AsSystem(t, f)
      OBVIOUS
    <2>8. GoodAndFew(a, j + 1)
      BY <2>6, <2>7, AsSystemSound DEF GoodAndFew, Keeps
    <2> QED BY <2>1, <2>4, <2>7, <2>8 DEF BootStep, StreamFile
  <1>11. GoodAndFew(g[m], n + m)
    BY <1>2, <1>4, <1>6, <1>8, <1>10, BootGood
  <1> QED BY <1>9, <1>11 DEF GoodAndFew

-----------------------------------------------------------------------------
(* The calls *)

\* The inductive invariant: between two calls the kernel has stopped, or the
\* directory can be read, its names and starts are unique, and the links of
\* the cluster table are tidy.
Inv == Good(fs) /\ eax \in {0, 1} /\ calls \in 0..MaxCalls

LEMMA CheckedGood ==
  ASSUME NEW s, Good(s)
  PROVE  Good(Checked(s))
  <1>1. PICK t : t = Checked(s)
    OBVIOUS
  <1>2. Typed(t) /\ (Up(t) => t = s)
    BY <1>1, CheckedTyped DEF Good
  <1> QED BY <1>1, <1>2 DEF Good

\* Any call with a sound result preserves the invariant.
LEMMA CallKeeps ==
  ASSUME Inv, Ready, NEW s, Good(s), NEW result \in {0, 1}, NEW call, Call(s, result, call)
  PROVE  Inv' /\ (Calm(s) => Calm(fs')) /\ (Up(fs') => fs' = s)
  <1>1. Good(fs')
    BY CheckedGood DEF Call
  <1>2. eax' \in {0, 1}
    BY DEF Call
  <1>3. calls' \in 0..MaxCalls
    <2>1. MaxCalls \in Nat
      BY Geometry
    <2> QED BY <2>1 DEF Call, Inv, Ready
  <1>4. Calm(s) => Calm(fs')
    BY CheckedSame DEF Call, Good
  <1>5. Up(fs') => fs' = s
    BY CheckedTyped DEF Call, Good
  <1> QED BY <1>1, <1>2, <1>3, <1>4, <1>5 DEF Inv

LEMMA MoreCalls ==
  ASSUME Inv, calls' = calls + 1
  PROVE  calls' # calls
  BY Geometry DEF Inv

LEMMA ReadySound ==
  ASSUME Inv, Ready
  PROVE  Sound(fs) /\ Good(fs) /\ Up(fs) /\ Calm(fs)
  BY DEF Inv, Ready, Intact, IntactIn, Good, Up, Calm

LEMMA RoomIs ==
  ASSUME Inv, Ready, NEW f, RoomForEntry(f)
  PROVE  EntryFits(fs, f)
  <1>1. Count(fs) \in Nat
    BY ReadySound DEF Sound
  <1> QED BY <1>1, CountIs DEF RoomForEntry, EntryFits

LEMMA TouchKeeps ==
  ASSUME Inv, NEW f \in File, Touch(f)
  PROVE  Inv' /\ (Spare(fs) >= 3 => Calm(fs')) /\ (Up(fs') => LosesNone(fs, fs'))
  <1>1. PICK s, result, call : /\ s = touch(fs, f)
                               /\ result = IF exists_file(fs, f) THEN 1 ELSE 0
                               /\ call = [of |-> "touch", file |-> f]
    OBVIOUS
  <1>2. Ready /\ Call(s, result, call) /\ EntryFits(fs, f)
    BY <1>1, RoomIs DEF Touch
  <1>3. Good(s) /\ (Spare(fs) >= 3 => Calm(s)) /\ (Up(s) => LosesNone(fs, s))
    BY <1>1, <1>2, ReadySound, TouchGood, TouchedCalm
  <1>4. result \in {0, 1}
    BY <1>1
  <1> QED BY <1>2, <1>3, <1>4, CallKeeps

LEMMA RmKeeps ==
  ASSUME Inv, NEW f \in File, Rm(f)
  PROVE  Inv' /\ Calm(fs') /\ (Up(fs') => LosesNone(fs, fs'))
  <1>1. PICK s, result, call : /\ s = rm(fs, f)
                               /\ result = IF CanRemove(fs, f) THEN 0 ELSE 1
                               /\ call = [of |-> "rm", file |-> f]
    OBVIOUS
  <1>2. Ready /\ Call(s, result, call)
    BY <1>1 DEF Rm
  <1>3. Sound(fs)
    BY <1>2, ReadySound
  <1>4. Good(s) /\ Calm(s) /\ (Up(s) => LosesNone(fs, s))
    BY <1>1, <1>3, RmSound
  <1>5. result \in {0, 1}
    BY <1>1
  <1> QED BY <1>2, <1>4, <1>5, CallKeeps

LEMMA FileAppendKeeps ==
  ASSUME Inv, NEW f \in File, NEW data \in Buffer, FileAppend(f, data)
  PROVE  Inv' /\ (Spare(fs) >= 3 => Calm(fs')) /\ (Up(fs') => LosesNone(fs, fs'))
  <1>1. PICK t, a, call : /\ t = touch(fs, f) /\ a = append_data(t, f, data, Len(data))
                          /\ call = [of |-> "append", file |-> f, data |-> data]
    OBVIOUS
  <1>2. Ready /\ (Call(a, 0, call) \/ Call(t, 1, call)) /\ EntryFits(fs, f)
    BY <1>1, RoomIs DEF FileAppend
  <1>3. Len(data) \in Nat
    BY Names
  <1>4. Good(t) /\ (Spare(fs) >= 3 => Calm(t)) /\ (Up(t) => LosesNone(fs, t))
    BY <1>1, <1>2, ReadySound, TouchGood, TouchedCalm
  <1>5. Good(a) /\ (Spare(fs) >= 3 => Calm(a)) /\ (Up(a) => LosesNone(fs, a))
    BY <1>1, <1>3, <1>4, AppendSound DEF LosesNone
  <1>6. CASE Call(a, 0, call)
    BY <1>2, <1>5, <1>6, CallKeeps
  <1>7. CASE Call(t, 1, call)
    BY <1>2, <1>4, <1>7, CallKeeps
  <1> QED BY <1>2, <1>6, <1>7

LEMMA WriteKeeps ==
  ASSUME Inv, NEW f \in File, NEW data \in Buffer, NEW offset \in Offset,
         Write(f, data, offset)
  PROVE  /\ Inv' /\ Calm(fs')
         /\ Up(fs') => \/ LosesNone(fs, fs')
                       \/ Did("write") /\ LosesOne(fs, fs')
  <1>1. PICK t, call : /\ t = write(fs, f, data, offset)
                       /\ call = [of |-> "write", file |-> f, data |-> data, offset |-> offset]
    OBVIOUS
  <1>2. PICK size, room, result :
          /\ Ready /\ exists_file(fs, f) /\ Call(t, result, call)
          /\ size = get_file(fs, f).size
          /\ room = exists_n_free_clusters(fs, get_cluster_count_needed(size + Len(data)))
          /\ result = IF offset > size \/ (offset < size /\ ~room) THEN 1 ELSE 0
    BY <1>1 DEF Write
  <1>3. Len(data) \in Nat /\ offset \in Nat
    BY Names, Geometry
  <1>4. Sound(fs)
    BY <1>2, ReadySound
  <1>5. Good(t) /\ Calm(t) /\ (Up(t) => LosesOne(fs, t))
    BY <1>1, <1>2, <1>3, <1>4, WriteSound
  <1>6. Inv' /\ Calm(fs') /\ (Up(fs') => fs' = t)
    BY <1>2, <1>5, CallKeeps
  <1>7. CASE offset > size \/ (offset < size /\ ~room)
    <2>1. size \in Nat
      BY <1>2, <1>4, FileIs
    <2>2. offset > size \/ (~(offset > size) /\ offset # size /\ ~room)
      BY <1>3, <1>7, <2>1
    <2>3. t = fs
      <3>1. t = IF offset > size THEN fs
                ELSE IF offset = size THEN append_data(fs, f, data, Len(data))
                ELSE IF ~room THEN fs ELSE insert(fs, f, data, offset)
        BY <1>1, <1>2 DEF write
      <3> QED BY <2>2, <3>1
    <2> QED BY <1>6, <2>3 DEF LosesNone
  <1>8. CASE ~(offset > size \/ (offset < size /\ ~room))
    <2>1. eax' = 0 /\ done' = call /\ calls' # calls
      BY <1>2, <1>8, MoreCalls DEF Call
    <2>2. Up(fs') => Did("write")
      BY <1>1, <2>1 DEF Did
    <2> QED BY <1>5, <1>6, <2>2
  <1> QED BY <1>7, <1>8

LEMMA CpRefusedKeeps ==
  ASSUME Inv, NEW src \in File, NEW des \in File, CpRefused(src, des)
  PROVE  Inv' /\ Calm(fs') /\ (Up(fs') => LosesNone(fs, fs'))
  <1>1. PICK s, call : s = fs /\ call = [of |-> "cp", file |-> des, src |-> src]
    OBVIOUS
  <1>2. Ready /\ Call(s, 1, call)
    BY <1>1 DEF CpRefused
  <1>3. Good(s) /\ Calm(s)
    BY <1>1, <1>2, ReadySound
  <1> QED BY <1>1, <1>2, <1>3, CallKeeps DEF LosesNone

LEMMA CpKeeps ==
  ASSUME Inv, NEW src \in File, NEW des \in File, Cp(src, des)
  PROVE  /\ Inv'
         /\ Up(fs') => \/ LosesNone(fs, fs')
                       \/ Did("cp") /\ exists_file(fs, des) /\ ~CanRemove(fs, des)
  <1>1. PICK d, t, call : /\ d = rm(fs, des) /\ t = touch(d, des)
                          /\ call = [of |-> "cp", file |-> des, src |-> src]
    OBVIOUS
  <1>2. /\ Ready /\ src # des /\ exists_file(fs, src) /\ EntryFits(fs, des)
        /\ IF ~Intact(t) THEN Call(t, 1, call)
           ELSE \E checked, stored \in StaleSizes(fs, t, src) :
                  Call(cp(t, src, des, checked, stored),
                       IF exists_n_free_clusters(t, get_cluster_count_needed(checked))
                         THEN 0 ELSE 1, call)
    BY <1>1, RoomIs DEF Cp
  <1>3. Sound(fs)
    BY <1>2, ReadySound
  <1>4. /\ Good(d)
        /\ Up(d) => /\ exists_file(d, src) /\ LosesNone(fs, d)
                    /\ CanRemove(fs, des) => ~exists_file(d, des)
                    /\ EntryFits(d, des)
    <2>1. /\ Good(d)
          /\ Up(d) => /\ exists_file(d, src) /\ LosesNone(fs, d)
                      /\ CanRemove(fs, des) =>
                           /\ ~exists_file(d, des)
                           /\ Len(load_root_folder(d)) = Len(load_root_folder(fs)) - 1
      BY <1>1, <1>2, <1>3, RmSound
    <2>2. CASE CanRemove(fs, des)
      <3>1. PICK l : l = Len(load_root_folder(fs))
        OBVIOUS
      <3>2. l \in Nat /\ RoomFor(l) /\ l - 1 + 1 = l
        BY <1>3, <3>1 DEF Sound, GoodFiles
      <3> QED BY <2>1, <2>2, <3>1, <3>2 DEF EntryFits
    <2>3. CASE ~CanRemove(fs, des)
      <3>1. d = fs
        BY <1>1, <2>3 DEF rm
      <3> QED BY <1>2, <2>1, <2>3, <3>1
    <2> QED BY <2>2, <2>3
  <1>5. Good(t) /\ (Up(t) => Up(d) /\ exists_file(t, src) /\ LosesNone(d, t))
    BY <1>1, <1>4, TouchGood DEF Gains
  <1>6. CASE ~Intact(t)
    BY <1>2, <1>4, <1>5, <1>6, CallKeeps DEF LosesNone
  <1>7. CASE Intact(t)
    <2>1. PICK checked \in StaleSizes(fs, t, src), stored \in StaleSizes(fs, t, src) :
            Call(cp(t, src, des, checked, stored),
                 IF exists_n_free_clusters(t, get_cluster_count_needed(checked)) THEN 0 ELSE 1, call)
      BY <1>2, <1>7
    <2>2. Sound(t) /\ exists_file(t, src)
      BY <1>5, <1>7 DEF Intact, IntactIn, Good
    <2>3. stored \in Nat
      BY <1>2, <1>3, <2>2, SizesAreNumbers
    <2>4. PICK s, result :
            /\ s = cp(t, src, des, checked, stored)
            /\ result = IF exists_n_free_clusters(t, get_cluster_count_needed(checked)) THEN 0 ELSE 1
      OBVIOUS
    <2>5. Good(s)
      BY <2>2, <2>3, <2>4, CpSound
    <2>6. result \in {0, 1} /\ Call(s, result, call)
      BY <2>1, <2>4
    <2>7. Inv' /\ (Up(fs') => fs' = s)
      BY <1>2, <2>5, <2>6, CallKeeps
    <2>8. Up(t) /\ Up(d)
      BY <1>5, <2>2 DEF Sound
    <2>9. CASE ~exists_file(d, des)
      <3>1. OneCluster(t, des)
        BY <1>1, <1>4, <2>8, <2>9, TouchGood
      <3>2. Up(s) => LosesNone(t, s)
        BY <2>2, <2>3, <2>4, <3>1, CpSound
      <3> QED BY <1>4, <1>5, <2>7, <2>8, <3>2 DEF LosesNone
    <2>10. CASE exists_file(d, des)
      <3>1. ~CanRemove(fs, des)
        BY <1>4, <2>8, <2>10
      <3>2. d = fs /\ t = fs
        BY <1>1, <2>10, <3>1 DEF rm, touch
      <3>3. CASE exists_n_free_clusters(t, get_cluster_count_needed(checked))
        <4>1. eax' = 0 /\ done' = call /\ calls' # calls
          BY <2>4, <2>6, <3>3, MoreCalls DEF Call
        <4>2. Up(fs') => Did("cp")
          BY <1>1, <4>1 DEF Did
        <4> QED BY <2>7, <2>10, <3>1, <3>2, <4>2
      <3>4. CASE ~exists_n_free_clusters(t, get_cluster_count_needed(checked))
        <4>1. s = fs
          BY <2>4, <3>2, <3>4 DEF cp
        <4> QED BY <2>7, <4>1 DEF LosesNone
      <3> QED BY <3>3, <3>4
    <2> QED BY <2>9, <2>10
  <1> QED BY <1>6, <1>7

\* A copy of a file that has the clusters its size needs, to a new name.
LEMMA CpCalmStep ==
  ASSUME Inv, Spare(fs) >= 3,
         NEW src \in File, NEW des \in File, Cp(src, des),
         ~exists_file(fs, des), Fits(fs, src)
  PROVE  Calm(fs')
  <1>1. PICK t, call : t = touch(rm(fs, des), des) /\ call = [of |-> "cp", file |-> des, src |-> src]
    OBVIOUS
  <1>2. /\ Ready /\ src # des /\ exists_file(fs, src) /\ EntryFits(fs, des)
        /\ IF ~Intact(t) THEN Call(t, 1, call)
           ELSE \E checked, stored \in StaleSizes(fs, t, src) :
                  Call(cp(t, src, des, checked, stored),
                       IF exists_n_free_clusters(t, get_cluster_count_needed(checked))
                         THEN 0 ELSE 1, call)
    BY <1>1, RoomIs DEF Cp
  <1>3. Sound(fs) /\ Good(fs) /\ Calm(fs)
    BY <1>2, ReadySound
  <1>4. t = create_file(fs, des)
    <2>1. rm(fs, des) = fs
      BY DEF rm, CanRemove
    <2> QED BY <1>1, <2>1 DEF touch
  <1>5. /\ Good(t)
        /\ Up(t) => \/ load_root_folder(t) = load_root_folder(fs)
                    \/ \E e : e.name = des /\ load_root_folder(t) = Append(load_root_folder(fs), e)
    BY <1>2, <1>3, <1>4, CreateSound
  <1>6. /\ Calm(t)
        /\ Up(t) => \A x \in Cluster :
             x \notin Range(Path(fs.fat, Root)) /\ fs.fat[x] # FREE_CLUSTER => t.fat[x] = fs.fat[x]
    <2>1. Up(fs)
      BY <1>3 DEF Sound
    <2>2. LET l == Len(load_root_folder(fs))
          IN  Spare(fs) + ClustersFor(l) >= ClustersFor(l + 1) + 2
      BY <1>3, <2>1, RoomForFile
    <2>3. /\ Calm(create_file(fs, des))
          /\ Up(create_file(fs, des)) =>
               \A x \in Cluster : x \notin Range(Path(fs.fat, Root)) /\ fs.fat[x] # FREE_CLUSTER
                                  => create_file(fs, des).fat[x] = fs.fat[x]
      BY <1>3, <2>1, <2>2, CreateCalm
    <2> QED BY <1>4, <2>3
  <1>7. CASE ~Intact(t)
    BY <1>2, <1>5, <1>6, <1>7, CallKeeps
  <1>8. CASE Intact(t)
    <2>1. Sound(t) /\ Up(t)
      BY <1>5, <1>8 DEF Intact, IntactIn, Good
    <2>2. PICK size, b : size = get_file(fs, src).size /\ b = get_file(fs, src).start
      OBVIOUS
    <2>3. /\ exists_file(t, src) /\ get_file(t, src) = get_file(fs, src)
          /\ StaleSizes(fs, t, src) = {size}
      <3>1. PICK s : s = fs
        OBVIOUS
      <3>2. /\ Sound(s) /\ Sound(t) /\ exists_file(s, src) /\ des # src
            /\ OneMore(s, t, des)
        BY <1>2, <1>3, <1>5, <2>1, <3>1 DEF OneMore
      <3>3. /\ exists_file(t, src) /\ get_file(t, src) = get_file(s, src)
            /\ StaleSizes(s, t, src) = {get_file(s, src).size}
        BY <3>2, SameEntry, ZenonT(30)
      <3> QED BY <2>2, <3>1, <3>3
    <2>4. PICK s, result :
            /\ s = cp(t, src, des, size, size)
            /\ result = IF exists_n_free_clusters(t, get_cluster_count_needed(size)) THEN 0 ELSE 1
      OBVIOUS
    <2>5. Call(s, result, call)
      BY <1>2, <1>8, <2>3, <2>4
    <2>6. size \in Nat /\ b \in StartsOf(load_root_folder(fs)) /\ b # Root
      BY <1>2, <1>3, <2>2, FileIs
    <2>7. Len(Chain(t, b)) <= get_cluster_count_needed(size) + 1
      <3>1. Len(Chain(fs, b)) = Max({1, get_cluster_count_needed(size)})
        BY <1>2, <2>2 DEF Fits
      <3>2. Len(Chain(t, b)) = Len(Chain(fs, b))
        BY <1>3, <1>6, <2>1, <2>6, KeptChain DEF Sound
      <3>3. get_cluster_count_needed(size) \in Nat
        BY <2>6, Needed
      <3> QED BY <3>1, <3>2, <3>3, MaxWithOne
    <2>8. Good(s)
      BY <2>1, <2>3, <2>4, <2>6, CpSound
    <2>9. Calm(s)
      BY <2>1, <2>2, <2>3, <2>4, <2>6, <2>7, CpCalm
    <2>10. result \in {0, 1}
      BY <2>4
    <2> QED BY <1>2, <2>5, <2>8, <2>9, <2>10, CallKeeps
  <1> QED BY <1>7, <1>8

LEMMA SetOpenKeeps ==
  ASSUME Inv, NEW f \in File, NEW open \in BOOLEAN, SetOpen(f, open)
  PROVE  Inv' /\ Calm(fs') /\ (Up(fs') => LosesNone(fs, fs'))
  <1>1. PICK call : call = [of |-> IF open THEN "open" ELSE "close", file |-> f]
    OBVIOUS
  <1>2. PICK s, e, new : s = fs /\ e = get_file(fs, f) /\ new = [e EXCEPT !.open = open]
    OBVIOUS
  <1>3. /\ Ready
        /\ \/ exists_file(fs, f) /\ Call(Update(s, new), 0, call)
           \/ Call(s, 1, call)
    BY <1>1, <1>2 DEF SetOpen
  <1>4. Sound(s) /\ Good(s) /\ Calm(s)
    BY <1>2, <1>3, ReadySound
  <1>5. CASE exists_file(fs, f) /\ Call(Update(s, new), 0, call)
    <2>1. exists_file(s, f) /\ e = get_file(s, f)
      BY <1>2, <1>5
    <2>2. e \in Entry /\ e.name = f
      BY <1>4, <2>1, FileIs
    <2>3. new \in Entry /\ new.name = f /\ new.start = e.start
      BY <1>2, <2>2, EntryChanges
    <2>4. Good(Update(s, new)) /\ Calm(Update(s, new))
      BY <1>4, <2>1, <2>3, UpdateSound, UpdateCalm
    <2>5. PICK t : t = Update(s, new)
      OBVIOUS
    <2>6. ASSUME Up(t) PROVE LosesNone(s, t)
      <3>1. new.start = get_file(s, f).start
        BY <2>1, <2>3
      <3>2. exists_file(s, f) /\ new \in Entry /\ new.name = f /\ t = Update(s, new)
        BY <2>1, <2>3, <2>5
      <3> QED BY <1>4, <2>6, <3>1, <3>2, UpdateFound
    <2>7. Up(t) => LosesNone(fs, t)
      BY <1>2, <2>6
    <2> QED BY <1>3, <1>5, <2>4, <2>5, <2>7, CallKeeps
  <1>6. CASE Call(s, 1, call)
    BY <1>2, <1>3, <1>4, <1>6, CallKeeps DEF LosesNone
  <1> QED BY <1>3, <1>5, <1>6

LEMMA PrintKeeps ==
  ASSUME Inv, NEW f \in Stream, NEW data \in Buffer,
         NEW newline \in BOOLEAN, PrintToStream(f, data, newline)
  PROVE  Inv' /\ Calm(fs') /\ (Up(fs') => LosesNone(fs, fs'))
  <1>1. PICK size, t : size = get_file(fs, f).size /\ t = write(fs, f, data, size)
    OBVIOUS
  <1>2. PICK n, w : n = size + Len(data) /\ w = write(t, f, Newline, n)
    OBVIOUS
  <1>3. PICK u : u = IF newline /\ Intact(t) THEN w ELSE t
    OBVIOUS
  <1>4. PICK s, call :
          /\ s = Shorten(u, f)
          /\ call = [of |-> "print", file |-> f,
                     data |-> data \o (IF newline THEN Newline ELSE <<>>), newline |-> newline]
    OBVIOUS
  <1>5. Ready /\ exists_file(fs, f) /\ Call(s, 0, call)
    BY <1>1, <1>2, <1>3, <1>4 DEF PrintToStream, WithNewline
  <1>6. f \in File /\ Len(data) \in Nat /\ Len(Newline) \in Nat
    BY Names
  <1>7. Sound(fs)
    BY <1>5, ReadySound
  <1>8. size \in Nat /\ n \in Nat
    <2>1. size \in Nat
      BY <1>1, <1>5, <1>7, FileIs
    <2> QED BY <1>2, <1>6, <2>1
  <1>9. /\ Good(t) /\ Calm(t)
        /\ Up(t) => /\ exists_file(t, f) /\ LosesNone(fs, t)
                    /\ get_file(t, f).size \in {size, n}
    BY <1>1, <1>2, <1>5, <1>6, <1>7, <1>8, WriteSound DEF Keeps
  <1>10. Good(u) /\ Calm(u) /\ (Up(u) => exists_file(u, f) /\ LosesNone(fs, u))
    <2>1. CASE newline /\ Intact(t)
      <3>1. Sound(t) /\ exists_file(t, f)
        BY <1>9, <2>1 DEF Intact, IntactIn, Good
      <3>2. n >= get_file(t, f).size /\ LosesNone(fs, t)
        BY <1>2, <1>6, <1>8, <1>9, <3>1 DEF Sound
      <3>3. Good(w) /\ Calm(w) /\ (Up(w) => exists_file(w, f) /\ LosesNone(t, w))
        BY <1>2, <1>6, <1>8, <3>1, <3>2, WriteSound DEF Keeps
      <3> QED BY <1>3, <2>1, <3>2, <3>3 DEF LosesNone
    <2>2. CASE ~(newline /\ Intact(t))
      BY <1>3, <1>9, <2>2
    <2> QED BY <2>1, <2>2
  <1>11. Good(s) /\ Calm(s) /\ (Up(s) => Up(u) /\ LosesNone(u, s))
    BY <1>4, <1>6, <1>10, ShortenSound
  <1>12. Up(s) => LosesNone(fs, s)
    BY <1>4, <1>10, <1>11 DEF LosesNone
  <1> QED BY <1>5, <1>11, <1>12, CallKeeps

LEMMA InitInv ==
  ASSUME Init
  PROVE  Inv
  <1>1. Good(fs)
    BY FsInitGood DEF Init
  <1>2. eax = 0 /\ calls = 0 /\ MaxCalls \in Nat
    BY Geometry DEF Init
  <1> QED BY <1>1, <1>2 DEF Inv

LEMMA NextInv ==
  ASSUME Inv, [Next]_vars
  PROVE  Inv'
  <1>1. CASE UNCHANGED vars
    BY <1>1 DEF vars, Inv
  <1>2. ASSUME NEW f \in File, Touch(f) \/ Rm(f) PROVE Inv'
    BY <1>2, TouchKeeps, RmKeeps
  <1>3. ASSUME NEW f \in File, NEW open \in BOOLEAN, SetOpen(f, open) PROVE Inv'
    BY <1>3, SetOpenKeeps
  <1>4. ASSUME NEW f \in File, NEW data \in Buffer, FileAppend(f, data) PROVE Inv'
    BY <1>4, FileAppendKeeps
  <1>5. ASSUME NEW f \in File, NEW data \in Buffer, NEW offset \in Offset, Write(f, data, offset)
        PROVE  Inv'
    BY <1>5, WriteKeeps
  <1>6. ASSUME NEW src \in File, NEW des \in File, Cp(src, des) \/ CpRefused(src, des) PROVE Inv'
    BY <1>6, CpKeeps, CpRefusedKeeps
  <1>7. ASSUME NEW f \in Stream, NEW data \in Buffer, NEW newline \in BOOLEAN,
               PrintToStream(f, data, newline)
        PROVE  Inv'
    BY <1>7, PrintKeeps
  <1> QED BY <1>1, <1>2, <1>3, <1>4, <1>5, <1>6, <1>7 DEF Next

LEMMA CpCall ==
  ASSUME NEW src \in File, NEW des \in File, Cp(src, des)
  PROVE  done' = [of |-> "cp", file |-> des, src |-> src]
  BY DEF Cp, Call

\* With three clusters free no call but a copy makes the kernel panic.
LEMMA PanicStep ==
  ASSUME Inv, Next, ~Calm(fs')
  PROVE  \/ ~exists_n_free_clusters(fs, 3)
         \/ done'.of = "cp" /\ (exists_file(fs, done'.file) \/ ~Fits(fs, done'.src))
  <1>1. SUFFICES ASSUME Spare(fs) >= 3
                 PROVE  done'.of = "cp" /\ (exists_file(fs, done'.file) \/ ~Fits(fs, done'.src))
    BY SpareIs
  <1>2. ASSUME NEW f \in File PROVE ~(Touch(f) \/ Rm(f))
    BY <1>1, TouchKeeps, RmKeeps
  <1>3. ASSUME NEW f \in File, NEW open \in BOOLEAN PROVE ~SetOpen(f, open)
    BY SetOpenKeeps
  <1>4. ASSUME NEW f \in File, NEW data \in Buffer PROVE ~FileAppend(f, data)
    BY <1>1, FileAppendKeeps
  <1>5. ASSUME NEW f \in File, NEW data \in Buffer, NEW offset \in Offset
        PROVE  ~Write(f, data, offset)
    BY WriteKeeps
  <1>6. ASSUME NEW f \in Stream, NEW data \in Buffer, NEW newline \in BOOLEAN
        PROVE  ~PrintToStream(f, data, newline)
    BY PrintKeeps
  <1>7. PICK src \in File, des \in File : Cp(src, des)
    BY <1>2, <1>3, <1>4, <1>5, <1>6, CpRefusedKeeps DEF Next
  <1>8. exists_file(fs, des) \/ ~Fits(fs, src)
    BY <1>1, <1>7, CpCalmStep
  <1>9. done' = [of |-> "cp", file |-> des, src |-> src]
    BY <1>7, CpCall
  <1> QED BY <1>8, <1>9

\* The clusters that belong to a start are those on its path.
LEMMA OwnedOnPath ==
  ASSUME NEW s, Sound(s), NEW c \in StartsOf(load_root_folder(s))
  PROVE  Owned(s, c) = Range(Path(s.fat, c))
  <1>1. PICK S, p, h : S = StartsOf(load_root_folder(s)) /\ p = Path(s.fat, c) /\ h = Chain(s, c)
    OBVIOUS
  <1>2. Typed(s) /\ Tidy(s.fat, S) /\ c \in S /\ c \in Cluster /\ s.fat[c] \in Cluster
    BY <1>1 DEF Sound, Filled, Tidy
  <1>3. /\ IsChain(s.fat, Path(s.fat, c), c) /\ Len(Path(s.fat, c)) >= 2
        /\ Range(Chain(s, c)) \subseteq Range(Path(s.fat, c))
    BY <1>2, StartChain
  <1>4. IsChain(s.fat, p, c) /\ Len(p) >= 2 /\ Range(h) \subseteq Range(p)
    BY <1>1, <1>3
  <1>5. PICK l : l = Len(p) - 1
    OBVIOUS
  <1>6. p \in Seq(Cluster) /\ Len(p) \in Nat /\ l \in Nat \ {0} /\ Len(p) = l + 1
    BY <1>4, <1>5 DEF IsChain
  <1>7. h \in Seq(Cluster) /\ Len(h) = l /\ \A i \in 1..l : h[i] = p[i]
    <2>1. /\ Chain(s, c) \in Seq(Cluster)
          /\ Len(Chain(s, c)) = Len(Path(s.fat, c)) - 1
          /\ \A i \in 1..(Len(Path(s.fat, c)) - 1) : Chain(s, c)[i] = Path(s.fat, c)[i]
      BY <1>2, <1>3, ChainIs
    <2> QED BY <1>1, <1>5, <2>1
  <1>8. Last(h) = p[l]
    <2>1. l \in 1..l
      BY <1>6
    <2> QED BY <1>7, <2>1 DEF Last
  <1>9. s.fat[p[l]] = p[l + 1]
    <2>1. l \in 1..(Len(p) - 1)
      BY <1>6
    <2> QED BY <1>4, <2>1 DEF IsChain
  <1>10. p[l + 1] \in Range(p)
    <2>1. l + 1 \in DOMAIN p
      BY <1>6
    <2> QED BY <2>1 DEF Range
  <1>11. h # <<>>
    BY <1>6, <1>7
  <1>12. Owned(s, c) = Range(h) \union {s.fat[Last(h)]}
    BY <1>1, <1>11 DEF Owned
  <1>13. \A i \in DOMAIN p : p[i] \in Range(h) \/ i = l + 1
    <2>1. \A i \in 1..(l + 1) : i \in 1..l \/ i = l + 1
      BY <1>6
    <2> QED BY <1>6, <1>7, <2>1 DEF Range
  <1>14. Range(p) \subseteq Range(h) \union {p[l + 1]}
    BY <1>13 DEF Range
  <1> QED BY <1>1, <1>4, <1>8, <1>9, <1>10, <1>12, <1>14

\* The lost clusters are those that are neither free nor on a chain.
LEMMA LostIs ==
  ASSUME NEW s, Sound(s)
  PROVE  Lost(s) = Cluster \ Accounted(s.fat, StartsOf(load_root_folder(s)))
  <1>1. PICK S : S = StartsOf(load_root_folder(s))
    OBVIOUS
  <1>2. Starts(s) = S
    BY <1>1 DEF Starts, StartsOf, Range
  <1>3. \A c \in S : Owned(s, c) = Range(Path(s.fat, c))
    BY <1>1, OwnedOnPath
  <1> QED BY <1>1, <1>2, <1>3 DEF Lost, Accounted, FreeClusters

LEMMA LostLater ==
  ASSUME NEW s, Sound(s), NEW t, Sound(t)
  PROVE  /\ LosesNone(s, t) => Lost(t) \subseteq Lost(s)
         /\ LosesOne(s, t) => \/ Lost(t) \subseteq Lost(s)
                              \/ Cardinality(Lost(t) \ Lost(s)) = 1
  <1>1. PICK A, B : /\ A = Accounted(s.fat, StartsOf(load_root_folder(s)))
                    /\ B = Accounted(t.fat, StartsOf(load_root_folder(t)))
    OBVIOUS
  <1>2. Lost(s) = Cluster \ A /\ Lost(t) = Cluster \ B
    BY <1>1, LostIs
  <1>3. LosesNone(s, t) => Lost(t) \subseteq Lost(s)
    BY <1>1, <1>2 DEF LosesNone
  <1>4. ASSUME LosesOne(s, t), ~(Lost(t) \subseteq Lost(s))
        PROVE  Cardinality(Lost(t) \ Lost(s)) = 1
    <2>1. PICK z : A \ {z} \subseteq B
      BY <1>1, <1>4 DEF LosesOne
    <2>2. Lost(t) \ Lost(s) = {z}
      BY <1>2, <1>4, <2>1
    <2> QED BY <2>2, FS_Singleton
  <1> QED BY <1>3, <1>4

LEMMA NextReady ==
  ASSUME Next
  PROVE  Ready
  BY DEF Next, Touch, Rm, SetOpen, FileAppend, Write, Cp, CpRefused, PrintToStream

\* Only an insertion and a copy onto a system file lose clusters.
LEMMA LostStep ==
  ASSUME Inv, Next, Up(fs'), ~(Lost(fs') \subseteq Lost(fs))
  PROVE  \/ Did("write") /\ Cardinality(Lost(fs') \ Lost(fs)) = 1
         \/ Did("cp") /\ exists_file(fs, done'.file) /\ ~CanRemove(fs, done'.file)
  <1>1. Sound(fs) /\ Sound(fs')
    <2>1. Inv'
      BY NextInv
    <2> QED BY <2>1, NextReady, ReadySound DEF Inv, Good
  <1>2. ~LosesNone(fs, fs')
    BY <1>1, LostLater
  <1>3. ASSUME NEW f \in File PROVE ~(Touch(f) \/ Rm(f))
    BY <1>2, TouchKeeps, RmKeeps
  <1>4. ASSUME NEW f \in File, NEW open \in BOOLEAN PROVE ~SetOpen(f, open)
    BY <1>2, SetOpenKeeps
  <1>5. ASSUME NEW f \in File, NEW data \in Buffer PROVE ~FileAppend(f, data)
    BY <1>2, FileAppendKeeps
  <1>6. ASSUME NEW src \in File, NEW des \in File PROVE ~CpRefused(src, des)
    BY <1>2, CpRefusedKeeps
  <1>7. ASSUME NEW f \in Stream, NEW data \in Buffer, NEW newline \in BOOLEAN
        PROVE  ~PrintToStream(f, data, newline)
    BY <1>2, PrintKeeps
  <1>8. ASSUME NEW f \in File, NEW data \in Buffer, NEW offset \in Offset, Write(f, data, offset)
        PROVE  Did("write") /\ Cardinality(Lost(fs') \ Lost(fs)) = 1
    <2>1. Did("write") /\ LosesOne(fs, fs')
      BY <1>2, <1>8, WriteKeeps
    <2> QED BY <1>1, <2>1, LostLater
  <1>9. ASSUME NEW src \in File, NEW des \in File, Cp(src, des)
        PROVE  Did("cp") /\ exists_file(fs, done'.file) /\ ~CanRemove(fs, done'.file)
    <2>1. Did("cp") /\ exists_file(fs, des) /\ ~CanRemove(fs, des)
      BY <1>2, <1>9, CpKeeps
    <2>2. done' = [of |-> "cp", file |-> des, src |-> src]
      BY <1>9, CpCall
    <2> QED BY <2>1, <2>2
  <1> QED BY <1>3, <1>4, <1>5, <1>6, <1>7, <1>8, <1>9 DEF Next

LEMMA SeparateInv ==
  ASSUME Inv
  PROVE  ChainsAreSeparate
  <1> SUFFICES ASSUME Intact(fs)
               PROVE  LET files == load_root_folder(fs)
                      IN  /\ \A c \in Starts(fs) : Owned(fs, c) \subseteq Cluster \ FreeClusters(fs)
                          /\ \A c, d \in Starts(fs) : c # d => Owned(fs, c) \intersect Owned(fs, d) = {}
                          /\ \A i, j \in DOMAIN files : i # j =>
                               files[i].name # files[j].name /\ files[i].start # files[j].start
                          /\ Root \notin {e.start : e \in Range(files)}
    BY DEF ChainsAreSeparate
  <1>1. PICK files, S, fat : files = load_root_folder(fs) /\ S = StartsOf(files) /\ fat = fs.fat
    OBVIOUS
  <1>2. Sound(fs)
    BY DEF Intact, IntactIn, Inv, Good
  <1>3. fat \in Table /\ Tidy(fat, S) /\ GoodFiles(files)
    BY <1>1, <1>2 DEF Sound, Typed
  <1>4. Starts(fs) = S
    BY <1>1 DEF Starts, StartsOf, Range
  <1>5. \A c \in S : Owned(fs, c) \subseteq Range(Path(fat, c))
    BY <1>1, <1>2, OwnedOnPath
  <1>6. ASSUME NEW c \in S PROVE Range(Path(fat, c)) \subseteq Cluster \ FreeClusters(fs)
    <2>1. PICK p : p = Path(fat, c)
      OBVIOUS
    <2>2. IsChain(fat, p, c)
      BY <1>3, <2>1, StartPath
    <2>3. \A i \in DOMAIN p : p[i] \in Cluster /\ fat[p[i]] # FREE_CLUSTER
      BY <2>2 DEF IsChain
    <2> QED BY <1>1, <2>1, <2>3 DEF Range, FreeClusters
  <1>7. \A c \in S : Owned(fs, c) \subseteq Cluster \ FreeClusters(fs)
    BY <1>5, <1>6
  <1>8. \A c, d \in S : c # d => Range(Path(fat, c)) \intersect Range(Path(fat, d)) = {}
    BY <1>3, PathsApart
  <1>9. \A c, d \in S : c # d => Owned(fs, c) \intersect Owned(fs, d) = {}
    BY <1>5, <1>8
  <1>10. \A i, j \in DOMAIN files : i # j =>
           files[i].name # files[j].name /\ files[i].start # files[j].start
    BY <1>3 DEF GoodFiles
  <1>11. Root \notin {e.start : e \in Range(files)}
    BY <1>3 DEF GoodFiles, Range
  <1> QED BY <1>1, <1>4, <1>7, <1>9, <1>10, <1>11

\* The cluster table holds clusters and marks whatever is called: every write
\* to a link is the number of a cluster that get_free_cluster gave, or a mark
\* (vfs.cpp:138, 185, 573, 661, 889).
THEOREM TypeOKHolds ==
  Spec => []TypeOK
  <1>1. Init => Inv
    BY InitInv
  <1>2. Inv /\ [Next]_vars => Inv'
    BY NextInv
  <1>3. Inv => TypeOK
    BY DEF Inv, Good, Typed, Table, Mark, Disk, TypeOK
  <1> QED BY <1>1, <1>2, <1>3, PTL DEF Spec

\* Between two calls no two chains share a cluster, no chain has a free one,
\* and names and starts are unique, however many files come and go, grow, are
\* cut or copied, and wherever a call stops for want of clusters.
THEOREM ChainsAreSeparateHolds ==
  Spec => []ChainsAreSeparate
  <1>1. Init => Inv
    BY InitInv
  <1>2. Inv /\ [Next]_vars => Inv'
    BY NextInv
  <1>3. Inv => ChainsAreSeparate
    BY SeparateInv
  <1> QED BY <1>1, <1>2, <1>3, PTL DEF Spec

\* The kernel panics for want of clusters only when fewer than three are free, or
\* in a copy with a stale size: no other call takes more clusters than it has
\* checked or freed itself (vfs.cpp:149, 185, 379).
THEOREM PanicsOnlyWhenFullHolds ==
  Spec => PanicsOnlyWhenFull
  <1>1. Init => Inv
    BY InitInv
  <1>2. Inv /\ [Next]_vars => Inv'
    BY NextInv
  <1>3. Inv /\ [Next]_vars =>
          [fs'.state = "panic" =>
             \/ ~exists_n_free_clusters(fs, 3)
             \/ done'.of = "cp" /\ (exists_file(fs, done'.file) \/ ~Fits(fs, done'.src))]_vars
    BY PanicStep DEF Calm
  <1> QED BY <1>1, <1>2, <1>3, PTL DEF Spec, PanicsOnlyWhenFull

\* Every cluster comes back: a call leaves those that were free, or on a chain,
\* free or on a chain, also when it stops half-way for want of others. Only an
\* insertion loses one, the old end of the chain (vfs.cpp:968), and a copy onto
\* a system file the clusters of that file (vfs.cpp:712).
THEOREM ClustersAreReturnedHolds ==
  Spec => ClustersAreReturned
  <1>1. Init => Inv
    BY InitInv
  <1>2. Inv /\ [Next]_vars => Inv'
    BY NextInv
  <1>3. Inv /\ [Next]_vars =>
          [Up(fs') /\ ~(Lost(fs') \subseteq Lost(fs)) =>
             \/ Did("write") /\ Cardinality(Lost(fs') \ Lost(fs)) = 1
             \/ Did("cp") /\ exists_file(fs, done'.file) /\ ~CanRemove(fs, done'.file)]_vars
    BY LostStep
  <1> QED BY <1>1, <1>2, <1>3, PTL DEF Spec, ClustersAreReturned
=============================================================================
