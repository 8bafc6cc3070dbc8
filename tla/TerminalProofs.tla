--------------------------- MODULE TerminalProofs ---------------------------
(***************************************************************************)
(* For every number of terminals and processes, every buffer size and      *)
(* every screen: a process is given no letter that was typed before the    *)
(* last Enter or Ctrl+C, the cursor stays on the screen and behind the     *)
(* line, the readers of the terminal in focus come first, and no step      *)
(* changes the order of two readers of a terminal.                         *)
(*                                                                         *)
(* Each of these is inductive together with the types; for the line it is  *)
(* that the buffer holds no more letters than were typed.  What they rest  *)
(* on is what two loops do to any list and any text: Only takes its        *)
(* members at rising places of the list, and a character takes no offset   *)
(* off the screen.                                                         *)
(***************************************************************************)
EXTENDS Terminal, ListProofs

-----------------------------------------------------------------------------
(* The list of readers *)

\* r takes its members from q, each once, and leaves two of a terminal in their
\* order.
Shuffle(pos, q, r) ==
  /\ r \in Seq(Process)
  /\ pos \in [1..Len(r) -> 1..Len(q)]
  /\ \A a \in 1..Len(r) : r[a] = q[pos[a]]
  /\ \A a, b \in 1..Len(r) : pos[a] = pos[b] => a = b
  /\ \A a, b \in 1..Len(r) : a < b /\ shell_id[r[a]] = shell_id[r[b]] => pos[a] < pos[b]

Ordered(q, r) ==
  \A i, j \in DOMAIN q :
    i < j /\ shell_id[q[i]] = shell_id[q[j]] =>
      \A k, m \in DOMAIN r : r[k] = q[i] /\ r[m] = q[j] => k < m

\* All of r have the order they have in q.
Rising(pos, r) == \A a, b \in 1..Len(r) : a < b => pos[a] < pos[b]

\* The readers of t come before all others.
First(t, q) == \A i, j \in DOMAIN q : Of(t, q[i]) /\ ~Of(t, q[j]) => i < j

LEMMA ShuffleIsInjective ==
  ASSUME NEW q \in Seq(Process), IsInjective(q), NEW r, NEW pos, Shuffle(pos, q, r)
  PROVE  IsInjective(r)
  <1>1. DOMAIN r = 1..Len(r) /\ DOMAIN q = 1..Len(q)
    BY DEF Shuffle
  <1>2. ASSUME NEW a \in 1..Len(r), NEW b \in 1..Len(r), r[a] = r[b] PROVE a = b
    <2>1. pos[a] \in 1..Len(q) /\ pos[b] \in 1..Len(q) /\ q[pos[a]] = q[pos[b]]
      BY <1>2 DEF Shuffle
    <2>2. pos[a] = pos[b]
      BY <1>1, <2>1 DEF IsInjective
    <2> QED BY <2>2 DEF Shuffle
  <1> QED BY <1>1, <1>2 DEF IsInjective

LEMMA ShuffleIsOrdered ==
  ASSUME NEW q \in Seq(Process), IsInjective(q), NEW r, NEW pos, Shuffle(pos, q, r)
  PROVE  Ordered(q, r)
  <1>1. DOMAIN r = 1..Len(r) /\ DOMAIN q = 1..Len(q) /\ Len(r) \in Nat
    BY DEF Shuffle
  <1>2. ASSUME NEW i \in 1..Len(q), NEW j \in 1..Len(q), i < j,
               shell_id[q[i]] = shell_id[q[j]],
               NEW k \in 1..Len(r), NEW m \in 1..Len(r), r[k] = q[i], r[m] = q[j]
        PROVE  k < m
    <2>1. /\ pos[k] \in 1..Len(q) /\ q[pos[k]] = q[i]
          /\ pos[m] \in 1..Len(q) /\ q[pos[m]] = q[j]
      BY <1>2 DEF Shuffle
    <2>2. pos[k] = i /\ pos[m] = j
      BY <1>1, <2>1 DEF IsInjective
    <2>3. k # m
      BY <1>2, <2>2
    <2>4. ~(m < k)
      <3>1. SUFFICES ASSUME m < k PROVE FALSE
        OBVIOUS
      <3>2. pos[m] < pos[k]
        BY <1>2, <3>1 DEF Shuffle
      <3> QED BY <1>2, <2>2, <3>2
    <2> QED BY <1>1, <2>3, <2>4
  <1> QED BY <1>1, <1>2 DEF Ordered

LEMMA SameIsShuffle ==
  ASSUME NEW q \in Seq(Process)
  PROVE  \E pos : Shuffle(pos, q, q)
  <1>1. Shuffle([a \in 1..Len(q) |-> a], q, q)
    BY DEF Shuffle
  <1> QED BY <1>1

LEMMA TailIsShuffle ==
  ASSUME NEW q \in Seq(Process), q # <<>>
  PROVE  \E pos : Shuffle(pos, q, Tail(q)) /\ Rising(pos, Tail(q))
  <1>1. PICK r : r = Tail(q)
    OBVIOUS
  <1>2. /\ r \in Seq(Process) /\ Len(r) = Len(q) - 1 /\ Len(q) \in Nat \ {0}
        /\ \A a \in 1..Len(r) : r[a] = q[a + 1]
    BY <1>1
  <1>3. PICK pos : pos = [a \in 1..Len(r) |-> a + 1]
    OBVIOUS
  <1>4. Shuffle(pos, q, r) /\ Rising(pos, r)
    BY <1>2, <1>3 DEF Shuffle, Rising
  <1> QED BY <1>1, <1>4

LEMMA OnlyIsShuffle ==
  ASSUME NEW q \in Seq(Process), NEW S
  PROVE  \E pos : Shuffle(pos, q, Only(q, S)) /\ Rising(pos, Only(q, S))
  <1>1. PICK r : r = Only(q, S)
    OBVIOUS
  <1>2. r \in Seq(Process)
    BY <1>1, OnlyPicks
  <1>3. PICK pos : Picks(pos, r, q, Len(q), S)
    BY <1>1, OnlyPicks
  <1>4. \A a, b \in 1..Len(r) : a < b => pos[a] < pos[b]
    BY <1>3 DEF Picks
  <1>5. pos \in [1..Len(r) -> 1..Len(q)] /\ Len(r) \in Nat /\ Len(q) \in Nat
    BY <1>2, <1>3 DEF Picks
  <1>6. ASSUME NEW a \in 1..Len(r), NEW b \in 1..Len(r), pos[a] = pos[b] PROVE a = b
    <2>1. pos[a] \in Nat /\ pos[b] \in Nat
      BY <1>5
    <2>2. ~(a < b) /\ ~(b < a)
      BY <1>4, <1>6, <2>1
    <2> QED BY <2>2
  <1>7. \A a \in 1..Len(r) : r[a] = q[pos[a]]
    BY <1>3 DEF Picks
  <1>8. Shuffle(pos, q, r) /\ Rising(pos, r)
    BY <1>2, <1>4, <1>5, <1>6, <1>7 DEF Shuffle, Rising
  <1> QED BY <1>1, <1>8

\* reschedule_process: the readers of the terminal come first, and nobody is lost
\* or read twice.
LEMMA ReschedulingIsShuffle ==
  ASSUME NEW q \in Seq(Process), NEW t
  PROVE  LET r == reschedule_process(q, t) IN
         /\ \E pos : Shuffle(pos, q, r)
         /\ \A a, b \in 1..Len(r) : a < b /\ Of(t, r[b]) => Of(t, r[a])
  <1>1. PICK u : u = Only(q, Those(t))
    OBVIOUS
  <1>2. PICK v : v = Only(q, Process \ Those(t))
    OBVIOUS
  <1>3. PICK r : r = u \o v
    OBVIOUS
  <1>4. u \in Seq(Process) /\ v \in Seq(Process)
    BY <1>1, <1>2, OnlyPicks
  <1>5. PICK f : Picks(f, u, q, Len(q), Those(t))
    BY <1>1, OnlyPicks
  <1>6. PICK g : Picks(g, v, q, Len(q), Process \ Those(t))
    BY <1>2, OnlyPicks
  <1>7. PICK m \in Nat : m = Len(u)
    BY <1>4
  <1>8. PICK n \in Nat : n = Len(v)
    BY <1>4
  <1>9. r \in Seq(Process) /\ Len(r) = m + n
    BY <1>3, <1>4, <1>7, <1>8
  <1>10. ASSUME NEW a \in 1..m
         PROVE  /\ r[a] = q[f[a]] /\ Of(t, r[a])
                /\ f[a] \in 1..Len(q) /\ q[f[a]] \in Those(t)
    <2>1. r[a] = u[a]
      BY <1>3, <1>4, <1>7
    <2>2. u[a] = q[f[a]] /\ u[a] \in Those(t) /\ f[a] \in 1..Len(q)
      BY <1>5, <1>7 DEF Picks
    <2> QED BY <2>1, <2>2 DEF Those
  <1>11. ASSUME NEW a \in (m + 1)..(m + n)
         PROVE  /\ r[a] = q[g[a - m]] /\ ~Of(t, r[a])
                /\ g[a - m] \in 1..Len(q) /\ q[g[a - m]] \notin Those(t)
    <2>1. a - m \in 1..n
      OBVIOUS
    <2>2. r[a] = v[a - m]
      BY <1>3, <1>4, <1>7, <1>8, <2>1
    <2>3. /\ v[a - m] = q[g[a - m]] /\ v[a - m] \in Process \ Those(t)
          /\ g[a - m] \in 1..Len(q)
      BY <1>6, <1>8, <2>1 DEF Picks
    <2> QED BY <2>2, <2>3 DEF Those
  <1>12. PICK pos : pos = [a \in 1..(m + n) |-> IF a \in 1..m THEN f[a] ELSE g[a - m]]
    OBVIOUS
  <1>13. ASSUME NEW a \in 1..(m + n)
         PROVE  \/ a \in 1..m /\ pos[a] = f[a]
                \/ a \in (m + 1)..(m + n) /\ pos[a] = g[a - m]
    BY <1>12
  <1>14. ASSUME NEW a \in 1..(m + n)
         PROVE  pos[a] \in 1..Len(q) /\ r[a] = q[pos[a]]
    BY <1>10, <1>11, <1>13
  <1>15. ASSUME NEW a \in 1..(m + n), NEW b \in 1..(m + n), a < b,
                Of(t, r[a]) <=> Of(t, r[b])
         PROVE  pos[a] < pos[b]
    <2>1. CASE a \in 1..m
      <3>1. b \in 1..m
        BY <1>10, <1>11, <1>13, <1>15, <2>1
      <3>2. f[a] < f[b]
        BY <1>5, <1>7, <1>15, <2>1, <3>1 DEF Picks
      <3> QED BY <1>13, <2>1, <3>1, <3>2
    <2>2. CASE a \notin 1..m
      <3>1. b \notin 1..m
        BY <1>15, <2>2
      <3>2. a - m \in 1..n /\ b - m \in 1..n /\ a - m < b - m
        BY <1>15, <2>2, <3>1
      <3>3. g[a - m] < g[b - m]
        BY <1>6, <1>8, <3>2 DEF Picks
      <3> QED BY <1>13, <2>2, <3>1, <3>3
    <2> QED BY <2>1, <2>2
  <1>16. ASSUME NEW a \in 1..(m + n), NEW b \in 1..(m + n), pos[a] = pos[b]
         PROVE  a = b
    <2>1. r[a] = r[b] /\ pos[a] \in Nat
      BY <1>14, <1>16
    <2>2. ~(a < b) /\ ~(b < a)
      BY <1>15, <1>16, <2>1
    <2> QED BY <2>2
  <1>17. \A a, b \in 1..(m + n) :
           a < b /\ shell_id[r[a]] = shell_id[r[b]] => pos[a] < pos[b]
    BY <1>15 DEF Of
  <1>18. Shuffle(pos, q, r)
    <2>1. pos \in [1..(m + n) -> 1..Len(q)]
      BY <1>12, <1>14
    <2> QED BY <1>9, <1>14, <1>16, <1>17, <2>1 DEF Shuffle
  <1>19. \A a, b \in 1..(m + n) : a < b /\ Of(t, r[b]) => Of(t, r[a])
    <2>1. \A a \in 1..(m + n) : Of(t, r[a]) <=> a \in 1..m
      BY <1>10, <1>11, <1>13
    <2> QED BY <2>1
  <1> QED BY <1>1, <1>2, <1>3, <1>9, <1>18, <1>19 DEF reschedule_process

-----------------------------------------------------------------------------
(* The cursor *)

\* f is the cursor before the first and after each character of text.
Offsets(f, S, o, text, n) ==
  /\ f \in [0..n -> S]
  /\ f[0] = o /\ \A i \in 1..n : f[i] = Advance(f[i - 1], text[i])
  /\ print_string(o, text) = set_cursor(f[n])

\* print_string has such offsets, in a set that no character leaves.
LEMMA PrintOffsets ==
  ASSUME NEW S, NEW o \in S, NEW text, NEW n \in Nat, n = Len(text),
         \A x \in S, i \in 1..n : Advance(x, text[i]) \in S
  PROVE  \E f : Offsets(f, S, o, text, n)
  <1> DEFINE Def(f) == f = [i \in 0..Len(text) |-> IF i = 0 THEN o
                                                   ELSE Advance(f[i - 1], text[i])]
  <1>2. PICK step : step = [i \in 1..n |-> [x \in S |-> Advance(x, text[i])]]
    OBVIOUS
  <1>3. step \in [1..n -> [S -> S]]
    BY <1>2
  <1>4. PICK f : IsRecursion(f, n, S, o, step)
    BY <1>3, Recursion
  <1>5. f \in [0..n -> S] /\ f[0] = o
    BY <1>4 DEF IsRecursion
  <1>6. ASSUME NEW i \in 1..n PROVE f[i] = Advance(f[i - 1], text[i])
    <2>1. f[i - 1] \in S
      BY <1>5
    <2>2. f[i] = step[i][f[i - 1]]
      BY <1>4 DEF IsRecursion
    <2> QED BY <1>2, <2>1, <2>2
  <1>7. Def(f)
    <2>1. ASSUME NEW i \in 0..n
          PROVE  f[i] = IF i = 0 THEN o ELSE Advance(f[i - 1], text[i])
      <3>1. CASE i = 0
        BY <1>5, <3>1
      <3>2. CASE i # 0
        <4>1. i \in 1..n
          BY <3>2
        <4> QED BY <1>6, <3>2, <4>1
      <3> QED BY <3>1, <3>2
    <2> QED BY <1>5, <2>1
  <1>8. PICK g : g = CHOOSE h : Def(h)
    OBVIOUS
  <1>9. Def(g)
    <2> HIDE DEF Def
    <2> QED BY <1>7, <1>8
  <1>10. print_string(o, text) = set_cursor(g[n])
    BY <1>8 DEF print_string
  <1>11. g[0] = o
    BY <1>9
  <1>12. ASSUME NEW i \in 1..n PROVE g[i] = Advance(g[i - 1], text[i])
    <2>1. i \in 0..n /\ i # 0
      OBVIOUS
    <2> QED BY <1>9, <2>1
  <1>13. PICK T : T = {i \in 0..n : g[i] = f[i]}
    OBVIOUS
  <1>14. 0 \in T /\ T \subseteq 0..n
    BY <1>5, <1>11, <1>13
  <1>15. ASSUME NEW i \in 1..n, i - 1 \in T PROVE i \in T
    <2>1. g[i - 1] = f[i - 1]
      BY <1>13, <1>15
    <2>2. g[i] = f[i]
      BY <1>6, <1>12, <2>1
    <2> QED BY <1>13, <2>2
  <1>16. \A i \in 0..n : i \in T
    BY <1>14, <1>15, Induct
  <1>17. g[n] = f[n]
    BY <1>13, <1>16
  <1>18. Offsets(f, S, o, text, n)
    <2> HIDE DEF Def
    <2> QED BY <1>5, <1>6, <1>10, <1>17 DEF Offsets
  <1> QED BY <1>18

\* A set that no character leaves is not left by a text.
LEMMA PrintStays ==
  ASSUME NEW S, NEW o \in S, NEW text, Len(text) \in Nat,
         \A x \in S, i \in 1..Len(text) : Advance(x, text[i]) \in S
  PROVE  \E x \in S : print_string(o, text) = set_cursor(x)
  <1>1. PICK n \in Nat : n = Len(text)
    OBVIOUS
  <1>2. PICK f : Offsets(f, S, o, text, n)
    BY <1>1, PrintOffsets
  <1> QED BY <1>2 DEF Offsets

\* The products of the screen's size, for the lemmas that add and subtract.
LEMMA ScreenSize ==
  \E h \in Nat : /\ h = (Rows - 1) * Cols /\ BuffSize <= h
                 /\ Rows * Cols = h + Cols /\ (Rows + 1) * Cols = h + Cols + Cols
                 /\ h + Cols + Cols <= Register
                 /\ Cols \in Nat \ {0} /\ Register \in Nat \ {0} /\ BuffSize \in Nat \ {0}
  <1>1. /\ Rows \in Nat /\ Cols \in Nat \ {0} /\ BuffSize \in Nat \ {0}
        /\ BuffSize <= (Rows - 1) * Cols
        /\ Register \in Nat /\ (Rows + 1) * Cols <= Register
    BY TerminalAssumption
  <1>2. PICK h \in Int : h = (Rows - 1) * Cols
    BY <1>1
  <1>3. Rows * Cols = h + Cols /\ (Rows + 1) * Cols = h + Cols + Cols
    BY <1>1, <1>2
  <1> QED BY <1>1, <1>2, <1>3

\* The cells of the screen and of the row below it, from lo on.
From(lo) == lo..((Rows + 1) * Cols - 1)

LEMMA RowStartBefore ==
  ASSUME NEW o \in Nat
  PROVE  RowStart(o) \in 0..o
  <1>1. Cols \in Nat \ {0}
    BY TerminalAssumption
  <1>2. o % Cols \in 0..(Cols - 1) /\ o % Cols <= o
    BY <1>1
  <1> QED BY <1>2 DEF RowStart

LEMMA AdvanceIsNat ==
  ASSUME NEW o \in Nat, NEW c \in {"char", "newline", "return"}
  PROVE  Advance(o, c) \in Nat
  <1>1. PICK h \in Nat : Rows * Cols = h + Cols /\ Cols \in Nat \ {0}
    BY ScreenSize
  <1>2. PICK at : at = IF o >= Rows * Cols THEN o - Cols ELSE o
    OBVIOUS
  <1>3. at \in Nat
    BY <1>1, <1>2
  <1>4. RowStart(at) \in Nat
    BY <1>3, RowStartBefore
  <1>5. Advance(o, c) = CASE c = "char" -> at + 1 [] c = "newline" -> at + Cols
                          [] c = "return" -> RowStart(at)
    BY <1>2 DEF Advance
  <1> QED BY <1>1, <1>3, <1>4, <1>5

\* A character scrolls in time, and leaves the cursor behind a line of lo letters
\* unless it returns to the start of the row.
LEMMA AdvanceStays ==
  ASSUME NEW lo \in Nat, lo <= (Rows - 1) * Cols, NEW o \in From(lo),
         NEW c \in {"char", "newline", "return"}, lo = 0 \/ c # "return"
  PROVE  Advance(o, c) \in From(lo)
  <1>1. PICK h \in Nat : /\ h = (Rows - 1) * Cols /\ Rows * Cols = h + Cols
                         /\ (Rows + 1) * Cols = h + Cols + Cols
                         /\ Cols \in Nat \ {0}
    BY ScreenSize
  <1>2. PICK at : at = IF o >= Rows * Cols THEN o - Cols ELSE o
    OBVIOUS
  <1>3. o \in lo..(h + Cols + Cols - 1) /\ lo <= h
    BY <1>1 DEF From
  <1>4. at \in lo..(h + Cols - 1)
    BY <1>1, <1>2, <1>3
  <1>5. Advance(o, c) = CASE c = "char" -> at + 1 [] c = "newline" -> at + Cols
                          [] c = "return" -> RowStart(at)
    BY <1>2 DEF Advance
  <1>6. CASE c = "char"
    BY <1>1, <1>4, <1>5, <1>6 DEF From
  <1>7. CASE c = "newline"
    BY <1>1, <1>4, <1>5, <1>7 DEF From
  <1>8. CASE c = "return"
    <2>1. RowStart(at) \in 0..at /\ at \in Nat
      BY <1>4, RowStartBefore
    <2> QED BY <1>1, <1>4, <1>5, <1>8, <2>1 DEF From
  <1> QED BY <1>6, <1>7, <1>8

\* Beyond the screen the register holds what it is given.
LEMMA RegisterHolds ==
  ASSUME NEW o \in From(0)
  PROVE  set_cursor(o) = o
  <1>1. PICK h \in Nat : /\ (Rows + 1) * Cols = h + Cols + Cols
                         /\ h + Cols + Cols <= Register /\ Cols \in Nat \ {0}
                         /\ Register \in Nat \ {0}
    BY ScreenSize
  <1>2. o \in 0..(Register - 1)
    BY <1>1 DEF From
  <1> QED BY <1>1, <1>2 DEF set_cursor

\* What a program prints leaves an offset the register can hold.
LEMMA PrintIsCell ==
  ASSUME NEW o \in Nat, NEW text \in Seq({"char", "newline", "return"})
  PROVE  print_string(o, text) \in Cell
  <1>1. Register \in Nat \ {0}
    BY ScreenSize
  <1>2. Len(text) \in Nat
    OBVIOUS
  <1>3. \A x \in Nat, i \in 1..Len(text) : Advance(x, text[i]) \in Nat
    <2>1. \A i \in 1..Len(text) : text[i] \in {"char", "newline", "return"}
      OBVIOUS
    <2> QED BY <2>1, AdvanceIsNat
  <1>4. PICK x \in Nat : print_string(o, text) = set_cursor(x)
    BY <1>2, <1>3, PrintStays
  <1> QED BY <1>1, <1>4 DEF set_cursor, Cell

\* A text stays on the screen, and behind the line if it holds no return.
LEMMA PrintStaysBehind ==
  ASSUME NEW lo \in Nat, lo <= (Rows - 1) * Cols, NEW o \in From(lo),
         NEW text \in Seq({"char", "newline", "return"}),
         lo = 0 \/ \A i \in 1..Len(text) : text[i] # "return"
  PROVE  print_string(o, text) \in From(lo)
  <1>1. Len(text) \in Nat
    OBVIOUS
  <1>2. \A x \in From(lo), i \in 1..Len(text) : Advance(x, text[i]) \in From(lo)
    <2>1. \A i \in 1..Len(text) : text[i] \in {"char", "newline", "return"}
      OBVIOUS
    <2> QED BY <2>1, AdvanceStays
  <1>3. PICK x \in From(lo) : print_string(o, text) = set_cursor(x)
    BY <1>1, <1>2, PrintStays
  <1>4. x \in From(0)
    BY <1>3 DEF From
  <1> QED BY <1>3, <1>4, RegisterHolds

\* A letter goes one cell on, behind the line it has become part of.
LEMMA LetterStaysBehind ==
  ASSUME NEW lo \in Nat, lo + 1 <= BuffSize, NEW o \in From(lo)
  PROVE  print_string(o, <<"char">>) \in From(lo + 1)
  <1>1. PICK h \in Nat : /\ Rows * Cols = h + Cols /\ BuffSize <= h
                         /\ (Rows + 1) * Cols = h + Cols + Cols
                         /\ Cols \in Nat \ {0} /\ BuffSize \in Nat
    BY ScreenSize
  <1>2. o \in lo..(h + Cols + Cols - 1) /\ o \in Nat
    BY <1>1 DEF From
  <1>3. PICK text : text = <<"char">>
    OBVIOUS
  <1>4. Len(text) = 1 /\ text[1] = "char"
    BY <1>3
  <1>5. \A x \in Nat, i \in 1..1 : Advance(x, text[i]) \in Nat
    BY <1>4, AdvanceIsNat
  <1>6. PICK f \in [0..1 -> Nat] :
          /\ f[0] = o /\ f[1] = Advance(f[0], text[1])
          /\ print_string(o, text) = set_cursor(f[1])
    <2>1. PICK f : Offsets(f, Nat, o, text, 1)
      BY <1>2, <1>4, <1>5, PrintOffsets
    <2>2. f[1] = Advance(f[1 - 1], text[1])
      BY <2>1 DEF Offsets
    <2> QED BY <2>1, <2>2 DEF Offsets
  <1>7. f[1] = (IF o >= Rows * Cols THEN o - Cols ELSE o) + 1
    BY <1>4, <1>6 DEF Advance
  <1>8. f[1] \in From(lo + 1)
    BY <1>1, <1>2, <1>7 DEF From
  <1>9. f[1] \in From(0)
    BY <1>8 DEF From
  <1> QED BY <1>3, <1>6, <1>8, <1>9, RegisterHolds

\* A backspace takes the cursor a cell back, whenever there is one.
LEMMA BackspaceStays ==
  ASSUME NEW lo \in Nat, NEW o \in From(lo + 1)
  PROVE  print_backspace(o) = o - 1 /\ print_backspace(o) \in From(lo)
  <1>1. PICK h \in Nat : /\ (Rows + 1) * Cols = h + Cols + Cols
                         /\ h + Cols + Cols <= Register /\ Cols \in Nat \ {0}
                         /\ Register \in Nat \ {0}
    BY ScreenSize
  <1>2. o \in (lo + 1)..(h + Cols + Cols - 1)
    BY <1>1 DEF From
  <1>3. o - 1 \in 0..(Register - 1) /\ o + Register - 1 = (o - 1) + Register
    BY <1>1, <1>2
  <1>4. (o + Register - 1) % Register = o - 1
    BY <1>1, <1>3
  <1>5. o - 1 \in From(lo)
    BY <1>1, <1>2 DEF From
  <1> QED BY <1>4, <1>5 DEF print_backspace, set_cursor

-----------------------------------------------------------------------------
(* The steps *)

\* What a step does to the list of readers.
ReadersMove ==
  \/ UNCHANGED <<readers, focused, late>>
  \/ /\ UNCHANGED <<focused, late>>
     /\ \/ readers # <<>> /\ readers' = Tail(readers)
        \/ \E S : readers' = Only(readers, S)
  \/ \E t \in Terminal : /\ focused' = t /\ late' = FALSE
                         /\ readers' = reschedule_process(readers, t)
  \/ \E p \in Process : /\ p \notin Range(readers) /\ readers' = <<p>> \o readers
                        /\ UNCHANGED focused /\ late' = (late \/ ~Of(focused, p))

LEMMA NextMovesReaders ==
  ASSUME [Next]_vars
  PROVE  ReadersMove
  <1>1. CASE Ctrl \/ Shift \/ Backspace
    BY <1>1 DEF Ctrl, Shift, Backspace, ReadersMove, history
  <1>2. CASE Enter
    BY <1>2 DEF Enter, IsServed, LineEnds, ReadersMove
  <1>3. ASSUME NEW k \in Key, Letter(k) \/ CtrlL(k) \/ CtrlOther(k) PROVE ReadersMove
    BY <1>3 DEF Letter, CtrlL, CtrlOther, ReadersMove, history
  <1>4. ASSUME NEW k \in Key, CtrlAbort(k) PROVE ReadersMove
    BY <1>4 DEF CtrlAbort, ReadersMove
  <1>5. ASSUME NEW k \in Key, NEW t \in Terminal, NEW x \in Texts,
               switch_to_terminal(k, t, x)
        PROVE  ReadersMove
    BY <1>5 DEF switch_to_terminal, ReadersMove
  <1>6. ASSUME NEW p \in Process, ReadLine(p) PROVE ReadersMove
    BY <1>6 DEF ReadLine, ReadersMove
  <1>7. ASSUME NEW p \in Process,
               \/ Clear(p)
               \/ \E x \in Texts : Printf(p, x) \/ Prints(p, x)
               \/ \E o \in Screen : SetCursor(p, o)
        PROVE  ReadersMove
    BY <1>7 DEF Clear, Printf, Prints, SetCursor, ReadersMove, history
  <1>8. CASE print_mouse_state
    BY <1>8 DEF print_mouse_state, ReadersMove, history
  <1>9. CASE UNCHANGED vars
    BY <1>9 DEF vars, ReadersMove
  <1>10. CASE KeyStep
    BY <1>1, <1>2, <1>3, <1>4, <1>5, <1>10 DEF KeyStep
  <1>11. CASE CallStep
    BY <1>6, <1>7, <1>11 DEF CallStep
  <1> QED BY <1>8, <1>9, <1>10, <1>11 DEF Next

LEMMA RisingKeepsFirst ==
  ASSUME NEW t, NEW q \in Seq(Process), First(t, q),
         NEW r, NEW pos, Shuffle(pos, q, r), Rising(pos, r)
  PROVE  First(t, r)
  <1>1. DOMAIN r = 1..Len(r) /\ DOMAIN q = 1..Len(q) /\ Len(r) \in Nat /\ Len(q) \in Nat
    BY DEF Shuffle
  <1>2. ASSUME NEW i \in 1..Len(r), NEW j \in 1..Len(r), Of(t, r[i]), ~Of(t, r[j])
        PROVE  i < j
    <2>1. /\ pos[i] \in 1..Len(q) /\ r[i] = q[pos[i]]
          /\ pos[j] \in 1..Len(q) /\ r[j] = q[pos[j]]
      BY DEF Shuffle
    <2>2. pos[i] < pos[j]
      BY <1>1, <1>2, <2>1 DEF First
    <2>3. ~(j < i)
      BY <2>1, <2>2 DEF Rising
    <2>4. i # j
      BY <1>2
    <2> QED BY <1>1, <2>3, <2>4
  <1> QED BY <1>1, <1>2 DEF First

ReadersTyped == readers \in Seq(Process) /\ IsInjective(readers)

\* block_process_on_keyboard puts a process in front that was not in the list.
LEMMA NewReader ==
  ASSUME NEW q \in Seq(Process), IsInjective(q), NEW p \in Process, p \notin Range(q),
         NEW t
  PROVE  LET r == <<p>> \o q
         IN  /\ r \in Seq(Process) /\ IsInjective(r) /\ Ordered(q, r)
             /\ First(t, q) /\ Of(t, p) => First(t, r)
  <1>1. PICK r : r = <<p>> \o q
    OBVIOUS
  <1>2. PICK n \in Nat : n = Len(q) /\ DOMAIN q = 1..n
    OBVIOUS
  <1>3. /\ r \in Seq(Process) /\ Len(r) = n + 1 /\ DOMAIN r = 1..(n + 1)
        /\ r[1] = p /\ \A i \in 2..(n + 1) : r[i] = q[i - 1]
    BY <1>1, <1>2
  <1>4. \A i \in 1..n : q[i] # p
    BY <1>2 DEF Range
  <1>5. \A i \in 1..(n + 1) : i = 1 \/ (i \in 2..(n + 1) /\ i - 1 \in 1..n)
    OBVIOUS
  <1>6. ASSUME NEW i \in 1..(n + 1), NEW j \in 1..n, r[i] = q[j]
        PROVE  i = j + 1
    <2>1. i # 1
      BY <1>3, <1>4, <1>6
    <2>2. i \in 2..(n + 1) /\ i - 1 \in 1..n
      BY <1>5, <2>1
    <2>3. r[i] = q[i - 1]
      BY <1>3, <2>2
    <2>4. i - 1 = j
      BY <1>2, <1>6, <2>2, <2>3 DEF IsInjective
    <2> QED BY <2>4
  <1>7. IsInjective(r)
    <2>1. ASSUME NEW i \in 1..(n + 1), NEW j \in 1..(n + 1), r[i] = r[j] PROVE i = j
      <3>1. CASE j = 1
        <4>1. i = 1
          BY <1>3, <1>4, <1>5, <2>1, <3>1
        <4> QED BY <3>1, <4>1
      <3>2. CASE j # 1
        <4>1. j \in 2..(n + 1) /\ j - 1 \in 1..n
          BY <1>5, <3>2
        <4>2. r[i] = q[j - 1]
          BY <1>3, <2>1, <4>1
        <4>3. i = (j - 1) + 1
          BY <1>6, <4>1, <4>2
        <4> QED BY <4>3
      <3> QED BY <3>1, <3>2
    <2> QED BY <1>3, <2>1 DEF IsInjective
  <1>8. Ordered(q, r)
    <2>1. ASSUME NEW i \in 1..n, NEW j \in 1..n, i < j,
                 NEW k \in 1..(n + 1), NEW m \in 1..(n + 1), r[k] = q[i], r[m] = q[j]
          PROVE  k < m
      <3>1. k = i + 1 /\ m = j + 1
        BY <1>6, <2>1
      <3> QED BY <2>1, <3>1
    <2> QED BY <1>2, <1>3, <2>1 DEF Ordered
  <1>9. ASSUME First(t, q), Of(t, p) PROVE First(t, r)
    <2>1. ASSUME NEW i \in 1..(n + 1), NEW j \in 1..(n + 1), Of(t, r[i]), ~Of(t, r[j])
          PROVE  i < j
      <3>1. j # 1
        BY <1>3, <1>9, <2>1
      <3>2. j \in 2..(n + 1) /\ j - 1 \in 1..n /\ r[j] = q[j - 1]
        BY <1>3, <1>5, <3>1
      <3>3. CASE i = 1
        BY <3>2, <3>3
      <3>4. CASE i # 1
        <4>1. i \in 2..(n + 1) /\ i - 1 \in 1..n /\ r[i] = q[i - 1]
          BY <1>3, <1>5, <3>4
        <4>2. i - 1 < j - 1
          BY <1>2, <1>9, <2>1, <3>2, <4>1 DEF First
        <4> QED BY <4>2
      <3> QED BY <3>3, <3>4
    <2> QED BY <1>3, <2>1 DEF First
  <1> QED BY <1>1, <1>3, <1>7, <1>8, <1>9

\* The readers after a step.
LEMMA ReadersStep ==
  ASSUME ReadersTyped, FocusedReadersFirst, [Next]_vars
  PROVE  /\ ReadersTyped'
         /\ FocusedReadersFirst'
         /\ Ordered(readers, readers')
  <1>1. readers \in Seq(Process) /\ IsInjective(readers)
    BY DEF ReadersTyped
  <1>2. ~late => First(focused, readers)
    BY DEF FocusedReadersFirst, First
  <1> DEFINE Kept == /\ readers' \in Seq(Process) /\ IsInjective(readers')
                     /\ Ordered(readers, readers')
                     /\ ~late' => First(focused', readers')
  <1>3. SUFFICES Kept
    BY DEF ReadersTyped, FocusedReadersFirst, First
  <1>4. ASSUME NEW pos, Shuffle(pos, readers, readers')
        PROVE  /\ readers' \in Seq(Process) /\ IsInjective(readers')
               /\ Ordered(readers, readers')
    <2>1. PICK r : r = readers'
      OBVIOUS
    <2>2. r \in Seq(Process) /\ IsInjective(r) /\ Ordered(readers, r)
      BY <1>1, <1>4, <2>1, ShuffleIsInjective, ShuffleIsOrdered DEF Shuffle
    <2> QED BY <2>1, <2>2
  <1>5. ASSUME NEW pos, Shuffle(pos, readers, readers'), Rising(pos, readers'),
               UNCHANGED <<focused, late>>
        PROVE  Kept
    <2>1. ASSUME ~late PROVE First(focused, readers')
      <3>1. PICK r : r = readers'
        OBVIOUS
      <3>2. First(focused, r)
        BY <1>1, <1>2, <1>5, <2>1, <3>1, RisingKeepsFirst
      <3> QED BY <3>1, <3>2
    <2> QED BY <1>4, <1>5, <2>1
  <1>6. CASE UNCHANGED <<readers, focused, late>>
    <2>1. PICK r : r = readers'
      OBVIOUS
    <2>2. PICK pos : Shuffle(pos, readers, readers)
      BY <1>1, SameIsShuffle
    <2>3. Ordered(readers, readers)
      BY <1>1, <2>2, ShuffleIsOrdered
    <2> QED BY <1>1, <1>2, <1>6, <2>3
  <1>7. CASE UNCHANGED <<focused, late>> /\ readers # <<>> /\ readers' = Tail(readers)
    <2>1. PICK pos : Shuffle(pos, readers, Tail(readers)) /\ Rising(pos, Tail(readers))
      BY <1>1, <1>7, TailIsShuffle
    <2> QED BY <1>5, <1>7, <2>1
  <1>8. ASSUME NEW S, UNCHANGED <<focused, late>>, readers' = Only(readers, S)
        PROVE  Kept
    <2>1. PICK pos : Shuffle(pos, readers, Only(readers, S)) /\ Rising(pos, Only(readers, S))
      BY <1>1, OnlyIsShuffle
    <2> QED BY <1>5, <1>8, <2>1
  <1>9. ASSUME NEW t \in Terminal, focused' = t, late' = FALSE,
               readers' = reschedule_process(readers, t)
        PROVE  Kept
    <2>1. PICK r : r = reschedule_process(readers, t)
      OBVIOUS
    <2>2. /\ \E pos : Shuffle(pos, readers, r)
          /\ \A a, b \in 1..Len(r) : a < b /\ Of(t, r[b]) => Of(t, r[a])
      BY <1>1, <2>1, ReschedulingIsShuffle
    <2>3. /\ readers' \in Seq(Process) /\ IsInjective(readers')
          /\ Ordered(readers, readers')
      BY <1>4, <1>9, <2>1, <2>2
    <2>4. First(t, r)
      <3>1. DOMAIN r = 1..Len(r) /\ Len(r) \in Nat
        BY <1>9, <2>1, <2>3
      <3>2. ASSUME NEW i \in 1..Len(r), NEW j \in 1..Len(r), Of(t, r[i]), ~Of(t, r[j])
            PROVE  i < j
        <4>1. i # j /\ ~(j < i)
          BY <2>2, <3>2
        <4> QED BY <3>1, <4>1
      <3> QED BY <3>1, <3>2 DEF First
    <2> QED BY <1>9, <2>1, <2>3, <2>4
  <1>10. ASSUME NEW p \in Process, p \notin Range(readers), readers' = <<p>> \o readers,
                UNCHANGED focused, late' = (late \/ ~Of(focused, p))
         PROVE  Kept
    <2>1. PICK r : r = <<p>> \o readers
      OBVIOUS
    <2>2. /\ r \in Seq(Process) /\ IsInjective(r) /\ Ordered(readers, r)
          /\ First(focused, readers) /\ Of(focused, p) => First(focused, r)
      BY <1>1, <1>10, <2>1, NewReader
    <2> QED BY <1>2, <1>10, <2>1, <2>2
  <1> QED BY <1>6, <1>7, <1>8, <1>9, <1>10, NextMovesReaders DEF ReadersMove

\* The rest of the type invariant but the cursor, and that the buffer has only
\* letters that were typed since it was last emptied.
LineTyped ==
  /\ ctrl_on \in BOOLEAN /\ shift_on \in BOOLEAN
  /\ line \in Seq(Symbol) /\ Len(line) < BuffSize
  /\ focused \in Terminal
  /\ fresh \in 0..BuffSize /\ Len(line) <= fresh
  /\ late \in BOOLEAN /\ disturbed \in BOOLEAN

LEMMA ErasedLine ==
  ASSUME NEW l \in Seq(Symbol)
  PROVE  /\ Erased(l) \in Seq(Symbol)
         /\ l = <<>> => Erased(l) = l
         /\ l # <<>> => Len(l) \in Nat \ {0} /\ Len(Erased(l)) = Len(l) - 1
  <1>1. CASE l = <<>>
    BY <1>1 DEF Erased
  <1>2. CASE l # <<>>
    <2>1. Len(l) \in Nat \ {0}
      BY <1>2
    <2>2. PICK n \in Nat : n = Len(l) - 1
      BY <2>1
    <2>3. SubSeq(l, 1, n) \in Seq(Symbol) /\ Len(SubSeq(l, 1, n)) = n
      BY <2>1, <2>2
    <2> QED BY <1>2, <2>1, <2>2, <2>3 DEF Erased, Front
  <1> QED BY <1>1, <1>2

\* Backspace and the shortcuts take the last letter.
LEMMA ErasedTyped ==
  ASSUME LineTyped, line' = Erased(line), UNCHANGED <<keyboard, fresh>>,
         focused' \in Terminal, late' \in BOOLEAN, disturbed' \in BOOLEAN
  PROVE  LineTyped'
  <1>1. /\ line \in Seq(Symbol) /\ Len(line) < BuffSize /\ Len(line) \in Nat
        /\ BuffSize \in Nat /\ fresh \in Nat /\ Len(line) <= fresh
    BY ScreenSize DEF LineTyped
  <1>2. line' \in Seq(Symbol) /\ Len(line') < BuffSize /\ Len(line') <= fresh
    <2>1. PICK l : l = line'
      OBVIOUS
    <2>2. l \in Seq(Symbol) /\ (Len(l) = Len(line) \/ Len(l) = Len(line) - 1)
      BY <1>1, <2>1, ErasedLine
    <2> QED BY <1>1, <2>1, <2>2
  <1> QED BY <1>2 DEF LineTyped, keyboard

LEMMA LineStep ==
  ASSUME LineTyped, [Next]_vars
  PROVE  LineTyped'
  <1>1. CASE Ctrl \/ Shift
    BY <1>1 DEF Ctrl, Shift, LineTyped, history
  <1>2. ASSUME NEW k \in Key, Letter(k) PROVE LineTyped'
    <2>1. PICK c : /\ c = IF shift_on THEN key_map_shifted[k] ELSE key_map[k]
                   /\ line' = WithLetter(line, c)
      BY <1>2 DEF Letter
    <2>2. c \in Symbol
      BY <2>1 DEF Symbol
    <2>3. /\ BuffSize \in Nat \ {0} /\ line \in Seq(Symbol) /\ Len(line) < BuffSize
          /\ Len(line) \in Nat /\ fresh \in 0..BuffSize /\ Len(line) <= fresh
      BY ScreenSize DEF LineTyped
    <2>4. fresh' = IF fresh < BuffSize THEN fresh + 1 ELSE fresh
      BY <1>2 DEF Letter, Types, LineTyped
    <2>5. fresh' \in 0..BuffSize /\ fresh' \in Nat /\ (fresh' = BuffSize \/ fresh' = fresh + 1)
      BY <2>3, <2>4
    <2>6. line' \in Seq(Symbol) /\ Len(line') < BuffSize /\ Len(line') <= fresh'
      <3>1. CASE Len(line) + 1 = BuffSize
        BY <2>1, <2>3, <2>5, <3>1 DEF WithLetter
      <3>2. CASE Len(line) + 1 # BuffSize
        <4>1. line' = Append(line, c)
          BY <2>1, <3>2 DEF WithLetter
        <4>2. line' \in Seq(Symbol) /\ Len(line') = Len(line) + 1
          BY <2>2, <2>3, <4>1
        <4> QED BY <2>3, <2>5, <3>2, <4>2
      <3> QED BY <3>1, <3>2
    <2> QED BY <1>2, <2>4, <2>5, <2>6 DEF Letter, LineTyped, keyboard
  <1>3. CASE Backspace
    <2>1. /\ line' = Erased(line) /\ UNCHANGED <<keyboard, fresh>>
          /\ focused' \in Terminal /\ late' \in BOOLEAN /\ disturbed' \in BOOLEAN
      BY <1>3 DEF Backspace, LineTyped, history
    <2> QED BY <2>1, ErasedTyped
  <1>4. ASSUME line' = <<>>, LineEnds, UNCHANGED <<keyboard, focused, late, disturbed>>
        PROVE  LineTyped'
    <2>1. fresh' = 0 /\ BuffSize \in Nat \ {0}
      BY <1>4, ScreenSize DEF LineEnds
    <2>2. line' \in Seq(Symbol) /\ Len(line') = 0
      BY <1>4
    <2> QED BY <1>4, <2>1, <2>2 DEF LineTyped, keyboard
  <1>5. CASE Enter
    BY <1>4, <1>5 DEF Enter, Emptied
  <1>6. ASSUME NEW k \in Key, CtrlAbort(k) PROVE LineTyped'
    BY <1>4, <1>6 DEF CtrlAbort, Emptied
  <1>7. ASSUME NEW k \in Key, CtrlL(k) \/ CtrlOther(k) PROVE LineTyped'
    <2>1. /\ line' = Erased(line) /\ UNCHANGED <<keyboard, fresh>>
          /\ focused' \in Terminal /\ late' \in BOOLEAN /\ disturbed' \in BOOLEAN
      BY <1>7 DEF CtrlL, CtrlOther, ShortcutErases, Disturbs, LineTyped, history
    <2> QED BY <2>1, ErasedTyped
  <1>8. ASSUME NEW k \in Key, NEW t \in Terminal, NEW x \in Texts,
               switch_to_terminal(k, t, x)
        PROVE  LineTyped'
    <2>1. /\ line' = Erased(line) /\ UNCHANGED <<keyboard, fresh>>
          /\ focused' \in Terminal /\ late' \in BOOLEAN /\ disturbed' \in BOOLEAN
      BY <1>8 DEF switch_to_terminal, ShortcutErases, Disturbs, LineTyped
    <2> QED BY <2>1, ErasedTyped
  <1>9. ASSUME UNCHANGED <<keyboard, line, focused, fresh>>,
               late' \in BOOLEAN, disturbed' \in BOOLEAN
        PROVE  LineTyped'
    BY <1>9 DEF LineTyped, keyboard
  <1>10. ASSUME NEW p \in Process, ReadLine(p) PROVE LineTyped'
    <2>1. late' \in BOOLEAN
      BY <1>10 DEF ReadLine, LineTyped
    <2>2. disturbed' \in BOOLEAN
      BY <1>10 DEF ReadLine, LineTyped
    <2> QED BY <1>9, <1>10, <2>1, <2>2 DEF ReadLine
  <1>11. ASSUME NEW p \in Process, Clear(p) \/ (\E o \in Screen : SetCursor(p, o))
         PROVE  LineTyped'
    <2>1. late' \in BOOLEAN /\ disturbed' \in BOOLEAN
      BY <1>11 DEF Clear, SetCursor, Disturbs, LineTyped, history
    <2> QED BY <1>9, <1>11, <2>1 DEF Clear, SetCursor, history
  <1>12. ASSUME NEW p \in Process, \E x \in Texts : Printf(p, x) \/ Prints(p, x)
         PROVE  LineTyped'
    <2>1. late' \in BOOLEAN
      BY <1>12 DEF Printf, Prints, LineTyped, history
    <2>2. disturbed' \in BOOLEAN
      BY <1>12 DEF Printf, Prints, LineTyped, history
    <2> QED BY <1>9, <1>12, <2>1, <2>2 DEF Printf, Prints, history
  <1>13. CASE print_mouse_state
    <2>1. late' \in BOOLEAN /\ disturbed' \in BOOLEAN
      BY <1>13 DEF print_mouse_state, LineTyped, history
    <2> QED BY <1>9, <1>13, <2>1 DEF print_mouse_state, history
  <1>14. CASE UNCHANGED vars
    BY <1>9, <1>14 DEF vars, LineTyped, keyboard
  <1>15. CASE KeyStep
    BY <1>1, <1>2, <1>3, <1>5, <1>6, <1>7, <1>8, <1>15 DEF KeyStep
  <1>16. CASE CallStep
    BY <1>10, <1>11, <1>12, <1>16 DEF CallStep
  <1> QED BY <1>13, <1>14, <1>15, <1>16 DEF Next

Behind == cursor \in From(Len(line))

LEMMA CursorErasedStays ==
  ASSUME line \in Seq(Symbol), NEW o \in Cell
  PROVE  /\ CursorErased(o) \in Cell
         /\ o \in From(Len(line)) => CursorErased(o) \in From(Len(Erased(line)))
         /\ line = <<>> => CursorErased(o) = o
  <1>1. CASE line = <<>>
    BY <1>1 DEF CursorErased, Erased
  <1>2. CASE line # <<>>
    <2>1. CursorErased(o) = print_backspace(o)
      BY <1>2 DEF CursorErased
    <2>2. Register \in Nat \ {0} /\ o + Register - 1 \in Nat
      BY ScreenSize DEF Cell
    <2>3. print_backspace(o) \in Cell
      BY <2>2 DEF print_backspace, set_cursor, Cell
    <2>4. PICK n \in Nat : n = Len(Erased(line)) /\ Len(line) = n + 1
      <3>1. Len(line) \in Nat \ {0} /\ Len(Erased(line)) = Len(line) - 1
        BY <1>2, ErasedLine
      <3> QED BY <3>1
    <2>5. o \in From(n + 1) => print_backspace(o) \in From(n)
      BY BackspaceStays
    <2> QED BY <1>2, <2>1, <2>3, <2>4, <2>5
  <1> QED BY <1>1, <1>2

\* A text printed over the whole screen, or by a shortcut.
LEMMA PrintedCursor ==
  ASSUME NEW o \in Cell, NEW text \in Seq({"char", "newline", "return"})
  PROVE  /\ print_string(o, text) \in Cell
         /\ o \in From(0) => print_string(o, text) \in From(0)
  <1>1. o \in Nat
    BY DEF Cell
  <1>2. print_string(o, text) \in Cell
    BY <1>1, PrintIsCell
  <1>3. PICK h \in Nat : h = (Rows - 1) * Cols
    BY ScreenSize
  <1>4. o \in From(0) => print_string(o, text) \in From(0)
    BY <1>3, PrintStaysBehind
  <1> QED BY <1>2, <1>4

LEMMA ZeroIsOnScreen ==
  0 \in Cell /\ 0 \in From(0) /\ set_cursor(0) = 0
  <1>1. PICK h \in Nat : /\ (Rows + 1) * Cols = h + Cols + Cols
                         /\ Cols \in Nat \ {0} /\ Register \in Nat \ {0}
    BY ScreenSize
  <1>2. 0 \in From(0)
    BY <1>1 DEF From
  <1> QED BY <1>1, <1>2, RegisterHolds DEF Cell

LEMMA CursorStep ==
  ASSUME LineTyped, cursor \in Cell, CursorOnScreen, [Next]_vars
  PROVE  cursor' \in Cell /\ CursorOnScreen'
  <1> DEFINE Kept == cursor' \in Cell /\ (~disturbed' => Behind')
  <1>1. SUFFICES Kept
    BY DEF CursorOnScreen, Behind, From
  <1>2. ~disturbed => Behind
    BY DEF CursorOnScreen, Behind, From
  <1>3. PICK n \in Nat : n = Len(line) /\ n < BuffSize
    BY DEF LineTyped
  <1>4. line \in Seq(Symbol)
    BY DEF LineTyped
  <1>5. PICK h \in Nat : /\ h = (Rows - 1) * Cols /\ BuffSize <= h /\ BuffSize \in Nat
                         /\ Rows * Cols = h + Cols /\ (Rows + 1) * Cols = h + Cols + Cols
                         /\ h + Cols + Cols <= Register /\ Cols \in Nat \ {0}
                         /\ Register \in Nat
    BY ScreenSize
  <1>6. Behind => cursor \in From(0)
    BY <1>3 DEF Behind, From
  <1>7. Texts \subseteq Seq({"char", "newline", "return"})
    BY TerminalAssumption
  \* Nothing printed.
  <1>8. ASSUME UNCHANGED <<line, cursor>>, UNCHANGED disturbed PROVE Kept
    BY <1>2, <1>8 DEF Behind
  \* A cell of the screen after the line is gone, or while there is none.
  <1>9. ASSUME cursor' \in Cell, ~disturbed' => line' = <<>> /\ cursor' \in From(0)
        PROVE  Kept
    BY <1>9 DEF Behind
  <1>10. ASSUME NEW k \in Key, Letter(k) PROVE Kept
    <2>1. /\ cursor' = print_string(cursor, <<"char">>) /\ UNCHANGED disturbed
          /\ \E c : line' = WithLetter(line, c)
      BY <1>10 DEF Letter
    <2>2. <<"char">> \in Seq({"char", "newline", "return"})
      OBVIOUS
    <2>3. cursor' \in Cell
      BY <2>1, <2>2, PrintedCursor
    <2>4. ASSUME ~disturbed PROVE Behind'
      <3>1. cursor \in From(n)
        BY <1>2, <1>3, <2>4 DEF Behind
      <3>2. cursor' \in From(n + 1)
        BY <1>3, <1>5, <2>1, <3>1, LetterStaysBehind
      <3>3. Len(line') \in 0..(n + 1)
        <4>1. CASE n + 1 = BuffSize
          BY <1>3, <2>1, <4>1 DEF WithLetter
        <4>2. CASE n + 1 # BuffSize
          <5>1. PICK c : line' = Append(line, c)
            BY <1>3, <2>1, <4>2 DEF WithLetter
          <5> QED BY <1>3, <1>4, <5>1
        <4> QED BY <4>1, <4>2
      <3>4. cursor' \in From(Len(line'))
        BY <1>5, <3>2, <3>3 DEF From
      <3> QED BY <3>4 DEF Behind
    <2> QED BY <2>1, <2>3, <2>4
  <1>11. ASSUME line' = Erased(line), cursor' = CursorErased(cursor), UNCHANGED disturbed
         PROVE  Kept
    <2>1. cursor' \in Cell
      BY <1>4, <1>11, CursorErasedStays
    <2>2. Behind => Behind'
      BY <1>4, <1>11, CursorErasedStays DEF Behind
    <2> QED BY <1>2, <1>11, <2>1, <2>2
  <1>12. ASSUME NEW o \in Cell, line = <<>> => o \in From(0),
                ShortcutErases(o), Disturbs
         PROVE  Kept
    <2>1. cursor' = CursorErased(o) /\ line' = Erased(line) /\ disturbed' = (line # <<>>)
      BY <1>12 DEF ShortcutErases, Disturbs
    <2>2. cursor' \in Cell /\ (line = <<>> => cursor' = o)
      BY <1>4, <2>1, CursorErasedStays
    <2>3. line = <<>> => line' = <<>>
      BY <2>1 DEF Erased
    <2> QED BY <1>9, <1>12, <2>1, <2>2, <2>3
  <1>13. ASSUME NEW text \in Seq({"char", "newline", "return"}),
                cursor' = print_string(cursor, text), line' = <<>>, UNCHANGED disturbed
         PROVE  Kept
    <2>1. cursor' \in Cell /\ (cursor \in From(0) => cursor' \in From(0))
      BY <1>13, PrintedCursor
    <2> QED BY <1>2, <1>6, <1>9, <1>13, <2>1
  <1>14. CASE Enter
    <2>1. NewLine \in Seq({"char", "newline", "return"})
      BY DEF NewLine
    <2> QED BY <1>13, <1>14, <2>1 DEF Enter, Emptied
  <1>15. ASSUME NEW k \in Key, CtrlAbort(k) PROVE Kept
    <2>1. CtrlC \in Seq({"char", "newline", "return"})
      BY DEF CtrlC
    <2> QED BY <1>13, <1>15, <2>1 DEF CtrlAbort, Emptied
  <1>16. ASSUME NEW k \in Key, CtrlL(k) PROVE Kept
    <2>1. ShortcutErases(0) /\ Disturbs
      BY <1>16, ZeroIsOnScreen DEF CtrlL
    <2> QED BY <1>12, <2>1, ZeroIsOnScreen
  <1>17. ASSUME NEW k \in Key, CtrlOther(k) PROVE Kept
    BY <1>11, <1>17 DEF CtrlOther, ShortcutErases
  <1>18. CASE Backspace
    BY <1>11, <1>18 DEF Backspace
  <1>19. ASSUME NEW k \in Key, NEW t \in Terminal, NEW x \in Texts,
                switch_to_terminal(k, t, x)
         PROVE  Kept
    <2>1. print_string(0, x) \in Cell /\ print_string(0, x) \in From(0)
      BY <1>7, ZeroIsOnScreen, PrintedCursor
    <2>2. ShortcutErases(print_string(0, x)) /\ Disturbs
      BY <1>19 DEF switch_to_terminal
    <2> QED BY <1>12, <2>1, <2>2
  <1>20. ASSUME NEW p \in Process, ReadLine(p) PROVE Kept
    BY <1>8, <1>20 DEF ReadLine
  <1>21. ASSUME NEW p \in Process, NEW x \in Texts, Prints(p, x) PROVE Kept
    <2>1. /\ cursor' = print_string(cursor, x) /\ UNCHANGED line
          /\ disturbed' = (disturbed \/ ("return" \in Range(x) /\ line # <<>>))
          /\ x \in Seq({"char", "newline", "return"})
      BY <1>7, <1>21 DEF Prints
    <2>2. cursor' \in Cell
      BY <2>1, PrintedCursor
    <2>3. ASSUME ~disturbed' PROVE Behind'
      <3>1. cursor \in From(n)
        BY <1>2, <1>3, <2>1, <2>3 DEF Behind
      <3>2. n = 0 \/ \A i \in 1..Len(x) : x[i] # "return"
        <4>1. CASE line = <<>>
          BY <1>3, <4>1
        <4>2. CASE "return" \notin Range(x)
          BY <2>1, <4>2 DEF Range
        <4> QED BY <2>1, <2>3, <4>1, <4>2
      <3>3. n <= (Rows - 1) * Cols
        BY <1>3, <1>5
      <3>4. print_string(cursor, x) \in From(n)
        BY <2>1, <3>1, <3>2, <3>3, PrintStaysBehind
      <3> QED BY <1>3, <2>1, <3>4 DEF Behind
    <2> QED BY <2>2, <2>3
  <1>22. ASSUME NEW p \in Process, Clear(p) PROVE Kept
    <2>1. cursor' = 0 /\ UNCHANGED line /\ disturbed' = (line # <<>>)
      BY <1>22, ZeroIsOnScreen DEF Clear, Disturbs
    <2> QED BY <1>9, <2>1, ZeroIsOnScreen
  <1>23. ASSUME NEW p \in Process, NEW o \in Screen, SetCursor(p, o) PROVE Kept
    <2>1. o \in From(0)
      BY <1>5 DEF Screen, From
    <2>2. o \in Cell
      BY <1>5 DEF Screen, Cell
    <2>3. cursor' = o /\ UNCHANGED line /\ disturbed' = (line # <<>>)
      BY <1>23, <2>1, RegisterHolds DEF SetCursor, Disturbs
    <2> QED BY <1>9, <2>1, <2>2, <2>3
  <1>24. CASE print_mouse_state
    <2>1. <<"char", "newline", "return">> \in Seq({"char", "newline", "return"})
      OBVIOUS
    <2>2. /\ cursor' = print_string(cursor, <<"char", "newline", "return">>)
          /\ UNCHANGED line /\ disturbed' = (disturbed \/ line # <<>>)
      BY <1>24 DEF print_mouse_state
    <2>3. cursor' \in Cell /\ (cursor \in From(0) => cursor' \in From(0))
      BY <2>1, <2>2, PrintedCursor
    <2> QED BY <1>2, <1>6, <1>9, <2>2, <2>3
  <1>25. CASE Ctrl \/ Shift
    BY <1>8, <1>25 DEF Ctrl, Shift
  <1>26. CASE UNCHANGED vars
    BY <1>8, <1>26 DEF vars
  <1>27. CASE KeyStep
    BY <1>10, <1>14, <1>15, <1>16, <1>17, <1>18, <1>19, <1>25, <1>27 DEF KeyStep
  <1>28. CASE CallStep
    BY <1>20, <1>21, <1>22, <1>23, <1>28 DEF CallStep, Printf
  <1> QED BY <1>24, <1>26, <1>27, <1>28 DEF Next

-----------------------------------------------------------------------------
(* The theorems *)

Inv ==
  /\ LineTyped /\ ReadersTyped /\ cursor \in Cell
  /\ CursorOnScreen /\ FocusedReadersFirst

LEMMA InitInv ==
  Init => Inv
  <1> SUFFICES ASSUME Init PROVE Inv
    OBVIOUS
  <1>1. PICK h \in Nat : /\ Rows * Cols = h + Cols /\ (Rows + 1) * Cols = h + Cols + Cols
                         /\ h + Cols + Cols <= Register /\ Cols \in Nat \ {0}
                         /\ Register \in Nat /\ BuffSize \in Nat \ {0}
    BY ScreenSize
  <1>2. <<>> \in Seq(Symbol) /\ Len(line) = 0 /\ line = <<>>
    BY DEF Init
  <1>3. LineTyped
    <2>1. Len(line) < BuffSize
      BY <1>1, <1>2
    <2>2. focused \in Terminal
      BY TerminalAssumption DEF Init
    <2>3. ctrl_on \in BOOLEAN /\ shift_on \in BOOLEAN /\ late \in BOOLEAN /\ disturbed \in BOOLEAN
      BY DEF Init
    <2>4. fresh \in 0..BuffSize /\ Len(line) <= fresh
      BY <1>1, <1>2 DEF Init
    <2> QED BY <1>2, <2>1, <2>2, <2>3, <2>4 DEF LineTyped
  <1>4. readers = <<>> /\ DOMAIN readers = 1..0
    BY DEF Init
  <1>5. ReadersTyped /\ FocusedReadersFirst
    BY <1>4 DEF ReadersTyped, IsInjective, FocusedReadersFirst
  <1>6. cursor = Cols \/ cursor = h + Cols
    BY <1>1 DEF Init
  <1>7. cursor \in Cell /\ CursorOnScreen
    BY <1>1, <1>2, <1>6 DEF Cell, CursorOnScreen
  <1> QED BY <1>3, <1>5, <1>7 DEF Inv

LEMMA StepInv ==
  Inv /\ [Next]_vars => Inv'
  <1> SUFFICES ASSUME Inv, [Next]_vars PROVE Inv'
    OBVIOUS
  <1>1. LineTyped'
    BY LineStep DEF Inv
  <1>2. ReadersTyped' /\ FocusedReadersFirst'
    BY ReadersStep DEF Inv
  <1>3. cursor' \in Cell /\ CursorOnScreen'
    BY CursorStep DEF Inv
  <1> QED BY <1>1, <1>2, <1>3 DEF Inv

\* What the keyboard, the list of readers and the screen keep up together.
THEOREM InvHolds == Spec => []Inv
  BY InitInv, StepInv, PTL DEF Spec

\* The line buffer keeps a place for the terminator, whatever is typed, and no
\* process is twice in the list of readers.
THEOREM TypeOKHolds == Spec => []TypeOK
  <1>1. Inv => TypeOK
    BY DEF Inv, LineTyped, ReadersTyped, TypeOK
  <1> QED BY <1>1, InvHolds, PTL

\* print_string, print_backspace and the shortcuts keep the cursor on the screen
\* and behind the line, unless the line was disturbed.
THEOREM CursorOnScreenHolds == Spec => []CursorOnScreen
  <1>1. Inv => CursorOnScreen
    BY DEF Inv
  <1> QED BY <1>1, InvHolds, PTL

\* reschedule_process puts the readers of the terminal that gets the focus first;
\* they stay there until another terminal's process reads.
THEOREM FocusedReadersFirstHolds == Spec => []FocusedReadersFirst
  <1>1. Inv => FocusedReadersFirst
    BY DEF Inv
  <1> QED BY <1>1, InvHolds, PTL

\* Enter hands over and empties the buffer in one, Ctrl+C empties it, and no key
\* puts back what it took: a reader gets no more letters than were typed since.
THEOREM NothingOldIsReadHolds == Spec => NothingOldIsRead
  <1>1. Inv /\ [Next]_vars =>
          [delivered' # Nothing => Len(delivered'[2]) <= fresh]_vars
    <2> SUFFICES ASSUME Inv, [Next]_vars, delivered' # Nothing, ~ UNCHANGED vars
                 PROVE  Len(delivered'[2]) <= fresh
      OBVIOUS
    <2>1. Enter
      BY DEF Next, KeyStep, CallStep, Ctrl, Shift, Backspace, Letter, CtrlL, CtrlAbort,
             CtrlOther, switch_to_terminal, ReadLine, Clear, Printf, Prints, SetCursor,
             print_mouse_state
    <2>2. delivered'[2] = line
      BY <2>1 DEF Enter, IsServed
    <2> QED BY <2>2 DEF Inv, LineTyped
  <1> QED BY <1>1, InvHolds, PTL DEF Spec, NothingOldIsRead

\* No switch, delivery or death changes the order of two readers of a terminal.
THEOREM TerminalOrderKeptHolds == Spec => TerminalOrderKept
  <1>1. Inv /\ [Next]_vars =>
          [\A i, j \in DOMAIN readers :
             i < j /\ shell_id[readers[i]] = shell_id[readers[j]] =>
               \A k, m \in DOMAIN readers' :
                 readers'[k] = readers[i] /\ readers'[m] = readers[j] => k < m]_vars
    BY ReadersStep DEF Inv, Ordered
  <1> QED BY <1>1, InvHolds, PTL DEF Spec, TerminalOrderKept
=============================================================================
