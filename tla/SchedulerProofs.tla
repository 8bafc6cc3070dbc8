-------------------------- MODULE SchedulerProofs --------------------------
(***************************************************************************)
(* Proofs about the scheduler, for any number of terminals, PCBs and pids. *)
(***************************************************************************)
EXTENDS Scheduler, ListProofs, FiniteSetTheorems

-----------------------------------------------------------------------------
(* The ready list *)

\* What switch_to_next_process leaves of the ready list: it drops idle from the
\* front, takes the process after it and keeps the rest.
LEMMA LeadingIdleQueue ==
  ASSUME NEW S, NEW q, Queue(q, S)
  PROVE  LET n == LeadingIdle(q)
             rest == SubSeq(q, n + 2, Len(q))
         IN  /\ n \in 0..Len(q) /\ Len(q) \in Nat
             /\ n = Len(q) => Range(q) \subseteq {Idle}
             /\ n # Len(q) => /\ n + 1 \in DOMAIN q /\ q[n + 1] # Idle
                             /\ q[n + 1] \in Range(q)
                             /\ Queue(rest, S) /\ Range(rest) \subseteq Range(q)
                             /\ q[n + 1] \notin Range(rest)
                             /\ Range(q) \ {Idle} = {q[n + 1]} \union (Range(rest) \ {Idle})
  <1> DEFINE Leading(n) == (\A i \in 1..n : q[i] = Idle) /\ (n = Len(q) \/ q[n + 1] # Idle)
             n == CHOOSE n \in 0..Len(q) : Leading(n)
             rest == SubSeq(q, n + 2, Len(q))
  <1>1. q \in Seq(S) /\ DOMAIN q = 1..Len(q) /\ Len(q) \in Nat /\ n = LeadingIdle(q)
    BY DEF Queue, LeadingIdle
  <1>2. \E k \in 0..Len(q) : Leading(k)
    <2>1. CASE Len(q) = 0 \/ q[1] # Idle
      <3>1. Leading(0) /\ 0 \in 0..Len(q)
        BY <2>1, <1>1
      <3> QED BY <3>1
    <2>2. CASE Len(q) # 0 /\ q[1] = Idle
      <3>1. Len(q) = 1 \/ (2 \in DOMAIN q /\ q[2] # q[1])
        BY <2>2, <1>1 DEF Queue, IsInjective
      <3>2. \A i \in 1..1 : q[i] = Idle
        BY <2>2
      <3>3. Leading(1) /\ 1 \in 0..Len(q)
        BY <2>2, <3>1, <3>2, <1>1
      <3> QED BY <3>3
    <2> QED BY <2>1, <2>2
  <1>3. n \in 0..Len(q) /\ Leading(n)
    BY <1>2
  <1> HIDE DEF n
  <1>4. ASSUME n = Len(q) PROVE Range(q) \subseteq {Idle}
    BY <1>1, <1>3, <1>4 DEF Range
  <1>5. ASSUME n # Len(q)
        PROVE  /\ n + 1 \in DOMAIN q /\ q[n + 1] # Idle /\ q[n + 1] \in Range(q)
               /\ Queue(rest, S) /\ Range(rest) \subseteq Range(q)
               /\ q[n + 1] \notin Range(rest)
               /\ Range(q) \ {Idle} = {q[n + 1]} \union (Range(rest) \ {Idle})
    <2>1. n + 1 \in DOMAIN q /\ q[n + 1] # Idle /\ n + 1 \in 1..Len(q) /\ n \in Nat
      BY <1>1, <1>3, <1>5
    <2>2. /\ rest \in Seq(S)
          /\ Len(rest) = IF n + 2 <= Len(q) THEN Len(q) - (n + 2) + 1 ELSE 0
          /\ \A i \in 1..(Len(q) - (n + 2) + 1) : rest[i] = q[(n + 2) + i - 1]
      <3>1. \A i \in (n + 2)..Len(q) : q[i] \in S
        BY <1>1, <2>1, ElementOfSeq
      <3> QED BY <1>1, <2>1, <3>1, SubSeqProperties
    <2> HIDE DEF rest
    <2>3. DOMAIN rest = 1..(Len(q) - n - 1) /\ \A i \in DOMAIN rest : rest[i] = q[n + 1 + i]
      <3>1. Len(rest) = Len(q) - n - 1
        BY <1>1, <2>1, <2>2
      <3>2. DOMAIN rest = 1..(Len(q) - n - 1)
        BY <2>2, <3>1
      <3>3. \A i \in 1..(Len(q) - n - 1) :
              i \in 1..(Len(q) - (n + 2) + 1) /\ (n + 2) + i - 1 = n + 1 + i
        BY <1>1, <2>1
      <3> QED BY <2>2, <3>2, <3>3
    <2>4. \A i \in DOMAIN rest : n + 1 + i \in DOMAIN q /\ n + 1 + i # n + 1
      BY <1>1, <2>1, <2>3
    <2>5. IsInjective(rest)
      <3> SUFFICES ASSUME NEW i \in DOMAIN rest, NEW j \in DOMAIN rest, rest[i] = rest[j]
                   PROVE  i = j
        BY DEF IsInjective
      <3>1. n + 1 + i = n + 1 + j
        BY <2>3, <2>4 DEF Queue, IsInjective
      <3> QED BY <3>1, <2>1, <2>3, <1>1
    <2>6. Range(rest) \subseteq Range(q) /\ q[n + 1] \notin Range(rest)
      BY <2>1, <2>3, <2>4 DEF Queue, IsInjective, Range
    <2>7. \A i \in DOMAIN q : q[i] = Idle \/ i = n + 1 \/ q[i] \in Range(rest)
      <3> SUFFICES ASSUME NEW i \in DOMAIN q, q[i] # Idle, i # n + 1
                   PROVE  q[i] \in Range(rest)
        OBVIOUS
      <3>1. i \in Nat /\ i > n + 1 /\ i <= Len(q)
        BY <1>1, <1>3, <2>1
      <3>2. i - n - 1 \in DOMAIN rest /\ n + 1 + (i - n - 1) = i
        BY <3>1, <2>1, <2>3, <1>1
      <3> QED BY <3>2, <2>3 DEF Range
    <2>8. Range(q) \ {Idle} \subseteq {q[n + 1]} \union (Range(rest) \ {Idle})
      BY <2>7 DEF Range
    <2>9. q[n + 1] \in Range(q)
      BY <2>1 DEF Range
    <2> QED BY <2>1, <2>2, <2>5, <2>6, <2>8, <2>9 DEF Queue
  <1> QED BY <1>1, <1>3, <1>4, <1>5

-----------------------------------------------------------------------------
(* The inductive invariant, as a predicate of the kernel's record so that it *)
(* can be followed through the functions a handler is composed of.           *)

Field == {"live", "pids", "pid", "ppid", "shell_id", "state", "ready", "bproc",
          "bkbd", "running", "latest", "focused", "halted"}

Typed(s) ==
  /\ DOMAIN s = Field
  /\ s.live \subseteq Pcb
  /\ s.pids \subseteq Pid
  /\ s.pid \in [Pcb -> Pid \union {NoPid}]
  /\ s.ppid \in [Pcb -> Pid \union {NoPid}]
  /\ s.shell_id \in [Pcb -> Terminal \union {0}]
  /\ s.state \in [Pcb -> State]
  /\ s.ready \in Seq(Pcb) /\ s.bproc \in Seq(Pcb) /\ s.bkbd \in Seq(Pcb)
  /\ s.running \in Pcb
  /\ s.latest \in [Terminal -> Pcb]
  /\ s.focused \in Terminal
  /\ s.halted \in {"no", "shutdown", "memory"}

Queued(s) == Range(s.ready) \union Range(s.bproc) \union Range(s.bkbd)

\* The part that survives the end of the machine.
PidsOK(s) ==
  /\ s.pids = {s.pid[p] : p \in s.live}
  /\ \A p, q \in s.live : s.pid[p] = s.pid[q] => p = q
  /\ s.pid[Idle] = 0 /\ Idle \in s.live

LatestOK(s) ==
  \A t \in Terminal :
    s.latest[t] # Idle => s.latest[t] \in s.live /\ s.shell_id[s.latest[t]] = t

\* The lists hold every process but those in loose, which a handler has taken
\* in hand, and idle.
ListsOK(s, loose) ==
  /\ IsInjective(s.ready) /\ IsInjective(s.bproc) /\ IsInjective(s.bkbd)
  /\ Range(s.ready) \intersect Range(s.bproc) = {}
  /\ Range(s.ready) \intersect Range(s.bkbd) = {}
  /\ Range(s.bproc) \intersect Range(s.bkbd) = {}
  /\ Idle \notin Range(s.bproc) /\ Idle \notin Range(s.bkbd)
  /\ Idle \notin loose /\ loose \intersect Queued(s) = {}
  /\ s.live \ {Idle} = loose \union (Queued(s) \ {Idle})

StatesOK(s) ==
  /\ \A p \in Range(s.ready) : s.state[p] = "READY"
  /\ \A p \in Range(s.bproc) \union Range(s.bkbd) : s.state[p] = "WAITING"

Good(s, loose) ==
  /\ Typed(s) /\ s.halted = "no"
  /\ PidsOK(s) /\ LatestOK(s) /\ ListsOK(s, loose) /\ StatesOK(s)
  /\ \A p \in s.live \ {Idle} : s.shell_id[p] \in Terminal

\* Between two handlers only the process on the CPU is in no list.
AtRest(s) ==
  /\ Good(s, {s.running} \ {Idle})
  /\ s.running \notin Range(s.ready)
  /\ s.running # Idle => s.state[s.running] = "RUNNING"

\* Where a handler leaves the machine.
Settled(s) ==
  /\ Typed(s) /\ PidsOK(s) /\ LatestOK(s)
  /\ s.halted = "no" => AtRest(s)
  /\ s.halted = "shutdown" => s.live = {Idle}

\* The inductive invariant.
IInv == Settled(kernel)

-----------------------------------------------------------------------------
(* How each function of the kernel keeps it *)

\* From s to t processes may only have moved between the lists.
OnlyMoves(s, t) ==
  /\ t.live = s.live /\ t.pids = s.pids /\ t.pid = s.pid /\ t.ppid = s.ppid
  /\ t.shell_id = s.shell_id /\ t.latest = s.latest
  /\ t.running = s.running /\ t.focused = s.focused

\* A list or a PCB field is changed without a process leaving or entering the
\* machine: the parts of the invariant that do not speak of lists are kept.
LEMMA MovesKeep ==
  ASSUME NEW s, NEW t, NEW L, Good(s, L), OnlyMoves(s, t)
  PROVE  /\ PidsOK(t) /\ LatestOK(t)
         /\ \A p \in t.live \ {Idle} : t.shell_id[p] \in Terminal
  BY DEF Good, OnlyMoves, PidsOK, LatestOK

\* set_process_as_ready.
LEMMA ReadyGood ==
  ASSUME NEW s, NEW loose, Good(s, loose), NEW p \in loose \union {Idle}, p \in Pcb
  PROVE  /\ Good(set_process_as_ready(s, p), loose \ {p})
         /\ OnlyMoves(s, set_process_as_ready(s, p))
         /\ Range(set_process_as_ready(s, p).ready) = Range(s.ready) \union {p}
         /\ \A q \in Pcb \ {p} : set_process_as_ready(s, p).state[q] = s.state[q]
  <1> DEFINE t == set_process_as_ready(s, p)
  <1>1. CASE p \in Range(s.ready)
    <2>1. t = s
      BY <1>1 DEF set_process_as_ready
    <2>2. loose \ {p} = loose
      BY <1>1 DEF Good, ListsOK, Queued
    <2> QED BY <1>1, <2>1, <2>2 DEF OnlyMoves
  <1>2. CASE p \notin Range(s.ready)
    <2>1. t = [s EXCEPT !.state[p] = "READY", !.ready = Append(@, p)]
      BY <1>2 DEF set_process_as_ready
    <2>2. Queue(s.ready, Pcb)
      BY DEF Good, Typed, ListsOK, Queue
    <2>3. /\ Queue(Append(s.ready, p), Pcb)
          /\ Range(Append(s.ready, p)) = Range(s.ready) \union {p}
      BY <1>2, <2>2, AppendQueue
    <2>4. /\ t.live = s.live /\ t.pids = s.pids /\ t.pid = s.pid /\ t.ppid = s.ppid
          /\ t.shell_id = s.shell_id /\ t.latest = s.latest /\ t.halted = s.halted
          /\ t.ready = Append(s.ready, p) /\ t.bproc = s.bproc /\ t.bkbd = s.bkbd
          /\ t.state = [s.state EXCEPT ![p] = "READY"] /\ DOMAIN t = DOMAIN s
          /\ t.running = s.running /\ t.focused = s.focused
      BY <2>1 DEF Good, Typed, Field
    <2> HIDE DEF t
    <2>5. Typed(t)
      BY <2>3, <2>4 DEF Good, Typed, State, Queue
    <2>6. PidsOK(t) /\ LatestOK(t)
      BY <2>4 DEF Good, PidsOK, LatestOK
    <2>7. ListsOK(t, loose \ {p})
      BY <1>2, <2>3, <2>4 DEF Good, ListsOK, Queued, Queue
    <2>8. StatesOK(t)
      <3>1. p \notin Range(s.bproc) \union Range(s.bkbd)
        BY DEF Good, ListsOK, Queued
      <3>2. s.state \in [Pcb -> State]
        BY DEF Good, Typed
      <3>3. \A q \in Range(t.ready) : t.state[q] = "READY"
        <4> SUFFICES ASSUME NEW q \in Range(t.ready) PROVE t.state[q] = "READY"
          OBVIOUS
        <4>1. q = p \/ q \in Range(s.ready)
          BY <2>3, <2>4
        <4>2. q \in Pcb
          BY <4>1, <2>2, RangeOfSeq DEF Queue
        <4> QED BY <4>1, <4>2, <3>2, <2>4 DEF Good, StatesOK
      <3>4. \A q \in Range(t.bproc) \union Range(t.bkbd) : t.state[q] = "WAITING"
        BY <3>1, <3>2, <2>4 DEF Good, StatesOK
      <3> QED BY <3>3, <3>4 DEF StatesOK
    <2>9. \A q \in Pcb \ {p} : t.state[q] = s.state[q]
      BY <2>4 DEF Good, Typed
    <2>10. OnlyMoves(s, t) /\ Range(t.ready) = Range(s.ready) \union {p}
      BY <2>3, <2>4 DEF OnlyMoves
    <2>11. Good(t, loose \ {p})
      BY <2>4, <2>5, <2>6, <2>7, <2>8 DEF Good
    <2> QED BY <2>9, <2>10, <2>11 DEF t
  <1> QED BY <1>1, <1>2

\* A process is taken out of the list of those waiting for a child.
LEMMA LeaveBproc ==
  ASSUME NEW s, NEW L, Good(s, L), NEW p \in Range(s.bproc), NEW q,
         Queue(q, Pcb), Range(q) = Range(s.bproc) \ {p}
  PROVE  LET t == [s EXCEPT !.bproc = q]
         IN  Good(t, L \union {p}) /\ OnlyMoves(s, t) /\ p \in Pcb
             /\ p \notin L /\ t.bkbd = s.bkbd
  <1> DEFINE t == [s EXCEPT !.bproc = q]
  <1>1. /\ t.live = s.live /\ t.pids = s.pids /\ t.pid = s.pid /\ t.ppid = s.ppid
        /\ t.shell_id = s.shell_id /\ t.latest = s.latest /\ t.halted = s.halted
        /\ t.ready = s.ready /\ t.bproc = q /\ t.bkbd = s.bkbd
        /\ t.state = s.state /\ DOMAIN t = DOMAIN s
        /\ t.running = s.running /\ t.focused = s.focused
    BY DEF Good, Typed, Field
  <1> HIDE DEF t
  <1>2. OnlyMoves(s, t)
    BY <1>1 DEF OnlyMoves
  <1>3. Typed(t)
    BY <1>1 DEF Good, Typed, Queue
  <1>4. p \in Pcb
    BY RangeOfSeq DEF Good, Typed
  <1>5. ListsOK(t, L \union {p}) /\ p \notin L
    BY <1>1 DEF Good, ListsOK, Queued, Queue
  <1>6. StatesOK(t)
    BY <1>1 DEF Good, StatesOK
  <1> QED BY <1>1, <1>2, <1>3, <1>4, <1>5, <1>6, MovesKeep DEF Good, t

\* A process is taken out of the list of those waiting for the keyboard.
LEMMA LeaveBkbd ==
  ASSUME NEW s, NEW L, Good(s, L), NEW p \in Range(s.bkbd), NEW q,
         Queue(q, Pcb), Range(q) = Range(s.bkbd) \ {p}
  PROVE  LET t == [s EXCEPT !.bkbd = q]
         IN  Good(t, L \union {p}) /\ OnlyMoves(s, t) /\ p \in Pcb
             /\ p \notin L /\ t.bproc = s.bproc
  <1> DEFINE t == [s EXCEPT !.bkbd = q]
  <1>1. /\ t.live = s.live /\ t.pids = s.pids /\ t.pid = s.pid /\ t.ppid = s.ppid
        /\ t.shell_id = s.shell_id /\ t.latest = s.latest /\ t.halted = s.halted
        /\ t.ready = s.ready /\ t.bkbd = q /\ t.bproc = s.bproc
        /\ t.state = s.state /\ DOMAIN t = DOMAIN s
        /\ t.running = s.running /\ t.focused = s.focused
    BY DEF Good, Typed, Field
  <1> HIDE DEF t
  <1>2. OnlyMoves(s, t)
    BY <1>1 DEF OnlyMoves
  <1>3. Typed(t)
    BY <1>1 DEF Good, Typed, Queue
  <1>4. p \in Pcb
    BY RangeOfSeq DEF Good, Typed
  <1>5. ListsOK(t, L \union {p}) /\ p \notin L
    BY <1>1 DEF Good, ListsOK, Queued, Queue
  <1>6. StatesOK(t)
    BY <1>1 DEF Good, StatesOK
  <1> QED BY <1>1, <1>2, <1>3, <1>4, <1>5, <1>6, MovesKeep DEF Good, t

\* wake_up_parent_process.
LEMMA WakeGood ==
  ASSUME NEW s, NEW L, Good(s, L), NEW n
  PROVE  /\ Good(wake_up_parent_process(s, n), L)
         /\ OnlyMoves(s, wake_up_parent_process(s, n))
  <1> DEFINE waiting == {i \in DOMAIN s.bproc : s.pid[s.bproc[i]] = n}
             First(i) == \A j \in waiting : i <= j
             parent == s.bproc[CHOOSE i \in waiting : First(i)]
             woken == [s EXCEPT !.bproc = RemoveData(@, parent)]
  <1>1. CASE waiting = {}
    BY <1>1 DEF wake_up_parent_process, OnlyMoves
  <1>2. CASE waiting # {}
    <2>1. DOMAIN s.bproc = 1..Len(s.bproc) /\ Len(s.bproc) \in Nat
      BY DEF Good, Typed
    <2>2. Queue(s.bproc, Pcb)
      BY DEF Good, Typed, ListsOK, Queue
    <2>3. \A i, j \in waiting : i = j
      <3> SUFFICES ASSUME NEW i \in waiting, NEW j \in waiting PROVE i = j
        OBVIOUS
      <3>1. s.bproc[i] \in s.live /\ s.bproc[j] \in s.live
        BY DEF Good, ListsOK, Queued, Range
      <3>2. s.bproc[i] = s.bproc[j]
        BY <3>1 DEF Good, PidsOK
      <3> QED BY <3>2 DEF Good, ListsOK, IsInjective
    <2>4. \E i \in waiting : First(i)
      BY <1>2, <2>1, <2>3
    <2>5. parent \in Range(s.bproc)
      <3> HIDE DEF First
      <3> QED BY <2>4 DEF Range
    <2>6. wake_up_parent_process(s, n) =
            IF is_blocked_elsewhere(s, parent, "bproc") THEN woken
            ELSE set_process_as_ready(woken, parent)
      BY <1>2 DEF wake_up_parent_process
    <2> HIDE DEF parent
    <2>7. ~is_blocked_elsewhere(s, parent, "bproc")
      BY <2>5 DEF is_blocked_elsewhere, Good, ListsOK
    <2>8. /\ Good(woken, L \union {parent}) /\ OnlyMoves(s, woken)
          /\ parent \in Pcb /\ parent \notin L
      <3>1. /\ Queue(RemoveData(s.bproc, parent), Pcb)
            /\ Range(RemoveData(s.bproc, parent)) = Range(s.bproc) \ {parent}
        BY <2>2, RemoveDataQueue
      <3>2. LET t == [s EXCEPT !.bproc = RemoveData(s.bproc, parent)]
            IN  Good(t, L \union {parent}) /\ OnlyMoves(s, t) /\ parent \in Pcb
                /\ parent \notin L /\ t.bkbd = s.bkbd
        BY <2>5, <3>1, LeaveBproc
      <3> QED BY <3>2
    <2> HIDE DEF woken
    <2>9. /\ Good(set_process_as_ready(woken, parent), (L \union {parent}) \ {parent})
          /\ OnlyMoves(woken, set_process_as_ready(woken, parent))
      BY <2>8, ReadyGood
    <2>10. (L \union {parent}) \ {parent} = L
      BY <2>8
    <2>11. wake_up_parent_process(s, n) = set_process_as_ready(woken, parent)
      BY <2>6, <2>7
    <2>12. OnlyMoves(s, set_process_as_ready(woken, parent))
      BY <2>8, <2>9 DEF OnlyMoves
    <2> QED BY <2>9, <2>10, <2>11, <2>12
  <1> QED BY <1>1, <1>2

\* wake_process_waiting_for_keyboard.
LEMMA WakeKeyboardGood ==
  ASSUME NEW s, NEW L, Good(s, L)
  PROVE  LET t == wake_process_waiting_for_keyboard(s)
         IN  /\ Good(t, L) /\ OnlyMoves(s, t)
             /\ Range(t.ready) \subseteq Range(s.ready) \union Range(s.bkbd)
             /\ \A q \in Pcb \ Range(s.bkbd) : t.state[q] = s.state[q]
  <1> DEFINE t == wake_process_waiting_for_keyboard(s)
             reader == Head(s.bkbd)
             woken == [s EXCEPT !.bkbd = Tail(@)]
             madeready == set_process_as_ready(woken, reader)
  <1>1. CASE t = s
    BY <1>1 DEF OnlyMoves
  <1>2. CASE t # s
    <2>1. s.bkbd # <<>> /\ woken = [s EXCEPT !.bkbd = Tail(s.bkbd)]
      BY <1>2 DEF wake_process_waiting_for_keyboard
    <2>2. Queue(s.bkbd, Pcb)
      BY DEF Good, Typed, ListsOK, Queue
    <2>3. /\ Queue(Tail(s.bkbd), Pcb) /\ reader \in Range(s.bkbd)
          /\ Range(Tail(s.bkbd)) = Range(s.bkbd) \ {reader}
      BY <2>1, <2>2, TailQueue
    <2>4. t = IF is_blocked_elsewhere(s, reader, "bkbd") THEN woken ELSE madeready
      BY <1>2 DEF wake_process_waiting_for_keyboard
    <2> HIDE DEF reader
    <2>5. ~is_blocked_elsewhere(s, reader, "bkbd")
      BY <2>3 DEF is_blocked_elsewhere, Good, ListsOK
    <2>6. /\ Good(woken, L \union {reader}) /\ OnlyMoves(s, woken)
          /\ reader \in Pcb /\ reader \notin L
      BY <2>1, <2>3, LeaveBkbd
    <2>7. woken.ready = s.ready /\ woken.state = s.state
      BY <2>1 DEF Good, Typed, Field
    <2> HIDE DEF woken
    <2>8. /\ Good(madeready, (L \union {reader}) \ {reader})
          /\ OnlyMoves(woken, madeready)
          /\ Range(madeready.ready) = Range(woken.ready) \union {reader}
          /\ \A q \in Pcb \ {reader} : madeready.state[q] = woken.state[q]
      BY <2>6, ReadyGood
    <2>9. (L \union {reader}) \ {reader} = L
      BY <2>6
    <2> HIDE DEF madeready, t
    <2>10. t = madeready
      BY <2>4, <2>5
    <2>11. Good(t, L) /\ OnlyMoves(s, t)
      BY <2>6, <2>8, <2>9, <2>10 DEF OnlyMoves
    <2>12. Range(t.ready) \subseteq Range(s.ready) \union Range(s.bkbd)
      BY <2>3, <2>7, <2>8, <2>10
    <2>13. \A q \in Pcb \ Range(s.bkbd) : t.state[q] = s.state[q]
      BY <2>3, <2>7, <2>8, <2>10
    <2> QED BY <2>11, <2>12, <2>13 DEF t
  <1> QED BY <1>1, <1>2

\* block_process_on_another_process.
LEMMA BlockProcessGood ==
  ASSUME NEW s, NEW L, Good(s, L), NEW p \in L, p \in Pcb
  PROVE  Good(block_process_on_another_process(s, p), L \ {p})
  <1> DEFINE t == block_process_on_another_process(s, p)
  <1>1. Queue(s.bproc, Pcb) /\ p \notin Queued(s) /\ p # Idle
    BY DEF Good, Typed, ListsOK, Queue
  <1>2. /\ Queue(Append(s.bproc, p), Pcb)
        /\ Range(Append(s.bproc, p)) = Range(s.bproc) \union {p}
    BY <1>1, AppendQueue DEF Queued
  <1>3. /\ t.live = s.live /\ t.pids = s.pids /\ t.pid = s.pid /\ t.ppid = s.ppid
        /\ t.shell_id = s.shell_id /\ t.latest = s.latest /\ t.halted = s.halted
        /\ t.ready = s.ready /\ t.bproc = Append(s.bproc, p) /\ t.bkbd = s.bkbd
        /\ t.state = [s.state EXCEPT ![p] = "WAITING"] /\ DOMAIN t = DOMAIN s
        /\ t.running = s.running /\ t.focused = s.focused
    BY DEF block_process_on_another_process, Good, Typed, Field
  <1> HIDE DEF t
  <1>4. Typed(t)
    BY <1>2, <1>3 DEF Good, Typed, State, Queue
  <1>5. ListsOK(t, L \ {p})
    BY <1>1, <1>2, <1>3 DEF Good, ListsOK, Queued, Queue
  <1>6. StatesOK(t)
    <2>1. Range(s.bproc) \subseteq Pcb /\ Range(s.bkbd) \subseteq Pcb
      BY RangeOfSeq DEF Good, Typed
    <2>2. s.state \in [Pcb -> State]
      BY DEF Good, Typed
    <2> QED BY <1>1, <1>2, <1>3, <2>1, <2>2 DEF Good, StatesOK, Queued
  <1> QED BY <1>3, <1>4, <1>5, <1>6, MovesKeep DEF Good, OnlyMoves, t

\* block_process_on_keyboard.
LEMMA BlockKeyboardGood ==
  ASSUME NEW s, NEW L, Good(s, L), NEW p \in L, p \in Pcb
  PROVE  Good(block_process_on_keyboard(s, p), L \ {p})
  <1> DEFINE t == block_process_on_keyboard(s, p)
  <1>1. Queue(s.bkbd, Pcb) /\ p \notin Queued(s) /\ p # Idle
    BY DEF Good, Typed, ListsOK, Queue
  <1>2. /\ Queue(Cons(p, s.bkbd), Pcb)
        /\ Range(Cons(p, s.bkbd)) = Range(s.bkbd) \union {p}
    BY <1>1, ConsQueue DEF Queued
  <1>3. /\ t.live = s.live /\ t.pids = s.pids /\ t.pid = s.pid /\ t.ppid = s.ppid
        /\ t.shell_id = s.shell_id /\ t.latest = s.latest /\ t.halted = s.halted
        /\ t.ready = s.ready /\ t.bkbd = Cons(p, s.bkbd) /\ t.bproc = s.bproc
        /\ t.state = [s.state EXCEPT ![p] = "WAITING"] /\ DOMAIN t = DOMAIN s
        /\ t.running = s.running /\ t.focused = s.focused
    BY DEF block_process_on_keyboard, Good, Typed, Field
  <1> HIDE DEF t
  <1>4. Typed(t)
    BY <1>2, <1>3 DEF Good, Typed, State, Queue
  <1>5. ListsOK(t, L \ {p})
    BY <1>1, <1>2, <1>3 DEF Good, ListsOK, Queued, Queue
  <1>6. StatesOK(t)
    <2>1. Range(s.bproc) \subseteq Pcb /\ Range(s.bkbd) \subseteq Pcb
      BY RangeOfSeq DEF Good, Typed
    <2>2. s.state \in [Pcb -> State]
      BY DEF Good, Typed
    <2> QED BY <1>1, <1>2, <1>3, <2>1, <2>2 DEF Good, StatesOK, Queued
  <1> QED BY <1>3, <1>4, <1>5, <1>6, MovesKeep DEF Good, OnlyMoves, t

\* kill_process of any process but idle, wherever it is.
LEMMA KillGood ==
  ASSUME NEW s, NEW L, Good(s, L), NEW p \in s.live \ {Idle}
  PROVE  LET t == kill_process(s, p)
         IN  /\ Good(t, L \ {p})
             /\ t.live = s.live \ {p}
             /\ t.running = s.running /\ t.focused = s.focused
  <1> DEFINE t == kill_process(s, p)
             term == s.shell_id[p]
  <1>1. p \in Pcb /\ p # Idle /\ term \in Terminal
    BY DEF Good, Typed
  <1>2. Queue(s.ready, Pcb) /\ Queue(s.bproc, Pcb) /\ Queue(s.bkbd, Pcb)
    BY DEF Good, Typed, ListsOK, Queue
  <1>3. /\ Queue(RemoveData(s.ready, p), Pcb) /\ Range(RemoveData(s.ready, p)) = Range(s.ready) \ {p}
        /\ Queue(RemoveData(s.bproc, p), Pcb) /\ Range(RemoveData(s.bproc, p)) = Range(s.bproc) \ {p}
        /\ Queue(RemoveData(s.bkbd, p), Pcb)  /\ Range(RemoveData(s.bkbd, p)) = Range(s.bkbd) \ {p}
    BY <1>2, RemoveDataQueue
  <1>4. /\ t.live = s.live \ {p} /\ t.pids = s.pids \ {s.pid[p]}
        /\ t.pid = [s.pid EXCEPT ![p] = NoPid] /\ t.ppid = [s.ppid EXCEPT ![p] = NoPid]
        /\ t.shell_id = [s.shell_id EXCEPT ![p] = 0]
        /\ t.state = [s.state EXCEPT ![p] = "FREE"]
        /\ t.latest = [s.latest EXCEPT ![term] = Idle] /\ t.halted = s.halted
        /\ t.ready = RemoveData(s.ready, p) /\ t.bproc = RemoveData(s.bproc, p)
        /\ t.bkbd = RemoveData(s.bkbd, p) /\ DOMAIN t = DOMAIN s
        /\ t.running = s.running /\ t.focused = s.focused
    BY DEF kill_process, Good, Typed, Field
  <1> HIDE DEF t, term
  <1>5. Typed(t)
    <2>1. Idle \in Pcb
      BY SchedulerAssumption
    <2>2. /\ t.pid \in [Pcb -> Pid \union {NoPid}] /\ t.ppid \in [Pcb -> Pid \union {NoPid}]
          /\ t.shell_id \in [Pcb -> Terminal \union {0}] /\ t.state \in [Pcb -> State]
          /\ t.latest \in [Terminal -> Pcb]
      BY <1>1, <1>4, <2>1 DEF Good, Typed, State
    <2> QED BY <1>3, <1>4, <2>2 DEF Good, Typed, Queue
  <1>6. PidsOK(t)
    <2>1. s.pids = {s.pid[q] : q \in s.live} /\ Idle \in s.live /\ s.pid[Idle] = 0
          /\ \A q, r \in s.live : s.pid[q] = s.pid[r] => q = r
      BY DEF Good, PidsOK
    <2>2. \A q \in t.live : t.pid[q] = s.pid[q] /\ q \in s.live /\ q # p
      BY <1>4 DEF Good, Typed
    <2>3. t.pids = {t.pid[q] : q \in t.live}
      BY <1>4, <2>1, <2>2
    <2> QED BY <1>1, <1>4, <2>1, <2>2, <2>3 DEF PidsOK
  <1>7. LatestOK(t)
    <2> SUFFICES ASSUME NEW m \in Terminal, t.latest[m] # Idle
                 PROVE  t.latest[m] \in t.live /\ t.shell_id[t.latest[m]] = m
      BY DEF LatestOK
    <2>1. m # term /\ t.latest[m] = s.latest[m]
      BY <1>1, <1>4 DEF Good, Typed
    <2>2. s.latest[m] \in s.live /\ s.shell_id[s.latest[m]] = m
      BY <2>1 DEF Good, LatestOK
    <2>3. s.latest[m] # p
      BY <2>1, <2>2 DEF term
    <2> QED BY <1>4, <2>1, <2>2, <2>3 DEF Good, Typed
  <1>8. ListsOK(t, L \ {p})
    <2>1. Queued(t) = Queued(s) \ {p}
      BY <1>3, <1>4 DEF Queued
    <2>2. t.live \ {Idle} = (L \ {p}) \union (Queued(t) \ {Idle})
      BY <1>4, <2>1 DEF Good, ListsOK
    <2>3. (L \ {p}) \intersect Queued(t) = {} /\ Idle \notin L \ {p}
      BY <2>1 DEF Good, ListsOK
    <2> QED BY <1>3, <1>4, <2>2, <2>3 DEF Good, ListsOK, Queue
  <1>9. StatesOK(t)
    <2>1. /\ Range(s.ready) \subseteq Pcb /\ Range(s.bproc) \subseteq Pcb
          /\ Range(s.bkbd) \subseteq Pcb
      BY RangeOfSeq DEF Good, Typed
    <2> QED BY <1>3, <1>4, <2>1 DEF Good, Typed, StatesOK
  <1>10. \A q \in t.live \ {Idle} : t.shell_id[q] \in Terminal
    BY <1>4 DEF Good, Typed
  <1> QED BY <1>4, <1>5, <1>6, <1>7, <1>8, <1>9, <1>10 DEF Good, t

\* create_process_virtual_addr_space: the child is in the caller's hands.
LEMMA CreateGood ==
  ASSUME NEW s, NEW L, Good(s, L), NEW c \in Pcb \ s.live, NEW n \in Pid \ s.pids,
         NEW m \in Pid \union {NoPid}, NEW term \in Terminal
  PROVE  Good(create_process(s, c, n, m, term), L \union {c})
         /\ create_process(s, c, n, m, term).live = s.live \union {c}
  <1> DEFINE t == create_process(s, c, n, m, term)
  <1>1. /\ t.live = s.live \union {c} /\ t.pids = s.pids \union {n}
        /\ t.pid = [s.pid EXCEPT ![c] = n] /\ t.ppid = [s.ppid EXCEPT ![c] = m]
        /\ t.shell_id = [s.shell_id EXCEPT ![c] = term]
        /\ t.state = [s.state EXCEPT ![c] = "NEW"]
        /\ t.latest = s.latest /\ t.halted = s.halted
        /\ t.ready = s.ready /\ t.bproc = s.bproc
        /\ t.bkbd = s.bkbd /\ DOMAIN t = DOMAIN s
        /\ t.running = s.running /\ t.focused = s.focused
    BY DEF create_process, Good, Typed, Field
  <1> HIDE DEF t
  <1>2. Typed(t)
    BY <1>1 DEF Good, Typed, State
  <1>3. c # Idle /\ c \notin Queued(s) /\ c \notin L
    BY DEF Good, ListsOK, PidsOK
  <1>4. /\ t.pid[c] = n /\ t.shell_id[c] = term
        /\ \A q \in s.live : t.pid[q] = s.pid[q] /\ t.shell_id[q] = s.shell_id[q]
    BY <1>1 DEF Good, Typed
  <1>5. PidsOK(t)
    BY <1>1, <1>3, <1>4 DEF Good, PidsOK
  <1>6. LatestOK(t)
    BY <1>1, <1>4 DEF Good, LatestOK
  <1>7. ListsOK(t, L \union {c})
    BY <1>1, <1>3 DEF Good, ListsOK, Queued
  <1>8. StatesOK(t)
    BY <1>1, <1>3 DEF Good, Typed, StatesOK, Queued
  <1>9. \A q \in t.live \ {Idle} : t.shell_id[q] \in Terminal
    BY <1>1, <1>4 DEF Good
  <1>10. Good(t, L \union {c})
    BY <1>1, <1>2, <1>5, <1>6, <1>7, <1>8, <1>9 DEF Good
  <1> QED BY <1>1, <1>10 DEF t

\* allocate_pid finds a free slot whenever there was memory for the PCB.
LEMMA FreePid ==
  ASSUME NEW s, Typed(s), PidsOK(s), NEW c \in Pcb \ s.live, NEW n, IsAllocated(s, n)
  PROVE  n \in Pid \ s.pids
  <1>1. IsFiniteSet(Pcb) /\ Cardinality(Pcb) <= MAX_NUMBER_OF_PROCESSES
        /\ MAX_NUMBER_OF_PROCESSES \in Nat
    BY SchedulerAssumption
  <1>2. IsFiniteSet(s.live) /\ Cardinality(s.live) < Cardinality(Pcb)
    <2>1. s.live \subseteq Pcb /\ s.live # Pcb
      BY DEF Typed
    <2>2. /\ IsFiniteSet(s.live) /\ Cardinality(s.live) <= Cardinality(Pcb)
          /\ Cardinality(s.live) # Cardinality(Pcb)
      BY <1>1, <2>1, FS_Subset
    <2>3. Cardinality(s.live) \in Nat /\ Cardinality(Pcb) \in Nat
      BY <1>1, <2>2, FS_CardinalityType
    <2> QED BY <2>2, <2>3
  <1>3. IsFiniteSet(s.pids) /\ Cardinality(s.pids) <= Cardinality(s.live)
    <2> DEFINE f == [p \in s.live |-> s.pid[p]]
    <2>1. f \in Surjection(s.live, s.pids)
      BY DEF PidsOK, Surjection
    <2> HIDE DEF f
    <2> QED BY <1>2, <2>1, FS_Surjection
  <1>4. IsFiniteSet(Pid) /\ Cardinality(Pid) = MAX_NUMBER_OF_PROCESSES
    <2>1. 0 \in Int /\ MAX_NUMBER_OF_PROCESSES - 1 \in Int
      BY <1>1
    <2>2. /\ IsFiniteSet(Pid)
          /\ Cardinality(Pid) = IF 0 > MAX_NUMBER_OF_PROCESSES - 1 THEN 0
                                ELSE MAX_NUMBER_OF_PROCESSES - 1 - 0 + 1
      BY <2>1, FS_Interval DEF Pid
    <2> QED BY <1>1, <2>2
  <1>5. ~(Pid \subseteq s.pids)
    <2> SUFFICES ASSUME Pid \subseteq s.pids PROVE FALSE
      OBVIOUS
    <2>1. Cardinality(Pid) <= Cardinality(s.pids)
      BY <1>3, FS_Subset
    <2>2. Cardinality(s.pids) \in Nat /\ Cardinality(s.live) \in Nat /\ Cardinality(Pcb) \in Nat
      BY <1>1, <1>2, <1>3, FS_CardinalityType
    <2> QED BY <1>1, <1>2, <1>3, <1>4, <2>1, <2>2
  <1> QED BY <1>5 DEF IsAllocated

\* switch_process: idle when nothing else is ready, or a process of the list.
LEMMA DispatchGood ==
  ASSUME NEW s, Good(s, {}), NEW p \in Pcb, NEW rest, Queue(rest, Pcb),
         Range(rest) \subseteq Range(s.ready), p \notin Range(rest),
         Range(s.ready) \union {Idle} = Range(rest) \union {p, Idle},
         p = Idle \/ p \in Range(s.ready)
  PROVE  AtRest(switch_process(s, p, rest))
  <1> DEFINE t == switch_process(s, p, rest)
  <1>1. /\ t.live = s.live /\ t.pids = s.pids /\ t.pid = s.pid /\ t.ppid = s.ppid
        /\ t.shell_id = s.shell_id /\ t.halted = s.halted
        /\ t.latest = IF p = Idle THEN s.latest ELSE [s.latest EXCEPT ![s.shell_id[p]] = p]
        /\ t.ready = rest /\ t.bkbd = s.bkbd /\ t.bproc = s.bproc
        /\ t.state = [s.state EXCEPT ![p] = "RUNNING"] /\ DOMAIN t = DOMAIN s
        /\ t.running = p /\ t.focused = s.focused
    BY DEF switch_process, Good, Typed, Field
  <1> HIDE DEF t
  <1>2. ASSUME p # Idle PROVE p \in s.live /\ s.shell_id[p] \in Terminal
    BY <1>2 DEF Good, ListsOK, Queued
  <1>3. t.latest \in [Terminal -> Pcb]
    BY <1>1, <1>2 DEF Good, Typed
  <1>4. Typed(t)
    BY <1>1, <1>3 DEF Good, Typed, State, Queue
  <1>5. PidsOK(t)
    BY <1>1 DEF Good, PidsOK
  <1>6. LatestOK(t)
    <2>1. CASE p = Idle
      BY <1>1, <2>1 DEF Good, LatestOK
    <2>2. CASE p # Idle
      <3>1. \A m \in Terminal : t.latest[m] = IF m = s.shell_id[p] THEN p ELSE s.latest[m]
        BY <1>1, <2>2 DEF Good, Typed
      <3> QED BY <1>1, <1>2, <2>2, <3>1 DEF Good, LatestOK
    <2> QED BY <2>1, <2>2
  <1>7. ListsOK(t, {p} \ {Idle})
    <2>1. p \notin Range(s.bproc) /\ p \notin Range(s.bkbd)
      BY DEF Good, ListsOK
    <2>2. Queued(s) \ {Idle} = ({p} \ {Idle}) \union (Queued(t) \ {Idle})
      BY <1>1 DEF Queued
    <2>3. p \notin Queued(t)
      BY <1>1, <2>1 DEF Queued
    <2>4. t.live \ {Idle} = ({p} \ {Idle}) \union (Queued(t) \ {Idle})
      BY <1>1, <2>2 DEF Good, ListsOK
    <2> HIDE DEF t
    <2>5. /\ IsInjective(t.ready) /\ IsInjective(t.bproc) /\ IsInjective(t.bkbd)
          /\ Range(t.ready) \intersect Range(t.bproc) = {}
          /\ Range(t.ready) \intersect Range(t.bkbd) = {}
          /\ Range(t.bproc) \intersect Range(t.bkbd) = {}
          /\ Idle \notin Range(t.bproc) /\ Idle \notin Range(t.bkbd)
      BY <1>1 DEF Good, ListsOK, Queue
    <2> QED BY <2>3, <2>4, <2>5 DEF ListsOK
  <1>8. StatesOK(t)
    <2>1. p \notin Range(s.bproc) /\ p \notin Range(s.bkbd)
      BY DEF Good, ListsOK
    <2>2. /\ Range(s.ready) \subseteq Pcb /\ Range(s.bproc) \subseteq Pcb
          /\ Range(s.bkbd) \subseteq Pcb
      BY RangeOfSeq DEF Good, Typed
    <2> QED BY <1>1, <2>1, <2>2 DEF Good, Typed, StatesOK
  <1>9. \A q \in t.live \ {Idle} : t.shell_id[q] \in Terminal
    BY <1>1 DEF Good
  <1>10. Good(t, {t.running} \ {Idle})
    BY <1>1, <1>4, <1>5, <1>6, <1>7, <1>8, <1>9 DEF Good
  <1>11. t.running \notin Range(t.ready) /\ t.state[t.running] = "RUNNING"
    BY <1>1 DEF Good, Typed
  <1> QED BY <1>10, <1>11 DEF AtRest, t

\* switch_to_next_process, once every process is in a list.
LEMMA SwitchGood ==
  ASSUME NEW s, Good(s, {})
  PROVE  Settled(switch_to_next_process(s))
  <1> DEFINE t == switch_to_next_process(s)
             n == LeadingIdle(s.ready)
  <1>1. CASE OnlyOne(s)
    <2>1. t = [s EXCEPT !.halted = "shutdown"]
      BY <1>1 DEF switch_to_next_process
    <2>2. /\ t.live = s.live /\ t.pids = s.pids /\ t.pid = s.pid /\ t.ppid = s.ppid
          /\ t.shell_id = s.shell_id /\ t.latest = s.latest /\ t.halted = "shutdown"
          /\ t.ready = s.ready /\ t.bkbd = s.bkbd /\ t.bproc = s.bproc
          /\ t.state = s.state /\ DOMAIN t = DOMAIN s
          /\ t.running = s.running /\ t.focused = s.focused
      BY <2>1 DEF Good, Typed, Field
    <2> HIDE DEF t
    <2>3. t.live = {Idle}
      BY <1>1, <2>2 DEF OnlyOne, Good, PidsOK
    <2>4. Typed(t) /\ PidsOK(t) /\ LatestOK(t)
      BY <2>2 DEF Good, Typed, PidsOK, LatestOK
    <2> QED BY <2>2, <2>3, <2>4 DEF Settled, t
  <1>2. CASE ~OnlyOne(s)
    <2> DEFINE q == s.ready
               rest == SubSeq(q, n + 2, Len(q))
    <2>1. Queue(q, Pcb) /\ Idle \in Pcb
      BY SchedulerAssumption DEF Good, Typed, ListsOK, Queue
    <2>2. /\ n = Len(q) => Range(q) \subseteq {Idle}
          /\ n # Len(q) => /\ q[n + 1] # Idle /\ q[n + 1] \in Range(q)
                          /\ Queue(rest, Pcb) /\ Range(rest) \subseteq Range(q)
                          /\ q[n + 1] \notin Range(rest)
                          /\ Range(q) \ {Idle} = {q[n + 1]} \union (Range(rest) \ {Idle})
      BY <2>1, LeadingIdleQueue
    <2>3. AtRest(t)
      <3>1. CASE n = Len(q)
        <4>1. t = switch_process(s, Idle, <<>>)
          BY <1>2, <3>1 DEF switch_to_next_process
        <4>2. Queue(<<>>, Pcb) /\ Range(<<>>) = {}
          BY DEF Queue, IsInjective, Range
        <4>3. Range(q) \union {Idle} = Range(<<>>) \union {Idle, Idle}
          BY <2>2, <3>1, <4>2
        <4> QED BY <2>1, <4>1, <4>2, <4>3, DispatchGood
      <3>2. CASE n # Len(q)
        <4>1. t = switch_process(s, q[n + 1], rest)
          BY <1>2, <3>2 DEF switch_to_next_process
        <4>2. q[n + 1] \in Pcb
          BY <2>1, <2>2, <3>2, RangeOfSeq DEF Queue
        <4> DEFINE p == q[n + 1]
        <4>3. /\ Queue(rest, Pcb) /\ Range(rest) \subseteq Range(q) /\ p \notin Range(rest)
              /\ p \in Range(q) /\ Range(q) \ {Idle} = {p} \union (Range(rest) \ {Idle})
          BY <2>2, <3>2
        <4> HIDE DEF p, rest, n, t
        <4>4. Range(q) \union {Idle} = Range(rest) \union {p, Idle}
          BY <4>3
        <4>5. p \in Pcb
          BY <4>2 DEF p
        <4>6. AtRest(switch_process(s, p, rest))
          BY <4>3, <4>4, <4>5, DispatchGood
        <4> QED BY <4>1, <4>6 DEF p
      <3> QED BY <3>1, <3>2
    <2> HIDE DEF t
    <2>4. Settled(t)
      BY <2>3 DEF Settled, AtRest, Good
    <2> QED BY <2>4 DEF t
  <1> QED BY <1>1, <1>2

-----------------------------------------------------------------------------
(* How each handler keeps the invariant *)

\* The record of the kernel's state has the variables as its fields.
LEMMA KernelFields ==
  /\ DOMAIN kernel = Field
  /\ kernel.live = live /\ kernel.pids = pids /\ kernel.pid = pid
  /\ kernel.ppid = ppid /\ kernel.shell_id = shell_id /\ kernel.state = state
  /\ kernel.ready = ready /\ kernel.bproc = bproc /\ kernel.bkbd = bkbd
  /\ kernel.running = running /\ kernel.latest = latest
  /\ kernel.focused = focused /\ kernel.halted = halted
  BY DEF kernel, Field

\* The invariant depends on the fields only.
LEMMA SameFields ==
  ASSUME NEW s, NEW t, Settled(s), DOMAIN t = DOMAIN s,
         t.live = s.live, t.pids = s.pids, t.pid = s.pid,
         t.ppid = s.ppid, t.shell_id = s.shell_id, t.state = s.state,
         t.ready = s.ready, t.bproc = s.bproc, t.bkbd = s.bkbd,
         t.running = s.running, t.latest = s.latest,
         t.focused = s.focused, t.halted = s.halted
  PROVE  Settled(t)
  <1>1. Typed(t) /\ PidsOK(t) /\ LatestOK(t)
    BY DEF Settled, Typed, PidsOK, LatestOK
  <1>2. t.halted = "no" => AtRest(t)
    BY <1>1 DEF Settled, AtRest, Good, ListsOK, StatesOK, Queued
  <1> QED BY <1>1, <1>2 DEF Settled

\* The state a handler computes is the machine's next state.
LEMMA BecomesSettled ==
  ASSUME NEW s, Becomes(s), Settled(s)
  PROVE  IInv'
  <1>1. /\ DOMAIN kernel' = DOMAIN s
        /\ kernel'.live = s.live /\ kernel'.pids = s.pids /\ kernel'.pid = s.pid
        /\ kernel'.ppid = s.ppid /\ kernel'.shell_id = s.shell_id /\ kernel'.state = s.state
        /\ kernel'.ready = s.ready /\ kernel'.bproc = s.bproc /\ kernel'.bkbd = s.bkbd
        /\ kernel'.running = s.running /\ kernel'.latest = s.latest
        /\ kernel'.focused = s.focused /\ kernel'.halted = s.halted
    BY DEF Becomes, kernel, Settled, Typed, Field
  <1>2. Settled(kernel')
    BY <1>1, SameFields
  <1> QED BY <1>2 DEF IInv

\* A running machine: what a handler starts from.
LEMMA Entry ==
  ASSUME IInv, halted = "no"
  PROVE  /\ AtRest(kernel) /\ Good(kernel, {running} \ {Idle})
         /\ running \in Pcb /\ running \in live
         /\ running # Idle => shell_id[running] \in Terminal
  BY KernelFields DEF IInv, Settled, AtRest, Good, Typed, ListsOK, PidsOK

\* The timer tick puts the interrupted process at the end of the ready list.
LEMMA PitSwitchStep == IInv /\ PitSwitch => IInv'
  <1> SUFFICES ASSUME IInv, PitSwitch PROVE IInv'
    OBVIOUS
  <1> DEFINE s == set_process_as_ready(kernel, running)
  <1>1. halted = "no" /\ Becomes(switch_to_next_process(s))
    BY DEF PitSwitch
  <1>2. Good(kernel, {running} \ {Idle}) /\ running \in Pcb
    BY <1>1, Entry
  <1>3. Good(s, ({running} \ {Idle}) \ {running})
    BY <1>2, ReadyGood
  <1>4. ({running} \ {Idle}) \ {running} = {}
    OBVIOUS
  <1>5. Good(s, {})
    BY <1>3, <1>4
  <1> QED BY <1>1, <1>5, SwitchGood, BecomesSettled

\* A service leaves its caller ready, as a tick does.
LEMMA ServiceStep == ASSUME NEW p PROVE IInv /\ (Service(p) \/ ExecUnknown(p)) => IInv'
  BY PitSwitchStep DEF Service, ExecUnknown, Runs, PitSwitch

\* exec makes the caller ready, then the child it creates.
LEMMA ExecStep == ASSUME NEW p PROVE IInv /\ Exec(p) => IInv'
  <1> SUFFICES ASSUME IInv, Exec(p) PROVE IInv'
    OBVIOUS
  <1> DEFINE s == set_process_as_ready(kernel, p)
             created(c, n) == create_process(s, c, n, pid[p], shell_id[p])
             t(c, n) == set_process_as_ready(created(c, n), c)
  <1>1. PICK c \in Pcb \ live, n \in Pid \union {NoPid} :
          IsAllocated(kernel, n) /\ Becomes(switch_to_next_process(t(c, n)))
    BY DEF Exec
  <1>2. halted = "no" /\ running = p /\ p # Idle
    BY DEF Exec, Runs
  <1>3. /\ Good(kernel, {p}) /\ p \in Pcb /\ shell_id[p] \in Terminal
        /\ pid[p] \in Pid \union {NoPid}
    <2>1. {running} \ {Idle} = {p}
      BY <1>2
    <2> QED BY <1>2, <2>1, Entry, KernelFields DEF Good, Typed
  <1>4. n \in Pid \ pids
    BY <1>1, <1>3, FreePid, KernelFields DEF Good
  <1>5. Good(s, {p} \ {p}) /\ OnlyMoves(kernel, s)
    BY <1>3, ReadyGood
  <1> HIDE DEF s
  <1>6. Good(s, {}) /\ s.live = live /\ s.pids = pids
    <2>1. {p} \ {p} = {}
      OBVIOUS
    <2> QED BY <1>5, <2>1, KernelFields DEF OnlyMoves
  <1>7. Good(created(c, n), {} \union {c})
    BY <1>3, <1>4, <1>6, CreateGood
  <1>8. Good(created(c, n), {c}) /\ c \in Pcb
    <2>1. {} \union {c} = {c}
      OBVIOUS
    <2> QED BY <1>7, <2>1
  <1> HIDE DEF created
  <1>9. Good(t(c, n), {c} \ {c})
    BY <1>8, ReadyGood
  <1> HIDE DEF t
  <1>10. Good(t(c, n), {})
    <2>1. {c} \ {c} = {}
      OBVIOUS
    <2> QED BY <1>9, <2>1
  <1> QED BY <1>1, <1>10, SwitchGood, BecomesSettled

\* fork creates the child, then makes both ready.
LEMMA ForkStep == ASSUME NEW p PROVE IInv /\ Fork(p) => IInv'
  <1> SUFFICES ASSUME IInv, Fork(p) PROVE IInv'
    OBVIOUS
  <1> DEFINE created(c, n) == create_process(kernel, c, n, pid[p], shell_id[p])
             parent(c, n) == set_process_as_ready(created(c, n), p)
             t(c, n) == set_process_as_ready(parent(c, n), c)
  <1>1. PICK c \in Pcb \ live, n \in Pid \union {NoPid} :
          IsAllocated(kernel, n) /\ Becomes(switch_to_next_process(t(c, n)))
    BY DEF Fork
  <1>2. halted = "no" /\ running = p /\ p # Idle
    BY DEF Fork, Runs
  <1>3. /\ Good(kernel, {p}) /\ p \in Pcb /\ shell_id[p] \in Terminal /\ p \in live
        /\ pid[p] \in Pid \union {NoPid}
    <2>1. {running} \ {Idle} = {p}
      BY <1>2
    <2> QED BY <1>2, <2>1, Entry, KernelFields DEF Good, Typed
  <1>4. n \in Pid \ pids
    BY <1>1, <1>3, FreePid, KernelFields DEF Good
  <1>5. Good(created(c, n), {p} \union {c})
    BY <1>3, <1>4, CreateGood, KernelFields
  <1> HIDE DEF created
  <1>6. Good(parent(c, n), ({p} \union {c}) \ {p})
    BY <1>3, <1>5, ReadyGood
  <1> HIDE DEF parent
  <1>7. Good(parent(c, n), {c}) /\ c \in Pcb
    <2>1. ({p} \union {c}) \ {p} = {c}
      BY <1>3
    <2> QED BY <1>6, <2>1
  <1>8. Good(t(c, n), {c} \ {c})
    BY <1>7, ReadyGood
  <1> HIDE DEF t
  <1>9. Good(t(c, n), {})
    <2>1. {c} \ {c} = {}
      OBVIOUS
    <2> QED BY <1>8, <2>1
  <1> QED BY <1>1, <1>9, SwitchGood, BecomesSettled

\* wait blocks the caller, or leaves it ready when nobody has the pid.
LEMMA WaitStep == ASSUME NEW p, NEW n PROVE IInv /\ Wait(p, n) => IInv'
  <1> SUFFICES ASSUME IInv, Wait(p, n) PROVE IInv'
    OBVIOUS
  <1> DEFINE s == block_process_on_another_process(kernel, p)
  <1>1. CASE exists_process(kernel, n)
    <2>1. halted = "no" /\ running = p /\ p # Idle /\ Becomes(switch_to_next_process(s))
      BY <1>1 DEF Wait, Runs
    <2>2. Good(kernel, {p}) /\ p \in Pcb
      <3>1. {running} \ {Idle} = {p}
        BY <2>1
      <3> QED BY <2>1, <3>1, Entry
    <2>3. Good(s, {p} \ {p})
      BY <2>2, BlockProcessGood
    <2> HIDE DEF s
    <2>4. Good(s, {})
      <3>1. {p} \ {p} = {}
        OBVIOUS
      <3> QED BY <2>3, <3>1
    <2> QED BY <2>1, <2>4, SwitchGood, BecomesSettled
  <1>2. CASE ~exists_process(kernel, n)
    <2>1. Service(p)
      BY <1>2 DEF Wait, Service
    <2> QED BY <2>1, ServiceStep
  <1> QED BY <1>1, <1>2

\* read_line moves the caller to the readers.
LEMMA ReadLineStep == ASSUME NEW p PROVE IInv /\ ReadLine(p) => IInv'
  <1> SUFFICES ASSUME IInv, ReadLine(p) PROVE IInv'
    OBVIOUS
  <1> DEFINE s == block_process_on_keyboard(kernel, p)
  <1>1. halted = "no" /\ running = p /\ p # Idle /\ Becomes(switch_to_next_process(s))
    BY DEF ReadLine, Runs
  <1>2. Good(kernel, {p}) /\ p \in Pcb
    <2>1. {running} \ {Idle} = {p}
      BY <1>1
    <2> QED BY <1>1, <2>1, Entry
  <1>3. Good(s, {p} \ {p})
    BY <1>2, BlockKeyboardGood
  <1> HIDE DEF s
  <1>4. Good(s, {})
    <2>1. {p} \ {p} = {}
      OBVIOUS
    <2> QED BY <1>3, <2>1
  <1> QED BY <1>1, <1>4, SwitchGood, BecomesSettled

\* exit and the faults wake the parent, then kill the caller.
LEMMA DiesStep == ASSUME NEW p PROVE IInv /\ Dies(p) => IInv'
  <1> SUFFICES ASSUME IInv, Dies(p) PROVE IInv'
    OBVIOUS
  <1> DEFINE s == wake_up_parent_process(kernel, ppid[p])
             t == kill_process(s, p)
  <1>1. halted = "no" /\ running = p /\ p # Idle /\ Becomes(switch_to_next_process(t))
    BY DEF Dies, Runs
  <1>2. Good(kernel, {p}) /\ p \in live
    <2>1. {running} \ {Idle} = {p}
      BY <1>1
    <2> QED BY <1>1, <2>1, Entry
  <1>3. Good(s, {p}) /\ s.live = live
    BY <1>2, WakeGood, KernelFields DEF OnlyMoves
  <1> HIDE DEF s
  <1>4. Good(t, {p} \ {p})
    BY <1>1, <1>2, <1>3, KillGood
  <1> HIDE DEF t
  <1>5. Good(t, {})
    <2>1. {p} \ {p} = {}
      OBVIOUS
    <2> QED BY <1>4, <2>1
  <1> QED BY <1>1, <1>5, SwitchGood, BecomesSettled

\* An unknown system call kills the caller only.
LEMMA UnknownSyscallStep == ASSUME NEW p PROVE IInv /\ UnknownSyscall(p) => IInv'
  <1> SUFFICES ASSUME IInv, UnknownSyscall(p) PROVE IInv'
    OBVIOUS
  <1> DEFINE t == kill_process(kernel, p)
  <1>1. halted = "no" /\ running = p /\ p # Idle /\ Becomes(switch_to_next_process(t))
    BY DEF UnknownSyscall, Runs
  <1>2. Good(kernel, {p}) /\ p \in live
    <2>1. {running} \ {Idle} = {p}
      BY <1>1
    <2> QED BY <1>1, <2>1, Entry
  <1>3. Good(t, {p} \ {p})
    BY <1>1, <1>2, KillGood, KernelFields
  <1> HIDE DEF t
  <1>4. Good(t, {})
    <2>1. {p} \ {p} = {}
      OBVIOUS
    <2> QED BY <1>3, <2>1
  <1> QED BY <1>1, <1>4, SwitchGood, BecomesSettled

\* Ctrl+C kills a process that may be in any list or on the CPU.
LEMMA CtrlCStep == IInv /\ CtrlC => IInv'
  <1> SUFFICES ASSUME IInv, CtrlC PROVE IInv'
    OBVIOUS
  <1> DEFINE victim == latest[focused]
             s == wake_up_parent_process(kernel, ppid[victim])
             killed == kill_process(s, victim)
             t == IF running = victim THEN killed ELSE set_process_as_ready(killed, running)
             L == {running} \ {Idle}
  <1>1. halted = "no" /\ Becomes(switch_to_next_process(t))
        /\ pid[victim] \notin 0..NUMBER_OF_TERMINALS
    BY DEF CtrlC
  <1>2. Good(kernel, L) /\ running \in Pcb
    BY <1>1, Entry
  <1>3. victim \in live \ {Idle}
    <2>1. focused \in Terminal /\ 0 \in 0..NUMBER_OF_TERMINALS /\ pid[Idle] = 0
      BY <1>2, KernelFields, SchedulerAssumption DEF Good, Typed, PidsOK
    <2>2. victim # Idle
      BY <1>1, <2>1
    <2> QED BY <1>2, <2>1, <2>2, KernelFields DEF Good, LatestOK
  <1> HIDE DEF victim
  <1>4. Good(s, L) /\ s.live = live
    BY <1>2, WakeGood, KernelFields DEF OnlyMoves
  <1> HIDE DEF s
  <1>5. Good(killed, L \ {victim})
    BY <1>3, <1>4, KillGood
  <1> HIDE DEF killed
  <1>6. Good(t, {})
    <2>1. CASE running = victim
      <3>1. L \ {victim} = {}
        BY <2>1
      <3> QED BY <1>5, <2>1, <3>1
    <2>2. CASE running # victim
      <3>1. running \in (L \ {victim}) \union {Idle} /\ (L \ {victim}) \ {running} = {}
        BY <2>2
      <3> HIDE DEF L
      <3>2. Good(set_process_as_ready(killed, running), (L \ {victim}) \ {running})
        BY <1>2, <1>5, <3>1, ReadyGood
      <3> QED BY <2>2, <3>1, <3>2
    <2> QED BY <2>1, <2>2
  <1> HIDE DEF t
  <1> QED BY <1>1, <1>6, SwitchGood, BecomesSettled

\* Enter moves a reader to the ready list.
LEMMA EnterStep == IInv /\ Enter => IInv'
  <1> SUFFICES ASSUME IInv, Enter PROVE IInv'
    OBVIOUS
  <1> DEFINE t == wake_process_waiting_for_keyboard(kernel)
             L == {running} \ {Idle}
  <1>1. halted = "no" /\ Becomes(t)
    BY DEF Enter
  <1>2. AtRest(kernel) /\ Good(kernel, L) /\ running \in Pcb
    BY <1>1, Entry
  <1>3. /\ Good(t, L) /\ OnlyMoves(kernel, t)
        /\ Range(t.ready) \subseteq Range(ready) \union Range(bkbd)
        /\ \A q \in Pcb \ Range(bkbd) : t.state[q] = state[q]
    BY <1>2, WakeKeyboardGood, KernelFields
  <1> HIDE DEF t
  <1>4. t.running = running /\ running \notin Range(ready) /\ running \notin Range(bkbd)
    BY <1>2, <1>3, KernelFields DEF OnlyMoves, AtRest, Good, ListsOK, Queued
  <1>5. t.running # Idle => t.state[t.running] = "RUNNING"
    BY <1>2, <1>3, <1>4, KernelFields DEF AtRest
  <1>6. AtRest(t)
    BY <1>3, <1>4, <1>5 DEF AtRest
  <1>7. Settled(t)
    BY <1>3, <1>6 DEF Settled, Good
  <1> QED BY <1>1, <1>7, BecomesSettled

\* A terminal switch reorders the two blocked lists.
LEMMA CtrlTerminalStep == ASSUME NEW n \in Terminal PROVE IInv /\ CtrlTerminal(n) => IInv'
  <1> SUFFICES ASSUME IInv, CtrlTerminal(n) PROVE IInv'
    OBVIOUS
  <1> DEFINE t == [kernel EXCEPT !.focused = n, !.bkbd = bkbd', !.bproc = bproc']
  <1>1. halted = "no" /\ AtRest(kernel) /\ Good(kernel, {running} \ {Idle})
    BY Entry DEF CtrlTerminal
  <1>2. Queue(bproc, Pcb) /\ Queue(bkbd, Pcb)
    BY <1>1, KernelFields DEF Good, Typed, ListsOK, Queue
  <1>3. /\ Queue(bproc', Pcb) /\ Range(bproc') = Range(bproc)
        /\ Queue(bkbd', Pcb) /\ Range(bkbd') = Range(bkbd)
    BY <1>2, ReschedulingQueue DEF CtrlTerminal
  <1>4. /\ kernel'.live = live /\ kernel'.pids = pids /\ kernel'.pid = pid
        /\ kernel'.ppid = ppid /\ kernel'.shell_id = shell_id /\ kernel'.state = state
        /\ kernel'.ready = ready /\ kernel'.bproc = bproc' /\ kernel'.bkbd = bkbd'
        /\ kernel'.running = running /\ kernel'.latest = latest
        /\ kernel'.focused = n /\ kernel'.halted = halted /\ DOMAIN kernel' = Field
    BY DEF CtrlTerminal, kernel, Field
  <1>5. Typed(kernel)' /\ PidsOK(kernel)' /\ LatestOK(kernel)'
    BY <1>1, <1>3, <1>4, KernelFields DEF Good, Typed, PidsOK, LatestOK, Queue
  <1>6. ListsOK(kernel', {running} \ {Idle})
    BY <1>1, <1>3, <1>4, KernelFields DEF Good, ListsOK, Queued, Queue
  <1>7. StatesOK(kernel')
    BY <1>1, <1>3, <1>4, KernelFields DEF Good, StatesOK
  <1>8. Good(kernel', {running} \ {Idle})
    BY <1>1, <1>4, <1>5, <1>6, <1>7, KernelFields DEF Good
  <1>9. AtRest(kernel')
    BY <1>1, <1>4, <1>8, KernelFields DEF AtRest
  <1>10. Settled(kernel')
    BY <1>1, <1>4, <1>5, <1>9 DEF Settled
  <1> QED BY <1>10 DEF IInv

\* The stop in allocate_frame leaves the lists alone.
LEMMA OutOfMemoryStep == ASSUME NEW p PROVE IInv /\ OutOfMemory(p) => IInv'
  <1> SUFFICES ASSUME IInv, OutOfMemory(p) PROVE IInv'
    OBVIOUS
  <1>1. /\ kernel'.live = live /\ kernel'.pids = pids /\ kernel'.pid = pid
        /\ kernel'.ppid = ppid /\ kernel'.shell_id = shell_id /\ kernel'.state = state
        /\ kernel'.ready = ready /\ kernel'.bproc = bproc /\ kernel'.bkbd = bkbd
        /\ kernel'.running = running /\ kernel'.latest = latest
        /\ kernel'.focused = focused /\ kernel'.halted = "memory" /\ DOMAIN kernel' = Field
    BY DEF OutOfMemory, kernel, Field
  <1>2. Typed(kernel') /\ PidsOK(kernel') /\ LatestOK(kernel')
    BY <1>1, KernelFields DEF IInv, Settled, Typed, PidsOK, LatestOK
  <1> QED BY <1>1, <1>2 DEF IInv, Settled

\* init_process_scheduler: idle in no list, the shells in the ready list.
LEMMA InitGood == Good(init_process_scheduler, {})
  <1> DEFINE s == init_process_scheduler
  <1>1. /\ Shell \in [Terminal -> Pcb \ {Idle}] /\ IsInjective(Shell) /\ Idle \in Pcb
        /\ NUMBER_OF_TERMINALS \in Nat \ {0} /\ MAX_NUMBER_OF_PROCESSES \in Nat
        /\ NUMBER_OF_TERMINALS < MAX_NUMBER_OF_PROCESSES
    BY SchedulerAssumption
  <1>2. \A m \in Terminal : TerminalOf(Shell[m]) = m
    BY <1>1 DEF TerminalOf, IsInjective
  <1>3. /\ \A p \in Range(Shell) : TerminalOf(p) \in Terminal /\ Shell[TerminalOf(p)] = p
        /\ Range(Shell) \subseteq Pcb \ {Idle}
    BY <1>1, <1>2 DEF Range
  <1>4. Terminal \subseteq Pid /\ 0 \in Pid /\ 1 \in Terminal /\ 0 \notin Terminal
        /\ 0..NUMBER_OF_TERMINALS = {0} \union Terminal
    BY <1>1 DEF Terminal, Pid
  <1>5. Queue(s.ready, Pcb) /\ Range(s.ready) = Range(Shell)
    <2>1. Queue(Shell, Pcb) /\ Shell # <<>>
      <3>1. Shell \in Seq(Pcb) /\ Len(Shell) = NUMBER_OF_TERMINALS
        BY <1>1, IsASeq DEF Terminal
      <3> QED BY <1>1, <3>1 DEF Queue
    <2>2. /\ Queue(Tail(Shell), Pcb) /\ Head(Shell) \in Range(Shell)
          /\ Range(Tail(Shell)) = Range(Shell) \ {Head(Shell)}
      BY <2>1, TailQueue
    <2>3. Head(Shell) \in Pcb
      BY <1>3, <2>2
    <2>4. /\ Queue(Append(Tail(Shell), Head(Shell)), Pcb)
          /\ Range(Append(Tail(Shell), Head(Shell))) = Range(Tail(Shell)) \union {Head(Shell)}
      BY <2>2, <2>3, AppendQueue
    <2>5. s.ready = Append(Tail(Shell), Head(Shell))
      BY DEF init_process_scheduler
    <2> QED BY <2>2, <2>4, <2>5
  <1>6. /\ s.live = {Idle} \union Range(Shell) /\ s.pids = 0..NUMBER_OF_TERMINALS
        /\ s.pid = [p \in Pcb |-> IF p = Idle THEN 0
                                  ELSE IF p \in Range(Shell) THEN TerminalOf(p) ELSE NoPid]
        /\ s.ppid = [p \in Pcb |-> IF p \in {Idle} \union Range(Shell) THEN 0 ELSE NoPid]
        /\ s.shell_id = [p \in Pcb |-> IF p \in Range(Shell) THEN TerminalOf(p) ELSE 0]
        /\ s.state = [p \in Pcb |-> IF p = Idle THEN "WAITING"
                                    ELSE IF p \in Range(Shell) THEN "READY" ELSE "FREE"]
        /\ s.bproc = <<>> /\ s.bkbd = <<>> /\ s.running = Idle /\ s.latest = Shell
        /\ s.focused = 1 /\ s.halted = "no" /\ DOMAIN s = Field
    BY DEF init_process_scheduler, Field
  <1> HIDE DEF s
  <1>7. Typed(s)
    <2>1. s.live \subseteq Pcb /\ s.pids \subseteq Pid /\ s.running \in Pcb /\ s.focused \in Terminal
      BY <1>1, <1>3, <1>4, <1>6
    <2>2. s.pid \in [Pcb -> Pid \union {NoPid}] /\ s.ppid \in [Pcb -> Pid \union {NoPid}]
      BY <1>3, <1>4, <1>6
    <2>3. s.shell_id \in [Pcb -> Terminal \union {0}] /\ s.state \in [Pcb -> State]
      BY <1>3, <1>4, <1>6 DEF State
    <2>4. s.latest \in [Terminal -> Pcb] /\ s.bproc \in Seq(Pcb) /\ s.bkbd \in Seq(Pcb)
      BY <1>1, <1>6
    <2> QED BY <1>5, <1>6, <2>1, <2>2, <2>3, <2>4 DEF Typed, Queue
  <1>8. PidsOK(s)
    <2>1. s.pid[Idle] = 0 /\ \A p \in Range(Shell) : s.pid[p] = TerminalOf(p)
      BY <1>1, <1>3, <1>6
    <2>2. \A m \in Terminal : Shell[m] \in s.live /\ s.pid[Shell[m]] = m
      BY <1>1, <1>2, <1>6, <2>1 DEF Range
    <2>3. s.pids = {s.pid[p] : p \in s.live}
      BY <1>3, <1>4, <1>6, <2>1, <2>2
    <2>4. \A p, q \in s.live : s.pid[p] = s.pid[q] => p = q
      BY <1>3, <1>4, <1>6, <2>1
    <2> QED BY <1>6, <2>1, <2>3, <2>4 DEF PidsOK
  <1>9. LatestOK(s)
    <2>1. \A m \in Terminal : Shell[m] \in Range(Shell)
      BY <1>1 DEF Range
    <2> QED BY <1>1, <1>2, <1>3, <1>6, <2>1 DEF LatestOK
  <1>10. ListsOK(s, {})
    <2>1. Range(<<>>) = {} /\ IsInjective(<<>>)
      BY DEF Range, IsInjective
    <2> QED BY <1>3, <1>5, <1>6, <2>1 DEF ListsOK, Queued, Queue
  <1>11. StatesOK(s)
    <2>1. Range(<<>>) = {}
      BY DEF Range
    <2> QED BY <1>3, <1>5, <1>6, <2>1 DEF StatesOK
  <1>12. \A p \in s.live \ {Idle} : s.shell_id[p] \in Terminal
    BY <1>3, <1>6
  <1>13. Good(s, {})
    BY <1>6, <1>7, <1>8, <1>9, <1>10, <1>11, <1>12 DEF Good
  <1> QED BY <1>13 DEF s

\* The state after init_process_scheduler and the first dispatch.
LEMMA InitIInv == Init => IInv
  <1> SUFFICES ASSUME Init PROVE IInv
    OBVIOUS
  <1> DEFINE s == switch_to_next_process(init_process_scheduler)
  <1>1. Settled(s)
    BY InitGood, SwitchGood
  <1> HIDE DEF s
  <1>2. /\ DOMAIN kernel = DOMAIN s
        /\ kernel.live = s.live /\ kernel.pids = s.pids /\ kernel.pid = s.pid
        /\ kernel.ppid = s.ppid /\ kernel.shell_id = s.shell_id /\ kernel.state = s.state
        /\ kernel.ready = s.ready /\ kernel.bproc = s.bproc /\ kernel.bkbd = s.bkbd
        /\ kernel.running = s.running /\ kernel.latest = s.latest
        /\ kernel.focused = s.focused /\ kernel.halted = s.halted
    BY <1>1, KernelFields DEF Init, Settled, Typed, s
  <1>3. Settled(kernel)
    BY <1>1, <1>2, SameFields
  <1> QED BY <1>3 DEF IInv

\* Every handler keeps the invariant.
LEMMA NextIInv == IInv /\ [Next]_vars => IInv'
  <1> SUFFICES ASSUME IInv, [Next]_vars PROVE IInv'
    OBVIOUS
  <1>1. ASSUME NEW p \in Pcb, Syscall(p) PROVE IInv'
    <2>1. CASE Service(p) \/ ExecUnknown(p)
      BY <2>1, ServiceStep
    <2>2. CASE Exec(p)
      BY <2>2, ExecStep
    <2>3. CASE Fork(p)
      BY <2>3, ForkStep
    <2>4. CASE OutOfMemory(p)
      BY <2>4, OutOfMemoryStep
    <2>5. CASE \E n \in Pid : Wait(p, n)
      BY <2>5, WaitStep
    <2>6. CASE ReadLine(p)
      BY <2>6, ReadLineStep
    <2>7. CASE Exit(p)
      BY <2>7, DiesStep DEF Exit
    <2>8. CASE UnknownSyscall(p)
      BY <2>8, UnknownSyscallStep
    <2> QED BY <1>1, <2>1, <2>2, <2>3, <2>4, <2>5, <2>6, <2>7, <2>8 DEF Syscall
  <1>2. ASSUME NEW p \in Pcb, Fault(p) PROVE IInv'
    BY <1>2, DiesStep DEF Fault
  <1>3. CASE PitSwitch
    BY <1>3, PitSwitchStep
  <1>4. CASE Keyboard
    BY <1>4, EnterStep, CtrlCStep, CtrlTerminalStep DEF Keyboard
  <1>5. CASE UNCHANGED vars
    <2>1. kernel' = kernel
      BY <1>5 DEF vars, kernel
    <2> QED BY <2>1 DEF IInv
  <1> QED BY <1>1, <1>2, <1>3, <1>4, <1>5 DEF Next, Stopped

-----------------------------------------------------------------------------
(* The theorems *)

\* In every state the scheduler reaches, whatever the processes, the timer and
\* the keyboard do, the lists, the pid table and the Ctrl+C table agree.
THEOREM Invariance == Spec => []IInv
  BY InitIInv, NextIInv, PTL DEF Spec

\* Type correctness of the kernel's scheduling state.
THEOREM TypeCorrect == Spec => []TypeOK
  <1>1. IInv => TypeOK
    BY KernelFields DEF IInv, Settled, Typed, TypeOK
  <1> QED BY <1>1, Invariance, PTL

\* No handler loses a process, lists it twice or leaves a freed PCB in a list.
THEOREM NoProcessIsLost == Spec => []NoProcessLost
  <1>1. IInv => NoProcessLost
    <2> SUFFICES ASSUME IInv, halted = "no" PROVE NoProcessLost
      BY DEF NoProcessLost
    <2>1. AtRest(kernel) /\ Good(kernel, {running} \ {Idle}) /\ Idle \in live /\ running \in live
      BY Entry, KernelFields DEF Good, PidsOK
    <2> QED BY <2>1, KernelFields DEF AtRest, Good, ListsOK, Queued, NoProcessLost
  <1> QED BY <1>1, Invariance, PTL

\* allocate_pid and kill_process keep pids[] in step with the processes.
THEOREM PidsAreUnique == Spec => []PidTable
  <1>1. IInv => PidTable
    BY KernelFields DEF IInv, Settled, PidsOK, PidTable
  <1> QED BY <1>1, Invariance, PTL

\* abort_current_cmd never dereferences a freed PCB.
THEOREM LatestIsSafe == Spec => []LatestIsOfItsTerminal
  <1>1. IInv => LatestIsOfItsTerminal
    BY KernelFields DEF IInv, Settled, LatestOK, LatestIsOfItsTerminal
  <1> QED BY <1>1, Invariance, PTL

\* Every list function sets the state field that ps prints.
THEOREM StatesAreRight == Spec => []StatesAgree
  <1>1. IInv => StatesAgree
    <2> SUFFICES ASSUME IInv, halted = "no", NEW p \in live \ {Idle}
                 PROVE  state[p] = IF p = running THEN "RUNNING"
                                   ELSE IF p \in Range(ready) THEN "READY"
                                   ELSE "WAITING"
      BY DEF StatesAgree
    <2>1. AtRest(kernel) /\ Good(kernel, {running} \ {Idle})
      BY Entry
    <2> QED BY <2>1, KernelFields DEF AtRest, Good, ListsOK, StatesOK, Queued
  <1> QED BY <1>1, Invariance, PTL

\* switch_to_next_process stops the machine only when all programs are gone.
THEOREM ShutdownIsRight == Spec => []ShutdownWhenOnlyIdle
  <1>1. IInv => ShutdownWhenOnlyIdle
    BY KernelFields DEF IInv, Settled, ShutdownWhenOnlyIdle
  <1> QED BY <1>1, Invariance, PTL

-----------------------------------------------------------------------------
(* What a single step may do: who dies, whose wait ends, that a death wakes   *)
(* the parent and that nobody overtakes in the ready list.  These rest on     *)
(* IInv and on one more fact about parents.                                   *)


\* No process but idle is its own parent, although pids are reused.
Kin(s) == \A p \in s.live \ {Idle} : s.ppid[p] # s.pid[p]

NotOwnParent == Kin(kernel)

\* The functions that neither create nor kill a process.
SameProcesses(s, t) == t.live = s.live /\ t.pid = s.pid /\ t.ppid = s.ppid

\* The two kinds of step.  In most of them nobody dies and no wait ends.
NothingEnds == live \subseteq live' /\ Range(bproc) \subseteq Range(bproc')

\* In the others exactly v dies, and only v or its parent stop waiting.
DeathOf(v) ==
  /\ v \in live \ {Idle}
  /\ live' = live \ {v}
  /\ \A q \in live' : pid'[q] = pid[q] /\ ppid'[q] = ppid[q]
  /\ \A q \in Range(bproc) \ Range(bproc') : q = v \/ pid[q] = ppid[v]

-----------------------------------------------------------------------------
(* The order of the ready list *)

\* a is in front of b in q.
Ahead(q, a, b) == \E i, j \in DOMAIN q : i < j /\ q[i] = a /\ q[j] = b

\* Whoever was in front of the process the CPU now runs is not ready any more.
InOrder(q) == \A a, b : Ahead(q, a, b) /\ running' = b => a \notin Range(ready')

\* A process added last overtakes nobody.
LEMMA AheadAppend ==
  ASSUME NEW S, NEW q \in Seq(S), NEW p, NEW a, NEW b, Ahead(q, a, b)
  PROVE  Ahead(Append(q, p), a, b)
  <1>1. PICK i \in DOMAIN q, j \in DOMAIN q : i < j /\ q[i] = a /\ q[j] = b
    BY DEF Ahead
  <1>2. /\ DOMAIN q = 1..Len(q) /\ Len(q) \in Nat
        /\ DOMAIN Append(q, p) = 1..(Len(q) + 1)
        /\ \A k \in 1..Len(q) : Append(q, p)[k] = q[k]
    OBVIOUS
  <1>3. i \in DOMAIN Append(q, p) /\ j \in DOMAIN Append(q, p)
    BY <1>1, <1>2
  <1> QED BY <1>1, <1>2, <1>3 DEF Ahead

\* A process taken out of a list leaves the others in their order.
LEMMA AheadRemove ==
  ASSUME NEW S, NEW q, Queue(q, S), NEW p, NEW a, NEW b, Ahead(q, a, b), a # p, b # p
  PROVE  Ahead(RemoveData(q, p), a, b)
  <1>1. CASE p \notin Range(q)
    BY <1>1 DEF RemoveData
  <1>2. CASE p \in Range(q)
    <2> DEFINE First(i) == q[i] = p /\ \A j \in 1..(i - 1) : q[j] # p
               k == CHOOSE i \in DOMAIN q : First(i)
               r == RemoveAt(q, k)
    <2>1. DOMAIN q = 1..Len(q) /\ Len(q) \in Nat
      BY DEF Queue
    <2>2. k \in DOMAIN q /\ q[k] = p
      <3>1. PICK i \in DOMAIN q : q[i] = p
        BY <1>2 DEF Range
      <3>2. First(i)
        BY <2>1, <3>1 DEF Queue, IsInjective
      <3> QED BY <3>2
    <2>3. RemoveData(q, p) = r
      BY <1>2 DEF RemoveData
    <2> HIDE DEF k
    <2>4. /\ DOMAIN r = 1..(Len(q) - 1)
          /\ \A i \in 1..(Len(q) - 1) : r[i] = IF i < k THEN q[i] ELSE q[i + 1]
      <3>1. q \in Seq(S)
        BY DEF Queue
      <3>2. PICK l : l = Len(q)
        OBVIOUS
      <3>3. /\ r \in Seq(S) /\ Len(r) = l - 1
            /\ \A i \in 1..(l - 1) : r[i] = IF i < k THEN q[i] ELSE q[i + 1]
        BY <2>2, <3>1, <3>2, RemoveAtEntries
      <3>4. DOMAIN r = 1..(l - 1)
        <4> HIDE DEF r
        <4> QED BY <3>3
      <3> QED BY <3>2, <3>3, <3>4
    <2> HIDE DEF r
    <2> DEFINE new(i) == IF i < k THEN i ELSE i - 1
    <2>5. \A i \in DOMAIN q : i # k => new(i) \in DOMAIN r /\ r[new(i)] = q[i]
      <3> SUFFICES ASSUME NEW i \in 1..Len(q), i # k
                   PROVE  new(i) \in 1..(Len(q) - 1) /\ r[new(i)] = q[i]
        BY <2>1, <2>4
      <3>1. CASE i < k
        BY <2>1, <2>2, <2>4, <3>1
      <3>2. CASE i > k
        <4>1. i - 1 \in 1..(Len(q) - 1) /\ ~(i - 1 < k) /\ (i - 1) + 1 = i /\ new(i) = i - 1
          BY <2>1, <2>2, <3>2
        <4> QED BY <2>4, <4>1
      <3> QED BY <2>1, <2>2, <3>1, <3>2
    <2>6. PICK i \in DOMAIN q, j \in DOMAIN q : i < j /\ q[i] = a /\ q[j] = b
      BY DEF Ahead
    <2>7. i # k /\ j # k /\ new(i) < new(j)
      BY <2>1, <2>2, <2>6
    <2> HIDE DEF new
    <2> QED BY <2>3, <2>5, <2>6, <2>7 DEF Ahead
  <1> QED BY <1>1, <1>2

-----------------------------------------------------------------------------
(* What the functions leave alone *)

\* The variables after a handler are the fields of the state it computes.
LEMMA BecomesFields ==
  ASSUME NEW s, Becomes(s)
  PROVE  /\ live' = s.live /\ pid' = s.pid /\ ppid' = s.ppid
         /\ ready' = s.ready /\ bproc' = s.bproc /\ running' = s.running
  BY DEF Becomes

\* set_process_as_ready touches the ready list and a state field only.
LEMMA ReadyLeaves ==
  ASSUME NEW s, Typed(s), NEW p
  PROVE  LET t == set_process_as_ready(s, p)
         IN  SameProcesses(s, t) /\ t.bproc = s.bproc
  BY DEF set_process_as_ready, SameProcesses, Typed, Field

\* switch_to_next_process loses no ready process but idle: the one it takes is
\* on the CPU afterwards.
LEMMA SwitchLeaves ==
  ASSUME NEW s, Good(s, {})
  PROVE  LET t == switch_to_next_process(s)
         IN  /\ SameProcesses(s, t) /\ t.bproc = s.bproc
             /\ Range(s.ready) \ {Idle} \subseteq Range(t.ready) \union {t.running}
  <1> DEFINE t == switch_to_next_process(s)
             q == s.ready
             n == LeadingIdle(q)
             rest == SubSeq(q, n + 2, Len(q))
  <1>1. CASE OnlyOne(s)
    BY <1>1 DEF switch_to_next_process, SameProcesses, Good, Typed, Field
  <1>2. CASE ~OnlyOne(s)
    <2>1. Queue(q, Pcb)
      BY DEF Good, Typed, ListsOK, Queue
    <2>2. /\ n = Len(q) => Range(q) \subseteq {Idle}
          /\ n # Len(q) => Range(q) \ {Idle} = {q[n + 1]} \union (Range(rest) \ {Idle})
      BY <2>1, LeadingIdleQueue
    <2>3. t = IF n = Len(q) THEN switch_process(s, Idle, <<>>)
              ELSE switch_process(s, q[n + 1], rest)
      BY <1>2 DEF switch_to_next_process
    <2> HIDE DEF n, rest
    <2>4. SameProcesses(s, t) /\ t.bproc = s.bproc
      BY <2>3 DEF switch_process, SameProcesses, Good, Typed, Field
    <2>5. n # Len(q) => t.running = q[n + 1] /\ t.ready = rest
      BY <2>3 DEF switch_process, Good, Typed, Field
    <2> QED BY <2>2, <2>4, <2>5
  <1> QED BY <1>1, <1>2

\* set_process_as_ready appends, if anything.
LEMMA AheadReady ==
  ASSUME NEW s, Typed(s), NEW p, NEW a, NEW b, Ahead(s.ready, a, b)
  PROVE  Ahead(set_process_as_ready(s, p).ready, a, b)
  <1>1. \/ set_process_as_ready(s, p).ready = s.ready
        \/ set_process_as_ready(s, p).ready = Append(s.ready, p)
    BY DEF set_process_as_ready, Typed, Field
  <1>2. s.ready \in Seq(Pcb)
    BY DEF Typed
  <1> QED BY <1>1, <1>2, AheadAppend

\* switch_to_next_process takes the first process but idle.
LEMMA SwitchInOrder ==
  ASSUME NEW s, Good(s, {}), Becomes(switch_to_next_process(s))
  PROVE  /\ InOrder(s.ready)
         /\ Range(ready') \subseteq Range(s.ready)
         /\ running' \in Range(s.ready) \union {Idle, s.running}
  <1> DEFINE t == switch_to_next_process(s)
             q == s.ready
             n == LeadingIdle(q)
             rest == SubSeq(q, n + 2, Len(q))
  <1>1. ready' = t.ready /\ running' = t.running
    BY BecomesFields
  <1>2. Queue(q, Pcb) /\ DOMAIN q = 1..Len(q) /\ Len(q) \in Nat
    BY DEF Good, Typed, ListsOK, Queue
  <1>3. \A i, j \in DOMAIN q : q[i] = q[j] => i = j
    BY <1>2 DEF Queue, IsInjective
  <1>4. CASE OnlyOne(s)
    <2>1. t.ready = q /\ t.running = s.running
      BY <1>4 DEF switch_to_next_process, Good, Typed, Field
    <2>2. s.live = {Idle}
      BY <1>4 DEF OnlyOne, Good, PidsOK
    <2>3. \A i \in DOMAIN q : q[i] = Idle
      BY <2>2 DEF Good, ListsOK, Queued, Range
    <2>4. \A a, b : ~Ahead(q, a, b)
      BY <1>2, <1>3, <2>3 DEF Ahead
    <2> QED BY <1>1, <2>1, <2>2, <2>4 DEF InOrder
  <1>5. CASE ~OnlyOne(s)
    <2>1. /\ n \in 0..Len(q)
          /\ n # Len(q) => /\ n + 1 \in DOMAIN q /\ q[n + 1] \in Range(q)
                          /\ Range(rest) \subseteq Range(q)
      BY <1>2, LeadingIdleQueue
    <2>2. t = IF n = Len(q) THEN switch_process(s, Idle, <<>>)
              ELSE switch_process(s, q[n + 1], rest)
      BY <1>5 DEF switch_to_next_process
    <2> HIDE DEF n, t
    <2>3. CASE n = Len(q)
      <3>1. t.ready = <<>> /\ t.running = Idle
        BY <2>2, <2>3 DEF switch_process, Good, Typed, Field
      <3>2. Range(<<>>) = {}
        BY DEF Range
      <3> QED BY <1>1, <3>1, <3>2 DEF InOrder
    <2>4. CASE n # Len(q)
      <3>1. t.ready = rest /\ t.running = q[n + 1]
        BY <2>2, <2>4 DEF switch_process, Good, Typed, Field
      <3>2. \A k \in DOMAIN rest : /\ (n + 1) + k \in DOMAIN q /\ rest[k] = q[(n + 1) + k]
                                  /\ k \in Nat /\ k >= 1
        <4>1. n + 2 \in 1..(Len(q) + 1) /\ q \in Seq(Pcb)
          BY <1>2, <2>1, <2>4 DEF Queue
        <4>2. /\ Len(rest) = Len(q) - (n + 1) /\ DOMAIN rest = 1..Len(rest)
              /\ \A k \in 1..(Len(q) - (n + 1)) : rest[k] = q[(n + 1) + k]
          BY <1>2, <2>1, <4>1
        <4> QED BY <1>2, <2>1, <4>2
      <3> HIDE DEF rest
      <3>3. ASSUME NEW i \in DOMAIN q, NEW j \in DOMAIN q, i < j, q[j] = q[n + 1],
                   q[i] \in Range(rest)
            PROVE  FALSE
        <4>1. j = n + 1
          BY <1>3, <2>1, <2>4, <3>3
        <4>2. PICK k \in DOMAIN rest : rest[k] = q[i]
          BY <3>3 DEF Range
        <4>3. i = (n + 1) + k
          BY <1>3, <3>2, <4>2
        <4> QED BY <1>2, <2>1, <3>2, <3>3, <4>1, <4>3
      <3>4. InOrder(q)
        BY <1>1, <3>1, <3>3 DEF InOrder, Ahead
      <3> QED BY <1>1, <2>1, <2>4, <3>1, <3>4
    <2> QED BY <2>3, <2>4
  <1> QED BY <1>4, <1>5

\* wake_up_parent_process ends the wait of a process with the pid it is given,
\* and if such a process waits it is ready afterwards.
LEMMA WakeLeaves ==
  ASSUME NEW s, NEW L, Good(s, L), NEW n
  PROVE  LET t == wake_up_parent_process(s, n)
         IN  /\ \A q \in Range(s.bproc) \ Range(t.bproc) : s.pid[q] = n
             /\ \A q \in Range(s.bproc) : s.pid[q] = n => q \in Range(t.ready)
             /\ \A a, b : Ahead(s.ready, a, b) => Ahead(t.ready, a, b)
  <1> DEFINE t == wake_up_parent_process(s, n)
             waiting == {i \in DOMAIN s.bproc : s.pid[s.bproc[i]] = n}
             First(i) == \A j \in waiting : i <= j
             parent == s.bproc[CHOOSE i \in waiting : First(i)]
             woken == [s EXCEPT !.bproc = RemoveData(@, parent)]
  <1>1. CASE waiting = {}
    <2>1. t = s
      BY <1>1 DEF wake_up_parent_process
    <2>2. \A q \in Range(s.bproc) : s.pid[q] # n
      BY <1>1 DEF Range
    <2> QED BY <2>1, <2>2
  <1>2. CASE waiting # {}
    <2>1. DOMAIN s.bproc = 1..Len(s.bproc) /\ Len(s.bproc) \in Nat
      BY DEF Good, Typed
    <2>2. Queue(s.bproc, Pcb)
      BY DEF Good, Typed, ListsOK, Queue
    <2>3. \A i, j \in waiting : i = j
      <3> SUFFICES ASSUME NEW i \in waiting, NEW j \in waiting PROVE i = j
        OBVIOUS
      <3>1. s.bproc[i] \in s.live /\ s.bproc[j] \in s.live
        BY DEF Good, ListsOK, Queued, Range
      <3>2. s.bproc[i] = s.bproc[j]
        BY <3>1 DEF Good, PidsOK
      <3> QED BY <3>2 DEF Good, ListsOK, IsInjective
    <2>4. \E i \in waiting : First(i)
      BY <1>2, <2>1, <2>3
    <2>5. parent \in Range(s.bproc) /\ s.pid[parent] = n
      <3> HIDE DEF First
      <3> QED BY <2>4 DEF Range
    <2>6. t = IF is_blocked_elsewhere(s, parent, "bproc") THEN woken
              ELSE set_process_as_ready(woken, parent)
      BY <1>2 DEF wake_up_parent_process
    <2> HIDE DEF parent
    <2>7. ~is_blocked_elsewhere(s, parent, "bproc")
      BY <2>5 DEF is_blocked_elsewhere, Good, ListsOK
    <2>8. /\ Queue(RemoveData(s.bproc, parent), Pcb)
          /\ Range(RemoveData(s.bproc, parent)) = Range(s.bproc) \ {parent}
      BY <2>2, RemoveDataQueue
    <2>9. Good(woken, L \union {parent}) /\ parent \in Pcb
      <3>1. LET w == [s EXCEPT !.bproc = RemoveData(s.bproc, parent)]
            IN  Good(w, L \union {parent}) /\ OnlyMoves(s, w) /\ parent \in Pcb
                /\ parent \notin L /\ w.bkbd = s.bkbd
        BY <2>5, <2>8, LeaveBproc
      <3> QED BY <3>1
    <2>10. woken.bproc = RemoveData(s.bproc, parent) /\ woken.ready = s.ready
      BY DEF Good, Typed, Field
    <2> HIDE DEF woken
    <2>11. t = set_process_as_ready(woken, parent)
      BY <2>6, <2>7
    <2> HIDE DEF t
    <2>12. parent \in Range(t.ready)
      <3>1. parent \in (L \union {parent}) \union {Idle}
        OBVIOUS
      <3>2. Range(set_process_as_ready(woken, parent).ready) = Range(woken.ready) \union {parent}
        BY <2>9, <3>1, ReadyGood
      <3> QED BY <2>11, <3>2
    <2>13. Range(t.bproc) = Range(s.bproc) \ {parent}
      BY <2>8, <2>9, <2>10, <2>11, ReadyLeaves DEF Good
    <2>14. \A q \in Range(s.bproc) : s.pid[q] = n => q = parent
      <3> SUFFICES ASSUME NEW q \in Range(s.bproc), s.pid[q] = n PROVE q = parent
        OBVIOUS
      <3>1. q \in s.live /\ parent \in s.live
        BY <2>5 DEF Good, ListsOK, Queued
      <3> QED BY <2>5, <3>1 DEF Good, PidsOK
    <2>15. \A a, b : Ahead(s.ready, a, b) => Ahead(t.ready, a, b)
      BY <2>9, <2>10, <2>11, AheadReady DEF Good
    <2>16. /\ \A q \in Range(s.bproc) \ Range(t.bproc) : s.pid[q] = n
           /\ \A q \in Range(s.bproc) : s.pid[q] = n => q \in Range(t.ready)
      BY <2>5, <2>12, <2>13, <2>14
    <2> QED BY <2>15, <2>16 DEF t
  <1> QED BY <1>1, <1>2

\* kill_process takes p, and nobody else, out of the lists.
LEMMA KillLeaves ==
  ASSUME NEW s, NEW L, Good(s, L), NEW p \in s.live \ {Idle}
  PROVE  LET t == kill_process(s, p)
         IN  /\ t.live = s.live \ {p}
             /\ \A q \in t.live : t.pid[q] = s.pid[q] /\ t.ppid[q] = s.ppid[q]
             /\ Range(t.bproc) = Range(s.bproc) \ {p}
             /\ Range(t.ready) = Range(s.ready) \ {p}
             /\ \A a, b : Ahead(s.ready, a, b) /\ a # p /\ b # p => Ahead(t.ready, a, b)
  <1> DEFINE t == kill_process(s, p)
  <1>1. Queue(s.ready, Pcb) /\ Queue(s.bproc, Pcb)
    BY DEF Good, Typed, ListsOK, Queue
  <1>2. /\ Range(RemoveData(s.ready, p)) = Range(s.ready) \ {p}
        /\ Range(RemoveData(s.bproc, p)) = Range(s.bproc) \ {p}
    BY <1>1, RemoveDataQueue
  <1>3. /\ t.live = s.live \ {p}
        /\ t.pid = [s.pid EXCEPT ![p] = NoPid] /\ t.ppid = [s.ppid EXCEPT ![p] = NoPid]
        /\ t.ready = RemoveData(s.ready, p) /\ t.bproc = RemoveData(s.bproc, p)
    BY DEF kill_process, Good, Typed, Field
  <1> HIDE DEF t
  <1>4. \A q \in t.live : t.pid[q] = s.pid[q] /\ t.ppid[q] = s.ppid[q]
    BY <1>3 DEF Good, Typed
  <1>5. \A a, b : Ahead(s.ready, a, b) /\ a # p /\ b # p => Ahead(t.ready, a, b)
    BY <1>1, <1>3, AheadRemove
  <1> QED BY <1>2, <1>3, <1>4, <1>5 DEF t

-----------------------------------------------------------------------------
(* Which kind of step each handler takes *)

\* The process on the CPU is not ready: no place in the list is its.
LEMMA NoDispatch ==
  ASSUME IInv, halted = "no", running' = running
  PROVE  InOrder(ready)
  <1>1. running \notin Range(ready)
    BY Entry, KernelFields DEF AtRest
  <1> QED BY <1>1 DEF InOrder, Ahead, Range

\* A handler that kills v and keeps the others' order.
LEMMA DeathInOrder ==
  ASSUME IInv, halted = "no", NEW v, v # Idle,
         NEW s, Good(s, {}), Becomes(switch_to_next_process(s)),
         s.running = running, v \notin Range(s.ready),
         \A a, b : Ahead(ready, a, b) /\ a # v /\ b # v => Ahead(s.ready, a, b)
  PROVE  InOrder(ready)
  <1> SUFFICES ASSUME NEW a, NEW b, Ahead(ready, a, b), running' = b
               PROVE  a \notin Range(ready')
    BY DEF InOrder
  <1>1. /\ InOrder(s.ready) /\ Range(ready') \subseteq Range(s.ready)
        /\ running' \in Range(s.ready) \union {Idle, running}
    BY SwitchInOrder
  <1>2. b # running
    <2>1. running \notin Range(ready)
      BY Entry, KernelFields DEF AtRest
    <2> QED BY <2>1 DEF Ahead, Range
  <1>3. CASE a = v
    BY <1>1, <1>3
  <1>4. CASE b = v
    BY <1>1, <1>2, <1>4
  <1>5. CASE a # v /\ b # v
    BY <1>1, <1>5 DEF InOrder
  <1> QED BY <1>3, <1>4, <1>5

\* Ticks and services move the caller to the ready list.
LEMMA TickStep ==
  ASSUME IInv, PitSwitch
  PROVE  NothingEnds /\ live' = live /\ pid' = pid /\ ppid' = ppid /\ InOrder(ready)
  <1> DEFINE s == set_process_as_ready(kernel, running)
  <1>1. halted = "no" /\ Becomes(switch_to_next_process(s))
    BY DEF PitSwitch
  <1>2. Good(kernel, {running} \ {Idle}) /\ running \in Pcb
    BY <1>1, Entry
  <1>3. SameProcesses(kernel, s) /\ s.bproc = bproc
    BY <1>2, ReadyLeaves, KernelFields DEF Good
  <1>4. Good(s, {})
    <2>1. Good(s, ({running} \ {Idle}) \ {running})
      BY <1>2, ReadyGood
    <2>2. ({running} \ {Idle}) \ {running} = {}
      OBVIOUS
    <2> QED BY <2>1, <2>2
  <1>5. \A a, b : Ahead(ready, a, b) => Ahead(s.ready, a, b)
    BY <1>2, AheadReady, KernelFields DEF Good
  <1> HIDE DEF s
  <1>6. /\ live' = s.live /\ pid' = s.pid /\ ppid' = s.ppid /\ bproc' = s.bproc
        /\ InOrder(s.ready)
    BY <1>1, <1>4, SwitchLeaves, SwitchInOrder, BecomesFields DEF SameProcesses
  <1> QED BY <1>3, <1>5, <1>6, KernelFields DEF SameProcesses, NothingEnds, InOrder

\* A new child of a live process is nobody's namesake: its pid was free.
LEMMA BirthKeepsKin ==
  ASSUME NEW s, NEW L, Good(s, L), Kin(s), NEW p \in s.live,
         NEW c \in Pcb \ s.live, NEW n \in Pid \ s.pids, NEW term
  PROVE  LET t == create_process(s, c, n, s.pid[p], term)
         IN  Kin(t) /\ t.live = s.live \union {c} /\ t.bproc = s.bproc
             /\ t.ready = s.ready
  <1> DEFINE t == create_process(s, c, n, s.pid[p], term)
  <1>1. /\ t.live = s.live \union {c} /\ t.pid = [s.pid EXCEPT ![c] = n]
        /\ t.ppid = [s.ppid EXCEPT ![c] = s.pid[p]] /\ t.bproc = s.bproc
        /\ t.ready = s.ready
    BY DEF create_process, Good, Typed, Field
  <1> HIDE DEF t
  <1>2. s.pid[p] # n
    BY DEF Good, PidsOK
  <1>3. t.pid[c] = n /\ t.ppid[c] = s.pid[p]
    BY <1>1 DEF Good, Typed
  <1>4. \A q \in s.live : t.pid[q] = s.pid[q] /\ t.ppid[q] = s.ppid[q]
    BY <1>1 DEF Good, Typed
  <1>5. Kin(t)
    BY <1>1, <1>2, <1>3, <1>4 DEF Kin
  <1> QED BY <1>1, <1>5 DEF t

\* exec only adds a process.
LEMMA ExecBirth ==
  ASSUME IInv, NotOwnParent, NEW p, Exec(p)
  PROVE  NothingEnds /\ NotOwnParent' /\ InOrder(ready)
  <1> DEFINE s == set_process_as_ready(kernel, p)
             created(c, n) == create_process(s, c, n, pid[p], shell_id[p])
             t(c, n) == set_process_as_ready(created(c, n), c)
  <1>1. PICK c \in Pcb \ live, n \in Pid \union {NoPid} :
          IsAllocated(kernel, n) /\ Becomes(switch_to_next_process(t(c, n)))
    BY DEF Exec
  <1>2. halted = "no" /\ running = p /\ p # Idle
    BY DEF Exec, Runs
  <1>3. /\ Good(kernel, {p}) /\ p \in Pcb /\ p \in live /\ shell_id[p] \in Terminal
        /\ pid[p] \in Pid \union {NoPid}
    <2>1. {running} \ {Idle} = {p}
      BY <1>2
    <2> QED BY <1>2, <2>1, Entry, KernelFields DEF Good, Typed
  <1>4. n \in Pid \ pids
    BY <1>1, <1>3, FreePid, KernelFields DEF Good
  <1>5. /\ Good(s, {}) /\ s.live = live /\ s.pids = pids /\ s.pid = pid
        /\ s.ppid = ppid /\ s.bproc = bproc
        /\ \A a, b : Ahead(ready, a, b) => Ahead(s.ready, a, b)
    <2>1. Good(s, {p} \ {p}) /\ OnlyMoves(kernel, s)
      BY <1>3, ReadyGood
    <2>2. s.bproc = bproc /\ \A a, b : Ahead(ready, a, b) => Ahead(s.ready, a, b)
      BY <1>3, ReadyLeaves, AheadReady, KernelFields DEF Good
    <2>3. {p} \ {p} = {}
      OBVIOUS
    <2> QED BY <2>1, <2>2, <2>3, KernelFields DEF OnlyMoves
  <1>6. Kin(s)
    BY <1>5, KernelFields DEF Kin, NotOwnParent
  <1> HIDE DEF s
  <1>7. /\ Kin(created(c, n)) /\ created(c, n).live = live \union {c}
        /\ created(c, n).bproc = bproc /\ created(c, n).ready = s.ready
    <2>1. /\ p \in s.live /\ c \in Pcb \ s.live /\ n \in Pid \ s.pids
          /\ created(c, n) = create_process(s, c, n, s.pid[p], shell_id[p])
      BY <1>3, <1>4, <1>5
    <2> HIDE DEF created
    <2>2. /\ Kin(created(c, n)) /\ created(c, n).live = s.live \union {c}
          /\ created(c, n).bproc = s.bproc /\ created(c, n).ready = s.ready
      BY <1>5, <1>6, <2>1, BirthKeepsKin
    <2> QED BY <1>5, <2>2
  <1>8. Good(created(c, n), {c}) /\ c \in Pcb
    <2>1. Good(created(c, n), {} \union {c})
      BY <1>3, <1>4, <1>5, CreateGood
    <2>2. {} \union {c} = {c}
      OBVIOUS
    <2> QED BY <2>1, <2>2
  <1> HIDE DEF created
  <1>9. Good(t(c, n), {})
    <2>1. Good(t(c, n), {c} \ {c})
      BY <1>8, ReadyGood
    <2>2. {c} \ {c} = {}
      OBVIOUS
    <2> QED BY <2>1, <2>2
  <1>10. SameProcesses(created(c, n), t(c, n)) /\ t(c, n).bproc = bproc
         /\ \A a, b : Ahead(ready, a, b) => Ahead(t(c, n).ready, a, b)
    BY <1>5, <1>7, <1>8, ReadyLeaves, AheadReady DEF Good
  <1> HIDE DEF t
  <1>11. /\ live' = t(c, n).live /\ pid' = t(c, n).pid /\ ppid' = t(c, n).ppid
         /\ bproc' = t(c, n).bproc /\ InOrder(t(c, n).ready)
    BY <1>1, <1>9, SwitchLeaves, SwitchInOrder, BecomesFields DEF SameProcesses
  <1>12. NothingEnds
    BY <1>7, <1>10, <1>11 DEF SameProcesses, NothingEnds
  <1>13. NotOwnParent'
    BY <1>7, <1>10, <1>11 DEF SameProcesses, NotOwnParent, Kin, kernel
  <1>14. InOrder(ready)
    BY <1>10, <1>11 DEF InOrder
  <1> QED BY <1>12, <1>13, <1>14

\* fork adds a process, then makes both ready.
LEMMA ForkBirth ==
  ASSUME IInv, NotOwnParent, NEW p, Fork(p)
  PROVE  NothingEnds /\ NotOwnParent' /\ InOrder(ready)
  <1> DEFINE created(c, n) == create_process(kernel, c, n, pid[p], shell_id[p])
             parent(c, n) == set_process_as_ready(created(c, n), p)
             t(c, n) == set_process_as_ready(parent(c, n), c)
  <1>1. PICK c \in Pcb \ live, n \in Pid \union {NoPid} :
          IsAllocated(kernel, n) /\ Becomes(switch_to_next_process(t(c, n)))
    BY DEF Fork
  <1>2. halted = "no" /\ running = p /\ p # Idle
    BY DEF Fork, Runs
  <1>3. /\ Good(kernel, {p}) /\ p \in Pcb /\ p \in live /\ shell_id[p] \in Terminal
        /\ pid[p] \in Pid \union {NoPid}
    <2>1. {running} \ {Idle} = {p}
      BY <1>2
    <2> QED BY <1>2, <2>1, Entry, KernelFields DEF Good, Typed
  <1>4. n \in Pid \ pids
    BY <1>1, <1>3, FreePid, KernelFields DEF Good
  <1>5. /\ Kin(created(c, n)) /\ created(c, n).live = live \union {c}
        /\ created(c, n).bproc = bproc /\ created(c, n).ready = ready
    <2>1. Kin(kernel) /\ p \in kernel.live /\ c \in Pcb \ kernel.live /\ n \in Pid \ kernel.pids
      BY <1>3, <1>4, KernelFields DEF NotOwnParent
    <2>2. created(c, n) = create_process(kernel, c, n, kernel.pid[p], shell_id[p])
      BY KernelFields
    <2> HIDE DEF created
    <2>3. /\ Kin(created(c, n)) /\ created(c, n).live = kernel.live \union {c}
          /\ created(c, n).bproc = kernel.bproc /\ created(c, n).ready = kernel.ready
      <3>1. PICK u, L : u = kernel /\ L = {p}
        OBVIOUS
      <3>2. Good(u, L) /\ Kin(u) /\ p \in u.live /\ c \in Pcb \ u.live /\ n \in Pid \ u.pids
        BY <1>3, <2>1, <3>1
      <3>3. created(c, n) = create_process(u, c, n, u.pid[p], shell_id[p])
        BY <2>2, <3>1
      <3>4. /\ Kin(created(c, n)) /\ created(c, n).live = u.live \union {c}
            /\ created(c, n).bproc = u.bproc /\ created(c, n).ready = u.ready
        BY <3>2, <3>3, BirthKeepsKin
      <3> QED BY <3>1, <3>4
    <2> QED BY <2>3, KernelFields
  <1>6. Good(created(c, n), {p} \union {c})
    BY <1>3, <1>4, CreateGood, KernelFields
  <1> HIDE DEF created
  <1>7. Good(parent(c, n), {c}) /\ c \in Pcb
    <2>1. Good(parent(c, n), ({p} \union {c}) \ {p})
      BY <1>3, <1>6, ReadyGood
    <2>2. ({p} \union {c}) \ {p} = {c}
      BY <1>3
    <2> QED BY <2>1, <2>2
  <1>8. SameProcesses(created(c, n), parent(c, n)) /\ parent(c, n).bproc = bproc
        /\ \A a, b : Ahead(ready, a, b) => Ahead(parent(c, n).ready, a, b)
    BY <1>5, <1>6, ReadyLeaves, AheadReady DEF Good
  <1> HIDE DEF parent
  <1>9. Good(t(c, n), {})
    <2>1. Good(t(c, n), {c} \ {c})
      BY <1>7, ReadyGood
    <2>2. {c} \ {c} = {}
      OBVIOUS
    <2> QED BY <2>1, <2>2
  <1>10. SameProcesses(parent(c, n), t(c, n)) /\ t(c, n).bproc = bproc
         /\ \A a, b : Ahead(ready, a, b) => Ahead(t(c, n).ready, a, b)
    BY <1>7, <1>8, ReadyLeaves, AheadReady DEF Good
  <1> HIDE DEF t
  <1>11. /\ live' = t(c, n).live /\ pid' = t(c, n).pid /\ ppid' = t(c, n).ppid
         /\ bproc' = t(c, n).bproc /\ InOrder(t(c, n).ready)
    BY <1>1, <1>9, SwitchLeaves, SwitchInOrder, BecomesFields DEF SameProcesses
  <1>12. NothingEnds
    BY <1>5, <1>8, <1>10, <1>11 DEF SameProcesses, NothingEnds
  <1>13. NotOwnParent'
    BY <1>5, <1>8, <1>10, <1>11 DEF SameProcesses, NotOwnParent, Kin, kernel
  <1>14. InOrder(ready)
    BY <1>10, <1>11 DEF InOrder
  <1> QED BY <1>12, <1>13, <1>14

\* wait appends the caller to the waiting ones, or is a service.
LEMMA WaitBlocks ==
  ASSUME IInv, NEW p, NEW n, Wait(p, n)
  PROVE  NothingEnds /\ live' = live /\ pid' = pid /\ ppid' = ppid /\ InOrder(ready)
  <1> DEFINE s == block_process_on_another_process(kernel, p)
  <1>1. halted = "no" /\ running = p /\ p # Idle
    BY DEF Wait, Runs
  <1>2. CASE exists_process(kernel, n)
    <2>1. Becomes(switch_to_next_process(s))
      BY <1>2 DEF Wait
    <2>2. Good(kernel, {p}) /\ p \in Pcb
      <3>1. {running} \ {Idle} = {p}
        BY <1>1
      <3> QED BY <1>1, <3>1, Entry
    <2>3. SameProcesses(kernel, s) /\ s.bproc = Append(bproc, p) /\ s.ready = ready
      BY KernelFields DEF block_process_on_another_process, SameProcesses, Field
    <2>4. Good(s, {})
      <3>1. Good(s, {p} \ {p})
        BY <2>2, BlockProcessGood
      <3>2. {p} \ {p} = {}
        OBVIOUS
      <3> QED BY <3>1, <3>2
    <2> HIDE DEF s
    <2>5. live' = s.live /\ pid' = s.pid /\ ppid' = s.ppid /\ bproc' = s.bproc
          /\ InOrder(s.ready)
      BY <2>1, <2>4, SwitchLeaves, SwitchInOrder, BecomesFields DEF SameProcesses
    <2>6. Range(Append(bproc, p)) = Range(bproc) \union {p}
      <3>1. Queue(bproc, Pcb) /\ p \notin Range(bproc)
        BY <2>2, KernelFields DEF Good, Typed, ListsOK, Queued, Queue
      <3> QED BY <2>2, <3>1, AppendQueue
    <2> QED BY <2>3, <2>5, <2>6, KernelFields DEF SameProcesses, NothingEnds
  <1>3. CASE ~exists_process(kernel, n)
    <2>1. PitSwitch
      BY <1>1, <1>3 DEF Wait, PitSwitch
    <2> QED BY <2>1, TickStep
  <1> QED BY <1>2, <1>3

\* read_line does not touch the waiting ones.
LEMMA ReadLineBlocks ==
  ASSUME IInv, NEW p, ReadLine(p)
  PROVE  NothingEnds /\ live' = live /\ pid' = pid /\ ppid' = ppid /\ InOrder(ready)
  <1> DEFINE s == block_process_on_keyboard(kernel, p)
  <1>1. halted = "no" /\ running = p /\ p # Idle /\ Becomes(switch_to_next_process(s))
    BY DEF ReadLine, Runs
  <1>2. Good(kernel, {p}) /\ p \in Pcb
    <2>1. {running} \ {Idle} = {p}
      BY <1>1
    <2> QED BY <1>1, <2>1, Entry
  <1>3. SameProcesses(kernel, s) /\ s.bproc = bproc /\ s.ready = ready
    BY KernelFields DEF block_process_on_keyboard, SameProcesses, Field
  <1>4. Good(s, {})
    <2>1. Good(s, {p} \ {p})
      BY <1>2, BlockKeyboardGood
    <2>2. {p} \ {p} = {}
      OBVIOUS
    <2> QED BY <2>1, <2>2
  <1> HIDE DEF s
  <1>5. live' = s.live /\ pid' = s.pid /\ ppid' = s.ppid /\ bproc' = s.bproc
        /\ InOrder(s.ready)
    BY <1>1, <1>4, SwitchLeaves, SwitchInOrder, BecomesFields DEF SameProcesses
  <1> QED BY <1>3, <1>5, KernelFields DEF SameProcesses, NothingEnds

\* Enter wakes readers, never a waiting process.
LEMMA EnterWakes ==
  ASSUME IInv, Enter
  PROVE  NothingEnds /\ live' = live /\ pid' = pid /\ ppid' = ppid /\ InOrder(ready)
  <1> DEFINE reader == Head(kernel.bkbd)
             woken  == [kernel EXCEPT !.bkbd = Tail(@)]
             t == wake_process_waiting_for_keyboard(kernel)
  <1>1. halted = "no" /\ Becomes(t)
    BY DEF Enter
  <1>2. SameProcesses(kernel, woken) /\ woken.bproc = bproc
    BY KernelFields DEF SameProcesses, Field
  <1>3. LET r == set_process_as_ready(woken, reader)
        IN  SameProcesses(woken, r) /\ r.bproc = woken.bproc
    BY KernelFields DEF set_process_as_ready, SameProcesses, Field
  <1>4. \/ t = kernel \/ t = woken \/ t = set_process_as_ready(woken, reader)
    BY DEF wake_process_waiting_for_keyboard
  <1> HIDE DEF t, woken, reader
  <1>5. SameProcesses(kernel, t) /\ t.bproc = bproc
    BY <1>2, <1>3, <1>4, KernelFields DEF SameProcesses
  <1>6. running' = running /\ Good(kernel, {running} \ {Idle})
    BY <1>1, Entry, WakeKeyboardGood, BecomesFields, KernelFields DEF t, OnlyMoves
  <1>7. InOrder(ready)
    BY <1>1, <1>6, NoDispatch
  <1> QED BY <1>1, <1>5, <1>7, BecomesFields, KernelFields DEF SameProcesses, NothingEnds

\* A terminal switch reorders the waiting ones.
LEMMA TerminalReorders ==
  ASSUME IInv, NEW n \in Terminal, CtrlTerminal(n)
  PROVE  NothingEnds /\ live' = live /\ pid' = pid /\ ppid' = ppid /\ InOrder(ready)
  <1>1. Good(kernel, {running} \ {Idle})
    BY Entry DEF CtrlTerminal
  <1>2. Queue(bproc, Pcb)
    BY <1>1, KernelFields DEF Good, Typed, ListsOK, Queue
  <1>3. Range(bproc') = Range(bproc)
    BY <1>2, ReschedulingQueue DEF CtrlTerminal
  <1>4. InOrder(ready)
    BY NoDispatch DEF CtrlTerminal
  <1> QED BY <1>3, <1>4 DEF CtrlTerminal, NothingEnds

\* exit and the faults kill the process on the CPU after its parent was woken.
LEMMA DiesEnds ==
  ASSUME IInv, NEW p, Dies(p)
  PROVE  /\ p = running /\ DeathOf(p) /\ InOrder(ready)
         /\ \A q \in Range(bproc) : pid[q] = ppid[p] => q \in Range(ready') \union {running'}
  <1> DEFINE s == wake_up_parent_process(kernel, ppid[p])
             t == kill_process(s, p)
  <1>1. halted = "no" /\ running = p /\ p # Idle /\ Becomes(switch_to_next_process(t))
    BY DEF Dies, Runs
  <1>2. Good(kernel, {p}) /\ p \in live
    <2>1. {running} \ {Idle} = {p}
      BY <1>1
    <2> QED BY <1>1, <2>1, Entry
  <1>3. Good(s, {p}) /\ s.live = live /\ s.pid = pid /\ s.ppid = ppid
        /\ s.running = running
    BY <1>2, WakeGood, KernelFields DEF OnlyMoves
  <1>4. /\ \A q \in Range(bproc) \ Range(s.bproc) : pid[q] = ppid[p]
        /\ \A q \in Range(bproc) : pid[q] = ppid[p] => q \in Range(s.ready)
        /\ \A a, b : Ahead(ready, a, b) => Ahead(s.ready, a, b)
    BY <1>2, WakeLeaves, KernelFields
  <1> HIDE DEF s
  <1>5. /\ t.live = s.live \ {p}
        /\ \A q \in t.live : t.pid[q] = s.pid[q] /\ t.ppid[q] = s.ppid[q]
        /\ Range(t.bproc) = Range(s.bproc) \ {p}
        /\ Range(t.ready) = Range(s.ready) \ {p}
        /\ \A a, b : Ahead(s.ready, a, b) /\ a # p /\ b # p => Ahead(t.ready, a, b)
    BY <1>1, <1>2, <1>3, KillLeaves
  <1>6. Good(t, {}) /\ t.running = running
    <2>1. Good(t, {p} \ {p}) /\ t.running = running
      BY <1>1, <1>2, <1>3, KillGood
    <2>2. {p} \ {p} = {}
      OBVIOUS
    <2> QED BY <2>1, <2>2
  <1> HIDE DEF t
  <1>7. /\ live' = t.live /\ pid' = t.pid /\ ppid' = t.ppid /\ bproc' = t.bproc
        /\ Range(t.ready) \ {Idle} \subseteq Range(ready') \union {running'}
    BY <1>1, <1>6, SwitchLeaves, BecomesFields DEF SameProcesses
  <1>8. DeathOf(p)
    BY <1>1, <1>2, <1>3, <1>4, <1>5, <1>7 DEF DeathOf
  <1>9. \A q \in Range(bproc) : q # p /\ q # Idle
    BY <1>2, KernelFields DEF Good, ListsOK, Queued
  <1>10. InOrder(ready)
    BY <1>1, <1>4, <1>5, <1>6, DeathInOrder
  <1> QED BY <1>1, <1>4, <1>5, <1>7, <1>8, <1>9, <1>10

\* An unknown system call kills its caller only.
LEMMA UnknownEnds ==
  ASSUME IInv, NEW p, UnknownSyscall(p)
  PROVE  p = running /\ DeathOf(p) /\ InOrder(ready)
  <1> DEFINE t == kill_process(kernel, p)
  <1>1. halted = "no" /\ running = p /\ p # Idle /\ Becomes(switch_to_next_process(t))
    BY DEF UnknownSyscall, Runs
  <1>2. Good(kernel, {p}) /\ p \in live
    <2>1. {running} \ {Idle} = {p}
      BY <1>1
    <2> QED BY <1>1, <2>1, Entry
  <1>3. /\ t.live = live \ {p}
        /\ \A q \in t.live : t.pid[q] = pid[q] /\ t.ppid[q] = ppid[q]
        /\ Range(t.bproc) = Range(bproc) \ {p}
        /\ Range(t.ready) = Range(ready) \ {p}
        /\ \A a, b : Ahead(ready, a, b) /\ a # p /\ b # p => Ahead(t.ready, a, b)
    BY <1>1, <1>2, KillLeaves, KernelFields
  <1>4. Good(t, {}) /\ t.running = running
    <2>1. Good(t, {p} \ {p}) /\ t.running = running
      BY <1>1, <1>2, KillGood, KernelFields
    <2>2. {p} \ {p} = {}
      OBVIOUS
    <2> QED BY <2>1, <2>2
  <1> HIDE DEF t
  <1>5. live' = t.live /\ pid' = t.pid /\ ppid' = t.ppid /\ bproc' = t.bproc
    BY <1>1, <1>4, SwitchLeaves, BecomesFields DEF SameProcesses
  <1>6. InOrder(ready)
    BY <1>1, <1>3, <1>4, DeathInOrder
  <1> QED BY <1>1, <1>2, <1>3, <1>5, <1>6 DEF DeathOf

\* Ctrl+C kills the latest program of the focused terminal, wherever it is.
LEMMA CtrlCEnds ==
  ASSUME IInv, NotOwnParent, CtrlC
  PROVE  LET victim == latest[focused]
         IN  /\ shell_id[victim] = focused /\ DeathOf(victim) /\ InOrder(ready)
             /\ \A q \in Range(bproc) :
                  pid[q] = ppid[victim] => q \in Range(ready') \union {running'}
  <1> DEFINE victim == latest[focused]
             s == wake_up_parent_process(kernel, ppid[victim])
             killed == kill_process(s, victim)
             t == IF running = victim THEN killed ELSE set_process_as_ready(killed, running)
             L == {running} \ {Idle}
  <1>1. halted = "no" /\ Becomes(switch_to_next_process(t))
        /\ pid[victim] \notin 0..NUMBER_OF_TERMINALS
    BY DEF CtrlC
  <1>2. Good(kernel, L) /\ running \in Pcb
    BY <1>1, Entry
  <1>3. victim \in live \ {Idle} /\ shell_id[victim] = focused
    <2>1. focused \in Terminal /\ 0 \in 0..NUMBER_OF_TERMINALS /\ pid[Idle] = 0
      BY <1>2, KernelFields, SchedulerAssumption DEF Good, Typed, PidsOK
    <2>2. victim # Idle
      BY <1>1, <2>1
    <2> QED BY <1>2, <2>1, <2>2, KernelFields DEF Good, LatestOK
  <1> HIDE DEF victim
  <1>4. Good(s, L) /\ s.live = live /\ s.pid = pid /\ s.ppid = ppid
        /\ s.running = running
    BY <1>2, WakeGood, KernelFields DEF OnlyMoves
  <1>5. /\ \A q \in Range(bproc) \ Range(s.bproc) : pid[q] = ppid[victim]
        /\ \A q \in Range(bproc) : pid[q] = ppid[victim] => q \in Range(s.ready)
        /\ \A a, b : Ahead(ready, a, b) => Ahead(s.ready, a, b)
    BY <1>2, WakeLeaves, KernelFields
  <1> HIDE DEF s
  <1>6. /\ killed.live = s.live \ {victim}
        /\ \A q \in killed.live : killed.pid[q] = s.pid[q] /\ killed.ppid[q] = s.ppid[q]
        /\ Range(killed.bproc) = Range(s.bproc) \ {victim}
        /\ Range(killed.ready) = Range(s.ready) \ {victim}
        /\ \A a, b : Ahead(s.ready, a, b) /\ a # victim /\ b # victim
                    => Ahead(killed.ready, a, b)
    BY <1>3, <1>4, KillLeaves
  <1>7. Good(killed, L \ {victim}) /\ killed.running = running
    BY <1>3, <1>4, KillGood
  <1> HIDE DEF killed
  <1>8. /\ Good(t, {}) /\ SameProcesses(killed, t) /\ t.bproc = killed.bproc
        /\ Range(killed.ready) \subseteq Range(t.ready)
        /\ t.running = running /\ victim \notin Range(t.ready)
        /\ \A a, b : Ahead(killed.ready, a, b) => Ahead(t.ready, a, b)
    <2>1. CASE running = victim
      <3>1. L \ {victim} = {}
        BY <2>1
      <3> QED BY <1>6, <1>7, <2>1, <3>1 DEF SameProcesses
    <2>2. CASE running # victim
      <3>1. running \in (L \ {victim}) \union {Idle} /\ (L \ {victim}) \ {running} = {}
        BY <2>2
      <3> HIDE DEF L
      <3>2. /\ Good(set_process_as_ready(killed, running), (L \ {victim}) \ {running})
            /\ Range(set_process_as_ready(killed, running).ready)
                 = Range(killed.ready) \union {running}
            /\ set_process_as_ready(killed, running).running = running
        BY <1>2, <1>7, <3>1, ReadyGood DEF OnlyMoves
      <3>3. LET r == set_process_as_ready(killed, running)
            IN  SameProcesses(killed, r) /\ r.bproc = killed.bproc
        BY <1>7, ReadyLeaves DEF Good
      <3>4. \A a, b : Ahead(killed.ready, a, b)
                     => Ahead(set_process_as_ready(killed, running).ready, a, b)
        BY <1>7, AheadReady DEF Good
      <3> QED BY <1>6, <2>2, <3>1, <3>2, <3>3, <3>4
    <2> QED BY <2>1, <2>2
  <1> HIDE DEF t
  <1>9. /\ live' = t.live /\ pid' = t.pid /\ ppid' = t.ppid /\ bproc' = t.bproc
        /\ Range(t.ready) \ {Idle} \subseteq Range(ready') \union {running'}
    BY <1>1, <1>8, SwitchLeaves, BecomesFields DEF SameProcesses
  <1>10. DeathOf(victim)
    BY <1>3, <1>4, <1>5, <1>6, <1>8, <1>9 DEF DeathOf, SameProcesses
  <1>11. \A q \in Range(bproc) : q # Idle /\ (pid[q] = ppid[victim] => q # victim)
    <2>1. ppid[victim] # pid[victim]
      BY <1>3, KernelFields DEF NotOwnParent, Kin
    <2> QED BY <1>2, <2>1, KernelFields DEF Good, ListsOK
  <1>12. \A q \in Range(bproc) :
           pid[q] = ppid[victim] => q \in Range(ready') \union {running'}
    BY <1>5, <1>6, <1>8, <1>9, <1>11
  <1>13. InOrder(ready)
    BY <1>1, <1>3, <1>5, <1>6, <1>8, DeathInOrder
  <1> QED BY <1>3, <1>10, <1>12, <1>13 DEF victim

-----------------------------------------------------------------------------
(* Every step is of one of the two kinds *)

\* A death leaves the others' pids and parents alone.
LEMMA KinAfterDeath ==
  ASSUME NotOwnParent, NEW v, DeathOf(v)
  PROVE  NotOwnParent'
  BY DEF NotOwnParent, Kin, DeathOf, kernel

\* Steps without a birth or a death keep every pid and parent.
LEMMA KinUnchanged ==
  ASSUME NotOwnParent, live' = live, pid' = pid, ppid' = ppid
  PROVE  NotOwnParent'
  BY DEF NotOwnParent, Kin, kernel

\* Nobody overtakes, and only the process on the CPU or the focused terminal's program can die.
LEMMA StepKinds ==
  ASSUME IInv, NotOwnParent, [Next]_vars
  PROVE  /\ NotOwnParent'
         /\ NothingEnds \/ \E v : DeathOf(v) /\ (v = running \/ shell_id[v] = focused)
         /\ InOrder(ready) \/ UNCHANGED vars
  <1> DEFINE Killed(v) == /\ DeathOf(v) /\ (v = running \/ shell_id[v] = focused)
                          /\ InOrder(ready)
             Calm == /\ NothingEnds /\ live' = live /\ pid' = pid /\ ppid' = ppid
                     /\ InOrder(ready) \/ UNCHANGED vars
             Goal == /\ NotOwnParent'
                     /\ NothingEnds \/ \E v : DeathOf(v) /\ (v = running \/ shell_id[v] = focused)
                     /\ InOrder(ready) \/ UNCHANGED vars
  <1>1. ASSUME NEW v, Killed(v) PROVE Goal
    BY <1>1, KinAfterDeath
  <1>2. ASSUME Calm PROVE Goal
    BY <1>2, KinUnchanged
  <1>3. ASSUME NEW p \in Pcb, Syscall(p) PROVE Goal
    <2>1. CASE Service(p) \/ ExecUnknown(p)
      <3>1. PitSwitch
        BY <2>1 DEF Service, ExecUnknown, Runs, PitSwitch
      <3> QED BY <3>1, <1>2, TickStep
    <2>2. CASE Exec(p)
      BY <2>2, ExecBirth
    <2>3. CASE Fork(p)
      BY <2>3, ForkBirth
    <2>4. CASE OutOfMemory(p)
      <3>1. Calm
        BY <2>4, NoDispatch DEF OutOfMemory, Runs, NothingEnds
      <3> QED BY <3>1, <1>2
    <2>5. CASE \E n \in Pid : Wait(p, n)
      BY <2>5, <1>2, WaitBlocks
    <2>6. CASE ReadLine(p)
      BY <2>6, <1>2, ReadLineBlocks
    <2>7. CASE Exit(p)
      BY <2>7, <1>1, DiesEnds DEF Exit
    <2>8. CASE UnknownSyscall(p)
      BY <2>8, <1>1, UnknownEnds
    <2> QED BY <1>3, <2>1, <2>2, <2>3, <2>4, <2>5, <2>6, <2>7, <2>8 DEF Syscall
  <1>4. ASSUME NEW p \in Pcb, Fault(p) PROVE Goal
    BY <1>4, <1>1, DiesEnds DEF Fault
  <1>5. CASE PitSwitch
    BY <1>5, <1>2, TickStep
  <1>6. CASE Keyboard
    <2>1. CASE Enter
      BY <2>1, <1>2, EnterWakes
    <2>2. CASE CtrlC
      BY <2>2, <1>1, CtrlCEnds
    <2>3. ASSUME NEW n \in Terminal, CtrlTerminal(n) PROVE Goal
      BY <2>3, <1>2, TerminalReorders
    <2> QED BY <1>6, <2>1, <2>2, <2>3 DEF Keyboard
  <1>7. CASE UNCHANGED vars
    <2>1. Calm
      BY <1>7 DEF vars, NothingEnds
    <2> QED BY <2>1, <1>2
  <1> QED BY <1>3, <1>4, <1>5, <1>6, <1>7 DEF Next, Stopped

\* The shells are children of idle, whose pid none of them has.
LEMMA InitKin == Init => NotOwnParent
  <1> SUFFICES ASSUME Init PROVE NotOwnParent
    OBVIOUS
  <1> DEFINE i == init_process_scheduler
             s == switch_to_next_process(i)
  <1>1. SameProcesses(i, s)
    BY InitGood, SwitchLeaves
  <1>2. kernel.live = s.live /\ kernel.pid = s.pid /\ kernel.ppid = s.ppid
    BY KernelFields DEF Init
  <1>3. \A p \in i.live \ {Idle} : i.ppid[p] = 0 /\ i.pid[p] \in Terminal
    <2> SUFFICES ASSUME NEW p \in i.live \ {Idle} PROVE i.ppid[p] = 0 /\ i.pid[p] \in Terminal
      OBVIOUS
    <2>1. p \in Range(Shell) /\ p # Idle
      BY DEF init_process_scheduler
    <2>2. PICK t \in Terminal : Shell[t] = p
      BY <2>1, SchedulerAssumption DEF Range
    <2>3. p \in Pcb /\ TerminalOf(p) \in Terminal
      BY <2>2, SchedulerAssumption DEF TerminalOf
    <2> QED BY <2>1, <2>3 DEF init_process_scheduler
  <1> HIDE DEF i, s
  <1>4. 0 \notin Terminal
    BY DEF Terminal
  <1> QED BY <1>1, <1>2, <1>3, <1>4 DEF SameProcesses, NotOwnParent, Kin

\* The invariant the theorems rest on.
LEMMA KinInvariance == Spec => [](IInv /\ NotOwnParent)
  <1>1. Init => IInv /\ NotOwnParent
    BY InitIInv, InitKin
  <1>2. IInv /\ NotOwnParent /\ [Next]_vars => (IInv /\ NotOwnParent)'
    BY NextIInv, StepKinds
  <1> QED BY <1>1, <1>2, PTL DEF Spec

-----------------------------------------------------------------------------
(* The theorems *)

\* A program dies on the CPU or by Ctrl+C on the terminal in focus: no handler
\* kills a program of a terminal in the background, or idle.
THEOREM OnlyRunningOrFocusedDies == Spec => DiesRunningOrFocused
  <1>1. IInv /\ NotOwnParent /\ [Next]_vars
        => [\A p \in live \ live' : p = running \/ shell_id[p] = focused]_vars
    <2> SUFFICES ASSUME IInv, NotOwnParent, [Next]_vars, NEW p \in live \ live'
                 PROVE  p = running \/ shell_id[p] = focused
      OBVIOUS
    <2> QED BY StepKinds DEF NothingEnds, DeathOf
  <1> QED BY <1>1, KinInvariance, PTL DEF Spec, DiesRunningOrFocused

\* A process leaves the list of those in wait only when a process whose parent
\* pid is its own dies, or when it dies itself.
THEOREM OnlyDeathEndsWait == Spec => WaitEndsByDeath
  <1>1. IInv /\ NotOwnParent /\ [Next]_vars
        => [\A q \in Range(bproc) \ Range(bproc') :
              q \notin live' \/ \E p \in live \ live' : ppid[p] = pid[q]]_vars
    <2> SUFFICES ASSUME IInv, NotOwnParent, [Next]_vars, NEW q \in Range(bproc) \ Range(bproc')
                 PROVE  q \notin live' \/ \E p \in live \ live' : ppid[p] = pid[q]
      OBVIOUS
    <2> QED BY StepKinds DEF NothingEnds, DeathOf
  <1> QED BY <1>1, KinInvariance, PTL DEF Spec, WaitEndsByDeath

\* exit, a fault and Ctrl+C never leave the dead program's parent in wait: it is
\* ready, or on the CPU already.
THEOREM ParentOfTheDeadRuns == Spec => DeathWakesParent
  <1>1. IInv /\ NotOwnParent /\ [Next]_vars
        => [\A p \in live \ live', q \in Range(bproc) :
              pid[q] = ppid[p] /\ (Exit(p) \/ Fault(p) \/ CtrlC)
              => q \in Range(ready') \union {running'}]_vars
    <2> SUFFICES ASSUME IInv, NotOwnParent,
                        NEW p \in live \ live', NEW q \in Range(bproc),
                        pid[q] = ppid[p], Exit(p) \/ Fault(p) \/ CtrlC
                 PROVE  q \in Range(ready') \union {running'}
      OBVIOUS
    <2>1. CASE Exit(p) \/ Fault(p)
      BY <2>1, DiesEnds DEF Exit, Fault
    <2>2. CASE CtrlC
      <3>1. p = latest[focused]
        BY <2>2, CtrlCEnds DEF DeathOf
      <3> QED BY <2>2, <3>1, CtrlCEnds
    <2> QED BY <2>1, <2>2
  <1> QED BY <1>1, KinInvariance, PTL DEF Spec, DeathWakesParent

\* The ready list is first come, first served: a dispatch never leaves a process
\* ready that stood in front of the one it picks, whoever dies or wakes in the
\* same handler.
THEOREM NobodyOvertakes == Spec => NoOvertaking
  <1>1. IInv /\ NotOwnParent /\ [Next]_vars
        => [\A i, j \in DOMAIN ready :
              i < j /\ running' = ready[j] => ready[i] \notin Range(ready')]_vars
    <2> SUFFICES ASSUME IInv, NotOwnParent, [Next]_vars, ~UNCHANGED vars,
                        NEW i \in DOMAIN ready, NEW j \in DOMAIN ready,
                        i < j, running' = ready[j]
                 PROVE  ready[i] \notin Range(ready')
      OBVIOUS
    <2> QED BY StepKinds DEF InOrder, Ahead
  <1> QED BY <1>1, KinInvariance, PTL DEF Spec, NoOvertaking
=============================================================================
