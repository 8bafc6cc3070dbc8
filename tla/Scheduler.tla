----------------------------- MODULE Scheduler -----------------------------
(***************************************************************************)
(* The process scheduler of DELOS 2.0: the four process lists of           *)
(* kernel/src/processes/scheduler.cpp, the pid table of process.cpp, and   *)
(* every interrupt handler that moves a process between the lists: system  *)
(* calls (syscalls.cpp), the timer tick, processor faults (handlers.cpp)   *)
(* and the keyboard shortcuts (keyboard.cpp).                              *)
(*                                                                         *)
(* All handlers are entered through interrupt gates with interrupts        *)
(* disabled and leave through iret, so one handler is one atomic step.  A  *)
(* handler is written as a composition of the functions it calls: each of  *)
(* them maps a record of the kernel's state to the next one.               *)
(***************************************************************************)
EXTENDS Lists, FiniteSets

CONSTANTS
  Pcb,                      \* addresses kmalloc may return for a PCB_t
  Idle,                     \* the PCB of idle.exe
  Shell,                    \* the PCBs of the shells, one per terminal
  NUMBER_OF_TERMINALS,
  MAX_NUMBER_OF_PROCESSES   \* size of the pid table

Terminal == 1..NUMBER_OF_TERMINALS
Pid == 0..(MAX_NUMBER_OF_PROCESSES - 1)

\* UINT_MAX, what allocate_pid returns when the table is full; also the pid
\* of a PCB that is not allocated.
NoPid == MAX_NUMBER_OF_PROCESSES

\* Every process owns 4096 stack and heap frames and more of the 2^20 frames of
\* a 32-bit address space, so fewer than 256 of them exist at a time: memory
\* bounds the PCBs below the size of the pid table.
ASSUME SchedulerAssumption ==
  /\ NUMBER_OF_TERMINALS \in Nat \ {0}
  /\ MAX_NUMBER_OF_PROCESSES \in Nat
  /\ IsFiniteSet(Pcb)
  /\ Cardinality(Pcb) <= MAX_NUMBER_OF_PROCESSES
  /\ NUMBER_OF_TERMINALS < MAX_NUMBER_OF_PROCESSES
  /\ Idle \in Pcb
  /\ Shell \in [Terminal -> Pcb \ {Idle}]
  /\ IsInjective(Shell)

VARIABLES
  live,       \* all_processes
  pids,       \* the slots of pids[] that are taken
  pid, ppid, shell_id, state,   \* fields of every PCB
  ready,      \* ready_processes
  bproc,      \* blocked_on_process_processes
  bkbd,       \* blocked_on_keyboard_processes
  running,    \* running_process
  latest,     \* latest_running_non_idle_process
  focused,    \* focused_terminal
  halted      \* why the machine stands in _panic, "no" while it runs

vars == <<live, pids, pid, ppid, shell_id, state,
          ready, bproc, bkbd, running, latest, focused, halted>>

State == {"FREE", "NEW", "RUNNING", "WAITING", "READY"}

\* The kernel's current state as a record, the argument of the functions below.
kernel ==
  [live |-> live, pids |-> pids, pid |-> pid, ppid |-> ppid,
   shell_id |-> shell_id, state |-> state,
   ready |-> ready, bproc |-> bproc, bkbd |-> bkbd, running |-> running,
   latest |-> latest, focused |-> focused, halted |-> halted]

\* (The bound variable makes TLC compute the new state once.)
Becomes(new) ==
  \E s \in {new} :
    /\ live' = s.live         /\ pids' = s.pids
    /\ pid' = s.pid           /\ ppid' = s.ppid
    /\ shell_id' = s.shell_id /\ state' = s.state
    /\ ready' = s.ready       /\ bproc' = s.bproc
    /\ bkbd' = s.bkbd         /\ running' = s.running
    /\ latest' = s.latest     /\ focused' = s.focused
    /\ halted' = s.halted

-----------------------------------------------------------------------------
(* The functions of scheduler.cpp and process.cpp *)

\* Mutant: a process made ready goes to the front of the list.
ReadyInFront(s, p) ==
  IF p \in Range(s.ready) THEN s
  ELSE [s EXCEPT !.state[p] = "READY", !.ready = Cons(p, @)]

set_process_as_ready(s, p) ==
  IF p \in Range(s.ready) THEN s
  ELSE [s EXCEPT !.state[p] = "READY", !.ready = Append(@, p)]

\* Which process p waits for is not recorded anywhere.
block_process_on_another_process(s, p) ==
  [s EXCEPT !.state[p] = "WAITING", !.bproc = Append(@, p)]

\* Mutant: the state field is left alone.
BlockWithoutState(s, p) == [s EXCEPT !.bkbd = Cons(p, @)]

block_process_on_keyboard(s, p) ==
  [s EXCEPT !.state[p] = "WAITING", !.bkbd = Cons(p, @)]

\* original names the list p has just been taken from.
is_blocked_elsewhere(s, p, original) ==
  \E list \in {"bkbd", "bproc"} \ {original} : p \in Range(s[list])

exists_process(s, n) == \E p \in s.live : s.pid[p] = n

\* Mutant: wakes the process that has waited longest, not the parent.
WakeOldestWaiter(s, parent_pid) ==
  IF s.bproc = <<>> THEN s
  ELSE set_process_as_ready([s EXCEPT !.bproc = Tail(@)], Head(s.bproc))

\* Only a process blocked in wait is woken, whichever pid it waits for.
wake_up_parent_process(s, parent_pid) ==
  LET waiting == {i \in DOMAIN s.bproc : s.pid[s.bproc[i]] = parent_pid}
      parent  == s.bproc[CHOOSE i \in waiting : \A j \in waiting : i <= j]
      woken   == [s EXCEPT !.bproc = RemoveData(@, parent)]
  IN  IF waiting = {} THEN s
      ELSE IF is_blocked_elsewhere(s, parent, "bproc") THEN woken
      ELSE set_process_as_ready(woken, parent)

\* The head of the list is woken, and only if it is the focused terminal's.
wake_process_waiting_for_keyboard(s) ==
  LET reader == Head(s.bkbd)
      woken  == [s EXCEPT !.bkbd = Tail(@)]
  IN  IF s.bkbd = <<>> THEN s
      ELSE IF s.shell_id[reader] # s.focused THEN s
      ELSE IF is_blocked_elsewhere(s, reader, "bkbd") THEN woken
      ELSE set_process_as_ready(woken, reader)

\* allocate_pid: the first free slot, UINT_MAX if there is none.
IsAllocated(s, n) ==
  IF Pid \subseteq s.pids THEN n = NoPid
  ELSE n \in Pid \ s.pids /\ \A m \in Pid \ s.pids : n <= m

\* Mutant: the pid slot is not marked as taken.
CreateWithoutPid(s, p, n, parent_pid, terminal) ==
  [s EXCEPT !.live = @ \union {p}, !.pid[p] = n, !.ppid[p] = parent_pid,
            !.shell_id[p] = terminal, !.state[p] = "NEW"]

create_process(s, p, n, parent_pid, terminal) ==
  [s EXCEPT !.live = @ \union {p}, !.pids = @ \union {n}, !.pid[p] = n,
            !.ppid[p] = parent_pid, !.shell_id[p] = terminal,
            !.state[p] = "NEW"]

\* Mutant: the process stays in the list of those waiting for the keyboard.
KillButStillReading(s, p) ==
  [s EXCEPT !.pids = @ \ {s.pid[p]}, !.live = @ \ {p},
            !.ready = RemoveData(@, p), !.bproc = RemoveData(@, p),
            !.latest[s.shell_id[p]] = Idle, !.pid[p] = NoPid,
            !.ppid[p] = NoPid, !.shell_id[p] = 0, !.state[p] = "FREE"]

\* Mutant: latest_running_non_idle_process keeps the freed PCB.
KillButStillLatest(s, p) ==
  [s EXCEPT !.pids = @ \ {s.pid[p]}, !.live = @ \ {p},
            !.ready = RemoveData(@, p), !.bproc = RemoveData(@, p),
            !.bkbd = RemoveData(@, p), !.pid[p] = NoPid,
            !.ppid[p] = NoPid, !.shell_id[p] = 0, !.state[p] = "FREE"]

\* The fields of the freed PCB are cleared so that dead data is not state.
kill_process(s, p) ==
  [s EXCEPT !.pids = @ \ {s.pid[p]}, !.live = @ \ {p},
            !.ready = RemoveData(@, p), !.bproc = RemoveData(@, p),
            !.bkbd = RemoveData(@, p), !.latest[s.shell_id[p]] = Idle,
            !.pid[p] = NoPid, !.ppid[p] = NoPid, !.shell_id[p] = 0,
            !.state[p] = "FREE"]

\* The entries of idle_process at the front of the ready list, which the loop
\* of switch_to_next_process drops.
LeadingIdle(q) ==
  CHOOSE n \in 0..Len(q) : /\ \A i \in 1..n : q[i] = Idle
                           /\ n = Len(q) \/ q[n + 1] # Idle

\* all_processes->first == all_processes->last
OnlyOne(s) == \A p, q \in s.live : p = q

switch_process(s, p, rest) ==
  [s EXCEPT !.ready = rest, !.running = p, !.state[p] = "RUNNING",
            !.latest = IF p = Idle THEN @
                       ELSE [@ EXCEPT ![s.shell_id[p]] = p]]

\* Mutant: takes the process that became ready last.
SwitchToLast(s) ==
  LET others == RemoveData(s.ready, Idle)
  IN  IF OnlyOne(s) THEN [s EXCEPT !.halted = "shutdown"]
      ELSE IF others = <<>> THEN switch_process(s, Idle, <<>>)
      ELSE switch_process(s, Last(others), Front(others))

switch_to_next_process(s) ==
  LET n == LeadingIdle(s.ready)
  IN  IF OnlyOne(s) THEN [s EXCEPT !.halted = "shutdown"]
      ELSE IF n = Len(s.ready) THEN switch_process(s, Idle, <<>>)
      ELSE switch_process(s, s.ready[n + 1],
                          SubSeq(s.ready, n + 2, Len(s.ready)))

-----------------------------------------------------------------------------
(* init_process_scheduler: idle gets pid 0, the shells 1 .. N; terminal 1's   *)
(* shell is made ready last.  The kernel then switches to the first process. *)

TerminalOf(p) == CHOOSE t \in Terminal : Shell[t] = p

init_process_scheduler ==
  [live      |-> {Idle} \union Range(Shell),
   pids      |-> 0..NUMBER_OF_TERMINALS,
   pid       |-> [p \in Pcb |-> IF p = Idle THEN 0
                                ELSE IF p \in Range(Shell) THEN TerminalOf(p)
                                ELSE NoPid],
   ppid      |-> [p \in Pcb |-> IF p \in {Idle} \union Range(Shell) THEN 0
                                ELSE NoPid],
   shell_id  |-> [p \in Pcb |-> IF p \in Range(Shell) THEN TerminalOf(p) ELSE 0],
   state     |-> [p \in Pcb |-> IF p = Idle THEN "WAITING"
                                ELSE IF p \in Range(Shell) THEN "READY"
                                ELSE "FREE"],
   ready     |-> Append(Tail(Shell), Head(Shell)),
   bproc     |-> <<>>,
   bkbd      |-> <<>>,
   running   |-> Idle,
   latest    |-> Shell,
   focused   |-> 1,
   halted    |-> "no"]

Init ==
  \E s \in {switch_to_next_process(init_process_scheduler)} :
    /\ live = s.live         /\ pids = s.pids
    /\ pid = s.pid           /\ ppid = s.ppid
    /\ shell_id = s.shell_id /\ state = s.state
    /\ ready = s.ready       /\ bproc = s.bproc
    /\ bkbd = s.bkbd         /\ running = s.running
    /\ latest = s.latest     /\ focused = s.focused
    /\ halted = s.halted

-----------------------------------------------------------------------------
(* Interrupt handlers *)

\* A user program is on the CPU; idle.exe makes no calls and cannot fault.
Runs(p) == halted = "no" /\ running = p /\ p # Idle

\* int0x20_handler, every TICKS_FOR_TASK_SWITCH-th tick.
PitSwitch ==
  /\ halted = "no"
  /\ Becomes(switch_to_next_process(set_process_as_ready(kernel, running)))

\* The system calls that serve the caller and make it ready again.
Service(p) ==
  /\ Runs(p)
  /\ Becomes(switch_to_next_process(set_process_as_ready(kernel, p)))

\* sys_call_exec of a known program: the caller is made ready before the child.
Exec(p) ==
  /\ Runs(p)
  /\ \E c \in Pcb \ live, n \in Pid \union {NoPid} :
       LET caller  == set_process_as_ready(kernel, p)
           created == create_process(caller, c, n, pid[p], shell_id[p])
       IN  /\ IsAllocated(kernel, n)
           /\ Becomes(switch_to_next_process(set_process_as_ready(created, c)))

\* sys_call_exec of a name get_program does not know.
ExecUnknown(p) ==
  /\ Runs(p)
  /\ Becomes(switch_to_next_process(set_process_as_ready(kernel, p)))

\* sys_call_fork: the child exists before either of the two is made ready.
Fork(p) ==
  /\ Runs(p)
  /\ \E c \in Pcb \ live, n \in Pid \union {NoPid} :
       LET created == create_process(kernel, c, n, pid[p], shell_id[p])
           parent  == set_process_as_ready(created, p)
       IN  /\ IsAllocated(kernel, n)
           /\ Becomes(switch_to_next_process(set_process_as_ready(parent, c)))

\* exec or fork when no frame is left: allocate_frame stops the machine.
OutOfMemory(p) ==
  /\ Runs(p)
  /\ halted' = "memory"
  /\ UNCHANGED <<live, pids, pid, ppid, shell_id, state,
                 ready, bproc, bkbd, running, latest, focused>>

\* sys_call_wait for pid n
Wait(p, n) ==
  /\ Runs(p)
  /\ Becomes(switch_to_next_process(
       IF exists_process(kernel, n)
       THEN block_process_on_another_process(kernel, p)
       ELSE set_process_as_ready(kernel, p)))

\* sys_call_read_line
ReadLine(p) ==
  /\ Runs(p)
  /\ Becomes(switch_to_next_process(block_process_on_keyboard(kernel, p)))

\* Mutant: the parent is not woken.
DiesSilently(p) ==
  /\ Runs(p)
  /\ Becomes(switch_to_next_process(kill_process(kernel, p)))

\* What sys_call_exit and the fault handlers do to the process on the CPU.
Dies(p) ==
  /\ Runs(p)
  /\ Becomes(switch_to_next_process(
       kill_process(wake_up_parent_process(kernel, ppid[p]), p)))

Exit(p) == Dies(p)

\* kill_running_process, of the exceptions that have a handler.
Fault(p) == Dies(p)

\* The default branch of sys_callback: the parent is not woken.
UnknownSyscall(p) ==
  /\ Runs(p)
  /\ Becomes(switch_to_next_process(kill_process(kernel, p)))

\* The Enter key: the handler returns to the interrupted process.
Enter ==
  /\ halted = "no"
  /\ Becomes(wake_process_waiting_for_keyboard(kernel))

\* Mutant: looks up the terminal with a 0-based number.
AbortOnNextTerminal ==
  LET victim == latest[(focused % NUMBER_OF_TERMINALS) + 1]
      killed == kill_process(wake_up_parent_process(kernel, ppid[victim]), victim)
  IN  /\ halted = "no"
      /\ pid[victim] \notin 0..NUMBER_OF_TERMINALS
      /\ Becomes(switch_to_next_process(
            IF running = victim THEN killed
            ELSE set_process_as_ready(killed, running)))

\* abort_current_cmd.  Without a victim it only clears the input line.  The
\* interrupted process goes back to the ready list unless it is the victim.
CtrlC ==
  LET victim == latest[focused]
      killed == kill_process(wake_up_parent_process(kernel, ppid[victim]), victim)
  IN  /\ halted = "no"
      /\ pid[victim] \notin 0..NUMBER_OF_TERMINALS
      /\ Becomes(switch_to_next_process(
            IF running = victim THEN killed
            ELSE set_process_as_ready(killed, running)))

OfTerminal(n) == {p \in Pcb : shell_id[p] = n}

\* Mutant: stores the 0-based number of the terminal.
FocusOffByOne(n) ==
  /\ halted = "no"
  /\ exists_process(kernel, n)
  /\ focused' = n - 1
  /\ bkbd' \in Reschedulings(bkbd, OfTerminal(n))
  /\ bproc' \in Reschedulings(bproc, OfTerminal(n))
  /\ UNCHANGED <<live, pids, pid, ppid, shell_id, state,
                 ready, running, latest, halted>>

\* switch_to_terminal(n), ignored when no process has pid n.
CtrlTerminal(n) ==
  /\ halted = "no"
  /\ exists_process(kernel, n)
  /\ focused' = n
  /\ bkbd' \in Reschedulings(bkbd, OfTerminal(n))
  /\ bproc' \in Reschedulings(bproc, OfTerminal(n))
  /\ UNCHANGED <<live, pids, pid, ppid, shell_id, state,
                 ready, running, latest, halted>>

\* _panic: interrupts are off and nothing runs any more.
Stopped == halted # "no" /\ UNCHANGED vars

Syscall(p) ==
  \/ Service(p) \/ Exec(p) \/ ExecUnknown(p) \/ Fork(p) \/ OutOfMemory(p)
  \/ (\E n \in Pid : Wait(p, n)) \/ ReadLine(p) \/ Exit(p) \/ UnknownSyscall(p)

Keyboard == Enter \/ CtrlC \/ (\E n \in Terminal : CtrlTerminal(n))

Next ==
  \/ \E p \in Pcb : Syscall(p) \/ Fault(p)
  \/ PitSwitch
  \/ Keyboard
  \/ Stopped

\* The timer keeps ticking: the only fairness the hardware gives.
Spec == Init /\ [][Next]_vars
FairSpec == Spec /\ WF_vars(PitSwitch)

-----------------------------------------------------------------------------
(* Properties *)

\* Type invariant.
TypeOK ==
  /\ live \subseteq Pcb
  /\ pids \subseteq Pid
  /\ pid \in [Pcb -> Pid \union {NoPid}]
  /\ ppid \in [Pcb -> Pid \union {NoPid}]
  /\ shell_id \in [Pcb -> Terminal \union {0}]
  /\ state \in [Pcb -> State]
  /\ ready \in Seq(Pcb) /\ bproc \in Seq(Pcb) /\ bkbd \in Seq(Pcb)
  /\ running \in Pcb
  /\ latest \in [Terminal -> Pcb]
  /\ focused \in Terminal
  /\ halted \in {"no", "shutdown", "memory"}

\* No process is ever lost, listed twice or listed after its PCB was freed:
\* between two handlers every process but idle is on the CPU or in exactly one
\* of the ready and the two blocked lists, once.  The lists hold nothing else
\* (the ready list may also hold idle), although system calls, faults, ticks
\* and Ctrl+C all move processes between them.
NoProcessLost ==
  halted = "no" =>
    /\ IsInjective(ready) /\ IsInjective(bproc) /\ IsInjective(bkbd)
    /\ Range(ready) \intersect Range(bproc) = {}
    /\ Range(ready) \intersect Range(bkbd) = {}
    /\ Range(bproc) \intersect Range(bkbd) = {}
    /\ Idle \notin Range(bproc) \union Range(bkbd)
    /\ running \notin Range(ready) \union Range(bproc) \union Range(bkbd)
    /\ live = {Idle, running} \union Range(ready) \union Range(bproc)
                             \union Range(bkbd)

\* A pid names one process: the taken slots of pids[] are exactly the pids of
\* the existing processes, no two of which share one, although slots are reused
\* as soon as kill_process frees them; allocate_pid never runs out of them.
PidTable ==
  /\ pids = {pid[p] : p \in live}
  /\ \A p, q \in live : pid[p] = pid[q] => p = q
  /\ pid[Idle] = 0 /\ Idle \in live

\* latest_running_non_idle_process[t], which Ctrl+C dereferences and kills, is
\* never a freed PCB and never a process of another terminal.
LatestIsOfItsTerminal ==
  \A t \in Terminal :
    latest[t] # Idle => latest[t] \in live /\ shell_id[latest[t]] = t

\* The state field ps prints agrees with the list the process is in.
StatesAgree ==
  halted = "no" =>
    \A p \in live \ {Idle} :
      state[p] = IF p = running THEN "RUNNING"
                 ELSE IF p \in Range(ready) THEN "READY"
                 ELSE "WAITING"

\* A process dies only on the CPU or, by Ctrl+C, on the focused terminal; a
\* Ctrl+C never reaches idle or a program of a terminal in the background.
DiesRunningOrFocused ==
  [][\A p \in live \ live' : p = running \/ shell_id[p] = focused]_vars

\* When exit, a fault or Ctrl+C ends a program, a parent blocked in
\* wait runs again. An unknown system call is not among them: its path calls
\* kill_process without wake_up_parent_process (syscalls.cpp:386).
DeathWakesParent ==
  [][\A p \in live \ live', q \in Range(bproc) :
       pid[q] = ppid[p] /\ (Exit(p) \/ Fault(p) \/ CtrlC)
       => q \in Range(ready') \union {running'}]_vars

\* A wait ends only when a process created by the waiter's pid dies, or the
\* waiter itself does.
WaitEndsByDeath ==
  [][\A q \in Range(bproc) \ Range(bproc') :
       q \notin live' \/ \E p \in live \ live' : ppid[p] = pid[q]]_vars

\* The ready list is served in order: the process a switch picks leaves no
\* process ready that was in front of it.
NoOvertaking ==
  [][\A i, j \in DOMAIN ready :
       i < j /\ running' = ready[j] => ready[i] \notin Range(ready')]_vars

\* The machine announces the shutdown only when idle is all that is left.
ShutdownWhenOnlyIdle == halted = "shutdown" => live = {Idle}

\* A ready process gets the CPU (or is killed by Ctrl+C before), as long as the
\* timer ticks and the machine has not stopped.
ReadyRuns ==
  \A p \in Pcb \ {Idle} :
    p \in Range(ready) ~> running = p \/ p \notin live \/ halted # "no"
=============================================================================
