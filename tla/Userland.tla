------------------------------ MODULE Userland ------------------------------
(***************************************************************************)
(* The scheduler composed with the programs that use exec and wait: the    *)
(* shell (userspace/programs/shell.cpp), test_wait.cpp and a program that  *)
(* only computes and calls services.  The kernel does not record what a    *)
(* process waits for, the program does: it holds the pid exec returned.    *)
(***************************************************************************)
EXTENDS Scheduler

CONSTANT Programs   \* what a shell can be told to start: "work", "test_wait"

ASSUME UserlandAssumption == Programs \subseteq {"work", "test_wait"}

VARIABLES
  pc,     \* where each program is
  child   \* the local variable that holds the pid exec returned

uvars == <<vars, pc, child>>

PC == {"none", "idle", "prompt", "command", "shell_wait",
       "work", "test_wait", "test_wait_wait", "test_wait_end"}

UInit ==
  /\ Init
  /\ pc = [p \in Pcb |-> IF p = Idle THEN "idle"
                         ELSE IF p \in Range(Shell) THEN "prompt" ELSE "none"]
  /\ child = [p \in Pcb |-> 0]

\* p moves on from its call to next, and every dead PCB is cleared.
Continue(p, next) ==
  /\ pc' = [q \in Pcb |-> IF q \notin live' THEN "none"
                          ELSE IF q = p THEN next ELSE pc[q]]
  /\ child' = [q \in Pcb |-> IF q \notin live' THEN 0 ELSE child[q]]

\* A successful exec of one of programs: the child starts at main, p has its
\* pid.
Start(p, programs, next) ==
  /\ Exec(p)
  /\ \E program \in programs :
       pc' = [q \in Pcb |-> IF q \in live' \ live THEN program
                            ELSE IF q = p THEN next ELSE pc[q]]
  /\ \E c \in live' \ live : child' = [child EXCEPT ![p] = pid'[c]]

-----------------------------------------------------------------------------
(* shell.cpp: read a line, run the command, wait for the program it started. *)

ShellReadsLine(p) == pc[p] = "prompt" /\ ReadLine(p) /\ Continue(p, "command")

ShellRunsProgram(p) == pc[p] = "command" /\ Start(p, Programs, "shell_wait")

ShellUnknownProgram(p) ==
  pc[p] = "command" /\ ExecUnknown(p) /\ Continue(p, "prompt")

ShellBuiltin(p) == pc[p] = "command" /\ Service(p) /\ Continue(p, "prompt")

ShellWaits(p) ==
  pc[p] = "shell_wait" /\ Wait(p, child[p]) /\ Continue(p, "prompt")

ShellExits(p) == pc[p] = "command" /\ Exit(p) /\ Continue(p, "none")

(* test_wait.cpp: start test_malloc.exe, wait for it, print END. *)

TestWaitStarts(p) ==
  pc[p] = "test_wait" /\ Start(p, {"work"}, "test_wait_wait")

TestWaitWaits(p) ==
  pc[p] = "test_wait_wait" /\ Wait(p, child[p]) /\ Continue(p, "test_wait_end")

TestWaitEnds(p) == pc[p] = "test_wait_end" /\ Exit(p) /\ Continue(p, "none")

(* Any other program. *)

Works(p) == pc[p] = "work" /\ Service(p) /\ Continue(p, "work")

\* An exec that finds no memory stops the machine.
RunsOutOfMemory(p) ==
  pc[p] \in {"command", "test_wait"} /\ OutOfMemory(p) /\ Continue(p, pc[p])

WorkEnds(p) == pc[p] = "work" /\ (Exit(p) \/ Fault(p)) /\ Continue(p, "none")

\* The calls that bring a program nearer to its end.
Progress(p) ==
  \/ ShellReadsLine(p) \/ ShellRunsProgram(p) \/ ShellUnknownProgram(p)
  \/ ShellBuiltin(p) \/ ShellWaits(p)
  \/ TestWaitStarts(p) \/ TestWaitWaits(p) \/ TestWaitEnds(p)
  \/ WorkEnds(p) \/ RunsOutOfMemory(p)

\* A tick, a key or the end of the world moves no program.
Interrupt == (PitSwitch \/ Keyboard) /\ Continue(Idle, "idle")

UNext ==
  \/ \E p \in Pcb : Progress(p) \/ Works(p) \/ ShellExits(p)
  \/ Interrupt
  \/ Stopped /\ UNCHANGED <<pc, child>>

USpec == UInit /\ [][UNext]_uvars

\* The timer ticks, and a program that gets the CPU again and again makes its
\* next call again and again: it executes instructions between two ticks.
\* (Whenever a program runs one of Progress is possible, so this is the strong
\* fairness of Progress(p).)
UFairSpec ==
  /\ USpec
  /\ WF_uvars(Interrupt /\ PitSwitch)
  /\ \A p \in Pcb : []<>Runs(p) => []<><<Progress(p)>>_uvars

-----------------------------------------------------------------------------
(* Properties *)

Waits(q) == q \in Range(bproc)

\* The pid q holds is its child's, or by now another process'.
HasItsChild(q) == \E c \in live : pid[c] = child[q] /\ ppid[c] = pid[q]
HasAnothers(q) == \E c \in live : pid[c] = child[q] /\ ppid[c] # pid[q]

\* A process blocked in wait has a child that can end its wait: what the
\* parent in test_wait.cpp relies on to get to print END.
WaiterHasChild ==
  halted = "no" =>
    \A q \in Pcb : Waits(q) => \E c \in live : ppid[c] = pid[q]

\* A wait for a live child of the caller's own that waits for nobody itself
\* comes to an end: the timer gives the child the CPU until it is done, its
\* death wakes the waiter (or Ctrl+C kills one of the two).
WaitForLiveChildEnds ==
  \A q \in Pcb \ {Idle} :
    /\ Waits(q)
    /\ \E c \in live : pid[c] = child[q] /\ ppid[c] = pid[q] /\ pc[c] = "work"
    ~> ~Waits(q) \/ halted # "no"

\* A wait for a live child ends also when that child waits for a live child of
\* its own, or is about to: each of the two deaths wakes the parent it should
\* (wake_up_parent_process, scheduler.cpp:81).  Excepted is a child in between
\* that waits for a pid which is another process' by then, see WaiterHasChild.
NestedWaitEnds ==
  \A q \in Pcb \ {Idle} :
    /\ Waits(q)
    /\ \E c \in live : /\ pid[c] = child[q] /\ ppid[c] = pid[q]
                       /\ Waits(c) => HasItsChild(c)
    ~> \/ ~Waits(q) \/ halted # "no"
       \/ \E c \in live : /\ pid[c] = child[q] /\ ppid[c] = pid[q]
                          /\ Waits(c) /\ HasAnothers(c)
=============================================================================
