----------------------------- MODULE Memories -----------------------------
(***************************************************************************)
(* What address spaces give: every process has a private memory.  It       *)
(* starts with its program's image and, when it is forked, with its        *)
(* parent's stack and heap; afterwards only its own writes change it.      *)
(* Beside it there is a common memory, the kernel's heap and file system,  *)
(* that every process reads and writes and no start or end changes.        *)
(***************************************************************************)
CONSTANTS
  Process, Nobody, Program,
  Address,     \* the pages a process may have to itself
  Common,      \* the pages that all of them have
  Own,         \* those of the stack and the heap
  Image,       \* for every program, what its pages with file data hold
  NoProgram, Nothing

VARIABLES
  running,     \* the processes that there are
  program,     \* what each of them runs
  memory,      \* what each private page of each of them holds
  common,      \* what the common pages hold
  requests     \* the creation under way, if there is one

vars == <<running, program, memory, common, requests>>

NoMemory == [a \in Address |-> Nothing]

Init ==
  /\ running = {}
  /\ program = [p \in Process |-> NoProgram]
  /\ memory = [p \in Process |-> NoMemory]
  /\ DOMAIN common = Common
  /\ requests = {}

Request(p, x, parent) ==
  /\ requests = {} /\ p \notin running
  /\ requests' = {[pcb |-> p, program |-> x, parent |-> parent]}
  /\ UNCHANGED <<running, program, memory, common>>

Create(p, x) == Request(p, x, Nobody)

Fork(p, parent) == parent \in running /\ Request(p, program[parent], parent)

\* Pages without file data may hold anything.
Start(r) ==
  LET p == r.pcb
      m == memory'[p]
  IN  /\ r \in requests /\ requests' = {}
      /\ running' = running \union {p}
      /\ program' = [program EXCEPT ![p] = r.program]
      /\ memory' = [memory EXCEPT ![p] = m]
      /\ \A a \in DOMAIN Image[r.program] : m[a] = Image[r.program][a]
      /\ \A a \in Own : m[a] # Nothing
      /\ r.parent # Nobody => \A a \in Own : m[a] = memory[r.parent][a]
      /\ UNCHANGED common

Write(p, a) ==
  /\ requests = {} /\ p \in running
  /\ memory[p][a] # Nothing /\ memory'[p][a] # Nothing
  /\ memory' = [memory EXCEPT ![p][a] = memory'[p][a]]
  /\ UNCHANGED <<running, program, common, requests>>

WriteCommon(p, c) ==
  /\ requests = {} /\ p \in running
  /\ common' = [common EXCEPT ![c] = common'[c]]
  /\ UNCHANGED <<running, program, memory, requests>>

End(p) ==
  /\ requests = {} /\ p \in running
  /\ running' = running \ {p}
  /\ program' = [program EXCEPT ![p] = NoProgram]
  /\ memory' = [memory EXCEPT ![p] = NoMemory]
  /\ UNCHANGED <<common, requests>>

Next ==
  \/ \E p \in Process, x \in Program : Create(p, x)
  \/ \E p, parent \in Process : Fork(p, parent)
  \/ \E r \in requests : Start(r)
  \/ \E p \in Process, a \in Address : Write(p, a)
  \/ \E p \in Process, c \in Common : WriteCommon(p, c)
  \/ \E p \in Process : End(p)

Spec == Init /\ [][Next]_vars
=============================================================================
