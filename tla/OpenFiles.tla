----------------------------- MODULE OpenFiles -----------------------------
(***************************************************************************)
(* Which files are open, and who has opened them: the open flag of a       *)
(* directory entry (kernel/src/fs/vfs.cpp) and the list open_files of      *)
(* every PCB (kernel/src/processes/syscalls.cpp, scheduler.cpp).           *)
(*                                                                         *)
(* The list holds copies of names, is only searched for a name, and loses  *)
(* its entries only as a whole: a set stands for it.  A call is one step.  *)
(***************************************************************************)
CONSTANTS
  File,        \* file names
  SystemFile,  \* the stdout files of the terminals
  Process      \* PCBs

ASSUME SystemFiles == SystemFile \subseteq File

VARIABLES
  entry,      \* what the root directory says of each name
  alive,      \* the processes with a PCB
  open_files  \* for each PCB, the names in its list

vars == <<entry, alive, open_files>>

TypeOK ==
  /\ entry \in [File -> {"absent", "closed", "open"}]
  /\ alive \subseteq Process
  /\ open_files \in [Process -> SUBSET File]

Init ==
  /\ entry \in [File -> {"absent", "closed"}]
  /\ \A f \in SystemFile : entry[f] = "closed"
  /\ alive = {}
  /\ open_files = [p \in Process |-> {}]

---------------------------------------------------------------------------
(* create_process, and the child of a fork: a new, empty list *)
Create(p) ==
  /\ p \notin alive
  /\ alive' = alive \union {p}
  /\ open_files' = [open_files EXCEPT ![p] = {}]
  /\ UNCHANGED entry

(* Without the file, or with the file open already, the call returns 1. *)
Open(p, f) ==
  /\ p \in alive
  /\ entry[f] = "closed"
  /\ entry' = [entry EXCEPT ![f] = "open"]
  /\ open_files' = [open_files EXCEPT ![p] = @ \union {f}]
  /\ UNCHANGED alive

\* Mutant: the other entries are gone.
ClosedAlone(files) == [f \in files |-> "closed"]

(* close_file on each of a set of names *)
Closed(files) ==
  [f \in File |-> IF f \in files /\ entry[f] = "open" THEN "closed" ELSE entry[f]]

(* list_remove_data looks for the caller's pointer, not for the name; the  *)
(* list holds pointers to copies in the kernel heap, so nothing is removed.*)
Close(p, f) ==
  /\ p \in alive /\ f \in open_files[p]
  /\ entry' = Closed({f})
  /\ UNCHANGED <<alive, open_files>>

(* touch, or an append to a name that is absent *)
Touch(f) ==
  /\ entry[f] = "absent"
  /\ entry' = [entry EXCEPT ![f] = "closed"]
  /\ UNCHANGED <<alive, open_files>>

(* rm looks at the system flag and not at the open flag. *)
Rm(f) ==
  /\ f \notin SystemFile /\ entry[f] # "absent"
  /\ entry' = [entry EXCEPT ![f] = "absent"]
  /\ UNCHANGED <<alive, open_files>>

(* A copy deletes its destination, unless that is a system file, and       *)
(* creates it again, unless clusters are short.                            *)
Cp(src, des) ==
  /\ src # des /\ entry[src] # "absent" /\ des \notin SystemFile
  /\ \E e \in {"closed", "absent"} : entry' = [entry EXCEPT ![des] = e]
  /\ UNCHANGED <<alive, open_files>>

(* A stdout file that gets too long is deleted and created again. *)
PrintToStream(f) ==
  /\ f \in SystemFile
  /\ entry' = [entry EXCEPT ![f] = "closed"]
  /\ UNCHANGED <<alive, open_files>>

\* Mutant: the files of a dead process stay as they are.
KillKeepsOpen(p) ==
  /\ p \in alive
  /\ alive' = alive \ {p}
  /\ UNCHANGED <<entry, open_files>>

(* kill_process closes every file of the list. *)
Kill(p) ==
  /\ p \in alive
  /\ alive' = alive \ {p}
  /\ entry' = Closed(open_files[p])
  /\ UNCHANGED open_files

Next ==
  \/ \E p \in Process : Create(p) \/ Kill(p)
  \/ \E p \in Process, f \in File : Open(p, f) \/ Close(p, f)
  \/ \E f \in File : Touch(f) \/ Rm(f) \/ PrintToStream(f)
  \/ \E src, des \in File : Cp(src, des)

Spec == Init /\ [][Next]_vars

---------------------------------------------------------------------------
(* A file that is marked open is in the list of a living process, so that  *)
(* some death can still close it and no file is locked until the next boot *)
(* (open_file, vfs.cpp:853, against kill_process, scheduler.cpp:277).  The  *)
(* converse fails: as names stay listed after a close, a later close or     *)
(* death closes what another process has opened.                           *)
OpenIsHeld == \A f \in File : entry[f] = "open" => \E p \in alive : f \in open_files[p]
=============================================================================
