-------------------------- MODULE OpenFilesProofs --------------------------
(* Proofs about the open files, for any names and any processes.            *)
EXTENDS OpenFiles, TLAPS

Inv == TypeOK /\ OpenIsHeld

(* At boot no file is open: open_file is called by processes only.          *)
LEMMA InitInv == Init => Inv
<1> SUFFICES ASSUME Init PROVE Inv
  OBVIOUS
<1>1. TypeOK
  BY DEF Init, TypeOK
<1>2. OpenIsHeld
  BY DEF Init, OpenIsHeld
<1> QED
  BY <1>1, <1>2 DEF Inv

(* A call that changes one entry to something else than "open" and leaves   *)
(* the lists alone opens nothing and lets go of nothing: Touch, Rm, Cp and  *)
(* PrintToStream.                                                           *)
LEMMA OneEntry ==
  ASSUME Inv, NEW f \in File, NEW e \in {"absent", "closed"},
         entry' = [entry EXCEPT ![f] = e], UNCHANGED <<alive, open_files>>
  PROVE  Inv'
<1>1. TypeOK'
  BY DEF Inv, TypeOK
<1>2. ASSUME NEW g \in File, entry'[g] = "open"
      PROVE  \E p \in alive' : g \in open_files'[p]
  <2>1. entry[g] = "open"
    BY <1>2 DEF Inv, TypeOK
  <2> QED
    BY <2>1 DEF Inv, OpenIsHeld
<1> QED
  BY <1>1, <1>2 DEF Inv, OpenIsHeld

(* Every call keeps a file that is open in the list of a living process;    *)
(* the case that needs the argument is kill_process, which takes a holder   *)
(* away: what is still open afterwards was not in its list.                 *)
LEMMA NextInv == Inv /\ [Next]_vars => Inv'
<1> SUFFICES ASSUME Inv, [Next]_vars PROVE Inv'
  OBVIOUS
<1>1. ASSUME NEW p \in Process, Create(p) PROVE Inv'
  <2>1. TypeOK'
    BY <1>1 DEF Inv, TypeOK, Create
  <2>2. ASSUME NEW f \in File, entry'[f] = "open"
        PROVE  \E q \in alive' : f \in open_files'[q]
    <3>1. PICK q \in alive : f \in open_files[q]
      BY <1>1, <2>2 DEF Inv, OpenIsHeld, Create
    <3>2. q \in Process /\ q # p
      BY <1>1 DEF Inv, TypeOK, Create
    <3>3. open_files'[q] = open_files[q] /\ q \in alive'
      BY <1>1, <3>2 DEF Inv, TypeOK, Create
    <3> QED
      BY <3>1, <3>3
  <2> QED
    BY <2>1, <2>2 DEF Inv, OpenIsHeld
<1>2. ASSUME NEW p \in Process, Kill(p) PROVE Inv'
  <2>1. TypeOK'
    BY <1>2 DEF Inv, TypeOK, Kill, Closed
  <2>2. ASSUME NEW f \in File, entry'[f] = "open"
        PROVE  \E q \in alive' : f \in open_files'[q]
    <3>1. entry[f] = "open" /\ f \notin open_files[p]
      BY <1>2, <2>2 DEF Kill, Closed
    <3>2. PICK q \in alive : f \in open_files[q]
      BY <3>1 DEF Inv, OpenIsHeld
    <3> QED
      BY <1>2, <3>1, <3>2 DEF Kill
  <2> QED
    BY <2>1, <2>2 DEF Inv, OpenIsHeld
<1>3. ASSUME NEW p \in Process, NEW f \in File, Open(p, f) PROVE Inv'
  <2>1. TypeOK'
    BY <1>3 DEF Inv, TypeOK, Open
  <2>2. ASSUME NEW g \in File, entry'[g] = "open"
        PROVE  \E q \in alive' : g \in open_files'[q]
    <3>1. CASE g = f
      BY <1>3, <3>1 DEF Inv, TypeOK, Open
    <3>2. CASE g # f
      <4>1. PICK q \in alive : g \in open_files[q]
        BY <1>3, <2>2, <3>2 DEF Inv, TypeOK, OpenIsHeld, Open
      <4>2. q \in alive' /\ g \in open_files'[q]
        BY <1>3, <4>1 DEF Inv, TypeOK, Open
      <4> QED
        BY <4>2
    <3> QED
      BY <3>1, <3>2
  <2> QED
    BY <2>1, <2>2 DEF Inv, OpenIsHeld
<1>4. ASSUME NEW p \in Process, NEW f \in File, Close(p, f) PROVE Inv'
  <2>1. TypeOK'
    BY <1>4 DEF Inv, TypeOK, Close, Closed
  <2>2. \A g \in File : entry'[g] = "open" => entry[g] = "open"
    BY <1>4 DEF Close, Closed
  <2> QED
    BY <1>4, <2>1, <2>2 DEF Inv, OpenIsHeld, Close
<1>5. ASSUME NEW f \in File, Touch(f) PROVE Inv'
  BY <1>5, OneEntry DEF Touch
<1>6. ASSUME NEW f \in File, Rm(f) PROVE Inv'
  BY <1>6, OneEntry DEF Rm
<1>7. ASSUME NEW f \in File, PrintToStream(f) PROVE Inv'
  BY <1>7, OneEntry DEF PrintToStream
<1>8. ASSUME NEW src \in File, NEW des \in File, Cp(src, des) PROVE Inv'
  <2>1. PICK e \in {"closed", "absent"} : entry' = [entry EXCEPT ![des] = e]
    BY <1>8 DEF Cp
  <2> QED
    BY <1>8, <2>1, OneEntry DEF Cp
<1>9. CASE UNCHANGED vars
  BY <1>9 DEF Inv, TypeOK, OpenIsHeld, vars
<1> QED
  BY <1>1, <1>2, <1>3, <1>4, <1>5, <1>6, <1>7, <1>8, <1>9 DEF Next

(* The entries, the lists and the history keep their types.                 *)
THEOREM OpenFilesTypeOK == Spec => []TypeOK
<1>1. Inv => TypeOK
  BY DEF Inv
<1> QED
  BY <1>1, InitInv, NextInv, PTL DEF Spec

(* No file stays open after the last process that lists it has died, on any *)
(* interleaving of open, close, rm, cp and deaths: open_file, vfs.cpp:853,  *)
(* against kill_process, scheduler.cpp:277.                                 *)
THEOREM OpenFilesAreHeld == Spec => []OpenIsHeld
<1>1. Inv => OpenIsHeld
  BY DEF Inv
<1> QED
  BY <1>1, InitInv, NextInv, PTL DEF Spec
=============================================================================
