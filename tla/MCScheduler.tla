---------------------------- MODULE MCScheduler ----------------------------
(* Model values for the scheduler: two shells and a PCB more for programs.   *)
EXTENDS Scheduler

CONSTANTS s1, s2, a

TwoShells == <<s1, s2>>
=============================================================================
