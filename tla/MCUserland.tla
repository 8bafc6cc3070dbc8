---------------------------- MODULE MCUserland -----------------------------
(* Model values for the scheduler with its programs.                         *)
EXTENDS Userland

CONSTANTS s1, s2, a

TwoShells == <<s1, s2>>
=============================================================================
