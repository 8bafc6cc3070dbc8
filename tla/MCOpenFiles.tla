---------------------------- MODULE MCOpenFiles ----------------------------
(* Symmetry for the open files.                                             *)
EXTENDS OpenFiles, TLC

NameSymmetry == Permutations(File \ SystemFile) \union Permutations(Process)
=============================================================================
