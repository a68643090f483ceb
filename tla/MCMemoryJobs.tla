---------------------------- MODULE MCMemoryJobs ----------------------------
(* The instances of MemoryJobs that TLC checks; the .cfg files give the    *)
(* bounds.                                                                 *)
EXTENDS MemoryJobs, TLC

(* Processes differ in nothing but their name.                             *)
Symmetry == Permutations(Processes)
=============================================================================
