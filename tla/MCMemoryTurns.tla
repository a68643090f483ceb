---------------------------- MODULE MCMemoryTurns ----------------------------
(***************************************************************************)
(* An instance of MemoryTurns for TLC: two processes on one project.       *)
(***************************************************************************)
EXTENDS MemoryTurns, TLC

Symmetric == Permutations(Procs)
=============================================================================
