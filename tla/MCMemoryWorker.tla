---------------------------- MODULE MCMemoryWorker ----------------------------
(* An instance of MemoryWorker for TLC.                                     *)
EXTENDS MemoryWorker
=============================================================================
