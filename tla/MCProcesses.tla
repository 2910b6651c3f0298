---------------------------- MODULE MCProcesses -----------------------------
(* Processes on small instances.                                           *)
EXTENDS Processes, TLC

Symmetry == Permutations(Procs) \cup Permutations(Callers)
=============================================================================
