---------------------------- MODULE MCAgentTurns ----------------------------
(* AgentTurns on small instances.                                          *)
EXTENDS AgentTurns, TLC

Symmetry == Permutations(Requests) \cup Permutations(Users) \cup Permutations(Threads)
=============================================================================
