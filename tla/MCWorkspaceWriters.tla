------------------------- MODULE MCWorkspaceWriters -------------------------
(* WorkspaceWriters with three calls on two names. *)
EXTENDS WorkspaceWriters, TLC

MCSizes == [upload |-> {2}, bytes |-> {1}, text |-> {1, 2}]

Symmetry == Permutations(Jobs) \cup Permutations(Names)
=============================================================================
