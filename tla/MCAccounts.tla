----------------------------- MODULE MCAccounts -----------------------------
(* Accounts on a small instance: the bootstrap administrator and one more  *)
(* account, two requests at a time.                                        *)
EXTENDS Accounts, TLC

Symmetry == Permutations(Requests) \cup Permutations(Sessions)
=============================================================================
