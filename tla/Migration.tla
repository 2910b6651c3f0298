----------------------------- MODULE Migration -----------------------------
(***************************************************************************)
(* scripts/migrate_legacy_data.py --apply: the shared trees of the old     *)
(* installation are copied, one after the other, to one user.  The         *)
(* operator runs it again after a refusal, a failed copy or a crash, while *)
(* both APIs keep serving the user, who may write where it copies to.      *)
(***************************************************************************)
EXTENDS Naturals

CONSTANTS
  NumTrees,   \* the entries of main, in their order
  Served,     \* the trees whose destination the APIs write to as well
  Names,      \* the files of a legacy tree
  MaxRuns     \* bounds how often the operator runs it

ASSUME MigrationAssumption ==
  /\ NumTrees \in Nat \ {0} /\ MaxRuns \in Nat
  /\ Served \subseteq 1..NumTrees

VARIABLES
  legacy,     \* the source of each tree
  target,     \* the destination of each tree: what it has under each name
  migration,  \* where the script is
  tree,       \* the tree it is at
  waiting,    \* the files of that tree copytree has still to copy
  failed,     \* copytree has collected an error
  runs        \* how often it was run

migrationVars == <<legacy, target, migration, tree, waiting, failed, runs>>

Trees == 1..NumTrees

NoFiles == [n \in Names |-> "absent"]

MigrationTypeOK ==
  /\ legacy \in [Trees -> {"missing", "plain", "linked"}]
  /\ target \in [Trees -> [Names -> {"absent", "torn", "legacy", "own"}]]
  /\ migration \in {"idle", "check", "copy", "succeeded", "refused"}
  /\ tree \in Trees /\ waiting \subseteq Names
  /\ failed \in BOOLEAN /\ runs \in 0..MaxRuns

MigrationInit ==
  /\ legacy \in [Trees -> {"missing", "plain", "linked"}]
  /\ target = [t \in Trees |-> NoFiles]
  /\ migration = "idle" /\ tree = 1 /\ waiting = {}
  /\ failed = FALSE /\ runs = 0

-----------------------------------------------------------------------------
Running == migration \in {"check", "copy"}

Run ==
  /\ ~Running /\ runs < MaxRuns
  /\ migration' = "check" /\ tree' = 1 /\ failed' = FALSE /\ runs' = runs + 1
  /\ UNCHANGED <<legacy, target, waiting>>

\* The loop of main, after one tree.
NextTree ==
  IF tree < NumTrees
  THEN migration' = "check" /\ tree' = tree + 1
  ELSE migration' = "succeeded" /\ UNCHANGED tree

NothingToCopy ==
  /\ migration = "check" /\ legacy[tree] = "missing"
  /\ NextTree
  /\ UNCHANGED <<legacy, target, waiting, failed, runs>>

\* What an earlier run copied counts as copied.
TakenAsCopied ==
  /\ legacy[tree] # "missing" /\ target[tree] # NoFiles
  /\ NextTree

Decline ==
  /\ legacy[tree] # "missing"
  /\ target[tree] # NoFiles \/ legacy[tree] = "linked"
  /\ migration' = "refused" /\ UNCHANGED tree

RefuseTree ==
  /\ migration = "check"
  /\ Decline
  /\ UNCHANGED <<legacy, target, waiting, failed, runs>>

BeginTree ==
  /\ migration = "check"
  /\ legacy[tree] = "plain" /\ target[tree] = NoFiles
  /\ migration' = "copy" /\ waiting' = Names
  /\ UNCHANGED <<legacy, target, tree, failed, runs>>

\* One file after the other, over whatever has its name by now: it is torn while
\* it is copied.  copytree collects an error and goes on with the next file.
CopyFile ==
  /\ migration = "copy"
  /\ \E n \in waiting :
       LET begun == {m \in waiting : target[tree][m] = "torn"} IN
       /\ begun \subseteq {n}
       /\ \/ /\ begun = {}
             /\ target' = [target EXCEPT ![tree][n] = "torn"]
             /\ UNCHANGED <<waiting, failed>>
          \/ /\ begun = {n}
             /\ target' = [target EXCEPT ![tree][n] = "legacy"]
             /\ waiting' = waiting \ {n} /\ UNCHANGED failed
          \/ /\ waiting' = waiting \ {n} /\ failed' = TRUE
             /\ UNCHANGED target
  /\ UNCHANGED <<legacy, migration, tree, runs>>

\* copytree raises the errors it collected once it has tried every file.
EndTree ==
  /\ migration = "copy" /\ waiting = {}
  /\ IF failed THEN migration' = "refused" /\ UNCHANGED tree ELSE NextTree
  /\ UNCHANGED <<legacy, target, waiting, failed, runs>>

ScriptCrash ==
  /\ Running
  /\ migration' = "idle" /\ tree' = 1 /\ waiting' = {}
  /\ UNCHANGED <<legacy, target, failed, runs>>

\* The user writes a file the agent or the workspace API serves, though not at
\* the moment that very file is copied.
UserWrites ==
  /\ \E t \in Served, n \in Names :
       /\ target[t][n] # "own"
       /\ ~(migration = "copy" /\ tree = t /\ target[t][n] = "torn")
       /\ target' = [target EXCEPT ![t][n] = "own"]
  /\ UNCHANGED <<legacy, migration, tree, waiting, failed, runs>>

\* Between two runs the operator reviews a link, or empties a destination.
Repair ==
  /\ ~Running
  /\ \E t \in Trees :
       \/ /\ legacy[t] = "linked"
          /\ legacy' = [legacy EXCEPT ![t] = "plain"]
          /\ UNCHANGED target
       \/ /\ migration # "succeeded" /\ target[t] # NoFiles
          /\ target' = [target EXCEPT ![t] = NoFiles]
          /\ UNCHANGED legacy
  /\ UNCHANGED <<migration, tree, waiting, failed, runs>>

MigrationNext ==
  \/ Run \/ NothingToCopy \/ RefuseTree \/ BeginTree \/ CopyFile \/ EndTree
  \/ ScriptCrash \/ UserWrites \/ Repair

MigrationSpec == MigrationInit /\ [][MigrationNext]_migrationVars

-----------------------------------------------------------------------------
(* Properties.                                                             *)

\* When the script succeeds, every legacy file is whole at its destination, or
\* the user has written its name since, after any number of runs that crashed,
\* failed or were refused before.
SuccessIsWhole ==
  migration = "succeeded" =>
    \A t \in Trees : legacy[t] # "missing" =>
      \A n \in Names : target[t][n] \in {"legacy", "own"}

-----------------------------------------------------------------------------
(* The inductive invariant.                                                *)

Taken(t, n) == target[t][n] \in {"legacy", "own"}

Done(t) == legacy[t] # "missing" => \A n \in Names : Taken(t, n)

\* A run is only as far as the trees before are done, and copytree has done the
\* files it is not to copy any more unless it has collected an error.
ProgressInv ==
  /\ Running => \A t \in 1..(tree - 1) : Done(t)
  /\ migration = "check" => ~failed
  /\ migration = "copy" => failed \/ \A n \in Names \ waiting : Taken(tree, n)

MigrationInv == MigrationTypeOK /\ ProgressInv /\ SuccessIsWhole
=============================================================================
