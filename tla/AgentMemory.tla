---------------------------- MODULE AgentMemory ----------------------------
(***************************************************************************)
(* The two copies of a user's MEMORY.md: the file in the workspace, which  *)
(* the agent reads and edits, and the durable one.  AgentRuntime.create of *)
(* agent_api/runtime.py makes what is missing, and invoke copies the file  *)
(* to the durable copy after the graph has finished.  Every write empties  *)
(* its target first: a crash in between leaves it torn.                    *)
(***************************************************************************)

VARIABLES
  file,      \* <workspace>/.agent/MEMORY.md
  durable,   \* <memory_root>/MEMORY.md
  create,    \* where AgentRuntime.create is, under RUNTIME_LOCK
  runtime,   \* the registry has a runtime for the user
  turn,      \* where invoke is; the user has one turn at a time
  edit,      \* a tool's thread is writing the file: of this turn, or of a lost one
  spoilt     \* the only whole copy was removed, or a crash has torn the file

memoryVars == <<file, durable, create, runtime, turn, edit, spoilt>>

Contents == {"absent", "torn", "whole"}

MemoryTypeOK ==
  /\ file \in Contents /\ durable \in Contents
  /\ create \in {"none", "restore", "seed", "second", "keep"}
  /\ runtime \in BOOLEAN /\ spoilt \in BOOLEAN
  /\ turn \in {"none", "invoke", "save"}
  /\ edit \in {"none", "own", "stray"}

MemoryInit ==
  /\ file = "absent" /\ durable = "absent"
  /\ create = "none" /\ runtime = FALSE
  /\ turn = "none" /\ edit = "none"
  /\ spoilt = FALSE

-----------------------------------------------------------------------------
(* AgentRuntime.create *)

\* The durable copy comes back at every start.
RestoreAlways ==
  /\ durable # "absent"
  /\ file' = "torn" /\ create' = "restore"

\* copyfile(durable_memory, memory_file): it opens, and empties, its target.
Restore ==
  /\ file = "absent" /\ durable # "absent"
  /\ file' = "torn" /\ create' = "restore"

Seed ==
  /\ file = "absent" /\ durable = "absent"
  /\ file' = "torn" /\ create' = "seed"

FileFound ==
  /\ file # "absent"
  /\ create' = "second" /\ UNCHANGED file

BeginCreate ==
  /\ create = "none" /\ runtime = FALSE
  /\ Restore \/ Seed \/ FileFound
  /\ UNCHANGED <<durable, runtime, turn, edit, spoilt>>

\* What the copy holds is what its source holds then.
Restored ==
  /\ create = "restore"
  /\ file' = durable /\ create' = "second"
  /\ spoilt' = (spoilt /\ durable # "whole")
  /\ UNCHANGED <<durable, runtime, turn, edit>>

Seeded ==
  /\ create = "seed"
  /\ file' = "whole" /\ create' = "second"
  /\ UNCHANGED <<durable, runtime, turn, edit, spoilt>>

DurableFound ==
  /\ create = "second" /\ durable # "absent"
  /\ create' = "none" /\ runtime' = TRUE
  /\ UNCHANGED <<file, durable, turn, edit, spoilt>>

\* A missing file makes copyfile, and with it the request, fail.
DurableMissing ==
  /\ create = "second" /\ durable = "absent"
  /\ IF file = "absent"
     THEN create' = "none" /\ UNCHANGED durable
     ELSE create' = "keep" /\ durable' = "torn"
  /\ UNCHANGED <<file, runtime, turn, edit, spoilt>>

Kept ==
  /\ create = "keep"
  /\ durable' = file
  /\ create' = "none" /\ runtime' = TRUE
  /\ UNCHANGED <<file, turn, edit, spoilt>>

-----------------------------------------------------------------------------
(* AgentRuntime.invoke *)

Invoke ==
  /\ turn = "none" /\ runtime
  /\ turn' = "invoke"
  /\ UNCHANGED <<file, durable, create, runtime, edit, spoilt>>

\* The agent writes its memory with a tool, in a thread of the pool.
Edit ==
  /\ turn = "invoke" /\ edit = "none"
  /\ file' = "torn" /\ edit' = "own"
  /\ UNCHANGED <<durable, create, runtime, turn, spoilt>>

Edited ==
  /\ edit # "none"
  /\ file' = "whole" /\ edit' = "none" /\ spoilt' = FALSE
  /\ UNCHANGED <<durable, create, runtime, turn>>

\* It moves the file away, or another path over the directory.
Remove ==
  /\ turn = "invoke" /\ edit = "none" /\ file # "absent"
  /\ file' = "absent" /\ spoilt' = (spoilt \/ durable # "whole")
  /\ UNCHANGED <<durable, create, runtime, turn, edit>>

\* The graph has finished: the copy begins, if there is a file.
Save ==
  /\ turn = "invoke" /\ edit # "own" /\ file # "absent"
  /\ durable' = "torn" /\ turn' = "save"
  /\ UNCHANGED <<file, create, runtime, edit, spoilt>>

Saved ==
  /\ turn = "save"
  /\ durable' = file /\ turn' = "none"
  /\ UNCHANGED <<file, create, runtime, edit, spoilt>>

\* The thread of a tool outlives the task that waited for it.
Orphaned == edit' = IF edit = "own" THEN "stray" ELSE edit

\* The graph fails or is cancelled, or there is no file to copy.
NotSaved ==
  /\ turn = "invoke"
  /\ turn' = "none" /\ Orphaned
  /\ UNCHANGED <<file, durable, create, runtime, spoilt>>

\* cancel_user_tasks: on the event loop, so never in the middle of a copy.
DropRuntime ==
  /\ runtime /\ turn # "save"
  /\ runtime' = FALSE /\ turn' = "none" /\ Orphaned
  /\ UNCHANGED <<file, durable, create, spoilt>>

MemoryCrash ==
  /\ runtime' = FALSE
  /\ create' = "none" /\ turn' = "none" /\ edit' = "none"
  /\ spoilt' = (spoilt \/ file = "torn")
  /\ UNCHANGED <<file, durable>>

MemoryNext ==
  \/ BeginCreate \/ Restored \/ Seeded \/ DurableFound \/ DurableMissing \/ Kept
  \/ Invoke \/ Edit \/ Edited \/ Remove \/ Save \/ Saved \/ NotSaved
  \/ DropRuntime \/ MemoryCrash

MemorySpec == MemoryInit /\ [][MemoryNext]_memoryVars

-----------------------------------------------------------------------------
(* Properties.                                                             *)

\* From the first start on some copy of the memory is whole, whatever fails, is
\* cancelled or crashes between two copies or in a restore; unless a tool is
\* writing the file, a crash has hit such a write, or the file was removed while
\* the durable copy was torn.
MemoryOutlivesCrash ==
  spoilt \/ edit # "none" \/ durable = "absent" \/ "whole" \in {file, durable}

-----------------------------------------------------------------------------
(* The inductive invariant.                                                *)

\* One thing at a time: the runtime is made before a turn has it, and whoever
\* has the file open has emptied it.
SharedInv ==
  /\ create # "none" => ~runtime
  /\ ~runtime => turn = "none" /\ edit # "own"
  /\ edit # "none" => file = "torn" /\ create \notin {"restore", "seed"}
  /\ turn = "save" => edit # "own"

\* What is made of what.
SourceInv ==
  /\ create \in {"restore", "seed"} => file = "torn"
  /\ create = "seed" => durable = "absent"
  /\ create = "restore" => durable # "absent"
  /\ create = "keep" \/ turn = "save" => file # "absent" /\ durable = "torn"
  /\ runtime => durable # "absent"

\* The file is torn only while it is written, and gone only while the durable
\* copy can restore it.
FileInv ==
  spoilt \/ /\ file = "torn" => edit # "none" \/ create \in {"restore", "seed"}
            /\ file = "absent" \/ create = "restore" => durable \in {"absent", "whole"}

MemoryInv == MemoryTypeOK /\ SharedInv /\ SourceInv /\ FileInv
=============================================================================
