------------------------------ MODULE MCParts ------------------------------
(***************************************************************************)
(* The smaller parts of the system, side by side: in every behaviour one   *)
(* part moves, and the others rest in a state in which they owe nothing.   *)
(***************************************************************************)
EXTENDS RedactionContent, ClientSession, Bootstrap, AgentMemory, Migration,
        ContextBudget, TLC

CONSTANTS Users, Threads, Requests, MaxDeactivations, None, ana, bor, a1, a2, b1

VARIABLES
  part,    \* the part that moves
  active, deactivations, info, transcript, remembered, registry, queue, tasks,
  cancelled, loop, req

T == INSTANCE AgentTurns

MCOwner == a1 :> ana @@ a2 :> ana @@ b1 :> bor

Parts == {"redaction", "turns", "client", "start", "memory", "migration", "budget"}

redactionVars == <<vars, contentVars>>
turnVars == <<active, deactivations, info, transcript, remembered, registry,
              queue, tasks, cancelled, loop, req>>

RestingRedaction == single = FALSE
RestingMigration == legacy = [t \in Trees |-> "missing"]
RestingBudget == window = 1 /\ overhead = 1

PartsInit ==
  /\ part \in Parts
  /\ Init /\ ContentInit /\ (part = "redaction" \/ RestingRedaction)
  /\ T!Init
  /\ ClientInit
  /\ IF part = "start" THEN BootInit
     ELSE /\ api = [p \in Apis |-> "up"]
          /\ schema = TRUE /\ account = "admin"
          /\ creator = Nobody /\ starter = Nobody /\ inserter = Nobody
          /\ sharing = {}
          /\ crashes = 0 /\ overlaps = 0 /\ changes = 0
  /\ MemoryInit
  /\ MigrationInit /\ (part = "migration" \/ RestingMigration)
  /\ BudgetInit /\ (part = "budget" \/ RestingBudget)

PartsNext ==
  /\ UNCHANGED part
  /\ \/ /\ part = "redaction" /\ ContentNext
        /\ UNCHANGED <<turnVars, clientVars, bootVars, memoryVars, migrationVars, budgetVars>>
     \/ /\ part = "turns" /\ T!Next
        /\ UNCHANGED <<redactionVars, clientVars, bootVars, memoryVars, migrationVars, budgetVars>>
     \/ /\ part = "client" /\ ClientNext
        /\ UNCHANGED <<redactionVars, turnVars, bootVars, memoryVars, migrationVars, budgetVars>>
     \/ /\ part = "start" /\ BootNext
        /\ UNCHANGED <<redactionVars, turnVars, clientVars, memoryVars, migrationVars, budgetVars>>
     \/ /\ part = "memory" /\ MemoryNext
        /\ UNCHANGED <<redactionVars, turnVars, clientVars, bootVars, migrationVars, budgetVars>>
     \/ /\ part = "migration" /\ MigrationNext
        /\ UNCHANGED <<redactionVars, turnVars, clientVars, bootVars, memoryVars, budgetVars>>
     \/ /\ part = "budget" /\ BudgetNext
        /\ UNCHANGED <<redactionVars, turnVars, clientVars, bootVars, memoryVars, migrationVars>>

\* Nothing that a resting part owes is enabled: its fairness asks for nothing.
PartsSpec ==
  /\ PartsInit /\ [][PartsNext]_<<part, redactionVars, turnVars, clientVars, bootVars,
                                  memoryVars, migrationVars, budgetVars>>
  /\ \A r \in Requests : SF_turnVars(T!Step(r))
  /\ \A u \in Users : WF_turnVars(T!CancelUserTasks(u))
  /\ BootFairness

-----------------------------------------------------------------------------
\* The inductive invariant of every part, types included.
PartsInv ==
  /\ ContentInv /\ ClientInv /\ BootInv /\ MemoryInv
  /\ MigrationInv /\ BudgetInv

\* Every admitted request ends: nobody waits for ever for the user's lock.
EveryRequestEnds == T!EveryRequestEnds
=============================================================================
