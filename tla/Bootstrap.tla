------------------------------ MODULE Bootstrap ------------------------------
(***************************************************************************)
(* The start of the API processes: AuthRepository.initialize in one        *)
(* transaction of PostgreSQL, from the schema of migrations/001_users.sql  *)
(* to the bootstrap administrator, with AUTH_MODE=local.  Both APIs run it *)
(* on one database whenever they start, and Docker starts them again when  *)
(* they fail.                                                              *)
(*                                                                         *)
(* Of PostgreSQL the model has what decides the outcome.  A table that     *)
(* another transaction has created and not committed makes CREATE TABLE    *)
(* IF NOT EXISTS wait and then fail.  CREATE INDEX IF NOT EXISTS locks its *)
(* table SHARE until the end of the transaction even if the index exists,  *)
(* and an INSERT or UPDATE waits for such locks of others.                 *)
(***************************************************************************)
EXTENDS Naturals

CONSTANTS
  Apis,        \* agent-api and workspace-api
  MaxCrashes,  \* bound on the stops from outside
  MaxOverlaps, \* bound on the starts while another process starts
  MaxChanges,  \* bound on what administrators do to the bootstrap account
  Nobody       \* no process

ASSUME NobodyAssumption == Nobody \notin Apis
ASSUME MaxAssumption == {MaxCrashes, MaxOverlaps, MaxChanges} \subseteq Nat

VARIABLES
  api,       \* where each process is
  schema,    \* the tables are committed
  creator,   \* the transaction that has created them and not committed
  sharing,   \* the transactions that hold app_users in SHARE mode
  starter,   \* who holds pg_advisory_xact_lock(7721031)
  inserter,  \* the transaction that has inserted the account, not committed
  account,   \* the committed row of the bootstrap name; an administrator may
             \* be deactivated, "inactive"
  crashes,   \* how often a process has been stopped
  overlaps,  \* how often one has started while another one did
  changes    \* what administrators have done

bootVars == <<api, schema, creator, sharing, starter, inserter, account,
              crashes, overlaps, changes>>

bounds == <<crashes, overlaps, changes>>

Admins == {"admin", "inactive"}

BootTypeOK ==
  /\ api \in [Apis -> {"down", "schema", "collide", "lock", "look", "insert", "commit", "up"}]
  /\ schema \in BOOLEAN
  /\ {creator, starter, inserter} \subseteq Apis \cup {Nobody}
  /\ sharing \subseteq Apis
  /\ account \in Admins \cup {"absent", "user"}
  /\ crashes \in 0..MaxCrashes /\ overlaps \in 0..MaxOverlaps
  /\ changes \in 0..MaxChanges

BootInit ==
  /\ api = [p \in Apis |-> "down"]
  /\ schema = FALSE /\ account = "absent"
  /\ creator = Nobody /\ starter = Nobody /\ inserter = Nobody
  /\ sharing = {}
  /\ crashes = 0 /\ overlaps = 0 /\ changes = 0

-----------------------------------------------------------------------------

Move(p, point) == api' = [api EXCEPT ![p] = point]

Without(p, holder) == IF holder = p THEN Nobody ELSE holder

\* The end of the transaction of p releases what it holds.
Release(p) ==
  /\ creator' = Without(p, creator)
  /\ starter' = Without(p, starter)
  /\ inserter' = Without(p, inserter)
  /\ sharing' = sharing \ {p}

\* Rolled back; the process ends.
Abort(p) ==
  /\ Move(p, "down")
  /\ Release(p)
  /\ UNCHANGED <<schema, account>>

\* The container starts, or starts again.  It does so while another one starts
\* only so often: Docker doubles its delay with each failure.
Boot(p) ==
  /\ api[p] = "down"
  /\ IF \A q \in Apis : api[q] \in {"down", "up"} THEN UNCHANGED overlaps
     ELSE overlaps < MaxOverlaps /\ overlaps' = overlaps + 1
  /\ Move(p, "schema")
  /\ UNCHANGED <<schema, creator, sharing, starter, inserter, account, crashes, changes>>

\* The schema in a transaction of its own, which holds no lock afterwards.
SchemaFoundApart(p) ==
  /\ api[p] = "schema" /\ schema
  /\ inserter = Nobody
  /\ Move(p, "lock")
  /\ UNCHANGED <<schema, creator, sharing, starter, inserter, account, bounds>>

\* The tables are there: the statements for the indexes lock them.
SchemaFound(p) ==
  /\ api[p] = "schema" /\ schema
  /\ inserter = Nobody
  /\ sharing' = sharing \cup {p}
  /\ Move(p, "lock")
  /\ UNCHANGED <<schema, creator, starter, inserter, account, bounds>>

SchemaMade(p) ==
  /\ api[p] = "schema" /\ ~schema /\ creator = Nobody
  /\ creator' = p
  /\ Move(p, "lock")
  /\ UNCHANGED <<schema, sharing, starter, inserter, account, bounds>>

\* Another process is making the tables: wait for the end of its transaction.
SchemaWait(p) ==
  /\ api[p] = "schema" /\ ~schema /\ creator # Nobody
  /\ Move(p, "collide")
  /\ UNCHANGED <<schema, creator, sharing, starter, inserter, account, bounds>>

\* It has committed, so the name is taken; or it has not, and p makes them.
SchemaCollides(p) ==
  /\ api[p] = "collide" /\ schema
  /\ Abort(p)
  /\ UNCHANGED bounds

SchemaFree(p) ==
  /\ api[p] = "collide" /\ ~schema /\ creator = Nobody
  /\ creator' = p
  /\ Move(p, "lock")
  /\ UNCHANGED <<schema, sharing, starter, inserter, account, bounds>>

\* SELECT pg_advisory_xact_lock(7721031)
Lock(p) ==
  /\ api[p] = "lock" /\ starter = Nobody
  /\ starter' = p
  /\ Move(p, "look")
  /\ UNCHANGED <<schema, creator, sharing, inserter, account, bounds>>

\* The account is inserted without a look.
NotFound == "insert"

\* What the SELECT of the account leads to, a non-admin apart.  It reads the
\* role of the row and not whether the account is active.
Found == IF account = "absent" THEN "insert" ELSE "commit"

Look(p) ==
  /\ api[p] = "look" /\ account # "user"
  /\ Move(p, Found)
  /\ UNCHANGED <<schema, creator, sharing, starter, inserter, account, bounds>>

\* RuntimeError: the bootstrap username belongs to a non-admin account.
Refuse(p) ==
  /\ api[p] = "look" /\ account = "user"
  /\ Abort(p)
  /\ UNCHANGED bounds

InsertAdmin(p) ==
  /\ api[p] = "insert" /\ account = "absent" /\ sharing \subseteq {p}
  /\ inserter' = p
  /\ Move(p, "commit")
  /\ UNCHANGED <<schema, creator, sharing, starter, account, bounds>>

\* app_users_username_ci refuses a second row of the name.
InsertRefused(p) ==
  /\ api[p] = "insert" /\ account # "absent" /\ sharing \subseteq {p}
  /\ Abort(p)
  /\ UNCHANGED bounds

\* p has the advisory lock and waits for the table, another has the table and
\* waits for the lock: PostgreSQL ends one of the two transactions.
Deadlock(p) ==
  /\ api[p] \in {"insert", "lock"}
  /\ starter \in Apis /\ api[starter] = "insert"
  /\ \E q \in sharing \ {starter} : api[q] = "lock" /\ p \in {starter, q}
  /\ Abort(p)
  /\ UNCHANGED bounds

\* make_provider returns at once, and the process serves.
Commit(p) ==
  /\ api[p] = "commit"
  /\ account' = IF inserter = p THEN "admin" ELSE account
  /\ schema' = TRUE
  /\ Move(p, "up")
  /\ Release(p)
  /\ UNCHANGED bounds

\* A process is stopped, or its connection is lost while it starts.
Stop(p) ==
  /\ api[p] # "down" /\ crashes < MaxCrashes
  /\ crashes' = crashes + 1
  /\ Abort(p)
  /\ UNCHANGED <<overlaps, changes>>

\* An administrator renames, demotes, deactivates or activates the bootstrap
\* account, or gives its name to an account (create_user, update_user of
\* Accounts); another one is left.
Change(to) ==
  /\ schema /\ changes < MaxChanges
  /\ \E p \in Apis : api[p] = "up"
  /\ sharing = {} /\ inserter = Nobody
  /\ account # to /\ account' = to
  /\ changes' = changes + 1
  /\ UNCHANGED <<api, schema, creator, sharing, starter, inserter,
                 crashes, overlaps>>

Initialize(p) ==
  \/ Boot(p)
  \/ SchemaFound(p) \/ SchemaMade(p) \/ SchemaWait(p)
  \/ SchemaCollides(p) \/ SchemaFree(p)
  \/ Lock(p) \/ Look(p) \/ Refuse(p)
  \/ InsertAdmin(p) \/ InsertRefused(p)
  \/ Commit(p)

BootNext ==
  \/ \E p \in Apis : Initialize(p) \/ Deadlock(p) \/ Stop(p)
  \/ \E to \in Admins \cup {"absent", "user"} : Change(to)

\* A process that can go on does, and PostgreSQL finds every deadlock.
BootFairness ==
  /\ \A p \in Apis : WF_bootVars(Initialize(p))
  /\ WF_bootVars(\E p \in Apis : Deadlock(p))

BootSpec == BootInit /\ [][BootNext]_bootVars /\ BootFairness

-----------------------------------------------------------------------------
(* Properties.                                                             *)

\* When a process starts to serve, the account of the bootstrap name has the role
\* of an administrator, active or not: whatever administrators do to the account
\* meanwhile, what the SELECT has seen still holds at the commit.
ServesWithAdmin ==
  [][(\E p \in Apis : api[p] # "up" /\ api'[p] = "up") => account' \in Admins]_bootVars

\* Only the name of a non-admin keeps an API from coming up for ever: starts
\* that collide, deadlock, fail or are stopped are tried again and succeed.
ComesUp ==
  \A p \in Apis : api[p] = "down" ~> api[p] = "up" \/ account = "user"

-----------------------------------------------------------------------------
(* The inductive invariant.                                                *)

\* Before the tables are committed one transaction has them, and nothing else
\* is in the database.
SchemaInv ==
  /\ schema => creator = Nobody
  /\ ~schema => sharing = {} /\ account = "absent"

\* Who waits for the advisory lock or is beyond it keeps administrators off the
\* account: by its lock on the table, or because nobody else sees the table.
HoldInv ==
  \A p \in Apis :
    api[p] \in {"lock", "look", "insert", "commit"} => p \in sharing \/ creator = p

StarterInv ==
  /\ \A p \in Apis : api[p] \in {"look", "insert", "commit"} => starter = p
  /\ inserter # Nobody => starter = inserter /\ api[inserter] = "commit"

\* What Look has found is still there, or the account is inserted.
SeenInv ==
  \A p \in Apis : api[p] = "commit" => inserter = p \/ account \in Admins

BootInv == BootTypeOK /\ SchemaInv /\ HoldInv /\ StarterInv /\ SeenInv
=============================================================================
