------------------------------ MODULE Accounts ------------------------------
(***************************************************************************)
(* The accounts, sessions and hand-off codes of shared/auth/repository.py  *)
(* in the PostgreSQL database that every API process shares.               *)
(*                                                                         *)
(* Each AuthRepository method is one READ COMMITTED transaction.  A        *)
(* request r runs it statement by statement: txn[r].at names the statement *)
(* it runs next, and the variables below hold the committed rows.  An      *)
(* uncommitted write is invisible to every other transaction, so a         *)
(* transaction's writes are applied in its Commit; what others do see      *)
(* earlier, the row lock and the advisory lock, are variables.             *)
(***************************************************************************)
EXTENDS Naturals, FiniteSets

CONSTANTS
  Users,       \* the account ids that may ever be created
  Bootstrap,   \* the administrator that initialize() inserts
  Requests,    \* requests that can be in progress at the same time
  Sessions,    \* guids that can be issued (bounds the number of logins)
  Codes,       \* hand-off codes that can be issued
  MaxVersion,  \* bound on the password resets of one account
  None         \* no request (a free lock), no guid, no code

ASSUME UsersAssumption == IsFiniteSet(Users) /\ Bootstrap \in Users
ASSUME NoneAssumption == None \notin Requests \cup Sessions \cup Codes
ASSUME MaxVersionAssumption == MaxVersion \in Nat

VARIABLES
  accounts,    \* rows of app_users
  admins,      \* those with role = 'admin'
  active,      \* those with is_active
  password,    \* password[u]: how often u's password_plain has been replaced
  session,     \* auth_sessions: state, owner and the password that opened it
  handoff,     \* auth_handoffs: state and guid of each code
  exchanged,   \* exchanged[c]: how many consumers code c gave a guid to
  txn,         \* the request in progress in each slot
  rowLock,     \* rowLock[u]: who locked u's row FOR UPDATE or by an UPDATE
  advisory     \* who holds pg_advisory_xact_lock(7721032)

roster == <<accounts, admins, active, password>>
tokens == <<session, handoff, exchanged>>
locks  == <<rowLock, advisory>>
vars   == <<roster, tokens, txn, locks>>

-----------------------------------------------------------------------------

Roles   == {"keep", "user", "admin"}
Actives == {"keep", "off", "on"}

Idle == [at |-> "idle", op |-> "none", user |-> Bootstrap, role |-> "keep",
         is_active |-> "keep", guid |-> None,
         ver |-> 0, victims |-> {}, code |-> None]

Txn == [at : {"idle", "admitted", "advisory", "count", "revoke", "commit",
              "insert", "resolve"},
        op : {"none", "create", "update", "reset", "revoke", "login", "exchange"},
        user : Users, role : Roles, is_active : Actives,
        guid : Sessions \cup {None}, ver : Nat, victims : SUBSET Sessions,
        code : Codes \cup {None}]

TypeOK ==
  /\ accounts \subseteq Users
  /\ admins \subseteq Users
  /\ active \subseteq Users
  /\ password \in [Users -> Nat]
  /\ session \in [Sessions -> [state : {"unissued", "live", "revoked", "expired"},
                               owner : Users, ver : Nat]]
  /\ handoff \in [Codes -> [state : {"unissued", "stored", "lapsed", "gone"},
                            guid : Sessions \cup {None}]]
  /\ exchanged \in [Codes -> Nat]
  /\ txn \in [Requests -> Txn]
  /\ rowLock \in [Users -> Requests \cup {None}]
  /\ advisory \in Requests \cup {None}

Init ==
  /\ accounts = {Bootstrap}
  /\ admins = {Bootstrap}
  /\ active = {Bootstrap}
  /\ password = [u \in Users |-> 0]
  /\ session = [s \in Sessions |-> [state |-> "unissued", owner |-> Bootstrap, ver |-> 0]]
  /\ handoff = [c \in Codes |-> [state |-> "unissued", guid |-> None]]
  /\ exchanged = [c \in Codes |-> 0]
  /\ txn = [r \in Requests |-> Idle]
  /\ rowLock = [u \in Users |-> None]
  /\ advisory = None

ActiveAdmins == admins \cap active

\* resolve_local: the token names a session that is neither revoked nor
\* expired, of an account that is active now.
Resolves(s) == session[s].state = "live" /\ session[s].owner \in active

\* The sessions an UPDATE ... WHERE user_id=%s AND revoked_at IS NULL selects.
Unrevoked(u) == {s \in Sessions : /\ session[s].owner = u
                                  /\ session[s].state \in {"live", "expired"}}

Goto(r, point) == txn' = [txn EXCEPT ![r].at = point]

\* The transaction of r is over, committed or rolled back: both kinds of lock
\* are released with it.
Release(r) ==
  /\ txn' = [txn EXCEPT ![r] = Idle]
  /\ rowLock' = [u \in Users |-> IF rowLock[u] = r THEN None ELSE rowLock[u]]
  /\ advisory' = IF advisory = r THEN None ELSE advisory

Rollback(r) == Release(r) /\ UNCHANGED <<roster, tokens>>

-----------------------------------------------------------------------------
(* authenticate: the SELECT that checks the password, then the INSERT.     *)

LoginSelect(r, u, s) ==
  /\ txn[r].at = "idle"
  /\ u \in active
  /\ session[s].state = "unissued"
  /\ \A q \in Requests : txn[q].op = "login" => txn[q].guid # s
  /\ txn' = [txn EXCEPT ![r] = [Idle EXCEPT !.at = "insert", !.op = "login",
                                            !.user = u, !.guid = s,
                                            !.ver = password[u]]]
  /\ UNCHANGED <<roster, tokens, locks>>

\* What KeyShareFree would be had update_user read the row without FOR UPDATE.
KeyShareOfPlainSelect(u) == TRUE

\* The foreign key auth_sessions.user_id takes FOR KEY SHARE on the user's
\* row: it waits for a FOR UPDATE of update_user, not for the UPDATE of
\* reset_password, which leaves the key alone.
KeyShareFree(u) ==
  \A r \in Requests : rowLock[u] = r => txn[r].op # "update"

LoginInsert(r) ==
  /\ txn[r].at = "insert"
  /\ KeyShareFree(txn[r].user)
  /\ session' = [session EXCEPT ![txn[r].guid] =
                   [state |-> "live", owner |-> txn[r].user, ver |-> txn[r].ver]]
  /\ Release(r)
  /\ UNCHANGED <<roster, handoff, exchanged>>

(* revoke: logout of one session, by its own token.                        *)
Logout(s) ==
  /\ session[s].state \in {"live", "expired"}
  /\ session' = [session EXCEPT ![s].state = "revoked"]
  /\ UNCHANGED <<roster, handoff, exchanged, txn, locks>>

-----------------------------------------------------------------------------
(* The hand-off of a browser login to the GUI: create_handoff, and the two *)
(* transactions of consume_handoff.                                        *)

CreateHandoff(s, c) ==
  /\ session[s].state # "unissued"
  /\ handoff[c].state = "unissued"
  /\ handoff' = [d \in Codes |->
                   IF d = c THEN [state |-> "stored", guid |-> s]
                   ELSE IF handoff[d].state = "lapsed"
                        THEN [handoff[d] EXCEPT !.state = "gone"] ELSE handoff[d]]
  /\ UNCHANGED <<roster, session, exchanged, txn, locks>>

\* A SELECT in place of the DELETE, with the row deleted by a later sweep.
PeekCode(c) == UNCHANGED handoff

\* DELETE ... RETURNING, one statement: a second consumer finds no row.
TakeCode(c) == handoff' = [handoff EXCEPT ![c].state = "gone"]

ConsumeHandoff(r, c) ==
  /\ txn[r].at = "idle"
  /\ handoff[c].state = "stored"
  /\ TakeCode(c)
  /\ txn' = [txn EXCEPT ![r] = [Idle EXCEPT !.at = "resolve", !.op = "exchange",
                                            !.guid = handoff[c].guid, !.code = c]]
  /\ UNCHANGED <<roster, session, exchanged, locks>>

ResolveHandoff(r) ==
  /\ txn[r].at = "resolve"
  /\ exchanged' = IF Resolves(txn[r].guid)
                  THEN [exchanged EXCEPT ![txn[r].code] = @ + 1] ELSE exchanged
  /\ Release(r)
  /\ UNCHANGED <<roster, session, handoff>>

-----------------------------------------------------------------------------
(* The administrator's requests.  require_admin runs in a transaction of   *)
(* its own, before the repository method opens another one.                *)

Admit(r, s, op, u, role, is_active) ==
  /\ txn[r].at = "idle"
  /\ Resolves(s) /\ session[s].owner \in admins
  /\ txn' = [txn EXCEPT ![r] = [Idle EXCEPT !.at = "admitted", !.op = op, !.user = u,
                                            !.role = role, !.is_active = is_active]]
  /\ UNCHANGED <<roster, tokens, locks>>

\* create_user: a fresh id, or a unique violation on the name.
CreateUser(r) ==
  /\ txn[r].at = "admitted" /\ txn[r].op = "create"
  /\ \/ \E u \in Users \ accounts :
          /\ accounts' = accounts \cup {u}
          /\ active' = active \cup {u}
          /\ admins' = IF txn[r].role = "admin" THEN admins \cup {u} ELSE admins
          /\ UNCHANGED password
     \/ UNCHANGED roster
  /\ Release(r)
  /\ UNCHANGED tokens

\* update_user for an id that does not exist, and reset_password and
\* revoke_user_sessions likewise: nothing is written, the answer is 404.
UserNotFound(r) ==
  /\ txn[r].at = "admitted" /\ txn[r].op \in {"update", "reset", "revoke"}
  /\ txn[r].user \notin accounts
  /\ Rollback(r)

\* The sessions revoked whenever the request sets is_active.
AfterGuardOfAnyChange(r) == IF txn[r].is_active # "keep" THEN "revoke" ELSE "commit"

\* The UPDATE of auth_sessions runs only on a deactivation.
AfterGuard(r) == IF txn[r].is_active = "off" THEN "revoke" ELSE "commit"

Demotes(r) == txn[r].role = "user" \/ txn[r].is_active = "off"

\* SELECT role, is_active ... FOR UPDATE: the row read is the row locked, so
\* the guard is decided on values no other transaction can change.
LockUser(r) ==
  /\ txn[r].at = "admitted" /\ txn[r].op = "update"
  /\ txn[r].user \in accounts
  /\ rowLock[txn[r].user] = None
  /\ rowLock' = [rowLock EXCEPT ![txn[r].user] = r]
  /\ Goto(r, IF txn[r].user \in ActiveAdmins /\ Demotes(r)
             THEN "advisory" ELSE AfterGuard(r))
  /\ UNCHANGED <<roster, tokens, advisory>>

\* The count without pg_advisory_xact_lock before it.
CountUnlocked(r) ==
  /\ txn[r].at = "advisory"
  /\ Goto(r, "count")
  /\ UNCHANGED <<roster, tokens, locks>>

LockAdvisory(r) ==
  /\ txn[r].at = "advisory"
  /\ advisory = None
  /\ advisory' = r
  /\ Goto(r, "count")
  /\ UNCHANGED <<roster, tokens, rowLock>>

\* A refusal that closes the transaction but keeps a session-level advisory
\* lock, as pg_advisory_lock would.
RefuseKeepingAdvisory(r) ==
  /\ txn' = [txn EXCEPT ![r] = Idle]
  /\ rowLock' = [u \in Users |-> IF rowLock[u] = r THEN None ELSE rowLock[u]]
  /\ UNCHANGED <<roster, tokens, advisory>>

\* ValueError inside the with block: the connection rolls back.
RefuseLastAdmin(r) == Rollback(r)

CountAdmins(r) ==
  /\ txn[r].at = "count"
  /\ \/ /\ Cardinality(ActiveAdmins) <= 1
        /\ RefuseLastAdmin(r)
     \/ /\ Cardinality(ActiveAdmins) > 1
        /\ Goto(r, AfterGuard(r))
        /\ UNCHANGED <<roster, tokens, locks>>

\* UPDATE app_users SET password_plain: locks the row, not its key.
ResetPassword(r) ==
  /\ txn[r].at = "admitted" /\ txn[r].op = "reset"
  /\ txn[r].user \in accounts
  /\ rowLock[txn[r].user] = None
  /\ rowLock' = [rowLock EXCEPT ![txn[r].user] = r]
  /\ Goto(r, "revoke")
  /\ UNCHANGED <<roster, tokens, advisory>>

\* revoke_user_sessions: SELECT 1 finds the user and locks nothing.
RevokeUserSessions(r) ==
  /\ txn[r].at = "admitted" /\ txn[r].op = "revoke"
  /\ txn[r].user \in accounts
  /\ Goto(r, "revoke")
  /\ UNCHANGED <<roster, tokens, locks>>

\* UPDATE auth_sessions SET revoked_at: the rows its snapshot shows.
RevokeStatement(r) ==
  /\ txn[r].at = "revoke"
  /\ txn' = [txn EXCEPT ![r].at = "commit", ![r].victims = Unrevoked(txn[r].user)]
  /\ UNCHANGED <<roster, tokens, locks>>

Commit(r) ==
  /\ txn[r].at = "commit"
  /\ LET u == txn[r].user IN
       /\ admins' = CASE txn[r].role = "admin" -> admins \cup {u}
                      [] txn[r].role = "user"  -> admins \ {u}
                      [] OTHER                 -> admins
       /\ active' = CASE txn[r].is_active = "on"  -> active \cup {u}
                      [] txn[r].is_active = "off" -> active \ {u}
                      [] OTHER                    -> active
       /\ password' = IF txn[r].op = "reset" THEN [password EXCEPT ![u] = @ + 1]
                      ELSE password
  /\ session' = [s \in Sessions |-> IF s \in txn[r].victims
                                   THEN [session[s] EXCEPT !.state = "revoked"]
                                   ELSE session[s]]
  /\ Release(r)
  /\ UNCHANGED <<accounts, handoff, exchanged>>

-----------------------------------------------------------------------------
(* The environment: time passes, and a connection or its process is lost.  *)

ExpireSession(s) ==
  /\ session[s].state = "live"
  /\ session' = [session EXCEPT ![s].state = "expired"]
  /\ UNCHANGED <<roster, handoff, exchanged, txn, locks>>

LapseHandoff(c) ==
  /\ handoff[c].state = "stored"
  /\ handoff' = [handoff EXCEPT ![c].state = "lapsed"]
  /\ UNCHANGED <<roster, session, exchanged, txn, locks>>

LoseConnection(r) == txn[r].at # "idle" /\ Rollback(r)

\* Inputs.  A reset is asked for at most MaxVersion times per account.
AdminRequest(r, s) ==
  \/ \E role \in {"user", "admin"} :
       Admit(r, s, "create", Bootstrap, role, "keep")
  \/ \E u \in Users, role \in Roles, is_active \in Actives :
       Admit(r, s, "update", u, role, is_active)
  \/ \E u \in Users :
       /\ password[u] + Cardinality({q \in Requests : txn[q].op = "reset"}) < MaxVersion
       /\ Admit(r, s, "reset", u, "keep", "keep")
  \/ \E u \in Users : Admit(r, s, "revoke", u, "keep", "keep")

\* The next statement of the transaction r has open.
Statement(r) ==
  \/ LoginInsert(r)  \/ ResolveHandoff(r) \/ CreateUser(r) \/ UserNotFound(r)
  \/ LockUser(r) \/ LockAdvisory(r) \/ CountAdmins(r) \/ ResetPassword(r)
  \/ RevokeUserSessions(r) \/ RevokeStatement(r) \/ Commit(r)

Next ==
  \/ \E r \in Requests :
       \/ \E u \in Users, s \in Sessions : LoginSelect(r, u, s)
       \/ \E c \in Codes : ConsumeHandoff(r, c)
       \/ \E s \in Sessions : AdminRequest(r, s)
       \/ Statement(r)
       \/ LoseConnection(r)
  \/ \E s \in Sessions : Logout(s) \/ ExpireSession(s)
  \/ \E s \in Sessions, c \in Codes : CreateHandoff(s, c)
  \/ \E c \in Codes : LapseHandoff(c)

Spec == Init /\ [][Next]_vars

\* PostgreSQL queues the waiters of a lock, so a statement that can run again
\* and again does run: strong fairness for each transaction's statements.
FairSpec == Spec /\ \A r \in Requests : SF_vars(Statement(r))

-----------------------------------------------------------------------------
(* Properties.                                                             *)

\* update_user never removes the last active administrator, however many
\* demotions and deactivations run at once: the row it read stays locked, and
\* the advisory lock keeps its count true until it commits.
AtLeastOneActiveAdmin == ActiveAdmins # {}

\* A hand-off code gives a guid to one consumer, however many present it.
HandoffOnce == \A c \in Codes : exchanged[c] <= 1

\* When a deactivation commits, no session of the account is left live: a
\* login that had checked the password before either inserted its session
\* before the row was locked, and it is revoked, or still waits.
DeactivationEndsSessions ==
  [][\A u \in active \ active' : \A s \in Sessions :
       session[s].owner = u => session'[s].state # "live"]_vars

\* No transaction waits for ever on a row lock or on the advisory lock.
EveryTransactionEnds ==
  \A r \in Requests : txn[r].at # "idle" ~> txn[r].at = "idle"

\* The design document says a password reset cancels all local sessions of
\* the user; a login that read the old password before the reset and inserts
\* its session after it keeps a live session of the old password.
ResetEndsOldSessions ==
  \A s \in Sessions : Resolves(s) => session[s].ver = password[session[s].owner]

\* The transactions together are an account store whose calls are atomic, but
\* for a reset or revocation, which ends the sessions its statement has found,
\* and for the exchange of a code, which takes it first.
Sweeping(r) == txn[r].at = "commit" /\ txn[r].op \in {"reset", "revoke"}

Resolving(r, c) == txn[r].at = "resolve" /\ txn[r].code = c

SweepOf(r) ==
  IF Sweeping(r) THEN [state |-> "open", user |-> txn[r].user, found |-> txn[r].victims]
  ELSE [state |-> "none", user |-> Bootstrap, found |-> {}]

Sweeps == [r \in Requests |-> SweepOf(r)]
Taken == {c \in Codes : \E r \in Requests : Resolving(r, c)}

Store == INSTANCE AccountStore WITH sweep <- Sweeps, taken <- Taken
ImplementsAccountStore == Store!Spec

-----------------------------------------------------------------------------
(* The inductive invariant behind the safety properties.                   *)

Locked(r) == txn[r].op = "update" /\ txn[r].at \in {"advisory", "count", "revoke", "commit"}

\* A row lock belongs to a transaction that is past its locking statement, and
\* only update_user carries changes of role or activity.
LockInv ==
  /\ \A r \in Requests : Locked(r) => rowLock[txn[r].user] = r
  /\ \A r \in Requests : txn[r].at \in {"advisory", "count"} => txn[r].op = "update"
  /\ \A r \in Requests : txn[r].at = "count" => advisory = r
  /\ \A r \in Requests : txn[r].at \in {"revoke", "commit"}
                          => txn[r].op \in {"update", "reset", "revoke"}
  /\ \A r \in Requests : txn[r].at \in {"advisory", "count", "revoke", "commit"}
                          => txn[r].user \in accounts
  /\ \A r \in Requests : txn[r].op \in {"reset", "revoke"}
                          => txn[r].role = "keep" /\ txn[r].is_active = "keep"

\* A transaction about to take an active administrator away holds the advisory
\* lock, and another active administrator is left to stay.
GuardInv ==
  \A r \in Requests :
    /\ txn[r].at \in {"advisory", "count"} => txn[r].user \in ActiveAdmins
    /\ /\ txn[r].at \in {"revoke", "commit"}
       /\ Demotes(r) /\ txn[r].user \in ActiveAdmins
       => advisory = r /\ ActiveAdmins \ {txn[r].user} # {}

\* A deactivation about to commit has every unrevoked session of its account
\* among its victims: the row lock keeps new ones out.
VictimsInv ==
  \A r \in Requests :
    txn[r].at = "commit" /\ txn[r].is_active = "off"
      => Unrevoked(txn[r].user) \subseteq txn[r].victims

\* A code that has given a guid, or is about to, is gone for everybody else.
HandoffInv ==
  \A c \in Codes :
    /\ exchanged[c] <= 1
    /\ handoff[c].state # "gone"
         => exchanged[c] = 0 /\ \A r \in Requests : ~Resolving(r, c)
    /\ \A q, r \in Requests :
         Resolving(q, c) /\ Resolving(r, c) => exchanged[c] = 0 /\ q = r

\* A login under way has a guid to itself, which nobody else has been given, and
\* an account with a password that was valid; the codes being exchanged stand for
\* the guids their requests hold.
IssueInv ==
  /\ active \subseteq accounts
  /\ \A r \in Requests : txn[r].op = "login" <=> txn[r].at = "insert"
  /\ \A r \in Requests : txn[r].op = "login" =>
       /\ txn[r].guid \in Sessions /\ session[txn[r].guid].state = "unissued"
       /\ txn[r].user \in accounts /\ txn[r].ver <= password[txn[r].user]
  /\ \A q, r \in Requests :
       txn[q].op = "login" /\ txn[r].op = "login" /\ txn[q].guid = txn[r].guid => q = r
  /\ \A r \in Requests : txn[r].at = "resolve" =>
       txn[r].code \in Codes /\ handoff[txn[r].code].guid = txn[r].guid

\* Only a deactivation, a reset or a revocation has victims, each one a session
\* that was issued to the account.
SweepInv ==
  \A r \in Requests :
    /\ txn[r].op = "update" /\ txn[r].is_active # "off"
         => txn[r].at # "revoke" /\ txn[r].victims = {}
    /\ \A s \in txn[r].victims :
         session[s].owner = txn[r].user /\ session[s].state # "unissued"

InductiveInv ==
  /\ TypeOK /\ LockInv /\ GuardInv /\ VictimsInv /\ HandoffInv /\ IssueInv /\ SweepInv
  /\ AtLeastOneActiveAdmin
=============================================================================
