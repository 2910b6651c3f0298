--------------------------- MODULE AccountsProofs ---------------------------
(***************************************************************************)
(* Proofs about Accounts, for every set of accounts, requests, sessions    *)
(* and codes: the inductive invariant, the properties that follow, and     *)
(* that the transactions implement AccountStore.                           *)
(***************************************************************************)
EXTENDS Accounts, FiniteSetTheorems, TLAPS

\* What an open transaction's slot may hold; Idle is one such value.
LEMMA IdleType == Idle \in Txn
BY UsersAssumption DEF Idle, Txn, Roles, Actives

\* An empty table of sessions and idle requests are of their types.
LEMMA InitType == Init => TypeOK
BY IdleType, UsersAssumption DEF Init, TypeOK

\* Ending a transaction, committed or not, keeps the slots and locks well typed.
LEMMA ReleaseType ==
  ASSUME TypeOK, NEW r \in Requests, Release(r)
  PROVE  /\ txn' \in [Requests -> Txn]
         /\ rowLock' \in [Users -> Requests \cup {None}]
         /\ advisory' \in Requests \cup {None}
BY IdleType DEF TypeOK, Release

\* A request that goes on to a point stays a request.
LEMMA GotoType ==
  ASSUME TypeOK, NEW r \in Requests,
         NEW p \in {"count", "advisory", "revoke", "commit"}, Goto(r, p)
  PROVE  txn' \in [Requests -> Txn]
<1>1. txn[r] \in Txn
  BY DEF TypeOK
<1>2. [txn[r] EXCEPT !.at = p] \in Txn
  BY <1>1 DEF Txn
<1>. QED
  BY <1>2 DEF TypeOK, Goto

\* Every statement but the ends of a transaction keeps the types.
LEMMA StatementType ==
  ASSUME TypeOK, NEW r \in Requests, Statement(r)
  PROVE  TypeOK'
<1>. txn[r] \in Txn
  BY DEF TypeOK
<1>1. CASE LoginInsert(r)
  BY <1>1, ReleaseType DEF TypeOK, LoginInsert, Txn, roster
<1>2. CASE ResolveHandoff(r)
  <2>1. ASSUME NEW c PROVE [exchanged EXCEPT ![c] = @ + 1] \in [Codes -> Nat]
    <3>1. CASE c \in Codes
      <4>1. exchanged[c] + 1 \in Nat
        BY <3>1 DEF TypeOK
      <4>. QED
        BY <4>1 DEF TypeOK
    <3>2. CASE c \notin Codes
      BY <3>2 DEF TypeOK
    <3>. QED
      BY <3>1, <3>2
  <2>2. exchanged' \in [Codes -> Nat]
    BY <1>2, <2>1 DEF TypeOK, ResolveHandoff
  <2>. QED
    BY <1>2, <2>2, ReleaseType DEF TypeOK, ResolveHandoff, roster
<1>3. CASE CreateUser(r)
  BY <1>3, ReleaseType DEF TypeOK, CreateUser, roster, tokens
<1>4. CASE UserNotFound(r)
  BY <1>4, ReleaseType DEF TypeOK, UserNotFound, Rollback, roster, tokens
<1>5. CASE LockUser(r)
  BY <1>5, GotoType DEF TypeOK, LockUser, AfterGuard, roster, tokens
<1>6. CASE LockAdvisory(r)
  BY <1>6, GotoType DEF TypeOK, LockAdvisory, roster, tokens
<1>7. CASE CountAdmins(r)
  BY <1>7, GotoType, ReleaseType
     DEF TypeOK, CountAdmins, RefuseLastAdmin, Rollback, AfterGuard, roster, tokens, locks
<1>8. CASE ResetPassword(r)
  BY <1>8, GotoType DEF TypeOK, ResetPassword, roster, tokens
<1>9. CASE RevokeUserSessions(r)
  BY <1>9, GotoType DEF TypeOK, RevokeUserSessions, roster, tokens, locks
<1>10. CASE RevokeStatement(r)
  <2>1. [txn[r] EXCEPT !.at = "commit", !.victims = Unrevoked(txn[r].user)] \in Txn
    BY DEF Txn, Unrevoked
  <2>2. txn' \in [Requests -> Txn]
    BY <1>10, <2>1 DEF TypeOK, RevokeStatement
  <2>. QED
    BY <1>10, <2>2 DEF TypeOK, RevokeStatement, roster, tokens, locks
<1>11. CASE Commit(r)
  <2>1. /\ admins' \subseteq Users /\ active' \subseteq Users
        /\ password' \in [Users -> Nat]
    BY <1>11 DEF TypeOK, Commit, Txn, Roles, Actives
  <2>2. session' \in [Sessions -> [state : {"unissued", "live", "revoked", "expired"},
                                  owner : Users, ver : Nat]]
    BY <1>11 DEF TypeOK, Commit
  <2>. QED
    BY <1>11, <2>1, <2>2, ReleaseType DEF TypeOK, Commit
<1>. QED
  BY <1>1, <1>2, <1>3, <1>4, <1>5, <1>6, <1>7, <1>8, <1>9, <1>10, <1>11 DEF Statement

\* So does every step.
LEMMA TypeStep == TypeOK /\ [Next]_vars => TypeOK'
<1>. SUFFICES ASSUME TypeOK, [Next]_vars PROVE TypeOK'
  OBVIOUS
<1>1. ASSUME NEW r \in Requests, NEW u \in Users, NEW s \in Sessions, LoginSelect(r, u, s)
      PROVE  TypeOK'
  <2>1. [Idle EXCEPT !.at = "insert", !.op = "login", !.user = u, !.guid = s,
                     !.ver = password[u]] \in Txn
    BY IdleType DEF Txn, TypeOK
  <2>. QED
    BY <1>1, <2>1 DEF TypeOK, LoginSelect, roster, tokens, locks
<1>2. ASSUME NEW r \in Requests, NEW c \in Codes, ConsumeHandoff(r, c)
      PROVE  TypeOK'
  <2>1. [Idle EXCEPT !.at = "resolve", !.op = "exchange", !.guid = handoff[c].guid,
                     !.code = c] \in Txn
    BY IdleType DEF Txn, TypeOK
  <2>. QED
    BY <1>2, <2>1 DEF TypeOK, ConsumeHandoff, TakeCode, roster, locks
<1>3. ASSUME NEW r \in Requests, NEW s \in Sessions, AdminRequest(r, s)
      PROVE  TypeOK'
  <2>1. PICK op \in {"create", "update", "reset", "revoke"}, u \in Users,
             role \in Roles, is_active \in Actives : Admit(r, s, op, u, role, is_active)
    BY <1>3, UsersAssumption DEF AdminRequest, Roles, Actives
  <2>2. [Idle EXCEPT !.at = "admitted", !.op = op, !.user = u, !.role = role,
                     !.is_active = is_active] \in Txn
    BY IdleType DEF Txn
  <2>. QED
    BY <2>1, <2>2 DEF TypeOK, Admit, roster, tokens, locks
<1>4. ASSUME NEW r \in Requests, Statement(r)
      PROVE  TypeOK'
  BY <1>4, StatementType
<1>5. ASSUME NEW r \in Requests, LoseConnection(r)
      PROVE  TypeOK'
  BY <1>5, ReleaseType DEF TypeOK, LoseConnection, Rollback, roster, tokens
<1>6. ASSUME NEW s \in Sessions, Logout(s) \/ ExpireSession(s)
      PROVE  TypeOK'
  BY <1>6 DEF TypeOK, Logout, ExpireSession, roster, locks
<1>7. ASSUME NEW s \in Sessions, NEW c \in Codes, CreateHandoff(s, c)
      PROVE  TypeOK'
  BY <1>7 DEF TypeOK, CreateHandoff, roster, locks
<1>8. ASSUME NEW c \in Codes, LapseHandoff(c)
      PROVE  TypeOK'
  BY <1>8 DEF TypeOK, LapseHandoff, roster, locks
<1>9. CASE UNCHANGED vars
  BY <1>9 DEF TypeOK, vars, roster, tokens, locks
<1>. QED
  BY <1>1, <1>2, <1>3, <1>4, <1>5, <1>6, <1>7, <1>8, <1>9 DEF Next

\* Every reachable state is well typed.
THEOREM TypeCorrect == Spec => []TypeOK
<1>. QED
  BY InitType, TypeStep, PTL DEF Spec

-----------------------------------------------------------------------------
(* Locks.                                                                  *)

\* Ending r's transaction leaves every other transaction its locks.
LEMMA ReleaseLocks ==
  ASSUME TypeOK, LockInv, NEW r \in Requests, Release(r), accounts \subseteq accounts'
  PROVE  LockInv'
<1>1. \A q \in Requests : txn'[q] = IF q = r THEN Idle ELSE txn[q]
  BY DEF TypeOK, Release
<1>2. Idle.at = "idle" /\ Idle.op = "none"
  BY DEF Idle
<1>3. \A q \in Requests \ {r}, u \in Users : rowLock[u] = q => rowLock'[u] = q
  BY DEF TypeOK, Release
<1>4. \A q \in Requests \ {r} : advisory = q => advisory' = q
  BY DEF Release
<1>5. \A q \in Requests : txn[q].user \in Users
  BY DEF TypeOK, Txn
<1>. QED
  BY <1>1, <1>2, <1>3, <1>4, <1>5 DEF LockInv, Locked

\* A statement takes locks for its own request only, and only free ones.
LEMMA StatementLocks ==
  ASSUME TypeOK, LockInv, NEW r \in Requests, Statement(r)
  PROVE  LockInv'
<1>. txn[r] \in Txn
  BY DEF TypeOK
<1>1. CASE LoginInsert(r)
  BY <1>1, ReleaseLocks DEF LoginInsert, roster
<1>2. CASE ResolveHandoff(r)
  BY <1>2, ReleaseLocks DEF ResolveHandoff, roster
<1>3. CASE CreateUser(r)
  BY <1>3, ReleaseLocks DEF CreateUser, roster
<1>4. CASE UserNotFound(r)
  BY <1>4, ReleaseLocks DEF UserNotFound, Rollback, roster
<1>5. CASE LockUser(r)
  BY <1>5, NoneAssumption
     DEF TypeOK, Txn, LockInv, Locked, LockUser, Goto, AfterGuard, roster
<1>6. CASE LockAdvisory(r)
  BY <1>6, NoneAssumption DEF TypeOK, Txn, LockInv, Locked, LockAdvisory, Goto, roster
<1>7. CASE CountAdmins(r)
  <2>1. CASE RefuseLastAdmin(r)
    BY <2>1, ReleaseLocks DEF RefuseLastAdmin, Rollback, roster
  <2>2. CASE Goto(r, AfterGuard(r)) /\ UNCHANGED <<roster, locks>>
    BY <1>7, <2>2
       DEF TypeOK, Txn, LockInv, Locked, CountAdmins, Goto, AfterGuard, roster, locks
  <2>. QED
    BY <1>7, <2>1, <2>2 DEF CountAdmins
<1>8. CASE ResetPassword(r)
  BY <1>8, NoneAssumption DEF TypeOK, Txn, LockInv, Locked, ResetPassword, Goto, roster
<1>9. CASE RevokeUserSessions(r)
  BY <1>9 DEF TypeOK, Txn, LockInv, Locked, RevokeUserSessions, Goto, roster, locks
<1>10. CASE RevokeStatement(r)
  BY <1>10 DEF TypeOK, Txn, LockInv, Locked, RevokeStatement, roster, locks
<1>11. CASE Commit(r)
  BY <1>11, ReleaseLocks DEF Commit
<1>. QED
  BY <1>1, <1>2, <1>3, <1>4, <1>5, <1>6, <1>7, <1>8, <1>9, <1>10, <1>11 DEF Statement

\* Every lock has the holder its point in the transaction says.
LEMMA LockStep == TypeOK /\ LockInv /\ [Next]_vars => LockInv'
<1>. SUFFICES ASSUME TypeOK, LockInv, [Next]_vars PROVE LockInv'
  OBVIOUS
<1>1. ASSUME NEW r \in Requests, NEW u \in Users, NEW s \in Sessions, LoginSelect(r, u, s)
      PROVE  LockInv'
  BY <1>1 DEF TypeOK, LockInv, Locked, LoginSelect, Idle, roster, locks
<1>2. ASSUME NEW r \in Requests, NEW c \in Codes, ConsumeHandoff(r, c)
      PROVE  LockInv'
  BY <1>2 DEF TypeOK, LockInv, Locked, ConsumeHandoff, Idle, roster, locks
<1>3. ASSUME NEW r \in Requests, NEW s \in Sessions, AdminRequest(r, s)
      PROVE  LockInv'
  <2>1. PICK op \in {"create", "update", "reset", "revoke"}, u \in Users,
             role \in Roles, is_active \in Actives :
          /\ Admit(r, s, op, u, role, is_active)
          /\ op \in {"reset", "revoke"} => role = "keep" /\ is_active = "keep"
    BY <1>3, UsersAssumption DEF AdminRequest, Roles, Actives
  <2>. QED
    BY <2>1 DEF TypeOK, LockInv, Locked, Admit, Idle, roster, locks
<1>4. ASSUME NEW r \in Requests, Statement(r)
      PROVE  LockInv'
  BY <1>4, StatementLocks
<1>5. ASSUME NEW r \in Requests, LoseConnection(r)
      PROVE  LockInv'
  BY <1>5, ReleaseLocks DEF LoseConnection, Rollback, roster
<1>6. CASE UNCHANGED <<roster, txn, locks>>
  BY <1>6 DEF LockInv, Locked, roster, locks
<1>. QED
  BY <1>1, <1>2, <1>3, <1>4, <1>5, <1>6
     DEF Next, Logout, ExpireSession, CreateHandoff, LapseHandoff, vars

-----------------------------------------------------------------------------
(* The last administrator.                                                 *)

\* What the count establishes: somebody other than u is left.
LEMMA CountLeavesAnother ==
  ASSUME NEW S, IsFiniteSet(S), Cardinality(S) > 1, NEW u
  PROVE  S \ {u} # {}
<1>1. Cardinality(S) \in Nat
  BY FS_CardinalityType
<1>2. /\ IsFiniteSet(S \ {u})
      /\ Cardinality(S \ {u}) = IF u \in S THEN Cardinality(S) - 1 ELSE Cardinality(S)
  BY FS_RemoveElement
<1>3. Cardinality(S \ {u}) # 0
  BY <1>1, <1>2
<1>. QED
  BY <1>2, <1>3, FS_EmptySet

\* The guard's invariant does not look at a slot outside update_user's critical
\* section, so it survives that slot's steps while the roster stands still.
LEMMA GuardQuiet ==
  ASSUME TypeOK, LockInv, GuardInv, NEW r \in Requests, UNCHANGED roster,
         \A q \in Requests \ {r} : txn'[q] = txn[q] /\ (advisory = q => advisory' = q),
         txn'[r].at \notin {"advisory", "count", "revoke", "commit"}
  PROVE  GuardInv'
BY DEF TypeOK, LockInv, GuardInv, Demotes, ActiveAdmins, roster

\* The end of a transaction changes the record of that request only.
LEMMA ReleaseSlots ==
  ASSUME TypeOK, NEW r \in Requests, Release(r)
  PROVE  /\ \A q \in Requests \ {r} : txn'[q] = txn[q] /\ (advisory = q => advisory' = q)
         /\ txn'[r].at = "idle" /\ txn'[r].op = "none"
BY DEF TypeOK, Release, Idle

\* So does every other statement.
LEMMA GotoSlots ==
  ASSUME TypeOK, NEW r \in Requests, NEW p, Goto(r, p)
  PROVE  /\ \A q \in Requests \ {r} : txn'[q] = txn[q]
         /\ txn'[r] = [txn[r] EXCEPT !.at = p]
BY DEF TypeOK, Goto

\* A commit leaves true what others have counted under the advisory lock.
LEMMA CommitGuard ==
  ASSUME TypeOK, LockInv, GuardInv, NEW r \in Requests, Commit(r)
  PROVE  GuardInv'
<1>. USE DEF Commit
<1>. DEFINE u == txn[r].user
<1>1. u \in Users /\ txn[r] \in Txn
  BY DEF TypeOK, Txn
<1>2. \A v \in Users \ {u} : v \in ActiveAdmins' <=> v \in ActiveAdmins
  BY <1>1 DEF ActiveAdmins, TypeOK, Txn, Roles, Actives
<1>3. u \in ActiveAdmins /\ ~Demotes(r) => u \in ActiveAdmins'
  BY <1>1 DEF ActiveAdmins, Demotes, TypeOK, Txn, Roles, Actives
<1>4. txn[r].op = "update" \/ (admins' = admins /\ active' = active)
  BY <1>1 DEF LockInv
<1>5. \A w \in ActiveAdmins : ~(w = u /\ Demotes(r)) => w \in ActiveAdmins'
  BY <1>2, <1>3 DEF ActiveAdmins, TypeOK
<1>6. /\ txn'[r].at = "idle"
      /\ \A q \in Requests \ {r} : txn'[q] = txn[q] /\ (advisory = q => advisory' = q)
  BY ReleaseSlots
<1>7. ASSUME NEW q \in Requests, q # r, Locked(q)
      PROVE  txn[q].user \in ActiveAdmins' <=> txn[q].user \in ActiveAdmins
  <2>1. txn[r].op = "update" => txn[q].user # u
    BY <1>7 DEF LockInv, Locked
  <2>2. txn[q].user \in Users
    BY DEF TypeOK, Txn
  <2>. QED
    BY <1>2, <1>4, <2>1, <2>2 DEF ActiveAdmins
<1>8. ASSUME NEW q \in Requests, q # r, txn[q].at \in {"advisory", "count"}
      PROVE  txn[q].user \in ActiveAdmins'
  BY <1>7, <1>8 DEF GuardInv, LockInv, Locked
<1>9. ASSUME NEW q \in Requests, q # r, txn[q].at \in {"revoke", "commit"},
             Demotes(q), txn[q].user \in ActiveAdmins'
      PROVE  advisory' = q /\ ActiveAdmins' \ {txn[q].user} # {}
  <2>1. Locked(q)
    BY <1>9 DEF LockInv, Locked, Demotes
  <2>2. advisory = q /\ ActiveAdmins \ {txn[q].user} # {}
    BY <1>7, <1>9, <2>1 DEF GuardInv
  <2>3. ~(u \in ActiveAdmins /\ Demotes(r))
    BY <1>9, <2>2 DEF GuardInv
  <2>. QED
    BY <1>5, <1>6, <1>9, <2>2, <2>3
<1>. QED
  BY <1>6, <1>8, <1>9 DEF GuardInv, Demotes

\* The update of the account leaves an active administrator.
LEMMA CommitKeepsAdmin ==
  ASSUME TypeOK, LockInv, GuardInv, AtLeastOneActiveAdmin,
         NEW r \in Requests, Commit(r)
  PROVE  AtLeastOneActiveAdmin'
<1>. DEFINE u == txn[r].user
<1>1. \A w \in ActiveAdmins : ~(w = u /\ Demotes(r)) => w \in ActiveAdmins'
  BY DEF Commit, ActiveAdmins, Demotes, TypeOK, Txn, Roles, Actives
<1>2. CASE u \in ActiveAdmins /\ Demotes(r)
  BY <1>1, <1>2 DEF Commit, GuardInv, AtLeastOneActiveAdmin
<1>3. CASE ~(u \in ActiveAdmins /\ Demotes(r))
  BY <1>1, <1>3 DEF AtLeastOneActiveAdmin
<1>. QED
  BY <1>2, <1>3

\* Only a commit and a creation change the roster.
LEMMA StatementGuard ==
  ASSUME TypeOK, LockInv, GuardInv, AtLeastOneActiveAdmin,
         NEW r \in Requests, Statement(r)
  PROVE  GuardInv' /\ AtLeastOneActiveAdmin'
<1>. txn[r] \in Txn
  BY DEF TypeOK
<1>. USE DEF AtLeastOneActiveAdmin
<1>1. CASE LoginInsert(r) \/ ResolveHandoff(r) \/ UserNotFound(r)
  BY <1>1, ReleaseSlots, GuardQuiet
     DEF LoginInsert, ResolveHandoff, UserNotFound, Rollback, ActiveAdmins, roster
<1>2. CASE CreateUser(r)
  <2>1. ActiveAdmins \subseteq ActiveAdmins' /\ ActiveAdmins' \cap accounts \subseteq ActiveAdmins
    BY <1>2 DEF CreateUser, ActiveAdmins, roster
  <2>2. /\ txn'[r].at = "idle"
        /\ \A q \in Requests \ {r} : txn'[q] = txn[q] /\ (advisory = q => advisory' = q)
    BY <1>2, ReleaseSlots DEF CreateUser
  <2>. QED
    BY <2>1, <2>2 DEF GuardInv, LockInv, Demotes
<1>3. CASE LockUser(r)
  <2>. DEFINE p == IF txn[r].user \in ActiveAdmins /\ Demotes(r) THEN "advisory" ELSE AfterGuard(r)
  <2>1. /\ txn'[r] = [txn[r] EXCEPT !.at = p]
        /\ \A q \in Requests \ {r} : txn'[q] = txn[q]
    BY <1>3, GotoSlots DEF LockUser
  <2>2. UNCHANGED <<roster, advisory>> /\ ActiveAdmins' = ActiveAdmins
    BY <1>3 DEF LockUser, ActiveAdmins, roster
  <2>. QED
    BY <2>1, <2>2 DEF GuardInv, Demotes, AfterGuard, Txn
<1>4. CASE LockAdvisory(r)
  <2>1. /\ txn'[r] = [txn[r] EXCEPT !.at = "count"]
        /\ \A q \in Requests \ {r} : txn'[q] = txn[q]
    BY <1>4, GotoSlots DEF LockAdvisory
  <2>2. ActiveAdmins' = ActiveAdmins
    BY <1>4 DEF LockAdvisory, ActiveAdmins, roster
  <2>. QED
    BY <1>4, <2>1, <2>2, NoneAssumption DEF LockAdvisory, GuardInv, Demotes, Txn
<1>5. CASE CountAdmins(r)
  <2>1. CASE RefuseLastAdmin(r)
    BY <2>1, ReleaseSlots, GuardQuiet DEF RefuseLastAdmin, Rollback, ActiveAdmins, roster
  <2>2. CASE Cardinality(ActiveAdmins) > 1 /\ Goto(r, AfterGuard(r)) /\ UNCHANGED <<roster, locks>>
    <3>1. ActiveAdmins \ {txn[r].user} # {}
      <4>1. ActiveAdmins \in SUBSET Users
        BY DEF ActiveAdmins, TypeOK
      <4>2. IsFiniteSet(ActiveAdmins)
        BY <4>1, FS_Subset, UsersAssumption
      <4>. QED
        BY <2>2, <4>2, CountLeavesAnother
    <3>2. advisory = r
      BY <1>5 DEF CountAdmins, LockInv
    <3>3. /\ txn'[r] = [txn[r] EXCEPT !.at = AfterGuard(r)]
          /\ \A q \in Requests \ {r} : txn'[q] = txn[q]
      BY <2>2, GotoSlots
    <3>4. ActiveAdmins' = ActiveAdmins /\ advisory' = advisory
      BY <2>2 DEF ActiveAdmins, roster, locks
    <3>. QED
      BY <3>1, <3>2, <3>3, <3>4 DEF GuardInv, Demotes, AfterGuard, Txn
  <2>. QED
    BY <1>5, <2>1, <2>2 DEF CountAdmins
<1>6. CASE ResetPassword(r) \/ RevokeUserSessions(r)
  <2>1. /\ txn'[r] = [txn[r] EXCEPT !.at = "revoke"]
        /\ \A q \in Requests \ {r} : txn'[q] = txn[q]
    BY <1>6, GotoSlots DEF ResetPassword, RevokeUserSessions
  <2>2. ~Demotes(r)
    BY <1>6 DEF ResetPassword, RevokeUserSessions, LockInv, Demotes
  <2>3. ActiveAdmins' = ActiveAdmins /\ advisory' = advisory
    BY <1>6 DEF ResetPassword, RevokeUserSessions, ActiveAdmins, roster, locks
  <2>. QED
    BY <2>1, <2>2, <2>3 DEF GuardInv, Demotes, Txn
<1>7. CASE RevokeStatement(r)
  <2>1. /\ txn'[r].at = "commit" /\ txn'[r].user = txn[r].user
        /\ txn'[r].role = txn[r].role /\ txn'[r].is_active = txn[r].is_active
        /\ \A q \in Requests \ {r} : txn'[q] = txn[q]
    BY <1>7 DEF RevokeStatement, TypeOK, Txn
  <2>2. ActiveAdmins' = ActiveAdmins /\ advisory' = advisory
    BY <1>7 DEF RevokeStatement, ActiveAdmins, roster, locks
  <2>3. txn[r].at = "revoke"
    BY <1>7 DEF RevokeStatement
  <2>. QED
    BY <2>1, <2>2, <2>3 DEF GuardInv, Demotes
<1>8. CASE Commit(r)
  BY <1>8, CommitGuard, CommitKeepsAdmin
<1>. QED
  BY <1>1, <1>2, <1>3, <1>4, <1>5, <1>6, <1>7, <1>8 DEF Statement

\* So does every step, and an active administrator remains.
LEMMA GuardStep ==
  TypeOK /\ LockInv /\ GuardInv /\ AtLeastOneActiveAdmin /\ [Next]_vars
    => GuardInv' /\ AtLeastOneActiveAdmin'
<1>. SUFFICES ASSUME TypeOK, LockInv, GuardInv, AtLeastOneActiveAdmin, [Next]_vars
              PROVE  GuardInv' /\ AtLeastOneActiveAdmin'
  OBVIOUS
<1>. USE DEF AtLeastOneActiveAdmin, ActiveAdmins, roster, locks
<1>1. ASSUME NEW r \in Requests, NEW u \in Users, NEW s \in Sessions, LoginSelect(r, u, s)
      PROVE  GuardInv' /\ AtLeastOneActiveAdmin'
  <2>1. txn'[r].at = "insert" /\ \A q \in Requests \ {r} : txn'[q] = txn[q]
    BY <1>1 DEF LoginSelect, TypeOK, Idle
  <2>. QED
    BY <1>1, <2>1, GuardQuiet DEF LoginSelect
<1>2. ASSUME NEW r \in Requests, NEW c \in Codes, ConsumeHandoff(r, c)
      PROVE  GuardInv' /\ AtLeastOneActiveAdmin'
  <2>1. txn'[r].at = "resolve" /\ \A q \in Requests \ {r} : txn'[q] = txn[q]
    BY <1>2 DEF ConsumeHandoff, TypeOK, Idle
  <2>. QED
    BY <1>2, <2>1, GuardQuiet DEF ConsumeHandoff
<1>3. ASSUME NEW r \in Requests, NEW s \in Sessions, AdminRequest(r, s)
      PROVE  GuardInv' /\ AtLeastOneActiveAdmin'
  <2>1. /\ txn'[r].at = "admitted" /\ \A q \in Requests \ {r} : txn'[q] = txn[q]
        /\ UNCHANGED <<roster, tokens, locks>>
    <3>1. PICK op, u, role, is_active : Admit(r, s, op, u, role, is_active)
      BY <1>3 DEF AdminRequest
    <3>. QED
      BY <3>1 DEF Admit, TypeOK, Idle
  <2>. QED
    BY <2>1, GuardQuiet
<1>4. ASSUME NEW r \in Requests, Statement(r)
      PROVE  GuardInv' /\ AtLeastOneActiveAdmin'
  BY <1>4, StatementGuard
<1>5. ASSUME NEW r \in Requests, LoseConnection(r)
      PROVE  GuardInv' /\ AtLeastOneActiveAdmin'
  BY <1>5, ReleaseSlots, GuardQuiet DEF LoseConnection, Rollback
<1>6. CASE UNCHANGED <<roster, txn, locks>>
  BY <1>6 DEF GuardInv, Demotes
<1>. QED
  BY <1>1, <1>2, <1>3, <1>4, <1>5, <1>6
     DEF Next, Logout, ExpireSession, CreateHandoff, LapseHandoff, vars

-----------------------------------------------------------------------------
(* The sessions of a deactivated account.                                  *)

\* Apart from the login's INSERT, no step adds to an account's unrevoked sessions.
LEMMA UnrevokedShrinks ==
  ASSUME TypeOK, [Next]_vars, ~\E r \in Requests : LoginInsert(r),
         NEW u \in Users
  PROVE  Unrevoked(u)' \subseteq Unrevoked(u)
<1>1. CASE UNCHANGED session
  BY <1>1 DEF Unrevoked
<1>2. ASSUME NEW s \in Sessions, Logout(s) \/ ExpireSession(s)
      PROVE  Unrevoked(u)' \subseteq Unrevoked(u)
  BY <1>2 DEF Logout, ExpireSession, Unrevoked, TypeOK
<1>3. ASSUME NEW r \in Requests, Commit(r)
      PROVE  Unrevoked(u)' \subseteq Unrevoked(u)
  BY <1>3 DEF Commit, Unrevoked, TypeOK
<1>. QED
  BY <1>1, <1>2, <1>3
     DEF Next, Statement, LoginSelect, ConsumeHandoff, AdminRequest, Admit, LoseConnection,
         ResolveHandoff, CreateUser, UserNotFound, LockUser, LockAdvisory, CountAdmins,
         RefuseLastAdmin, ResetPassword, RevokeUserSessions, RevokeStatement, Rollback,
         CreateHandoff, LapseHandoff, vars, tokens

\* A slot that is not about to commit a deactivation is of no concern.
LEMMA VictimsQuiet ==
  ASSUME TypeOK, VictimsInv, NEW r \in Requests,
         \A q \in Requests \ {r} : txn'[q] = txn[q],
         txn'[r].at # "commit" \/ txn'[r].is_active # "off",
         \A u \in Users : Unrevoked(u)' \subseteq Unrevoked(u)
  PROVE  VictimsInv'
<1>1. \A q \in Requests : txn[q].user \in Users
  BY DEF TypeOK, Txn
<1>. QED
  BY <1>1 DEF VictimsInv

\* The INSERT of a login waits for a deactivation of its account: the key share
\* of the foreign key and FOR UPDATE exclude each other.
LEMMA LoginVictims ==
  ASSUME TypeOK, LockInv, VictimsInv, NEW r \in Requests, LoginInsert(r)
  PROVE  VictimsInv'
<1>. DEFINE u == txn[r].user
<1>1. txn'[r].at = "idle" /\ \A q \in Requests \ {r} : txn'[q] = txn[q]
  BY ReleaseSlots DEF LoginInsert
<1>2. \A v \in Users \ {u} : Unrevoked(v)' \subseteq Unrevoked(v)
  BY DEF LoginInsert, Unrevoked, TypeOK
<1>3. ASSUME NEW q \in Requests \ {r}, txn[q].at = "commit", txn[q].is_active = "off"
      PROVE  txn[q].user \in Users \ {u}
  <2>1. Locked(q)
    BY <1>3 DEF LockInv, Locked
  <2>. QED
    BY <2>1 DEF LoginInsert, KeyShareFree, LockInv, Locked, TypeOK, Txn
<1>. QED
  BY <1>1, <1>2, <1>3 DEF VictimsInv

\* Who is gone has no live session, but for those about to be revoked.
LEMMA VictimsStep ==
  TypeOK /\ LockInv /\ VictimsInv /\ [Next]_vars => VictimsInv'
<1>. SUFFICES ASSUME TypeOK, LockInv, VictimsInv, [Next]_vars
              PROVE  VictimsInv'
  OBVIOUS
<1>1. ASSUME NEW r \in Requests, LoginInsert(r)
      PROVE  VictimsInv'
  BY <1>1, LoginVictims
<1>2. CASE ~\E r \in Requests : LoginInsert(r)
  <2>1. \A u \in Users : Unrevoked(u)' \subseteq Unrevoked(u)
    BY <1>2, UnrevokedShrinks
  <2>2. ASSUME NEW r \in Requests, Release(r)
        PROVE  VictimsInv'
    BY <2>1, <2>2, ReleaseSlots, VictimsQuiet
  <2>3. ASSUME NEW r \in Requests, NEW p, Goto(r, p),
               p # "commit" \/ txn[r].is_active # "off"
        PROVE  VictimsInv'
    <3>1. /\ txn'[r] = [txn[r] EXCEPT !.at = p]
          /\ \A q \in Requests \ {r} : txn'[q] = txn[q]
      BY <2>3, GotoSlots
    <3>2. txn'[r].at = p /\ txn'[r].is_active = txn[r].is_active
      BY <3>1 DEF TypeOK, Txn
    <3>. QED
      BY <2>1, <2>3, <3>1, <3>2, VictimsQuiet
  <2>4. ASSUME NEW r \in Requests, RevokeStatement(r)
        PROVE  VictimsInv'
    <3>1. /\ txn'[r].user = txn[r].user /\ txn'[r].victims = Unrevoked(txn[r].user)
          /\ \A q \in Requests \ {r} : txn'[q] = txn[q]
      BY <2>4 DEF RevokeStatement, TypeOK, Txn
    <3>2. \A q \in Requests : txn[q].user \in Users
      BY DEF TypeOK, Txn
    <3>. QED
      BY <2>1, <3>1, <3>2 DEF VictimsInv
  <2>5. ASSUME NEW r \in Requests, Statement(r)
        PROVE  VictimsInv'
    BY <1>2, <2>2, <2>3, <2>4, <2>5
       DEF Statement, ResolveHandoff, CreateUser, UserNotFound, Rollback, LockUser,
           LockAdvisory, CountAdmins, RefuseLastAdmin, ResetPassword,
           RevokeUserSessions, Commit, AfterGuard
  <2>6. ASSUME NEW r \in Requests, NEW t,
               txn' = [txn EXCEPT ![r] = t], t.at \notin {"commit"}
        PROVE  VictimsInv'
    BY <2>1, <2>6, VictimsQuiet DEF TypeOK
  <2>7. CASE UNCHANGED txn
    BY <2>1, <2>7 DEF VictimsInv, TypeOK, Txn
  <2>8. ASSUME NEW r \in Requests, NEW s \in Sessions, AdminRequest(r, s)
        PROVE  VictimsInv'
    <3>1. PICK op, u, role, is_active : Admit(r, s, op, u, role, is_active)
      BY <2>8 DEF AdminRequest
    <3>. QED
      BY <2>6, <3>1 DEF Admit, Idle
  <2>9. ASSUME NEW r \in Requests, NEW u \in Users, NEW s \in Sessions, LoginSelect(r, u, s)
        PROVE  VictimsInv'
    BY <2>6, <2>9 DEF LoginSelect, Idle
  <2>10. ASSUME NEW r \in Requests, NEW c \in Codes, ConsumeHandoff(r, c)
         PROVE  VictimsInv'
    BY <2>6, <2>10 DEF ConsumeHandoff, Idle
  <2>. QED
    BY <2>2, <2>5, <2>7, <2>8, <2>9, <2>10
       DEF Next, LoseConnection, Rollback, Logout, ExpireSession, CreateHandoff,
           LapseHandoff, vars
<1>. QED
  BY <1>1, <1>2

-----------------------------------------------------------------------------
(* The hand-off codes.                                                     *)

\* What leaves the codes alone and starts no exchange keeps them single.
LEMMA HandoffQuiet ==
  ASSUME TypeOK, HandoffInv, UNCHANGED exchanged,
         \A c \in Codes : handoff[c].state = "gone" => handoff'[c].state = "gone",
         \A r \in Requests : \/ txn'[r].at = txn[r].at /\ txn'[r].code = txn[r].code
                             \/ txn'[r].at # "resolve"
  PROVE  HandoffInv'
BY DEF HandoffInv, Resolving

\* The DELETE of a code finds it once; who resolves it counts it once.
LEMMA ConsumeOnce ==
  ASSUME TypeOK, HandoffInv, NEW r \in Requests, NEW c \in Codes, ConsumeHandoff(r, c)
  PROVE  HandoffInv'
<1>1. /\ txn'[r].at = "resolve" /\ txn'[r].code = c
      /\ \A q \in Requests \ {r} : txn'[q] = txn[q]
  BY DEF ConsumeHandoff, TypeOK, Idle
<1>2. /\ handoff[c].state = "stored" /\ handoff'[c].state = "gone"
      /\ \A d \in Codes \ {c} : handoff'[d] = handoff[d]
      /\ exchanged' = exchanged
  BY DEF ConsumeHandoff, TakeCode, TypeOK
<1>. QED
  BY <1>1, <1>2 DEF HandoffInv, Resolving

\* The exchange ends the resolving.
LEMMA ResolveOnce ==
  ASSUME TypeOK, HandoffInv, NEW r \in Requests, ResolveHandoff(r)
  PROVE  HandoffInv'
<1>. DEFINE c == txn[r].code
<1>1. txn'[r].at = "idle" /\ \A q \in Requests \ {r} : txn'[q] = txn[q]
  BY ReleaseSlots DEF ResolveHandoff
<1>2. \A d \in Codes : exchanged[d] \in Nat
  BY DEF TypeOK
<1>3. /\ handoff' = handoff
      /\ \A d \in Codes : exchanged'[d] = exchanged[d] \/ (d = c /\ exchanged'[d] = exchanged[d] + 1)
  BY DEF ResolveHandoff, TypeOK
<1>4. \A d \in Codes : d = c => Resolving(r, d)
  BY DEF ResolveHandoff, Resolving
<1>5. \A d \in Codes : d = c =>
        /\ exchanged[d] = 0 /\ handoff[d].state = "gone"
        /\ \A q \in Requests \ {r} : ~Resolving(q, d)
  BY <1>4 DEF HandoffInv
<1>. QED
  BY <1>1, <1>2, <1>3, <1>5 DEF HandoffInv, Resolving

\* Every step keeps the codes single.
LEMMA HandoffStep == TypeOK /\ HandoffInv /\ [Next]_vars => HandoffInv'
<1>. SUFFICES ASSUME TypeOK, HandoffInv, [Next]_vars PROVE HandoffInv'
  OBVIOUS
<1>1. ASSUME NEW r \in Requests, Release(r), UNCHANGED <<handoff, exchanged>>
      PROVE  HandoffInv'
  BY <1>1, ReleaseSlots, HandoffQuiet
<1>2. ASSUME NEW r \in Requests, NEW p \in {"count", "advisory", "revoke", "commit"},
             Goto(r, p), UNCHANGED <<handoff, exchanged>>
      PROVE  HandoffInv'
  <2>1. \A q \in Requests \ {r} : txn'[q] = txn[q]
    BY <1>2, GotoSlots
  <2>2. txn'[r].at = p
    BY <1>2 DEF Goto, TypeOK, Txn
  <2>. QED
    BY <1>2, <2>1, <2>2, HandoffQuiet
<1>3. ASSUME NEW r \in Requests, Statement(r)
      PROVE  HandoffInv'
  <2>1. CASE RevokeStatement(r)
    <3>1. txn'[r].at = "commit" /\ \A q \in Requests \ {r} : txn'[q] = txn[q]
      BY <2>1 DEF RevokeStatement, TypeOK, Txn
    <3>. QED
      BY <2>1, <3>1, HandoffQuiet DEF RevokeStatement, tokens
  <2>2. CASE LockUser(r) \/ LockAdvisory(r) \/ ResetPassword(r) \/ RevokeUserSessions(r)
    BY <1>2, <2>2 DEF LockUser, LockAdvisory, ResetPassword, RevokeUserSessions, AfterGuard, tokens
  <2>3. CASE CountAdmins(r)
    BY <1>1, <1>2, <2>3 DEF CountAdmins, RefuseLastAdmin, Rollback, AfterGuard, tokens
  <2>4. CASE LoginInsert(r) \/ CreateUser(r) \/ UserNotFound(r) \/ Commit(r)
    BY <1>1, <2>4 DEF LoginInsert, CreateUser, UserNotFound, Rollback, Commit, tokens
  <2>. QED
    BY <1>3, <2>1, <2>2, <2>3, <2>4, ResolveOnce DEF Statement
<1>4. ASSUME NEW r \in Requests, NEW u \in Users, NEW s \in Sessions, LoginSelect(r, u, s)
      PROVE  HandoffInv'
  <2>1. txn'[r].at = "insert" /\ \A q \in Requests \ {r} : txn'[q] = txn[q]
    BY <1>4 DEF LoginSelect, TypeOK, Idle
  <2>. QED
    BY <1>4, <2>1, HandoffQuiet DEF LoginSelect, tokens
<1>5. ASSUME NEW r \in Requests, NEW s \in Sessions, AdminRequest(r, s)
      PROVE  HandoffInv'
  <2>1. PICK op, u, role, is_active : Admit(r, s, op, u, role, is_active)
    BY <1>5 DEF AdminRequest
  <2>2. txn'[r].at = "admitted" /\ \A q \in Requests \ {r} : txn'[q] = txn[q]
    BY <2>1 DEF Admit, TypeOK, Idle
  <2>. QED
    BY <2>1, <2>2, HandoffQuiet DEF Admit, tokens
<1>6. ASSUME NEW r \in Requests, LoseConnection(r)
      PROVE  HandoffInv'
  BY <1>1, <1>6 DEF LoseConnection, Rollback, tokens
<1>7. ASSUME NEW s \in Sessions, Logout(s) \/ ExpireSession(s)
      PROVE  HandoffInv'
  BY <1>7, HandoffQuiet DEF Logout, ExpireSession
<1>8. ASSUME NEW s \in Sessions, NEW c \in Codes, CreateHandoff(s, c)
      PROVE  HandoffInv'
  <2>1. \A d \in Codes : handoff[d].state = "gone" => handoff'[d].state = "gone"
    BY <1>8 DEF CreateHandoff, TypeOK
  <2>. QED
    BY <1>8, <2>1, HandoffQuiet DEF CreateHandoff
<1>9. ASSUME NEW c \in Codes, LapseHandoff(c)
      PROVE  HandoffInv'
  <2>1. \A d \in Codes : handoff[d].state = "gone" => handoff'[d].state = "gone"
    BY <1>9 DEF LapseHandoff, TypeOK
  <2>. QED
    BY <1>9, <2>1, HandoffQuiet DEF LapseHandoff
<1>10. CASE UNCHANGED vars
  BY <1>10, HandoffQuiet DEF vars, tokens
<1>. QED
  BY <1>3, <1>4, <1>5, <1>6, <1>7, <1>8, <1>9, <1>10, ConsumeOnce DEF Next

-----------------------------------------------------------------------------
(* What a login, an exchange and a revocation under way rest on.           *)

\* Statements other than the start and the end of a login or an exchange leave
\* those of the other requests alone, as long as tables only grow.
LEMMA IssueQuiet ==
  ASSUME TypeOK, HandoffInv, IssueInv, NEW r \in Requests,
         \A q \in Requests \ {r} : txn'[q] = txn[q],
         txn'[r].op # "login", txn'[r].at \notin {"insert", "resolve"},
         active' \subseteq accounts', accounts \subseteq accounts',
         password' \in [Users -> Nat], \A u \in Users : password[u] <= password'[u],
         \A q \in Requests \ {r} :
           txn[q].op = "login" => session'[txn[q].guid].state = "unissued",
         \A c \in Codes : handoff[c].state = "gone" => handoff'[c].guid = handoff[c].guid
  PROVE  IssueInv'
<1>1. \A q \in Requests : txn[q].user \in Users /\ txn[q].ver \in Nat
  BY DEF TypeOK, Txn
<1>2. \A u \in Users : password[u] \in Nat /\ password'[u] \in Nat
  BY DEF TypeOK
<1>3. \A q \in Requests \ {r} : txn[q].op = "login" => txn[q].ver <= password'[txn[q].user]
  <2> SUFFICES ASSUME NEW q \in Requests \ {r}, txn[q].op = "login"
               PROVE  txn[q].ver <= password'[txn[q].user]
    OBVIOUS
  <2>1. txn[q].ver <= password[txn[q].user] /\ password[txn[q].user] <= password'[txn[q].user]
    BY <1>1 DEF IssueInv
  <2>2. txn[q].ver \in Nat /\ password[txn[q].user] \in Nat /\ password'[txn[q].user] \in Nat
    BY <1>1, <1>2
  <2> QED BY <2>1, <2>2
<1>4. \A q \in Requests \ {r} : txn[q].at = "resolve" =>
        txn[q].code \in Codes /\ handoff'[txn[q].code].guid = txn[q].guid
  BY DEF IssueInv, HandoffInv, Resolving
<1>. QED
  BY <1>3, <1>4 DEF IssueInv

\* The end of a transaction is such a statement.
LEMMA IssueRelease ==
  ASSUME TypeOK, HandoffInv, IssueInv, NEW r \in Requests, Release(r),
         active' \subseteq accounts', accounts \subseteq accounts',
         password' \in [Users -> Nat], \A u \in Users : password[u] <= password'[u],
         \A q \in Requests \ {r} :
           txn[q].op = "login" => session'[txn[q].guid].state = "unissued",
         handoff' = handoff
  PROVE  IssueInv'
<1>1. /\ \A q \in Requests \ {r} : txn'[q] = txn[q]
      /\ txn'[r].op = "none" /\ txn'[r].at = "idle"
  BY ReleaseSlots
<1>. QED
  BY <1>1, IssueQuiet

\* So is every other statement of an administrator's request.
LEMMA IssueGoto ==
  ASSUME TypeOK, HandoffInv, IssueInv, NEW r \in Requests,
         NEW p \in {"count", "advisory", "revoke", "commit"}, Goto(r, p),
         txn[r].op # "login", UNCHANGED <<roster, tokens>>
  PROVE  IssueInv'
<1>1. /\ \A q \in Requests \ {r} : txn'[q] = txn[q]
      /\ txn'[r] = [txn[r] EXCEPT !.at = p]
  BY GotoSlots
<1>2. txn'[r].at = p /\ txn'[r].op = txn[r].op
  BY <1>1 DEF TypeOK, Txn
<1>3. /\ active' \subseteq accounts' /\ accounts \subseteq accounts'
      /\ password' \in [Users -> Nat] /\ \A u \in Users : password[u] <= password'[u]
  BY DEF TypeOK, IssueInv, roster
<1>4. /\ \A q \in Requests \ {r} :
           txn[q].op = "login" => session'[txn[q].guid].state = "unissued"
      /\ \A c \in Codes : handoff[c].state = "gone" => handoff'[c].guid = handoff[c].guid
  BY DEF IssueInv, tokens
<1>. QED
  BY <1>1, <1>2, <1>3, <1>4, IssueQuiet

\* Each statement keeps the logins and exchanges under way.
LEMMA StatementIssue ==
  ASSUME TypeOK, LockInv, HandoffInv, SweepInv, IssueInv, NEW r \in Requests, Statement(r)
  PROVE  IssueInv'
<1>. txn[r] \in Txn
  BY DEF TypeOK
<1>1. /\ password \in [Users -> Nat] /\ active \subseteq accounts
      /\ \A u \in Users : password[u] <= password[u]
      /\ \A q \in Requests : txn[q].op = "login" => session[txn[q].guid].state = "unissued"
  BY DEF TypeOK, IssueInv
<1>2. CASE LoginInsert(r)
  <2>1. \A q \in Requests \ {r} : txn[q].op = "login" => txn[q].guid # txn[r].guid
    BY <1>2 DEF IssueInv, LoginInsert
  <2>2. \A q \in Requests \ {r} :
          txn[q].op = "login" => session'[txn[q].guid].state = "unissued"
    BY <1>1, <1>2, <2>1 DEF LoginInsert, TypeOK, IssueInv
  <2>. QED
    BY <1>1, <1>2, <2>2, IssueRelease DEF LoginInsert, roster
<1>3. CASE ResolveHandoff(r)
  BY <1>1, <1>3, IssueRelease DEF ResolveHandoff, roster
<1>4. CASE CreateUser(r)
  BY <1>1, <1>4, IssueRelease DEF CreateUser, roster, tokens
<1>5. CASE UserNotFound(r)
  BY <1>1, <1>5, IssueRelease DEF UserNotFound, Rollback, roster, tokens
<1>6. CASE LockUser(r) \/ LockAdvisory(r) \/ ResetPassword(r) \/ RevokeUserSessions(r)
  <2>1. txn[r].op # "login"
    BY <1>6 DEF IssueInv, LockUser, LockAdvisory, ResetPassword, RevokeUserSessions
  <2>. QED
    BY <1>6, <2>1, IssueGoto
       DEF LockUser, LockAdvisory, ResetPassword, RevokeUserSessions, AfterGuard
<1>7. CASE CountAdmins(r)
  <2>1. txn[r].op # "login"
    BY <1>7 DEF IssueInv, CountAdmins
  <2>. QED
    BY <1>1, <1>7, <2>1, IssueGoto, IssueRelease
       DEF CountAdmins, RefuseLastAdmin, Rollback, AfterGuard, roster, tokens
<1>8. CASE RevokeStatement(r)
  <2>1. /\ \A q \in Requests \ {r} : txn'[q] = txn[q]
        /\ txn'[r].at = "commit" /\ txn'[r].op = txn[r].op
    BY <1>8 DEF RevokeStatement, TypeOK, Txn
  <2>2. txn[r].op # "login"
    BY <1>8 DEF IssueInv, RevokeStatement
  <2>. QED
    BY <1>1, <1>8, <2>1, <2>2, IssueQuiet DEF RevokeStatement, roster, tokens
<1>9. CASE Commit(r)
  <2>1. active' \subseteq accounts' /\ accounts' = accounts
    BY <1>1, <1>9 DEF Commit, LockInv
  <2>2. password' \in [Users -> Nat] /\ \A u \in Users : password[u] <= password'[u]
    <3>1. CASE password' = password
      BY <1>1, <3>1
    <3>2. CASE password' = [password EXCEPT ![txn[r].user] = @ + 1]
      <4>1. \A u \in Users :
              password[u] \in Nat /\ password'[u] \in {password[u], password[u] + 1}
        BY <1>1, <3>2
      <4>2. DOMAIN password' = Users /\ password' = [u \in Users |-> password'[u]]
        BY <1>1, <3>2
      <4>3. \A u \in Users : password'[u] \in Nat /\ password[u] <= password'[u]
        BY <4>1
      <4>. QED
        BY <4>2, <4>3
    <3>. QED
      BY <1>9, <3>1, <3>2 DEF Commit
  <2>3. \A q \in Requests \ {r} : txn[q].op = "login" => txn[q].guid \notin txn[r].victims
    BY <1>1 DEF SweepInv
  <2>4. \A q \in Requests \ {r} :
          txn[q].op = "login" => session'[txn[q].guid].state = "unissued"
    BY <1>1, <1>9, <2>3 DEF Commit, IssueInv
  <2>. QED
    BY <1>9, <2>1, <2>2, <2>4, IssueRelease DEF Commit
<1>. QED
  BY <1>2, <1>3, <1>4, <1>5, <1>6, <1>7, <1>8, <1>9 DEF Statement

\* So does every step.
LEMMA IssueStep ==
  TypeOK /\ LockInv /\ HandoffInv /\ SweepInv /\ IssueInv /\ [Next]_vars => IssueInv'
<1>. SUFFICES ASSUME TypeOK, LockInv, HandoffInv, SweepInv, IssueInv, [Next]_vars
              PROVE  IssueInv'
  OBVIOUS
<1>1. /\ password \in [Users -> Nat] /\ active \subseteq accounts
      /\ \A u \in Users : password[u] <= password[u] /\ password[u] \in Nat
      /\ \A q \in Requests : txn[q].op = "login" => session[txn[q].guid].state = "unissued"
  BY DEF TypeOK, IssueInv
<1>2. ASSUME NEW r \in Requests, NEW u \in Users, NEW s \in Sessions, LoginSelect(r, u, s)
      PROVE  IssueInv'
  <2>1. /\ txn'[r].at = "insert" /\ txn'[r].op = "login" /\ txn'[r].guid = s
        /\ txn'[r].user = u /\ txn'[r].ver = password[u]
        /\ \A q \in Requests \ {r} : txn'[q] = txn[q]
    BY <1>2 DEF LoginSelect, TypeOK, Idle
  <2>2. UNCHANGED <<accounts, active, password, session, handoff>>
    BY <1>2 DEF LoginSelect, roster, tokens
  <2>3. \A q \in Requests : txn[q].op = "login" => txn[q].guid # s
    BY <1>2 DEF LoginSelect
  <2>4. u \in accounts /\ session[s].state = "unissued"
    BY <1>1, <1>2 DEF LoginSelect
  <2>. QED
    BY <1>1, <2>1, <2>2, <2>3, <2>4 DEF IssueInv
<1>3. ASSUME NEW r \in Requests, NEW c \in Codes, ConsumeHandoff(r, c)
      PROVE  IssueInv'
  <2>1. /\ txn'[r].at = "resolve" /\ txn'[r].op = "exchange"
        /\ txn'[r].guid = handoff[c].guid /\ txn'[r].code = c
        /\ \A q \in Requests \ {r} : txn'[q] = txn[q]
    BY <1>3 DEF ConsumeHandoff, TypeOK, Idle
  <2>2. UNCHANGED <<accounts, active, password, session>>
    BY <1>3 DEF ConsumeHandoff, roster
  <2>3. \A d \in Codes : handoff'[d].guid = handoff[d].guid
    BY <1>3 DEF ConsumeHandoff, TakeCode, TypeOK
  <2>. QED
    BY <2>1, <2>2, <2>3 DEF IssueInv
<1>4. ASSUME NEW r \in Requests, NEW s \in Sessions, AdminRequest(r, s)
      PROVE  IssueInv'
  <2>1. PICK op \in {"create", "update", "reset", "revoke"}, u \in Users,
             role \in Roles, is_active \in Actives : Admit(r, s, op, u, role, is_active)
    BY <1>4, UsersAssumption DEF AdminRequest, Roles, Actives
  <2>2. /\ txn'[r].at = "admitted" /\ txn'[r].op # "login"
        /\ \A q \in Requests \ {r} : txn'[q] = txn[q]
    BY <2>1 DEF Admit, TypeOK, Idle
  <2>. QED
    BY <1>1, <2>1, <2>2, IssueQuiet DEF Admit, roster, tokens
<1>5. ASSUME NEW r \in Requests, Statement(r)
      PROVE  IssueInv'
  BY <1>5, StatementIssue
<1>6. ASSUME NEW r \in Requests, LoseConnection(r)
      PROVE  IssueInv'
  BY <1>1, <1>6, IssueRelease DEF LoseConnection, Rollback, roster, tokens
<1>7. ASSUME NEW s \in Sessions, Logout(s) \/ ExpireSession(s)
      PROVE  IssueInv'
  <2>1. \A t \in Sessions : session[t].state = "unissued" => session'[t] = session[t]
    BY <1>7 DEF Logout, ExpireSession, TypeOK
  <2>2. UNCHANGED <<accounts, active, password, handoff, txn>>
    BY <1>7 DEF Logout, ExpireSession, roster
  <2>. QED
    BY <2>1, <2>2 DEF IssueInv
<1>8. ASSUME NEW s \in Sessions, NEW c \in Codes, CreateHandoff(s, c)
      PROVE  IssueInv'
  <2>1. \A d \in Codes : handoff[d].state = "gone" => handoff'[d].guid = handoff[d].guid
    BY <1>8 DEF CreateHandoff, TypeOK
  <2>2. UNCHANGED <<accounts, active, password, session, txn>>
    BY <1>8 DEF CreateHandoff, roster
  <2>. QED
    BY <2>1, <2>2 DEF IssueInv, HandoffInv, Resolving
<1>9. ASSUME NEW c \in Codes, LapseHandoff(c)
      PROVE  IssueInv'
  <2>1. \A d \in Codes : handoff'[d].guid = handoff[d].guid
    BY <1>9 DEF LapseHandoff, TypeOK
  <2>2. UNCHANGED <<accounts, active, password, session, txn>>
    BY <1>9 DEF LapseHandoff, roster
  <2>. QED
    BY <2>1, <2>2 DEF IssueInv
<1>10. CASE UNCHANGED vars
  BY <1>10 DEF vars, roster, tokens, IssueInv
<1>. QED
  BY <1>2, <1>3, <1>4, <1>5, <1>6, <1>7, <1>8, <1>9, <1>10 DEF Next

\* A session once issued keeps its owner and stays issued; a login issues one that
\* was not.
LEMMA IssuedStays ==
  ASSUME TypeOK, IssueInv, [Next]_vars, NEW s \in Sessions, session[s].state # "unissued"
  PROVE  session'[s].owner = session[s].owner /\ session'[s].state # "unissued"
<1>1. CASE UNCHANGED session
  BY <1>1
<1>2. ASSUME NEW t \in Sessions, Logout(t) \/ ExpireSession(t)
      PROVE  session'[s].owner = session[s].owner /\ session'[s].state # "unissued"
  <2>. session[t] \in [state : {"unissued", "live", "revoked", "expired"}, owner : Users, ver : Nat]
    BY DEF TypeOK
  <2>1. session'[s] = session[s] \/ \E x \in {"revoked", "expired"} :
                                      t = s /\ session'[s] = [session[t] EXCEPT !.state = x]
    BY <1>2 DEF Logout, ExpireSession, TypeOK
  <2>. QED
    BY <2>1
<1>3. ASSUME NEW r \in Requests, Commit(r)
      PROVE  session'[s].owner = session[s].owner /\ session'[s].state # "unissued"
  BY <1>3 DEF Commit, TypeOK
<1>4. ASSUME NEW r \in Requests, LoginInsert(r)
      PROVE  session'[s].owner = session[s].owner /\ session'[s].state # "unissued"
  BY <1>4 DEF LoginInsert, TypeOK, IssueInv
<1>. QED
  BY <1>1, <1>2, <1>3, <1>4
     DEF Next, Statement, LoginSelect, ConsumeHandoff, AdminRequest, Admit, LoseConnection,
         ResolveHandoff, CreateUser, UserNotFound, LockUser, LockAdvisory, CountAdmins,
         RefuseLastAdmin, ResetPassword, RevokeUserSessions, RevokeStatement, Rollback,
         CreateHandoff, LapseHandoff, vars, tokens

\* Victims are found for their account by the statement that revokes them, and in
\* update_user only a deactivation runs it.
LEMMA SweepStep ==
  TypeOK /\ LockInv /\ IssueInv /\ SweepInv /\ [Next]_vars => SweepInv'
<1>. SUFFICES ASSUME TypeOK, LockInv, IssueInv, SweepInv, [Next]_vars
              PROVE  SweepInv'
  OBVIOUS
<1>. DEFINE Swept(t) ==
       /\ t.op = "update" /\ t.is_active # "off" => t.at # "revoke" /\ t.victims = {}
       /\ \A s \in t.victims : session[s].owner = t.user /\ session[s].state # "unissued"
<1>1. \A q \in Requests : Swept(txn[q]) /\ txn[q].victims \subseteq Sessions
  BY DEF SweepInv, TypeOK, Txn
<1>2. SUFFICES ASSUME NEW q \in Requests PROVE Swept(txn'[q])
  <2>1. \A q \in Requests : \A s \in txn'[q].victims :
          session'[s].owner = txn'[q].user /\ session'[s].state # "unissued"
    <3>1. TypeOK'
      BY TypeStep
    <3>2. \A q \in Requests : txn'[q].victims \subseteq Sessions
      BY <3>1 DEF TypeOK, Txn
    <3>. QED
      BY <1>2, <3>2, IssuedStays
  <2>. QED
    BY <1>2, <2>1 DEF SweepInv
<1>3. Swept(Idle)
  BY DEF Idle
<1>4. CASE txn'[q] = txn[q] \/ txn'[q] = Idle
  BY <1>1, <1>3, <1>4
<1>5. ASSUME NEW p, txn'[q] = [txn[q] EXCEPT !.at = p],
             p = "revoke" => txn[q].op # "update" \/ txn[q].is_active = "off"
      PROVE  Swept(txn'[q])
  BY <1>1, <1>5 DEF TypeOK, Txn
<1>6. ASSUME NEW t, txn'[q] = t, t.at # "revoke", t.victims = {}
      PROVE  Swept(txn'[q])
  BY <1>6
<1>7. ASSUME NEW r \in Requests, Statement(r)
      PROVE  Swept(txn'[q])
  <2>1. ASSUME Release(r)
        PROVE  Swept(txn'[q])
    <3>1. txn'[q] = txn[q] \/ txn'[q] = Idle
      BY <2>1 DEF Release, TypeOK
    <3>. QED
      BY <1>4, <3>1
  <2>2. ASSUME NEW p, Goto(r, p), p = "revoke" => txn[r].op # "update" \/ txn[r].is_active = "off"
        PROVE  Swept(txn'[q])
    <3>1. txn'[q] = txn[q] \/ (q = r /\ txn'[q] = [txn[q] EXCEPT !.at = p])
      BY <2>2 DEF Goto, TypeOK
    <3>. QED
      BY <1>4, <1>5, <2>2, <3>1
  <2>3. ASSUME RevokeStatement(r)
        PROVE  Swept(txn'[q])
    <3>1. CASE q = r
      <4>1. /\ txn'[q].at = "commit" /\ txn'[q].op = txn[q].op
            /\ txn'[q].is_active = txn[q].is_active /\ txn'[q].user = txn[q].user
            /\ txn'[q].victims = Unrevoked(txn[q].user) /\ txn[q].at = "revoke"
        BY <2>3, <3>1 DEF RevokeStatement, TypeOK, Txn
      <4>2. ~(txn[q].op = "update" /\ txn[q].is_active # "off")
        BY <1>1, <4>1
      <4>3. \A s \in Unrevoked(txn[q].user) :
              session[s].owner = txn[q].user /\ session[s].state # "unissued"
        BY DEF Unrevoked
      <4>. QED
        BY <4>1, <4>2, <4>3
    <3>2. CASE q # r
      <4>1. txn'[q] = txn[q]
        BY <2>3, <3>2 DEF RevokeStatement, TypeOK
      <4>. QED
        BY <1>4, <4>1
    <3>. QED
      BY <3>1, <3>2
  <2>. HIDE DEF Swept
  <2>4. CASE LockUser(r) \/ LockAdvisory(r) \/ ResetPassword(r) \/ RevokeUserSessions(r)
    <3>1. PICK p \in {"advisory", "count", "revoke", "commit"} :
            Goto(r, p) /\ (p = "revoke" => txn[r].op # "update" \/ txn[r].is_active = "off")
      BY <2>4 DEF LockUser, LockAdvisory, ResetPassword, RevokeUserSessions, AfterGuard
    <3>. QED
      BY <2>2, <3>1
  <2>5. CASE CountAdmins(r)
    BY <2>1, <2>2, <2>5 DEF CountAdmins, RefuseLastAdmin, Rollback, AfterGuard
  <2>6. CASE LoginInsert(r) \/ ResolveHandoff(r) \/ CreateUser(r) \/ UserNotFound(r) \/ Commit(r)
    BY <2>1, <2>6 DEF LoginInsert, ResolveHandoff, CreateUser, UserNotFound, Rollback, Commit
  <2>. QED
    BY <1>7, <2>3, <2>4, <2>5, <2>6 DEF Statement
<1>. HIDE DEF Swept
<1>8. ASSUME NEW r \in Requests, NEW t, txn' = [txn EXCEPT ![r] = t],
             t.at # "revoke", t.victims = {}
      PROVE  Swept(txn'[q])
  <2>1. txn'[q] = txn[q] \/ txn'[q] = t
    BY <1>8 DEF TypeOK
  <2>. QED
    BY <1>4, <1>6, <1>8, <2>1
<1>9. ASSUME NEW r \in Requests, NEW u \in Users, NEW s \in Sessions, LoginSelect(r, u, s)
      PROVE  Swept(txn'[q])
  <2>. DEFINE t == [Idle EXCEPT !.at = "insert", !.op = "login", !.user = u, !.guid = s,
                                !.ver = password[u]]
  <2>1. t.at # "revoke" /\ t.victims = {}
    BY DEF Idle
  <2>2. txn' = [txn EXCEPT ![r] = t]
    BY <1>9 DEF LoginSelect
  <2>. HIDE DEF t
  <2>. QED
    BY <1>8, <2>1, <2>2
<1>10. ASSUME NEW r \in Requests, NEW c \in Codes, ConsumeHandoff(r, c)
       PROVE  Swept(txn'[q])
  <2>. DEFINE t == [Idle EXCEPT !.at = "resolve", !.op = "exchange", !.guid = handoff[c].guid,
                                !.code = c]
  <2>1. t.at # "revoke" /\ t.victims = {}
    BY DEF Idle
  <2>2. txn' = [txn EXCEPT ![r] = t]
    BY <1>10 DEF ConsumeHandoff
  <2>. HIDE DEF t
  <2>. QED
    BY <1>8, <2>1, <2>2
<1>11. ASSUME NEW r \in Requests, NEW s \in Sessions, AdminRequest(r, s)
       PROVE  Swept(txn'[q])
  <2>1. PICK op, u, role, is_active : Admit(r, s, op, u, role, is_active)
    BY <1>11 DEF AdminRequest
  <2>. DEFINE t == [Idle EXCEPT !.at = "admitted", !.op = op, !.user = u, !.role = role,
                                !.is_active = is_active]
  <2>2. t.at # "revoke" /\ t.victims = {}
    BY DEF Idle
  <2>3. txn' = [txn EXCEPT ![r] = t]
    BY <2>1 DEF Admit
  <2>. HIDE DEF t
  <2>. QED
    BY <1>8, <2>2, <2>3
<1>12. ASSUME NEW r \in Requests, LoseConnection(r)
       PROVE  Swept(txn'[q])
  <2>1. txn'[q] = txn[q] \/ txn'[q] = Idle
    BY <1>12 DEF LoseConnection, Rollback, Release, TypeOK
  <2>. QED
    BY <1>4, <2>1
<1>. QED
  BY <1>4, <1>7, <1>9, <1>10, <1>11, <1>12
     DEF Next, Logout, ExpireSession, CreateHandoff, LapseHandoff, vars

-----------------------------------------------------------------------------

\* Nobody has counted, locked or deactivated anything at the start.
LEMMA InitGuards ==
  Init => /\ LockInv /\ GuardInv /\ VictimsInv /\ HandoffInv /\ IssueInv /\ SweepInv
          /\ AtLeastOneActiveAdmin
BY NoneAssumption
   DEF Init, Idle, LockInv, Locked, GuardInv, VictimsInv, HandoffInv, Resolving,
       IssueInv, SweepInv,
       AtLeastOneActiveAdmin, ActiveAdmins

\* The inductive invariant holds of every reachable state.
THEOREM Inductive == Spec => []InductiveInv
<1>1. Init => InductiveInv
  BY InitType, InitGuards DEF InductiveInv
<1>2. InductiveInv /\ [Next]_vars => InductiveInv'
  BY TypeStep, LockStep, GuardStep, VictimsStep, HandoffStep, IssueStep, SweepStep
     DEF InductiveInv
<1>. QED
  BY <1>1, <1>2, PTL DEF Spec

\* However many administrators demote and deactivate one another at once,
\* update_user leaves an active administrator.
THEOREM LastAdminStays == Spec => []AtLeastOneActiveAdmin
<1>1. InductiveInv => AtLeastOneActiveAdmin
  BY DEF InductiveInv
<1>. QED
  BY <1>1, Inductive, PTL

\* However many consumers present a code, and whatever fails in between, it gives
\* a guid to one of them at most.
THEOREM HandoffCorrect == Spec => []HandoffOnce
<1>1. InductiveInv => HandoffOnce
  BY DEF InductiveInv, HandoffInv, HandoffOnce
<1>. QED
  BY <1>1, Inductive, PTL

\* The commit of a deactivation leaves no live session of the account.
THEOREM DeactivationCorrect == Spec => DeactivationEndsSessions
<1>. DEFINE A == \A u \in active \ active' : \A s \in Sessions :
                   session[s].owner = u => session'[s].state # "live"
<1>1. InductiveInv /\ [Next]_vars => [A]_vars
  <2>. SUFFICES ASSUME InductiveInv, Next, NEW u \in active \ active',
                       NEW s \in Sessions, session[s].owner = u
                PROVE  session'[s].state # "live"
    BY DEF vars, roster
  <2>1. PICK r \in Requests : Commit(r)
    BY DEF Next, Statement, LoginSelect, ConsumeHandoff, AdminRequest, Admit, LoseConnection,
           LoginInsert, ResolveHandoff, CreateUser, UserNotFound, LockUser, LockAdvisory,
           CountAdmins, RefuseLastAdmin, ResetPassword, RevokeUserSessions, RevokeStatement,
           Rollback, Logout, ExpireSession, CreateHandoff, LapseHandoff, roster
  <2>2. txn[r].is_active = "off" /\ txn[r].user = u
    BY <2>1 DEF Commit, InductiveInv, TypeOK, Txn, Actives
  <2>3. Unrevoked(u) \subseteq txn[r].victims
    BY <2>1, <2>2 DEF Commit, InductiveInv, VictimsInv
  <2>. QED
    BY <2>1, <2>3 DEF Commit, Unrevoked, InductiveInv, TypeOK
<1>. QED
  BY <1>1, Inductive, PTL DEF Spec, DeactivationEndsSessions
-----------------------------------------------------------------------------
(* The refinement of AccountStore.                                         *)

\* What the refinement mapping hides changes with a sweep or an exchange only.
LEMMA HiddenQuiet ==
  ASSUME NEW r \in Requests, \A q \in Requests \ {r} : txn'[q] = txn[q],
         ~Sweeping(r), txn'[r].at # "commit" \/ txn'[r].op \notin {"reset", "revoke"},
         txn[r].at # "resolve", txn'[r].at # "resolve"
  PROVE  Sweeps' = Sweeps /\ Taken' = Taken
<1>1. \A q \in Requests : SweepOf(q)' = SweepOf(q)
  BY DEF SweepOf, Sweeping
<1>2. \A q \in Requests, c \in Codes : Resolving(q, c)' <=> Resolving(q, c)
  BY DEF Resolving
<1>3. Sweeps' = Sweeps
  BY <1>1 DEF Sweeps
<1>4. Taken' = Taken
  BY <1>2 DEF Taken
<1>. QED
  BY <1>3, <1>4

\* The end of a transaction ends its sweep.
LEMMA SweepCloses ==
  ASSUME TypeOK, NEW r \in Requests, Release(r), Sweeping(r)
  PROVE  /\ Sweeps[r] # Store!NoSweep /\ Sweeps' = [Sweeps EXCEPT ![r] = Store!NoSweep]
         /\ Sweeps[r].user = txn[r].user /\ Sweeps[r].found = txn[r].victims
         /\ Taken' = Taken
<1>1. /\ \A q \in Requests \ {r} : txn'[q] = txn[q]
      /\ txn'[r].at = "idle" /\ txn'[r].op = "none"
  BY ReleaseSlots
<1>2. /\ \A q \in Requests \ {r} : SweepOf(q)' = SweepOf(q)
      /\ SweepOf(r)' = Store!NoSweep
  BY <1>1 DEF SweepOf, Sweeping, Store!NoSweep
<1>3. Sweeps' = [Sweeps EXCEPT ![r] = Store!NoSweep]
  BY <1>2 DEF Sweeps
<1>4. /\ Sweeps[r] = SweepOf(r) /\ SweepOf(r).state = "open"
      /\ SweepOf(r).user = txn[r].user /\ SweepOf(r).found = txn[r].victims
  BY DEF Sweeps, SweepOf
<1>5. Store!NoSweep.state = "none"
  BY DEF Store!NoSweep
<1>6. \A q \in Requests, c \in Codes : Resolving(q, c)' <=> Resolving(q, c)
  BY <1>1 DEF Resolving, Sweeping
<1>7. Taken' = Taken
  BY <1>6 DEF Taken
<1>. QED
  BY <1>3, <1>4, <1>5, <1>7

\* The end of an exchange gives or loses the code it has taken, and no other.
LEMMA ExchangeCloses ==
  ASSUME TypeOK, HandoffInv, IssueInv, NEW r \in Requests, Release(r), txn[r].at = "resolve"
  PROVE  /\ txn[r].code \in Taken /\ Taken' = Taken \ {txn[r].code}
         /\ Sweeps' = Sweeps
<1>. DEFINE c == txn[r].code
<1>1. /\ \A q \in Requests \ {r} : txn'[q] = txn[q]
      /\ txn'[r].at = "idle" /\ txn'[r].op = "none"
  BY ReleaseSlots
<1>2. c \in Codes /\ Resolving(r, c)
  BY DEF IssueInv, Resolving
<1>3. \A q \in Requests : Resolving(q, c) => q = r
  BY <1>2 DEF HandoffInv
<1>4. \A d \in Codes, q \in Requests : Resolving(q, d)' <=> Resolving(q, d) /\ d # c
  BY <1>1, <1>3 DEF Resolving
<1>5. Taken' = Taken \ {c}
  BY <1>4 DEF Taken
<1>6. \A q \in Requests : SweepOf(q)' = SweepOf(q)
  BY <1>1 DEF SweepOf, Sweeping
<1>7. Sweeps' = Sweeps
  BY <1>6 DEF Sweeps
<1>. QED
  BY <1>2, <1>5, <1>7 DEF Taken

\* What a commit revokes is what its statement has found.
LEMMA CommitRevokes ==
  ASSUME TypeOK, NEW r \in Requests, Commit(r)
  PROVE  Store!Revoke(txn[r].victims)
BY DEF Commit, Store!Revoke

\* In update_user that is every session that can be revoked, or none.
LEMMA DeactivationRevokes ==
  ASSUME TypeOK, VictimsInv, SweepInv, NEW r \in Requests, Commit(r), txn[r].op = "update"
  PROVE  IF txn[r].is_active = "off" THEN Store!Revoke(Store!Unrevoked(txn[r].user))
         ELSE UNCHANGED session
<1>. DEFINE Ended(s) == [session[s] EXCEPT !.state = "revoked"]
<1>0. session' = [s \in Sessions |-> IF s \in txn[r].victims THEN Ended(s) ELSE session[s]]
  BY DEF Commit
<1>1. CASE txn[r].is_active = "off"
  <2>1. Store!Unrevoked(txn[r].user) \subseteq txn[r].victims
    BY <1>1 DEF VictimsInv, Commit, Unrevoked, Store!Unrevoked
  <2>2. ASSUME NEW s \in Sessions, s \in txn[r].victims, s \notin Store!Unrevoked(txn[r].user)
        PROVE  Ended(s) = session[s]
    <3>1. session[s] \in [state : {"unissued", "live", "revoked", "expired"},
                          owner : Users, ver : Nat]
      BY DEF TypeOK
    <3>2. session[s].state = "revoked"
      BY <2>2, <3>1 DEF SweepInv, Store!Unrevoked
    <3>. QED
      BY <3>1, <3>2
  <2>. HIDE DEF Ended
  <2>3. session' = [s \in Sessions |-> IF s \in Store!Unrevoked(txn[r].user) THEN Ended(s)
                                       ELSE session[s]]
    BY <1>0, <2>1, <2>2
  <2>4. Store!Revoke(Store!Unrevoked(txn[r].user))
    BY <2>3 DEF Ended, Store!Revoke
  <2>. QED
    BY <1>1, <2>4
<1>2. CASE txn[r].is_active # "off"
  <2>1. txn[r].victims = {}
    BY <1>2 DEF SweepInv, Commit
  <2>2. session' = session
    BY <1>0, <2>1 DEF TypeOK
  <2>. QED
    BY <1>2, <2>2
<1>. QED
  BY <1>1, <1>2

\* The commit of update_user is an atomic update.
LEMMA UpdateRefines ==
  ASSUME InductiveInv, NEW r \in Requests, Commit(r), txn[r].op = "update"
  PROVE  Store!Update(txn[r].user, txn[r].role, txn[r].is_active)
<1>. USE DEF InductiveInv
<1>. DEFINE u == txn[r].user
<1>1. u \in accounts
  BY DEF LockInv, Commit
<1>2. u \in ActiveAdmins /\ Demotes(r) => ActiveAdmins \ {u} # {}
  BY DEF GuardInv, Commit
<1>3. u \in Store!ActiveAdmins /\ (txn[r].role = "user" \/ txn[r].is_active = "off")
        => Store!ActiveAdmins # {u}
  BY <1>2 DEF Demotes, ActiveAdmins, Store!ActiveAdmins
<1>4. IF txn[r].is_active = "off" THEN Store!Revoke(Store!Unrevoked(u)) ELSE UNCHANGED session
  BY DeactivationRevokes
<1>5. Sweeps' = Sweeps /\ Taken' = Taken
  <2>1. txn'[r].at = "idle" /\ \A q \in Requests \ {r} : txn'[q] = txn[q]
    BY ReleaseSlots DEF Commit
  <2>. QED
    BY <2>1, HiddenQuiet DEF Commit, Sweeping
<1>6. /\ admins' = CASE txn[r].role = "admin" -> admins \cup {u}
                     [] txn[r].role = "user"  -> admins \ {u}
                     [] OTHER                 -> admins
      /\ active' = CASE txn[r].is_active = "on"  -> active \cup {u}
                     [] txn[r].is_active = "off" -> active \ {u}
                     [] OTHER                    -> active
      /\ password' = password
      /\ UNCHANGED <<accounts, handoff, exchanged>>
  BY DEF Commit
<1>. QED
  BY <1>1, <1>3, <1>4, <1>5, <1>6 DEF Store!Update

\* The commit of a reset or a revocation ends the sessions found.
LEMMA SweepRefines ==
  ASSUME InductiveInv, NEW r \in Requests, Commit(r), txn[r].op # "update"
  PROVE  Store!ResetPassword(r) \/ Store!RevokeUserSessions(r)
<1>. USE DEF InductiveInv
<1>1. Sweeping(r) /\ Release(r) /\ txn[r].role = "keep" /\ txn[r].is_active = "keep"
  BY DEF LockInv, Commit, Sweeping
<1>2. /\ Sweeps[r] # Store!NoSweep /\ Sweeps' = [Sweeps EXCEPT ![r] = Store!NoSweep]
      /\ Sweeps[r].user = txn[r].user /\ Sweeps[r].found = txn[r].victims
      /\ Taken' = Taken
  BY <1>1, SweepCloses
<1>3. UNCHANGED <<accounts, admins, active, handoff, exchanged>>
  BY <1>1 DEF Commit
<1>4. Store!Revoke(Sweeps[r].found)
  BY <1>2, CommitRevokes
<1>5. Store!EndSessions(r)
  BY <1>2, <1>3, <1>4 DEF Store!EndSessions, Store!roster
<1>6. CASE txn[r].op = "reset"
  BY <1>2, <1>5, <1>6 DEF Commit, Store!ResetPassword
<1>7. CASE txn[r].op # "reset"
  BY <1>5, <1>7 DEF Commit, Store!RevokeUserSessions
<1>. QED
  BY <1>6, <1>7

\* The statement that finds the sessions opens the sweep.
LEMMA FindRefines ==
  ASSUME InductiveInv, NEW r \in Requests, RevokeStatement(r)
  PROVE  \/ Store!Sweep(r, txn[r].user)
         \/ UNCHANGED <<roster, tokens>> /\ Sweeps' = Sweeps /\ Taken' = Taken
<1>. USE DEF InductiveInv
<1>1. /\ \A q \in Requests \ {r} : txn'[q] = txn[q]
      /\ txn[r].at = "revoke" /\ txn'[r].at = "commit" /\ txn'[r].op = txn[r].op
      /\ txn'[r].user = txn[r].user /\ txn'[r].victims = Unrevoked(txn[r].user)
      /\ UNCHANGED <<roster, tokens>>
  BY DEF RevokeStatement, TypeOK, Txn
<1>2. CASE txn[r].op = "update"
  <2>1. ~Sweeping(r)
    BY <1>1 DEF Sweeping
  <2>. QED
    BY <1>1, <1>2, <2>1, HiddenQuiet
<1>3. CASE txn[r].op # "update"
  <2>. DEFINE Found == [state |-> "open", user |-> txn[r].user,
                        found |-> Unrevoked(txn[r].user)]
  <2>1. txn[r].op \in {"reset", "revoke"} /\ txn[r].user \in accounts
    BY <1>1, <1>3 DEF LockInv
  <2>2. SweepOf(r) = Store!NoSweep /\ SweepOf(r)' = Found
    BY <1>1, <2>1 DEF SweepOf, Sweeping, Store!NoSweep
  <2>3. \A q \in Requests \ {r} : SweepOf(q)' = SweepOf(q)
    BY <1>1 DEF SweepOf, Sweeping
  <2>. HIDE DEF Found
  <2>4. Sweeps[r] = Store!NoSweep /\ Sweeps' = [Sweeps EXCEPT ![r] = Found]
    BY <2>2, <2>3 DEF Sweeps
  <2>5. \A q \in Requests, c \in Codes : Resolving(q, c)' <=> Resolving(q, c)
    BY <1>1 DEF Resolving
  <2>6. Taken' = Taken
    BY <2>5 DEF Taken
  <2>7. Found = [state |-> "open", user |-> txn[r].user,
                 found |-> Store!Unrevoked(txn[r].user)]
    BY DEF Found, Unrevoked, Store!Unrevoked
  <2>. QED
    BY <1>1, <2>1, <2>4, <2>6, <2>7 DEF Store!Sweep, Store!roster, roster, tokens
<1>. QED
  BY <1>2, <1>3

\* The INSERT of a login issues its guid.
LEMMA LoginRefines ==
  ASSUME InductiveInv, NEW r \in Requests, LoginInsert(r)
  PROVE  /\ Store!Login(txn[r].user, txn[r].guid, txn[r].ver)
         /\ txn[r].user \in Users /\ txn[r].guid \in Sessions
         /\ txn[r].ver \in 0..password[txn[r].user]
<1>. USE DEF InductiveInv
<1>1. txn[r].op = "login" /\ txn[r].user \in Users /\ txn[r].ver \in Nat
  BY DEF IssueInv, LoginInsert, TypeOK, Txn
<1>2. /\ txn[r].guid \in Sessions /\ session[txn[r].guid].state = "unissued"
      /\ txn[r].user \in accounts /\ txn[r].ver <= password[txn[r].user]
  BY <1>1 DEF IssueInv
<1>3. password[txn[r].user] \in Nat
  BY <1>1 DEF TypeOK
<1>4. txn[r].ver \in 0..password[txn[r].user]
  BY <1>1, <1>2, <1>3
<1>5. Sweeps' = Sweeps /\ Taken' = Taken
  <2>1. txn'[r].at = "idle" /\ \A q \in Requests \ {r} : txn'[q] = txn[q]
    BY ReleaseSlots DEF LoginInsert
  <2>. QED
    BY <2>1, HiddenQuiet DEF LoginInsert, Sweeping
<1>. QED
  BY <1>1, <1>2, <1>4, <1>5 DEF LoginInsert, Store!Login, roster, Store!roster

\* A creation is one step.
LEMMA CreateRefines ==
  ASSUME InductiveInv, NEW r \in Requests, CreateUser(r)
  PROVE  \/ \E u \in Users, role \in {"user", "admin"} : Store!Create(u, role)
         \/ UNCHANGED <<roster, tokens>> /\ Sweeps' = Sweeps /\ Taken' = Taken
<1>. USE DEF InductiveInv
<1>1. txn'[r].at = "idle" /\ \A q \in Requests \ {r} : txn'[q] = txn[q]
  BY ReleaseSlots DEF CreateUser
<1>2. Sweeps' = Sweeps /\ Taken' = Taken
  BY <1>1, HiddenQuiet DEF CreateUser, Sweeping
<1>3. ASSUME NEW u \in Users \ accounts,
             accounts' = accounts \cup {u}, active' = active \cup {u},
             admins' = IF txn[r].role = "admin" THEN admins \cup {u} ELSE admins,
             UNCHANGED password
      PROVE  \E role \in {"user", "admin"} : Store!Create(u, role)
  <2>1. UNCHANGED <<session, handoff, exchanged>>
    BY DEF CreateUser, tokens
  <2>2. CASE txn[r].role = "admin"
    BY <1>2, <1>3, <2>1, <2>2 DEF Store!Create
  <2>3. CASE txn[r].role # "admin"
    BY <1>2, <1>3, <2>1, <2>3 DEF Store!Create
  <2>. QED
    BY <2>2, <2>3
<1>. QED
  BY <1>2, <1>3 DEF CreateUser

\* The DELETE of a code takes it.
LEMMA TakeRefines ==
  ASSUME InductiveInv, NEW r \in Requests, NEW c \in Codes, ConsumeHandoff(r, c)
  PROVE  Store!Take(c)
<1>. USE DEF InductiveInv
<1>1. /\ txn[r].at = "idle" /\ txn'[r].at = "resolve" /\ txn'[r].code = c
      /\ \A q \in Requests \ {r} : txn'[q] = txn[q]
  BY DEF ConsumeHandoff, TypeOK, Idle
<1>2. \A q \in Requests : SweepOf(q)' = SweepOf(q)
  BY <1>1 DEF SweepOf, Sweeping
<1>3. Sweeps' = Sweeps
  BY <1>2 DEF Sweeps
<1>4. \A d \in Codes : (\E q \in Requests : Resolving(q, d)') <=>
                       (\E q \in Requests : Resolving(q, d)) \/ d = c
  BY <1>1 DEF Resolving
<1>5. Taken' = Taken \cup {c}
  BY <1>4 DEF Taken
<1>. QED
  BY <1>3, <1>5 DEF ConsumeHandoff, TakeCode, Store!Take, Store!roster, roster

\* The second transaction of an exchange gives the guid, or the code is lost.
LEMMA ExchangeRefines ==
  ASSUME InductiveInv, NEW r \in Requests, ResolveHandoff(r)
  PROVE  txn[r].code \in Codes /\ (Store!Exchange(txn[r].code) \/ Store!Lose(txn[r].code))
<1>. USE DEF InductiveInv
<1>. DEFINE c == txn[r].code
<1>1. /\ c \in Taken /\ Taken' = Taken \ {c} /\ Sweeps' = Sweeps
  BY ExchangeCloses DEF ResolveHandoff
<1>2. c \in Codes /\ handoff[c].guid = txn[r].guid /\ Resolving(r, c)
  BY DEF IssueInv, ResolveHandoff, Resolving
<1>3. exchanged[c] = 0
  BY <1>2 DEF HandoffInv
<1>4. UNCHANGED <<accounts, admins, active, password, session, handoff>>
  BY DEF ResolveHandoff, roster
<1>5. CASE Resolves(txn[r].guid)
  <2>1. exchanged' = [exchanged EXCEPT ![c] = 1]
    BY <1>2, <1>3, <1>5 DEF ResolveHandoff
  <2>. QED
    BY <1>1, <1>2, <1>3, <1>4, <1>5, <2>1 DEF Store!Exchange, Store!roster, Resolves
<1>6. CASE ~Resolves(txn[r].guid)
  <2>1. exchanged' = exchanged
    BY <1>6 DEF ResolveHandoff
  <2>. QED
    BY <1>1, <1>2, <1>4, <2>1 DEF Store!Lose, Store!roster
<1>. QED
  BY <1>5, <1>6

\* A lost connection forgets a sweep or loses a code, and nothing else.
LEMMA LossRefines ==
  ASSUME InductiveInv, NEW r \in Requests, LoseConnection(r)
  PROVE  \/ Store!Forget(r)
         \/ \E c \in Codes : Store!Lose(c)
         \/ UNCHANGED <<roster, tokens>> /\ Sweeps' = Sweeps /\ Taken' = Taken
<1>. USE DEF InductiveInv
<1>1. Release(r) /\ UNCHANGED <<roster, tokens>>
  BY DEF LoseConnection, Rollback
<1>2. CASE Sweeping(r)
  BY <1>1, <1>2, SweepCloses DEF Store!Forget, Store!roster, roster, tokens
<1>3. CASE txn[r].at = "resolve"
  <2>1. txn[r].code \in Codes
    BY <1>3 DEF IssueInv
  <2>2. Store!Lose(txn[r].code)
    BY <1>1, <1>3, ExchangeCloses DEF Store!Lose, Store!roster, roster, tokens
  <2>. QED
    BY <2>1, <2>2
<1>4. CASE ~Sweeping(r) /\ txn[r].at # "resolve"
  <2>1. txn'[r].at = "idle" /\ \A q \in Requests \ {r} : txn'[q] = txn[q]
    BY <1>1, ReleaseSlots
  <2>. QED
    BY <1>1, <1>4, <2>1, HiddenQuiet
<1>. QED
  BY <1>2, <1>3, <1>4

\* The other statements read, lock and decide: none of it is visible.
LEMMA QuietRefines ==
  ASSUME InductiveInv, NEW r \in Requests,
         UserNotFound(r) \/ LockUser(r) \/ LockAdvisory(r) \/ CountAdmins(r)
           \/ ResetPassword(r) \/ RevokeUserSessions(r)
  PROVE  /\ UNCHANGED <<roster, tokens>> /\ Sweeps' = Sweeps /\ Taken' = Taken
<1>. USE DEF InductiveInv
<1>1. txn[r].at \in {"admitted", "advisory", "count"} /\ UNCHANGED <<roster, tokens>>
  BY DEF UserNotFound, LockUser, LockAdvisory, CountAdmins, ResetPassword,
         RevokeUserSessions, RefuseLastAdmin, Rollback
<1>2. ASSUME Release(r)
      PROVE  Sweeps' = Sweeps /\ Taken' = Taken
  <2>1. txn'[r].at = "idle" /\ \A q \in Requests \ {r} : txn'[q] = txn[q]
    BY <1>2, ReleaseSlots
  <2>. QED
    BY <1>1, <2>1, HiddenQuiet DEF Sweeping
<1>3. ASSUME NEW p \in {"count", "advisory", "revoke", "commit"}, Goto(r, p),
             p = "commit" => txn[r].op \notin {"reset", "revoke"}
      PROVE  Sweeps' = Sweeps /\ Taken' = Taken
  <2>1. /\ \A q \in Requests \ {r} : txn'[q] = txn[q]
        /\ txn'[r] = [txn[r] EXCEPT !.at = p]
    BY <1>3, GotoSlots
  <2>2. txn'[r].at = p /\ txn'[r].op = txn[r].op
    BY <2>1 DEF TypeOK, Txn
  <2>. QED
    BY <1>1, <1>3, <2>1, <2>2, HiddenQuiet DEF Sweeping
<1>4. CASE UserNotFound(r)
  BY <1>1, <1>2, <1>4 DEF UserNotFound, Rollback
<1>5. CASE LockUser(r)
  BY <1>1, <1>3, <1>5 DEF LockUser, AfterGuard
<1>6. CASE LockAdvisory(r)
  BY <1>1, <1>3, <1>6 DEF LockAdvisory
<1>7. CASE CountAdmins(r)
  <2>1. txn[r].op = "update"
    BY <1>7 DEF CountAdmins, LockInv
  <2>. QED
    BY <1>1, <1>2, <1>3, <1>7, <2>1 DEF CountAdmins, RefuseLastAdmin, Rollback, AfterGuard
<1>8. CASE ResetPassword(r) \/ RevokeUserSessions(r)
  BY <1>1, <1>3, <1>8 DEF ResetPassword, RevokeUserSessions
<1>. QED
  BY <1>4, <1>5, <1>6, <1>7, <1>8

\* So do the first steps of a login and of an administrator's request.
LEMMA BeginRefines ==
  ASSUME InductiveInv, NEW r \in Requests, NEW s \in Sessions,
         AdminRequest(r, s) \/ \E u \in Users : LoginSelect(r, u, s)
  PROVE  /\ UNCHANGED <<roster, tokens>> /\ Sweeps' = Sweeps /\ Taken' = Taken
<1>. USE DEF InductiveInv
<1>1. /\ txn[r].at = "idle" /\ UNCHANGED <<roster, tokens>>
      /\ txn'[r].at \in {"admitted", "insert"} /\ \A q \in Requests \ {r} : txn'[q] = txn[q]
  <2>1. CASE AdminRequest(r, s)
    <3>1. PICK op, u, role, is_active : Admit(r, s, op, u, role, is_active)
      BY <2>1 DEF AdminRequest
    <3>. QED
      BY <3>1 DEF Admit, TypeOK, Idle
  <2>2. ASSUME NEW u \in Users, LoginSelect(r, u, s)
        PROVE  /\ txn[r].at = "idle" /\ UNCHANGED <<roster, tokens>>
               /\ txn'[r].at = "insert" /\ \A q \in Requests \ {r} : txn'[q] = txn[q]
    BY <2>2 DEF LoginSelect, TypeOK, Idle
  <2>. QED
    BY <2>1, <2>2
<1>. QED
  BY <1>1, HiddenQuiet DEF Sweeping

\* What happens to sessions and codes outside transactions is a step of the store.
LEMMA EnvironmentRefines ==
  ASSUME InductiveInv, NEW s \in Sessions,
         Logout(s) \/ ExpireSession(s) \/ \E c \in Codes : CreateHandoff(s, c)
  PROVE  Store!Logout(s) \/ Store!Expire(s) \/ \E c \in Codes : Store!CreateHandoff(s, c)
<1>. USE DEF InductiveInv
<1>1. ASSUME txn' = txn
      PROVE  Sweeps' = Sweeps /\ Taken' = Taken
  BY <1>1 DEF Sweeps, SweepOf, Sweeping, Taken, Resolving
<1>2. CASE Logout(s)
  <2>1. session' = [t \in Sessions |-> IF t \in {s} THEN [session[t] EXCEPT !.state = "revoked"]
                                       ELSE session[t]]
    BY <1>2 DEF Logout, TypeOK
  <2>. QED
    BY <1>1, <1>2, <2>1 DEF Logout, Store!Logout, Store!Revoke, roster, Store!roster
<1>3. CASE ExpireSession(s)
  BY <1>1, <1>3 DEF ExpireSession, Store!Expire, roster, Store!roster
<1>4. ASSUME NEW c \in Codes, CreateHandoff(s, c)
      PROVE  Store!CreateHandoff(s, c)
  BY <1>1, <1>4 DEF CreateHandoff, Store!CreateHandoff, roster, Store!roster
<1>. QED
  BY <1>2, <1>3, <1>4

\* A code that is not used in time lapses.
LEMMA LapseRefines ==
  ASSUME InductiveInv, NEW c \in Codes, LapseHandoff(c)
  PROVE  Store!Lapse(c)
<1>1. Sweeps' = Sweeps /\ Taken' = Taken
  BY DEF LapseHandoff, Sweeps, SweepOf, Sweeping, Taken, Resolving
<1>. QED
  BY <1>1 DEF LapseHandoff, Store!Lapse, roster, Store!roster

\* Every step of a transaction is one of the store, or leaves it alone.
LEMMA StepRefines ==
  ASSUME InductiveInv, [Next]_vars
  PROVE  [Store!Next]_<<Store!roster, password, session, handoff, exchanged, Sweeps, Taken>>
<1>. DEFINE Stutter == UNCHANGED <<roster, tokens>> /\ Sweeps' = Sweeps /\ Taken' = Taken
<1>. SUFFICES Store!Next \/ Stutter
  BY DEF roster, tokens, Store!roster
<1>1. ASSUME NEW r \in Requests, Commit(r)
      PROVE  Store!Next
  <2>1. txn[r].user \in Users /\ txn[r].role \in Roles /\ txn[r].is_active \in Actives
    BY DEF InductiveInv, TypeOK, Txn
  <2>2. CASE txn[r].op = "update"
    BY <1>1, <2>1, <2>2, UpdateRefines DEF Store!Next, Roles, Actives
  <2>3. CASE txn[r].op # "update"
    BY <1>1, <2>3, SweepRefines DEF Store!Next
  <2>. QED
    BY <2>2, <2>3
<1>2. ASSUME NEW r \in Requests, RevokeStatement(r)
      PROVE  Store!Next \/ Stutter
  <2>1. txn[r].user \in Users
    BY DEF InductiveInv, TypeOK, Txn
  <2>. QED
    BY <1>2, <2>1, FindRefines DEF Store!Next
<1>3. ASSUME NEW r \in Requests, LoginInsert(r)
      PROVE  Store!Next
  BY <1>3, LoginRefines DEF Store!Next
<1>4. ASSUME NEW r \in Requests, CreateUser(r)
      PROVE  Store!Next \/ Stutter
  BY <1>4, CreateRefines DEF Store!Next
<1>5. ASSUME NEW r \in Requests, ResolveHandoff(r)
      PROVE  Store!Next
  BY <1>5, ExchangeRefines DEF Store!Next
<1>6. ASSUME NEW r \in Requests, NEW c \in Codes, ConsumeHandoff(r, c)
      PROVE  Store!Next
  BY <1>6, TakeRefines DEF Store!Next
<1>7. ASSUME NEW r \in Requests, LoseConnection(r)
      PROVE  Store!Next \/ Stutter
  BY <1>7, LossRefines DEF Store!Next
<1>8. ASSUME NEW r \in Requests, Statement(r)
      PROVE  Store!Next \/ Stutter
  BY <1>1, <1>2, <1>3, <1>4, <1>5, <1>8, QuietRefines DEF Statement
<1>9. ASSUME NEW r \in Requests, NEW s \in Sessions,
             AdminRequest(r, s) \/ \E u \in Users : LoginSelect(r, u, s)
      PROVE  Stutter
  BY <1>9, BeginRefines
<1>10. ASSUME NEW s \in Sessions,
              Logout(s) \/ ExpireSession(s) \/ \E c \in Codes : CreateHandoff(s, c)
       PROVE  Store!Next
  BY <1>10, EnvironmentRefines DEF Store!Next
<1>11. ASSUME NEW c \in Codes, LapseHandoff(c)
       PROVE  Store!Next
  BY <1>11, LapseRefines DEF Store!Next
<1>12. CASE UNCHANGED vars
  BY <1>12 DEF vars, Sweeps, SweepOf, Sweeping, Taken, Resolving
<1>. HIDE DEF Stutter
<1>. QED
  BY <1>6, <1>7, <1>8, <1>9, <1>10, <1>11, <1>12 DEF Next

\* At the start nothing is swept and no code is taken.
LEMMA InitRefines == Init => Store!Init
<1>. SUFFICES ASSUME Init PROVE Store!Init
  OBVIOUS
<1>1. \A r \in Requests : SweepOf(r) = Store!NoSweep
  BY DEF Init, SweepOf, Sweeping, Idle, Store!NoSweep
<1>2. Sweeps = [r \in Requests |-> Store!NoSweep]
  BY <1>1 DEF Sweeps
<1>3. Taken = {}
  BY DEF Init, Taken, Resolving, Idle
<1>. QED
  BY <1>2, <1>3 DEF Init, Store!Init

\* The transactions of the repository, statement by statement, with their locks,
\* failures and lost connections, are an account store whose calls are atomic, up
\* to the two exceptions AccountStore names.
THEOREM Refinement == Spec => ImplementsAccountStore
<1>. QED
  BY InitRefines, StepRefines, Inductive, PTL DEF Spec, ImplementsAccountStore, Store!Spec
=============================================================================
