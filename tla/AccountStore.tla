---------------------------- MODULE AccountStore ----------------------------
(***************************************************************************)
(* What shared/auth/repository.py promises of accounts, sessions and       *)
(* hand-off codes, without its transactions and locks: each call takes     *)
(* effect in one step, or in none when it fails.  A deactivation and the   *)
(* end of the account's sessions are one step.  Two calls are weaker than  *)
(* that and say so.  reset_password and revoke_user_sessions end the       *)
(* sessions found at an earlier moment (a sweep), so a login in between    *)
(* keeps its session; and the exchange of a code takes the code first, and *)
(* may then fail with the code lost.                                       *)
(***************************************************************************)
EXTENDS Naturals

CONSTANTS Users, Bootstrap, Requests, Sessions, Codes, None

VARIABLES accounts, admins, active, password, session, handoff, exchanged,
  sweep,   \* sweep[r]: the sessions r has found and is to revoke
  taken    \* the codes taken and neither exchanged nor lost yet

roster == <<accounts, admins, active>>

NoSweep == [state |-> "none", user |-> Bootstrap, found |-> {}]

Init ==
  /\ accounts = {Bootstrap} /\ admins = {Bootstrap} /\ active = {Bootstrap}
  /\ password = [u \in Users |-> 0]
  /\ session = [s \in Sessions |-> [state |-> "unissued", owner |-> Bootstrap, ver |-> 0]]
  /\ handoff = [c \in Codes |-> [state |-> "unissued", guid |-> None]]
  /\ exchanged = [c \in Codes |-> 0]
  /\ sweep = [r \in Requests |-> NoSweep]
  /\ taken = {}

ActiveAdmins == admins \cap active

Unrevoked(u) == {s \in Sessions : /\ session[s].owner = u
                                  /\ session[s].state \in {"live", "expired"}}

Revoke(S) == session' = [s \in Sessions |-> IF s \in S THEN [session[s] EXCEPT !.state = "revoked"]
                                            ELSE session[s]]

-----------------------------------------------------------------------------
(* Accounts.                                                               *)

Create(u, role) ==
  /\ u \notin accounts
  /\ accounts' = accounts \cup {u} /\ active' = active \cup {u}
  /\ admins' = IF role = "admin" THEN admins \cup {u} ELSE admins
  /\ UNCHANGED <<password, session, handoff, exchanged, sweep, taken>>

\* Another active administrator is there at the moment one ceases to be it.
Update(u, role, is_active) ==
  /\ u \in accounts
  /\ u \in ActiveAdmins /\ (role = "user" \/ is_active = "off") => ActiveAdmins # {u}
  /\ admins' = CASE role = "admin" -> admins \cup {u}
                 [] role = "user"  -> admins \ {u}
                 [] OTHER          -> admins
  /\ active' = CASE is_active = "on"  -> active \cup {u}
                 [] is_active = "off" -> active \ {u}
                 [] OTHER             -> active
  /\ IF is_active = "off" THEN Revoke(Unrevoked(u)) ELSE UNCHANGED session
  /\ UNCHANGED <<accounts, password, handoff, exchanged, sweep, taken>>

Sweep(r, u) ==
  /\ sweep[r] = NoSweep /\ u \in accounts
  /\ sweep' = [sweep EXCEPT ![r] = [state |-> "open", user |-> u, found |-> Unrevoked(u)]]
  /\ UNCHANGED <<roster, password, session, handoff, exchanged, taken>>

\* The connection is lost: the sweep comes to nothing.
Forget(r) ==
  /\ sweep[r] # NoSweep
  /\ sweep' = [sweep EXCEPT ![r] = NoSweep]
  /\ UNCHANGED <<roster, password, session, handoff, exchanged, taken>>

EndSessions(r) ==
  /\ sweep[r] # NoSweep
  /\ sweep' = [sweep EXCEPT ![r] = NoSweep]
  /\ Revoke(sweep[r].found)
  /\ UNCHANGED <<roster, handoff, exchanged, taken>>

ResetPassword(r) ==
  /\ EndSessions(r)
  /\ password' = [password EXCEPT ![sweep[r].user] = @ + 1]

RevokeUserSessions(r) == EndSessions(r) /\ UNCHANGED password

-----------------------------------------------------------------------------
(* Sessions and codes.                                                     *)

\* A guid is issued once, to an account, for a password that it has or had.
Login(u, s, v) ==
  /\ u \in accounts /\ v \in 0..password[u]
  /\ session[s].state = "unissued"
  /\ session' = [session EXCEPT ![s] = [state |-> "live", owner |-> u, ver |-> v]]
  /\ UNCHANGED <<roster, password, handoff, exchanged, sweep, taken>>

Logout(s) ==
  /\ session[s].state \in {"live", "expired"}
  /\ Revoke({s})
  /\ UNCHANGED <<roster, password, handoff, exchanged, sweep, taken>>

Expire(s) ==
  /\ session[s].state = "live"
  /\ session' = [session EXCEPT ![s].state = "expired"]
  /\ UNCHANGED <<roster, password, handoff, exchanged, sweep, taken>>

CreateHandoff(s, c) ==
  /\ session[s].state # "unissued" /\ handoff[c].state = "unissued"
  /\ handoff' = [d \in Codes |->
                   IF d = c THEN [state |-> "stored", guid |-> s]
                   ELSE IF handoff[d].state = "lapsed"
                        THEN [handoff[d] EXCEPT !.state = "gone"] ELSE handoff[d]]
  /\ UNCHANGED <<roster, password, session, exchanged, sweep, taken>>

Lapse(c) ==
  /\ handoff[c].state = "stored"
  /\ handoff' = [handoff EXCEPT ![c].state = "lapsed"]
  /\ UNCHANGED <<roster, password, session, exchanged, sweep, taken>>

Take(c) ==
  /\ handoff[c].state = "stored"
  /\ handoff' = [handoff EXCEPT ![c].state = "gone"]
  /\ taken' = taken \cup {c}
  /\ UNCHANGED <<roster, password, session, exchanged, sweep>>

\* The guid given is the one stored, and usable as it is given.
Exchange(c) ==
  /\ c \in taken /\ exchanged[c] = 0
  /\ LET s == handoff[c].guid IN session[s].state = "live" /\ session[s].owner \in active
  /\ exchanged' = [exchanged EXCEPT ![c] = 1]
  /\ taken' = taken \ {c}
  /\ UNCHANGED <<roster, password, session, handoff, sweep>>

Lose(c) ==
  /\ c \in taken
  /\ taken' = taken \ {c}
  /\ UNCHANGED <<roster, password, session, handoff, exchanged, sweep>>

Next ==
  \/ \E u \in Users, role \in {"user", "admin"} : Create(u, role)
  \/ \E u \in Users, role \in {"keep", "user", "admin"}, is_active \in {"keep", "off", "on"} :
       Update(u, role, is_active)
  \/ \E r \in Requests : \/ \E u \in Users : Sweep(r, u)
                         \/ Forget(r) \/ ResetPassword(r) \/ RevokeUserSessions(r)
  \/ \E u \in Users, s \in Sessions : \E v \in 0..password[u] : Login(u, s, v)
  \/ \E s \in Sessions : Logout(s) \/ Expire(s) \/ \E c \in Codes : CreateHandoff(s, c)
  \/ \E c \in Codes : Lapse(c) \/ Take(c) \/ Exchange(c) \/ Lose(c)

Spec == Init /\ [][Next]_<<roster, password, session, handoff, exchanged, sweep, taken>>
=============================================================================
