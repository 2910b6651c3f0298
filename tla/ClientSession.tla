---------------------------- MODULE ClientSession ----------------------------
(***************************************************************************)
(* One browser session of the Streamlit client: client/auth.py, and what   *)
(* app.py and pages/workspace.py keep in st.session_state.                 *)
(*                                                                         *)
(* Every interaction runs the page's script from the top.  Streamlit may   *)
(* end a run at any access of the session state, to start the next one;    *)
(* what the run has stored or deleted by then stays so.                    *)
(***************************************************************************)
EXTENDS FiniteSets

CONSTANTS
  People,   \* the accounts that log in
  Guids,    \* login sessions
  Owner,    \* Owner[g]: the account g was issued for
  Keys,     \* thread_id, workspace_current_path, workspace_delete_path, ...
  Nothing   \* no guid, no account

ASSUME OwnerAssumption == Owner \in [Guids -> People]
ASSUME NothingAssumption == Nothing \notin People \cup Guids

VARIABLES
  live,       \* the guids that GET /v1/auth/me accepts
  cookie,     \* st.context.cookies['guid']
  auth_code,  \* the guid behind ?auth_code= of the address
  auth_guid,  \* st.session_state.auth_guid
  auth_user,  \* st.session_state.auth_user_id
  held,       \* held[k]: whose data key k of the session state holds
  script,     \* where the run of the script is
  user        \* current_user, a variable of the run

clientVars ==
  <<live, cookie, auth_code, auth_guid, auth_user, held, script, user>>

stored  == <<auth_guid, auth_user, held>>
browser == <<live, cookie, auth_code>>

ClientTypeOK ==
  /\ live \subseteq Guids
  /\ {cookie, auth_code, auth_guid} \subseteq Guids \cup {Nothing}
  /\ auth_user \in People \cup {Nothing}
  /\ held \in [Keys -> People \cup {Nothing}]
  /\ script \in {"idle", "start", "exchange", "me", "login", "compare", "clear", "page"}
  /\ user \in People \cup {Nothing}

Empty == [k \in Keys |-> Nothing]

ClientInit ==
  /\ live = {} /\ cookie = Nothing /\ auth_code = Nothing
  /\ auth_guid = Nothing /\ auth_user = Nothing /\ held = Empty
  /\ script = "idle" /\ user = Nothing

current_guid == IF auth_guid # Nothing THEN auth_guid ELSE cookie

\* authenticate returns a guid that nobody has seen.
NewGuid(g) == g \notin live \cup {cookie, auth_code, auth_guid}

\* The run goes on, and the values that only the run knows are kept.
At(point) == script' = point /\ user' = user

\* st.stop, the end of the script or st.rerun: its variables are gone.
End == script' = "idle" /\ user' = Nothing

-----------------------------------------------------------------------------
(* require_login *)

Rerun ==
  /\ script = "idle"
  /\ script' = IF auth_code # Nothing THEN "exchange" ELSE "me"
  /\ UNCHANGED <<browser, stored, user>>

\* The code of the address is exchanged, once, for the guid behind it.  The
\* address is cleaned in any case; a run that ends before the guid is stored
\* loses it.
Exchange ==
  /\ script = "exchange"
  /\ auth_code' = Nothing
  /\ \/ auth_code \in live /\ auth_guid' = auth_code /\ At("me")
     \/ UNCHANGED auth_guid /\ (At("me") \/ End)
  /\ UNCHANGED <<live, cookie, auth_user, held>>

NoGuid ==
  /\ script = "me" /\ current_guid = Nothing
  /\ At("login")
  /\ UNCHANGED <<browser, stored>>

Accepted ==
  /\ script = "me" /\ current_guid \in live
  /\ user' = Owner[current_guid]
  /\ script' = "compare"
  /\ UNCHANGED <<browser, stored>>

\* 401 or 403: only the guid is dropped, the rest of the state waits for the
\* next login.
Rejected ==
  /\ script = "me" /\ current_guid \notin live \cup {Nothing}
  /\ auth_guid' = Nothing
  /\ At("login")
  /\ UNCHANGED <<browser, auth_user, held>>

Unavailable ==
  /\ script \in {"me", "login"}
  /\ End
  /\ UNCHANGED <<browser, stored>>

\* The login form; st.rerun follows.
Login(g) ==
  /\ script = "login" /\ NewGuid(g)
  /\ live' = live \cup {g}
  /\ auth_guid' = g
  /\ End
  /\ UNCHANGED <<cookie, auth_code, auth_user, held>>

SameUser ==
  /\ script = "compare" /\ auth_user = user
  /\ At("page")
  /\ UNCHANGED <<browser, stored>>

\* The new user is stored before the keys of the old one are deleted.
OtherUserStoredFirst ==
  /\ script = "compare" /\ auth_user # user
  /\ auth_user' = user
  /\ At("clear")
  /\ UNCHANGED <<browser, auth_guid, held>>

OtherUser ==
  /\ script = "compare" /\ auth_user # user
  /\ At("clear")
  /\ UNCHANGED <<browser, stored>>

ClearKey(k) ==
  /\ script = "clear" /\ held[k] # Nothing
  /\ held' = [held EXCEPT ![k] = Nothing]
  /\ UNCHANGED <<browser, auth_guid, auth_user, script, user>>

StoreUser ==
  /\ script = "clear" /\ held = Empty
  /\ auth_user' = user
  /\ At("page")
  /\ UNCHANGED <<browser, auth_guid, held>>

-----------------------------------------------------------------------------
(* The pages. *)

\* What a page keeps comes from a call that carries current_guid().
Keep(k) ==
  /\ script = "page" /\ current_guid \in live
  /\ held' = [held EXCEPT ![k] = Owner[current_guid]]
  /\ UNCHANGED <<browser, auth_guid, auth_user, script, user>>

\* A button of the workspace page keeps the path or the content of an entry,
\* drops what it makes obsolete and starts the page again.
Browse(k, dropped) ==
  /\ script = "page" /\ current_guid \in live
  /\ held' = [l \in Keys |-> IF l = k THEN Owner[current_guid]
                            ELSE IF l \in dropped THEN Nothing ELSE held[l]]
  /\ End
  /\ UNCHANGED <<browser, auth_guid, auth_user>>

Forget(k) ==
  /\ script = "page"
  /\ held' = [held EXCEPT ![k] = Nothing]
  /\ UNCHANGED <<browser, auth_guid, auth_user, script, user>>

\* Logout that does not touch the state of the session.
LogoutKeeping ==
  /\ script = "page" /\ current_guid \in live
  /\ live' = live \ {current_guid}
  /\ auth_guid' = Nothing /\ auth_user' = Nothing
  /\ End
  /\ UNCHANGED <<cookie, auth_code, held>>

\* logout revokes the guid in use first.  If that fails the page goes on.
Logout ==
  /\ script = "page" /\ current_guid \in live
  /\ live' = live \ {current_guid}
  /\ auth_guid' = Nothing /\ auth_user' = Nothing /\ held' = Empty
  /\ End
  /\ UNCHANGED <<cookie, auth_code>>

\* The run ends: at its end, or because the next one is to start.
Interrupt ==
  /\ script # "idle"
  /\ End
  /\ UNCHANGED <<browser, stored>>

-----------------------------------------------------------------------------
(* The browser and the server. *)

\* The form of agent-api logs somebody in: it sets the cookie, which the client
\* sees when it connects again, or leads to the client with a code.
ServerLogin(g) ==
  /\ script = "idle" /\ NewGuid(g)
  /\ live' = live \cup {g}
  /\ \/ cookie' = g /\ UNCHANGED auth_code
     \/ auth_code' = g /\ UNCHANGED cookie
  /\ UNCHANGED <<stored, script, user>>

\* The session expires or is revoked somewhere else.
Revoke(g) ==
  /\ g \in live
  /\ live' = live \ {g}
  /\ UNCHANGED <<cookie, auth_code, stored, script, user>>

ClientNext ==
  \/ Rerun \/ Exchange \/ NoGuid \/ Accepted \/ Rejected \/ Unavailable
  \/ SameUser \/ OtherUser \/ StoreUser
  \/ Logout \/ Interrupt
  \/ \E k \in Keys :
       \/ ClearKey(k) \/ Keep(k) \/ Forget(k)
       \/ \E dropped \in SUBSET (Keys \ {k}) : Browse(k, dropped)
  \/ \E g \in Guids : Login(g) \/ ServerLogin(g) \/ Revoke(g)

ClientSpec == ClientInit /\ [][ClientNext]_clientVars

-----------------------------------------------------------------------------
(* Properties.                                                             *)

\* While a page is shown, everything the session keeps and every call it makes
\* belongs to the user whose name the page shows, whoever used the session
\* before and wherever earlier runs of the script were cut off.
NoForeignState ==
  script = "page" =>
    /\ \A k \in Keys : held[k] \in {user, Nothing}
    /\ current_guid # Nothing /\ Owner[current_guid] = user

\* What the session keeps belongs to the user it is marked with.
MarkedState == \A k \in Keys : held[k] \in {auth_user, Nothing}

-----------------------------------------------------------------------------
(* The inductive invariant.                                                *)

\* From the answer of GET /v1/auth/me on the run knows whose guid it uses:
\* neither the guid of the session nor the cookie changes under a run.
RunInv ==
  script \in {"compare", "clear", "page"} =>
    /\ user \in People
    /\ current_guid # Nothing /\ Owner[current_guid] = user

\* A page is shown only in a session that is marked with its user.
PageInv == script = "page" => auth_user = user

ClientInv == ClientTypeOK /\ MarkedState /\ RunInv /\ PageInv
=============================================================================
