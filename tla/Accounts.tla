------------------------------ MODULE Accounts ------------------------------
(***************************************************************************)
(* Login accounts of the dashboard: auth.py and the users table of db.py,  *)
(* the Users panel (ui_users.py), the login page and the session cookie    *)
(* (ui_login.py, app.py).  A Streamlit session is one open tab; it runs    *)
(* the script once per interaction, and the sessions run concurrently.     *)
(* Every statement on the users table is a transaction of its own.         *)
(* A signed cookie cannot be made up, so a token is the user and version   *)
(* it was issued for.  Passwords are left out: a login either matches or   *)
(* changes nothing, and a new password shows only in session_version.      *)
(* The browser and its cookie component are not under src/: the component  *)
(* answers with what the jar held when it was last in sync, and with       *)
(* nothing before that.                                                    *)
(***************************************************************************)
EXTENDS Naturals, FiniteSets

CONSTANTS
    Usernames,      \* usernames, compared without case
    Owner,          \* KEANEXUS_USERNAME
    Sessions,       \* open tabs
    Browsers,       \* cookie jars
    BrowserOf,      \* the browser a tab is open in
    HasSecret,      \* KEANEXUS_SECRET is set
    NoAccount,      \* no row for a username
    NoToken,        \* nobody signed in, no cookie
    NoJob,          \* no change under way
    MaxVersion      \* bound on session_version and, less one, on the changes

Roles == {"admin", "viewer"}
Versions == 1..MaxVersion
AccountRows == [role : Roles, version : Versions, disabled : BOOLEAN]
Tokens == [user : Usernames, version : Versions]
Kinds == {"edit", "role", "password", "disable", "enable", "create"}
\* A dialog under way: shown is the row the table held when it was opened.
Jobs == [kind : Kinds, user : Usernames, role : Roles, reset : BOOLEAN,
         shown : [role : Roles, disabled : BOOLEAN]]

ASSUME AccountsAssumption ==
    /\ IsFiniteSet(Usernames) /\ Owner \in Usernames
    /\ BrowserOf \in [Sessions -> Browsers]
    /\ HasSecret \in BOOLEAN
    /\ NoAccount \notin AccountRows /\ NoToken \notin Tokens /\ NoJob \notin Jobs
    /\ MaxVersion \in Nat \ {0}

VARIABLES
    users,          \* the users table
    session,        \* st.session_state["auth_user"] of a tab
    jar,            \* the session cookie in a browser
    view,           \* the cookie as the component of a tab last saw it
    cookiePending,  \* _session_cookie_pending
    deletePending,  \* _cookie_delete_pending
    pc,             \* where the script of a tab stands
    job,            \* what it is changing, or the row a login has read
    revoked,        \* history: tokens ended by a change of the account
    raced,          \* history: a change was written inside another one
    signedOut       \* history: browsers signed out of, with no login since

cookieVars == <<jar, view, cookiePending, deletePending>>
historyVars == <<revoked, raced, signedOut>>
vars == <<users, session, jar, view, cookiePending, deletePending, pc, job,
          revoked, raced, signedOut>>

PCs == {"idle", "verify", "dialog", "require", "count", "write", "insert"}

TypeOK ==
    /\ users \in [Usernames -> AccountRows \cup {NoAccount}]
    /\ session \in [Sessions -> Tokens \cup {NoToken}]
    /\ jar \in [Browsers -> Tokens \cup {NoToken}]
    /\ view \in [Sessions -> Tokens \cup {NoToken}]
    /\ cookiePending \in [Sessions -> BOOLEAN]
    /\ deletePending \in [Sessions -> BOOLEAN]
    /\ pc \in [Sessions -> PCs]
    /\ job \in [Sessions -> Jobs \cup Tokens \cup {NoJob}]
    /\ revoked \subseteq Tokens
    /\ raced \in BOOLEAN
    /\ signedOut \subseteq Browsers

Init ==
    /\ users = [u \in Usernames |-> NoAccount]
    /\ session = [s \in Sessions |-> NoToken]
    /\ jar = [b \in Browsers |-> NoToken]
    /\ view = [s \in Sessions |-> NoToken]
    /\ cookiePending = [s \in Sessions |-> FALSE]
    /\ deletePending = [s \in Sessions |-> FALSE]
    /\ pc = [s \in Sessions |-> "idle"]
    /\ job = [s \in Sessions |-> NoJob]
    /\ revoked = {}
    /\ raced = FALSE
    /\ signedOut = {}

-----------------------------------------------------------------------------
(* State helpers *)

IsActiveAdmin(u) ==
    /\ users[u] # NoAccount
    /\ users[u].role = "admin"
    /\ ~users[u].disabled

ActiveAdmins == {u \in Usernames : IsActiveAdmin(u)}

\* _session_still_valid
StillValid(token) ==
    /\ token # NoToken
    /\ users[token.user] # NoAccount
    /\ ~users[token.user].disabled
    /\ users[token.user].version = token.version

\* is_admin
IsAdmin(s) ==
    /\ StillValid(session[s])
    /\ users[session[s].user].role = "admin"

TokenOf(u) == [user |-> u, version |-> users[u].version]

\* Bound: a change is begun only if, with the changes made (each revoked a
\* token) and the writes still to come of those under way, there are at most
\* MaxVersion - 1 changes of all accounts together.
Room(writes) ==
    LET busy == {t \in Sessions : pc[t] \in {"require", "count", "write"}}
        twice == {t \in busy : job[t].kind = "role" /\ job[t].reset}
    IN  Cardinality(revoked) + Cardinality(busy) + Cardinality(twice) + writes < MaxVersion

-----------------------------------------------------------------------------
(* The script of app.py *)

\* bootstrap_admin_from_env.  Of two runs that both count no users, the
\* second insert fails on the primary key and changes nothing.
Bootstrap ==
    /\ \A u \in Usernames : users[u] = NoAccount
    /\ users' = [users EXCEPT ![Owner] =
                    [role |-> "admin", version |-> 1, disabled |-> FALSE]]
    /\ UNCHANGED <<session, cookieVars, pc, job, historyVars>>

\* main() up to the gate: delete the cookie after a sign-out, end a session
\* that is no longer valid, or else restore one from the cookie, and write
\* the cookie of a fresh login.
Run(s) ==
    /\ pc[s] \in {"idle", "dialog"}
    /\ LET b == BrowserOf[s]
           kept == IF StillValid(session[s]) THEN session[s] ELSE NoToken
           mayRestore == HasSecret /\ ~deletePending[s] /\ StillValid(view[s])
           now == IF kept = NoToken /\ mayRestore THEN view[s] ELSE kept
           deletes == deletePending[s] /\ view[s] # NoToken
           writes == cookiePending[s] /\ now # NoToken
       IN  /\ session' = [session EXCEPT ![s] = now]
           /\ jar' = IF writes /\ HasSecret THEN [jar EXCEPT ![b] = now]
                     ELSE IF deletes THEN [jar EXCEPT ![b] = NoToken]
                     ELSE jar
           /\ view' = IF deletes THEN [view EXCEPT ![s] = NoToken] ELSE view
           /\ cookiePending' = [cookiePending EXCEPT ![s] = @ /\ now = NoToken]
    /\ deletePending' = [deletePending EXCEPT ![s] = FALSE]
    /\ pc' = [pc EXCEPT ![s] = "idle"]
    /\ job' = [job EXCEPT ![s] = NoJob]
    /\ UNCHANGED <<users, historyVars>>

\* The cookie component answers.
SyncCookies(s) ==
    /\ HasSecret
    /\ view' = [view EXCEPT ![s] = jar[BrowserOf[s]]]
    /\ UNCHANGED <<users, session, jar, cookiePending, deletePending, pc, job, historyVars>>

\* attempt_login reads the row, then spends its time on the hash.
Submit(s, u) ==
    /\ pc[s] = "idle" /\ ~deletePending[s]
    /\ session[s] = NoToken
    /\ users[u] # NoAccount /\ ~users[u].disabled
    /\ job' = [job EXCEPT ![s] = TokenOf(u)]
    /\ pc' = [pc EXCEPT ![s] = "verify"]
    /\ UNCHANGED <<users, session, cookieVars, historyVars>>

\* The password matches.
Verified(s) ==
    /\ pc[s] = "verify"
    /\ session' = [session EXCEPT ![s] = job[s]]
    /\ cookiePending' = [cookiePending EXCEPT ![s] = TRUE]
    /\ signedOut' = signedOut \ {BrowserOf[s]}
    /\ job' = [job EXCEPT ![s] = NoJob]
    /\ pc' = [pc EXCEPT ![s] = "idle"]
    /\ UNCHANGED <<users, jar, view, deletePending, revoked, raced>>

\* Sign out; the cookie is left to the next run.
SignOut(s) ==
    /\ pc[s] = "idle" /\ ~deletePending[s]
    /\ StillValid(session[s])
    /\ session' = [session EXCEPT ![s] = NoToken]
    /\ deletePending' = [deletePending EXCEPT ![s] = TRUE]
    /\ signedOut' = signedOut \cup {BrowserOf[s]}
    /\ UNCHANGED <<users, jar, view, cookiePending, pc, job, revoked, raced>>

\* A reload is a new Streamlit session with an empty session_state.
Reload(s) ==
    /\ pc[s] \in {"idle", "dialog"}
    /\ ~deletePending[s]
    /\ session' = [session EXCEPT ![s] = NoToken]
    /\ view' = [view EXCEPT ![s] = NoToken]
    /\ cookiePending' = [cookiePending EXCEPT ![s] = FALSE]
    /\ pc' = [pc EXCEPT ![s] = "idle"]
    /\ job' = [job EXCEPT ![s] = NoJob]
    /\ UNCHANGED <<users, jar, deletePending, historyVars>>

-----------------------------------------------------------------------------
(* The Users panel.  A dialog is a fragment: each press runs it again, and  *)
(* with it the check that the session is an admin's.                        *)

\* Open the edit dialog of a row of the table.
OpenEdit(s, u) ==
    /\ pc[s] = "idle" /\ ~deletePending[s]
    /\ IsAdmin(s)
    /\ users[u] # NoAccount
    /\ job' = [job EXCEPT ![s] =
                 [kind |-> "edit", user |-> u, role |-> users[u].role, reset |-> FALSE,
                  shown |-> [role |-> users[u].role, disabled |-> users[u].disabled]]]
    /\ pc' = [pc EXCEPT ![s] = "dialog"]
    /\ UNCHANGED <<users, session, cookieVars, historyVars>>

\* Save with a new role, a new password or both.
PressSave(s, role, reset) ==
    /\ pc[s] = "dialog"
    /\ IsAdmin(s)
    /\ \/ /\ role # job[s].shown.role /\ Room(IF reset THEN 2 ELSE 1)
          /\ job' = [job EXCEPT ![s].kind = "role", ![s].role = role, ![s].reset = reset]
          /\ pc' = [pc EXCEPT ![s] = "require"]
       \/ /\ role = job[s].shown.role /\ reset /\ Room(1)
          /\ job' = [job EXCEPT ![s].kind = "password"]
          /\ pc' = [pc EXCEPT ![s] = "write"]
    /\ UNCHANGED <<users, session, cookieVars, historyVars>>

\* Disable or Enable, whichever the row shown calls for, and never oneself.
PressToggle(s) ==
    /\ pc[s] = "dialog"
    /\ IsAdmin(s) /\ Room(1)
    /\ \/ job[s].shown.disabled /\ job' = [job EXCEPT ![s].kind = "enable"]
       \/ /\ ~job[s].shown.disabled
          /\ job[s].user # session[s].user
          /\ job' = [job EXCEPT ![s].kind = "disable"]
    /\ pc' = [pc EXCEPT ![s] = "require"]
    /\ UNCHANGED <<users, session, cookieVars, historyVars>>

Reduces(j) == j.kind = "disable" \/ (j.kind = "role" /\ j.role # "admin")

\* _require_user reads the row; only the loss of an active admin is counted.
Require(s) ==
    /\ pc[s] = "require"
    /\ pc' = [pc EXCEPT ![s] =
                IF Reduces(job[s]) /\ IsActiveAdmin(job[s].user) THEN "count" ELSE "write"]
    /\ UNCHANGED <<users, session, cookieVars, job, historyVars>>

\* Mutant of Count: refuses only when there is no active admin left.
CountSparesOne(s) ==
    /\ pc[s] = "count"
    /\ pc' = [pc EXCEPT ![s] = IF Cardinality(ActiveAdmins) < 1 THEN "dialog" ELSE "write"]
    /\ UNCHANGED <<users, session, cookieVars, job, historyVars>>

\* count_active_admins of _is_last_active_admin: the last one is refused and
\* the dialog stays open.
Count(s) ==
    /\ pc[s] = "count"
    /\ pc' = [pc EXCEPT ![s] = IF Cardinality(ActiveAdmins) <= 1 THEN "dialog" ELSE "write"]
    /\ UNCHANGED <<users, session, cookieVars, job, historyVars>>

\* Mutant of Changed: set_user_role without the new version.
ChangedKeepsVersion(row, j) ==
    [role |-> IF j.kind = "role" THEN j.role ELSE row.role,
     version |-> IF j.kind = "role" THEN row.version ELSE row.version + 1,
     disabled |-> IF j.kind = "disable" THEN TRUE
                  ELSE IF j.kind = "enable" THEN FALSE ELSE row.disabled]

\* A row after set_user_role, set_user_disabled or update_password_hash
Changed(row, j) ==
    [role |-> IF j.kind = "role" THEN j.role ELSE row.role,
     version |-> row.version + 1,
     disabled |-> IF j.kind = "disable" THEN TRUE
                  ELSE IF j.kind = "enable" THEN FALSE ELSE row.disabled]

\* The UPDATE.  A password typed next to a new role is written after it;
\* otherwise the dialog closes.
Write(s) ==
    LET j == job[s]
        u == j.user
        more == j.kind = "role" /\ j.reset
    IN  /\ pc[s] = "write"
        /\ users[u] # NoAccount /\ users[u].version < MaxVersion
        /\ users' = [users EXCEPT ![u] = Changed(users[u], j)]
        /\ revoked' = revoked \cup {TokenOf(u)}
        /\ raced' = (raced \/ \E t \in Sessions \ {s} : pc[t] \in {"count", "write"})
        /\ job' = [job EXCEPT ![s] = IF more THEN [j EXCEPT !.kind = "password"] ELSE NoJob]
        /\ pc' = [pc EXCEPT ![s] = IF more THEN "write" ELSE "idle"]
        /\ UNCHANGED <<session, cookieVars, signedOut>>

\* The add dialog: create_user finds the name free.
PressAdd(s, u, role) ==
    /\ pc[s] = "idle" /\ ~deletePending[s]
    /\ IsAdmin(s)
    /\ users[u] = NoAccount
    /\ job' = [job EXCEPT ![s] =
                 [kind |-> "create", user |-> u, role |-> role, reset |-> FALSE,
                  shown |-> [role |-> role, disabled |-> FALSE]]]
    /\ pc' = [pc EXCEPT ![s] = "insert"]
    /\ UNCHANGED <<users, session, cookieVars, historyVars>>

\* Mutant of Insert: versions start at 0.
InsertUnversioned(s) ==
    LET u == job[s].user
        new == [role |-> job[s].role, version |-> 0, disabled |-> FALSE]
    IN  /\ pc[s] = "insert"
        /\ users' = IF users[u] = NoAccount THEN [users EXCEPT ![u] = new] ELSE users
        /\ job' = [job EXCEPT ![s] = NoJob]
        /\ pc' = [pc EXCEPT ![s] = "idle"]
        /\ UNCHANGED <<session, cookieVars, historyVars>>

\* insert_user; the primary key refuses a name taken meanwhile.
Insert(s) ==
    LET u == job[s].user
        new == [role |-> job[s].role, version |-> 1, disabled |-> FALSE]
    IN  /\ pc[s] = "insert"
        /\ users' = IF users[u] = NoAccount THEN [users EXCEPT ![u] = new] ELSE users
        /\ job' = [job EXCEPT ![s] = NoJob]
        /\ pc' = [pc EXCEPT ![s] = "idle"]
        /\ UNCHANGED <<session, cookieVars, historyVars>>

PageStep(s) ==
    \/ Run(s) \/ SyncCookies(s) \/ Verified(s) \/ SignOut(s) \/ Reload(s)
    \/ \E u \in Usernames : Submit(s, u)

AdminStep(s) ==
    \/ \E u \in Usernames : OpenEdit(s, u)
    \/ \E role \in Roles, reset \in BOOLEAN : PressSave(s, role, reset)
    \/ PressToggle(s) \/ Require(s) \/ Count(s) \/ Write(s)
    \/ \E u \in Usernames, role \in Roles : PressAdd(s, u, role)
    \/ Insert(s)

Next ==
    \/ Bootstrap
    \/ \E s \in Sessions : PageStep(s) \/ AdminStep(s)

Spec == Init /\ [][Next]_vars

-----------------------------------------------------------------------------
(* Properties *)

AccountsExist == \E u \in Usernames : users[u] # NoAccount

\* auth.py (the comment above the user management section) promises that the
\* rules kept there never leave zero active admins.
NeverZeroAdmins == AccountsExist => ActiveAdmins # {}

\* The count and the write of auth.change_role and auth.set_disabled are two
\* transactions: as long as no account was changed between those two of
\* another session, somebody can still manage the users.
AdminsLostOnlyByOverlap == ~raced => NeverZeroAdmins

\* A token issued before a change of role, password or state of its account
\* never counts again (session_version, db.py), whatever was read before the
\* change and used after it, and also once a disabled account is enabled.
RevokedTokensStayDead == \A token \in revoked : ~StillValid(token)

\* After Sign out no tab of that browser gets back in without a login, by a
\* reload or otherwise (app.py, the comments on the deferred deletion).
SignOutLasts ==
    [][\A s \in Sessions :
          /\ session[s] = NoToken /\ BrowserOf[s] \in signedOut
          /\ session'[s] # NoToken
          => BrowserOf[s] \notin signedOut']_vars
=============================================================================
