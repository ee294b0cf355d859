--------------------------- MODULE AccountsProofs ---------------------------
(***************************************************************************)
(* Proofs about Accounts, for any number of accounts, tabs and browsers.   *)
(***************************************************************************)
EXTENDS Accounts, FiniteSetTheorems, TLAPS

Dialogs == {"dialog", "require", "count", "write"}

\* What is being changed fits where the script stands, and the account is there.
JobsFit ==
    \A s \in Sessions :
        /\ pc[s] = "verify" => job[s] \in Tokens
        /\ pc[s] = "insert" => job[s] \in Jobs /\ AccountsExist
        /\ pc[s] \in Dialogs => /\ job[s] \in Jobs
                                /\ users[job[s].user] # NoAccount

TypeInv == TypeOK /\ JobsFit

\* The initial state has the types declared.
LEMMA TypeInit == Init => TypeInv
BY AccountsAssumption DEF Init, TypeInv, TypeOK, JobsFit, PCs, Dialogs

\* A changed row is a row again.
LEMMA ChangedRow ==
    ASSUME NEW row \in AccountRows, row.version < MaxVersion, NEW j \in Jobs
    PROVE  Changed(row, j) \in AccountRows
<1>1. row.version + 1 \in Versions
    BY AccountsAssumption DEF AccountRows, Versions
<1>2. row.disabled \in BOOLEAN /\ row.role \in Roles /\ j.role \in Roles
    BY DEF AccountRows, Jobs
<1> QED BY <1>1, <1>2, Zenon DEF Changed, AccountRows

\* Every step keeps the types and the fit of the jobs.
LEMMA TypeNext == TypeInv /\ [Next]_vars => TypeInv'
<1> USE AccountsAssumption
<1> SUFFICES ASSUME TypeInv, [Next]_vars PROVE TypeInv'
    OBVIOUS
<1> USE DEF TypeInv, TypeOK, JobsFit, AccountsExist, PCs, Dialogs, cookieVars, historyVars
<1>1. CASE Bootstrap
    BY <1>1 DEF Bootstrap, AccountRows, Roles, Versions
<1>2. ASSUME NEW s \in Sessions, PageStep(s) PROVE TypeInv'
    <2>1. CASE Run(s)
        BY <2>1 DEF Run, StillValid
    <2>2. CASE SyncCookies(s)
        BY <2>2 DEF SyncCookies
    <2>3. CASE Verified(s)
        BY <2>3 DEF Verified
    <2>4. CASE SignOut(s)
        BY <2>4 DEF SignOut
    <2>5. CASE Reload(s)
        BY <2>5 DEF Reload
    <2>6. ASSUME NEW u \in Usernames, Submit(s, u) PROVE TypeInv'
        BY <2>6 DEF Submit, TokenOf, Tokens, AccountRows
    <2> QED BY <1>2, <2>1, <2>2, <2>3, <2>4, <2>5, <2>6 DEF PageStep
<1>3. ASSUME NEW s \in Sessions, AdminStep(s) PROVE TypeInv'
    <2>1. ASSUME NEW u \in Usernames, OpenEdit(s, u) PROVE TypeInv'
        BY <2>1 DEF OpenEdit, Jobs, Kinds, AccountRows
    <2>2. ASSUME NEW role \in Roles, NEW reset \in BOOLEAN, PressSave(s, role, reset)
          PROVE TypeInv'
        <3>1. job[s] \in Jobs
            BY <2>2 DEF PressSave
        <3>2. job' = [job EXCEPT ![s] = [job[s] EXCEPT !.kind = "role", !.role = role,
                                                     !.reset = reset]]
              \/ job' = [job EXCEPT ![s] = [job[s] EXCEPT !.kind = "password"]]
            BY <2>2 DEF PressSave
        <3>3. [job[s] EXCEPT !.kind = "role", !.role = role, !.reset = reset] \in Jobs
            BY <2>2, <3>1 DEF Jobs, Kinds
        <3>4. [job[s] EXCEPT !.kind = "password"] \in Jobs
            BY <3>1 DEF Jobs, Kinds
        <3>5. /\ [job[s] EXCEPT !.kind = "role", !.role = role, !.reset = reset].user = job[s].user
              /\ [job[s] EXCEPT !.kind = "password"].user = job[s].user
            BY <3>1 DEF Jobs
        <3>6. job'[s] \in Jobs /\ job'[s].user = job[s].user
            BY <3>2, <3>3, <3>4, <3>5
        <3>7. \A t \in Sessions \ {s} : job'[t] = job[t]
            BY <3>2
        <3>8. job' \in [Sessions -> Jobs \cup Tokens \cup {NoJob}]
            BY <3>2, <3>6, <3>7
        <3> QED BY <2>2, <3>6, <3>7, <3>8 DEF PressSave
    <2>3. CASE PressToggle(s)
        BY <2>3 DEF PressToggle, Jobs, Kinds
    <2>4. CASE Require(s)
        BY <2>4 DEF Require
    <2>5. CASE Count(s)
        BY <2>5 DEF Count
    <2>6. CASE Write(s)
        <3> DEFINE j == job[s]
                   u == j.user
        <3>1. j \in Jobs /\ u \in Usernames /\ users[u] \in AccountRows
            BY <2>6 DEF Write, Jobs
        <3>2. Changed(users[u], j) \in AccountRows
            BY <2>6, <3>1, ChangedRow DEF Write
        <3>3. TokenOf(u) \in Tokens
            BY <3>1 DEF TokenOf, Tokens, AccountRows
        <3>4. [j EXCEPT !.kind = "password"] \in Jobs
            BY <3>1 DEF Jobs, Kinds
        <3>5. [j EXCEPT !.kind = "password"].user = u
            BY <3>1 DEF Jobs
        <3> QED BY <2>6, <3>1, <3>2, <3>3, <3>4, <3>5 DEF Write
    <2>7. ASSUME NEW u \in Usernames, NEW role \in Roles, PressAdd(s, u, role)
          PROVE TypeInv'
        BY <2>7 DEF PressAdd, Jobs, Kinds, IsAdmin, StillValid, Tokens
    <2>8. CASE Insert(s)
        BY <2>8 DEF Insert, Jobs, AccountRows, Versions
    <2> QED BY <1>3, <2>1, <2>2, <2>3, <2>4, <2>5, <2>6, <2>7, <2>8 DEF AdminStep
<1>4. CASE UNCHANGED vars
    BY <1>4 DEF vars
<1> QED BY <1>1, <1>2, <1>3, <1>4 DEF Next

\* Every state has the types declared and jobs that fit.
LEMMA TypeInvariant == Spec => []TypeInv
BY TypeInit, TypeNext, PTL DEF Spec

\* The variables keep their types: among others, no step writes a version
\* of 0 or a job that does not fit where the script stands.
THEOREM TypeCorrect == Spec => []TypeOK
<1>1. TypeInv => TypeOK
    BY DEF TypeInv
<1> QED BY TypeInvariant, <1>1, PTL

-----------------------------------------------------------------------------
(* Somebody can manage the users as long as no two changes overlap.        *)

\* A write that takes an active admin away leaves another one, unless some
\* write fell between its count and itself.
Spare ==
    ~raced => \A s \in Sessions :
                  pc[s] = "write" /\ Reduces(job[s]) => ActiveAdmins \ {job[s].user} # {}

AdminInv == TypeInv /\ AdminsLostOnlyByOverlap /\ Spare

\* A count above one leaves an active admin besides any one account.
LEMMA AnotherAdmin ==
    ASSUME NEW u, Cardinality(ActiveAdmins) > 1
    PROVE  ActiveAdmins \ {u} # {}
<1>1. SUFFICES ASSUME ActiveAdmins \subseteq {u} PROVE FALSE
    OBVIOUS
<1>2. IsFiniteSet({u}) /\ Cardinality({u}) = 1
    BY FS_Singleton
<1>3. Cardinality(ActiveAdmins) \in Nat /\ Cardinality(ActiveAdmins) <= 1
    BY <1>1, <1>2, FS_Subset, FS_CardinalityType
<1> QED BY <1>3

\* A step that keeps the accounts, and no script's arrival at a write, keeps
\* the invariant.
LEMMA AdminQuiet ==
    ASSUME AdminInv, TypeInv', users' = users, raced' = raced,
           \A s \in Sessions : pc'[s] = "write" /\ Reduces(job'[s])
                                => pc[s] = "write" /\ job'[s] = job[s]
    PROVE  AdminInv'
BY DEF AdminInv, AdminsLostOnlyByOverlap, NeverZeroAdmins, AccountsExist,
       Spare, ActiveAdmins, IsActiveAdmin, Reduces

\* Every step keeps the invariant.
LEMMA AdminNext == AdminInv /\ [Next]_vars => AdminInv'
<1> SUFFICES ASSUME AdminInv, [Next]_vars PROVE AdminInv'
    OBVIOUS
<1> USE AccountsAssumption
<1>0. TypeInv /\ TypeInv'
    BY TypeNext DEF AdminInv
<1> USE DEF cookieVars, historyVars, TypeInv, TypeOK
<1>1. CASE Bootstrap
    <2>1. \A s \in Sessions : pc[s] # "write"
        BY <1>0, <1>1 DEF Bootstrap, JobsFit, Dialogs, Jobs
    <2>2. users'[Owner] = [role |-> "admin", version |-> 1, disabled |-> FALSE]
        BY <1>0, <1>1 DEF Bootstrap
    <2>3. users'[Owner] # NoAccount
        <3>1. 1 \in Versions
            BY DEF Versions
        <3>2. [role |-> "admin", version |-> 1, disabled |-> FALSE] \in AccountRows
            BY <3>1 DEF AccountRows, Roles
        <3> QED BY <2>2, <3>2
    <2>4. Owner \in ActiveAdmins'
        BY <2>2, <2>3 DEF ActiveAdmins, IsActiveAdmin
    <2> QED BY <1>0, <1>1, <2>1, <2>4
        DEF Bootstrap, AdminInv, AdminsLostOnlyByOverlap, NeverZeroAdmins, Spare
<1>2. ASSUME NEW s \in Sessions, PageStep(s) PROVE AdminInv'
    BY <1>0, <1>2, AdminQuiet
       DEF PageStep, Run, SyncCookies, Verified, SignOut, Reload, Submit
<1>3. ASSUME NEW s \in Sessions, AdminStep(s) PROVE AdminInv'
    <2>1. ASSUME NEW u \in Usernames, OpenEdit(s, u) PROVE AdminInv'
        BY <1>0, <2>1, AdminQuiet DEF OpenEdit
    <2>2. ASSUME NEW role \in Roles, NEW reset \in BOOLEAN, PressSave(s, role, reset)
          PROVE AdminInv'
        BY <1>0, <2>2, AdminQuiet DEF PressSave, JobsFit, Dialogs, Jobs, Reduces
    <2>3. CASE PressToggle(s)
        BY <1>0, <2>3, AdminQuiet DEF PressToggle
    <2>4. CASE Require(s)
        <3>1. users[job[s].user] # NoAccount /\ job[s].user \in Usernames
            BY <1>0, <2>4 DEF Require, JobsFit, Dialogs, Jobs
        <3>2. ~raced => ActiveAdmins # {}
            BY <3>1 DEF AdminInv, AdminsLostOnlyByOverlap, NeverZeroAdmins, AccountsExist
        <3>3. ~raced /\ pc'[s] = "write" /\ Reduces(job[s])
              => ActiveAdmins \ {job[s].user} # {}
            BY <1>0, <2>4, <3>2 DEF Require, ActiveAdmins
        <3> QED BY <1>0, <2>4, <3>3
            DEF Require, AdminInv, AdminsLostOnlyByOverlap, NeverZeroAdmins,
                AccountsExist, Spare, ActiveAdmins, IsActiveAdmin
    <2>5. CASE Count(s)
        <3>1. pc'[s] = "write" => ActiveAdmins \ {job[s].user} # {}
            <4>1. IsFiniteSet(ActiveAdmins)
                BY FS_Subset DEF ActiveAdmins
            <4>2. Cardinality(ActiveAdmins) \in Nat
                BY <4>1, FS_CardinalityType
            <4>3. pc'[s] = "write" => Cardinality(ActiveAdmins) > 1
                BY <1>0, <2>5, <4>2 DEF Count
            <4> QED BY <4>3, AnotherAdmin
        <3>2. users' = users /\ raced' = raced /\ job' = job
            BY <2>5 DEF Count
        <3>3. \A t \in Sessions \ {s} : pc'[t] = pc[t]
            BY <1>0, <2>5 DEF Count
        <3>4. ActiveAdmins' = ActiveAdmins
            BY <3>2 DEF ActiveAdmins, IsActiveAdmin
        <3>5. Spare'
            BY <3>1, <3>2, <3>3, <3>4 DEF AdminInv, Spare, Reduces
        <3> QED BY <1>0, <3>2, <3>4, <3>5
            DEF AdminInv, AdminsLostOnlyByOverlap, NeverZeroAdmins, AccountsExist
    <2>6. CASE Write(s)
        <3> DEFINE j == job[s]
                   u == j.user
        <3>1. j \in Jobs /\ u \in Usernames /\ users[u] \in AccountRows /\ users[u] # NoAccount
            BY <1>0, <2>6 DEF Write, JobsFit, Dialogs, Jobs
        <3>2. users' = [users EXCEPT ![u] = Changed(users[u], j)]
            BY <2>6 DEF Write
        <3>3. \A v \in ActiveAdmins : v # u => v \in ActiveAdmins'
            BY <1>0, <3>1, <3>2 DEF ActiveAdmins, IsActiveAdmin
        <3>4. ~Reduces(j) /\ u \in ActiveAdmins => u \in ActiveAdmins'
            <4>1. Changed(users[u], j) # NoAccount
                BY <2>6, <3>1, ChangedRow DEF Write
            <4>2. ~Reduces(j) /\ users[u].role = "admin" => Changed(users[u], j).role = "admin"
                BY DEF Changed, Reduces
            <4>3. ~Reduces(j) /\ ~users[u].disabled => ~Changed(users[u], j).disabled
                BY DEF Changed, Reduces
            <4>4. users'[u] = Changed(users[u], j)
                BY <1>0, <3>1, <3>2
            <4> QED BY <3>1, <4>1, <4>2, <4>3, <4>4 DEF ActiveAdmins, IsActiveAdmin
        <3>5. ~raced => ActiveAdmins' # {}
            <4>1. ~raced => ActiveAdmins # {}
                BY <3>1 DEF AdminInv, AdminsLostOnlyByOverlap, NeverZeroAdmins, AccountsExist
            <4>2. ~raced /\ Reduces(j) => ActiveAdmins \ {u} # {}
                BY <2>6 DEF AdminInv, Spare, Write
            <4> QED BY <4>1, <4>2, <3>3, <3>4
        <3>6. ~raced' => ~raced /\ \A t \in Sessions \ {s} : pc[t] # "write"
            BY <2>6 DEF Write
        <3>7. pc'[s] = "write" => ~Reduces(job'[s])
            BY <1>0, <2>6, <3>1 DEF Write, Reduces, Jobs
        <3>8. \A t \in Sessions \ {s} : pc'[t] = pc[t]
            BY <1>0, <2>6 DEF Write
        <3>9. Spare'
            BY <3>6, <3>7, <3>8 DEF Spare
        <3> QED BY <1>0, <3>5, <3>6, <3>9
            DEF AdminInv, AdminsLostOnlyByOverlap, NeverZeroAdmins
    <2>7. ASSUME NEW u \in Usernames, NEW role \in Roles, PressAdd(s, u, role)
          PROVE AdminInv'
        BY <1>0, <2>7, AdminQuiet DEF PressAdd
    <2>8. CASE Insert(s)
        <3>1. ActiveAdmins \subseteq ActiveAdmins'
            BY <1>0, <2>8 DEF Insert, ActiveAdmins, IsActiveAdmin
        <3>2. AccountsExist
            BY <1>0, <2>8 DEF Insert, JobsFit
        <3>3. \A t \in Sessions : pc'[t] = "write" => pc[t] = "write" /\ job'[t] = job[t]
            BY <1>0, <2>8 DEF Insert
        <3> QED BY <1>0, <2>8, <3>1, <3>2, <3>3
            DEF Insert, AdminInv, AdminsLostOnlyByOverlap, NeverZeroAdmins, Spare
    <2> QED BY <1>3, <2>1, <2>2, <2>3, <2>4, <2>5, <2>6, <2>7, <2>8 DEF AdminStep
<1>4. CASE UNCHANGED vars
    BY <1>0, <1>4, AdminQuiet DEF vars
<1> QED BY <1>1, <1>2, <1>3, <1>4 DEF Next

\* As long as no two changes overlapped, an account that exists leaves an
\* active admin (auth._is_last_active_admin): losing the last one takes two
\* sessions whose counts and writes are interleaved.
THEOREM LastAdminGuard == Spec => []AdminsLostOnlyByOverlap
<1>1. Init => AdminInv
    BY TypeInit
       DEF Init, AdminInv, AdminsLostOnlyByOverlap, NeverZeroAdmins, AccountsExist, Spare
<1>2. AdminInv => AdminsLostOnlyByOverlap
    BY DEF AdminInv
<1> QED BY <1>1, <1>2, AdminNext, PTL DEF Spec

-----------------------------------------------------------------------------
(* A token that was ended stays ended.                                     *)

\* Versions only grow, so an ended token is behind its account for good.
RevokedBehind ==
    \A token \in revoked : /\ users[token.user] # NoAccount
                           /\ token.version < users[token.user].version

\* A step that ends no token and takes no account back keeps them behind.
LEMMA RevokedQuiet ==
    ASSUME RevokedBehind, TypeInv, revoked' = revoked,
           \A u \in Usernames : users[u] # NoAccount => users'[u] = users[u]
    PROVE  RevokedBehind'
BY DEF RevokedBehind, TypeInv, TypeOK, Tokens

\* Every step keeps ended tokens behind.
LEMMA RevokedNext == TypeInv /\ RevokedBehind /\ [Next]_vars => RevokedBehind'
<1> SUFFICES ASSUME TypeInv, RevokedBehind, [Next]_vars PROVE RevokedBehind'
    OBVIOUS
<1> USE DEF historyVars
<1>1. CASE Bootstrap
    BY <1>1, RevokedQuiet, AccountsAssumption DEF Bootstrap
<1>2. ASSUME NEW s \in Sessions, PageStep(s) PROVE RevokedBehind'
    BY <1>2, RevokedQuiet DEF PageStep, Run, SyncCookies, Verified, SignOut, Reload, Submit
<1>3. ASSUME NEW s \in Sessions, AdminStep(s), ~Write(s), ~Insert(s) PROVE RevokedBehind'
    BY <1>3, RevokedQuiet
       DEF AdminStep, OpenEdit, PressSave, PressToggle, Require, Count, PressAdd
<1>4. ASSUME NEW s \in Sessions, Insert(s) PROVE RevokedBehind'
    <2>1. users' = users \/ /\ users[job[s].user] = NoAccount
                            /\ \E row : users' = [users EXCEPT ![job[s].user] = row]
        BY <1>4 DEF Insert
    <2>2. \A u \in Usernames : users[u] # NoAccount => users'[u] = users[u]
        BY <2>1 DEF TypeInv, TypeOK
    <2> QED BY <1>4, <2>2, RevokedQuiet DEF Insert
<1>5. ASSUME NEW s \in Sessions, Write(s) PROVE RevokedBehind'
    <2> DEFINE u == job[s].user
    <2>1. u \in Usernames /\ users[u] \in AccountRows /\ users[u].version < MaxVersion
          /\ job[s] \in Jobs
        BY <1>5 DEF Write, TypeInv, TypeOK, JobsFit, Dialogs, Jobs
    <2>2. /\ users' = [users EXCEPT ![u] = Changed(users[u], job[s])]
          /\ revoked' = revoked \cup {TokenOf(u)}
        BY <1>5 DEF Write
    <2>3. users'[u].version = users[u].version + 1
        BY <2>1, <2>2 DEF Changed, TypeInv, TypeOK
    <2>4. users'[u] # NoAccount
        BY <2>1, <2>2, ChangedRow, AccountsAssumption DEF TypeInv, TypeOK
    <2>5. users[u].version \in Nat
        BY <2>1, AccountsAssumption DEF AccountRows, Versions
    <2>6. TokenOf(u).user = u /\ TokenOf(u).version = users[u].version
        BY DEF TokenOf
    <2>7. \A v \in Usernames \ {u} : users'[v] = users[v]
        BY <2>2 DEF TypeInv, TypeOK
    <2>8. ASSUME NEW token \in revoked'
          PROVE  users'[token.user] # NoAccount /\ token.version < users'[token.user].version
        <3>1. CASE token = TokenOf(u)
            BY <3>1, <2>3, <2>4, <2>5, <2>6
        <3>2. CASE token \in revoked
            <4>1. token.user \in Usernames /\ token.version \in Nat
                BY <3>2, AccountsAssumption DEF TypeInv, TypeOK, Tokens, Versions
            <4>2. token.version < users[token.user].version
                BY <3>2 DEF RevokedBehind
            <4>3. CASE token.user = u
                BY <4>1, <4>2, <4>3, <2>3, <2>4, <2>5
            <4>4. CASE token.user # u
                BY <3>2, <4>1, <4>2, <4>4, <2>7 DEF RevokedBehind
            <4> QED BY <4>3, <4>4
        <3> QED BY <2>2, <3>1, <3>2
    <2> QED BY <2>8 DEF RevokedBehind
<1>6. CASE UNCHANGED vars
    BY <1>6, RevokedQuiet DEF vars
<1> QED BY <1>1, <1>2, <1>3, <1>4, <1>5, <1>6 DEF Next

\* No cookie and no open session issued before a change of its account counts
\* again, however many changes follow (auth._session_still_valid).
THEOREM RevokedForGood == Spec => []RevokedTokensStayDead
<1>1. Init => RevokedBehind
    BY DEF Init, RevokedBehind
<1>2. TypeInv /\ RevokedBehind => RevokedTokensStayDead
    <2> SUFFICES ASSUME TypeInv, RevokedBehind, NEW token \in revoked PROVE ~StillValid(token)
        BY DEF RevokedTokensStayDead
    <2>1. token.user \in Usernames /\ token.version \in Nat
        BY AccountsAssumption DEF TypeInv, TypeOK, Tokens, Versions
    <2>2. users[token.user] # NoAccount /\ token.version < users[token.user].version
        BY DEF RevokedBehind
    <2>3. users[token.user].version \in Nat
        BY <2>1, <2>2, AccountsAssumption DEF TypeInv, TypeOK, AccountRows, Versions
    <2> QED BY <2>1, <2>2, <2>3 DEF StillValid
<1> QED BY <1>1, <1>2, TypeInvariant, RevokedNext, PTL DEF Spec
=============================================================================
