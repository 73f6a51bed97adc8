------------------------------ MODULE Accounts ------------------------------
(***************************************************************************)
(* Sign-in, sessions and the administration of users: the tables users,    *)
(* oauth_identities, oauth_transactions and sessions, written by           *)
(*   - IdentityService: the OIDC sign-in, whose callback consumes its      *)
(*     transaction, awaits the provider and only then opens a session, and *)
(*     the session commands;                                               *)
(*   - AdminUserService.transition: an administrator's change of a user,   *)
(*     decided on the version of the user that the page showed;            *)
(*   - AdminRecoveryService: the operator's command, another process on    *)
(*     the same database;                                                  *)
(*   - IdentityMaintenanceService: the hourly pass.                        *)
(* A route's authentication, its CSRF check and its command run in one     *)
(* turn of the event loop, so they are one action here; the callback is    *)
(* two, with every other action possible between them.                     *)
(***************************************************************************)
EXTENDS Integers, FiniteSets

CONSTANTS
  Users,             \* the provider's subjects; a users row has one identity
  Emails,            \* normalised addresses
  BootstrapEmails,   \* those a configuration names for the bootstrap
  Logins,            \* ids of oauth_transactions rows, in order of insertion
  Callbacks,         \* callback requests, duplicates and replays included
  Sessions,          \* ids of sessions rows, in order of insertion
  Tabs,              \* browser tabs; each takes one administrative decision
  None,              \* an absent value
  TxnTtl,            \* oauthTransactionTtlMs
  IdleTtl,           \* sessionIdleTtlMs
  AbsoluteTtl,       \* sessionAbsoluteTtlMs
  TouchInterval,     \* SESSION_TOUCH_INTERVAL_MS
  TxnRetention,      \* OAUTH_RETENTION_MS
  SessionRetention,  \* SESSION_RETENTION_MS
  PassLimit,         \* rows one statement of the maintenance pass changes
  MaxNow,            \* bound on the clock
  MaxVersion         \* bound on a user's version

ASSUME IdsAssumption ==
  /\ Logins \subseteq Nat
  /\ Sessions \subseteq Nat
  /\ None \notin Users \cup Emails \cup Logins \cup Sessions \cup Tabs

ASSUME UsersAssumption ==
  IsFiniteSet(Users) /\ BootstrapEmails \subseteq Emails

ASSUME TimesAssumption ==
  /\ TxnTtl \in Nat \ {0}
  /\ IdleTtl \in Nat \ {0}
  /\ AbsoluteTtl \in Nat \ {0}
  /\ TouchInterval \in Nat \ {0}
  /\ TxnRetention \in Nat
  /\ SessionRetention \in Nat
  /\ PassLimit \in Nat \ {0}
  /\ MaxNow \in Nat
  /\ MaxVersion \in Nat

VARIABLES
  now,             \* the clock
  bootstrapEmail,  \* OLOKA_BOOTSTRAP_ADMIN_EMAIL of the running process
  uStatus,         \* users.status, "absent" before the first sign-in
  uRole,           \* users.role
  uVersion,        \* users.version
  uEmail,          \* users.email_normalized
  tStatus,         \* oauth_transactions.status, "none" and "purged" included
  tExpires,        \* oauth_transactions.expires_at
  tConsumed,       \* oauth_transactions.consumed_at
  cPhase,          \* where a callback request is
  cLogin,          \* the transaction it consumed
  cCookie,         \* the session cookie it came with
  sStatus,         \* sessions.status, "none" and "purged" included
  sUser,           \* sessions.user_id
  sSeen,           \* sessions.last_seen_at
  sIdle,           \* sessions.idle_expires_at
  sExpires,        \* sessions.expires_at
  sEnded,          \* sessions.revoked_at
  sTab,            \* the tab that holds the session's current CSRF token
  dPhase,          \* a tab's decision: "none", "open" (page shown), "applied"
  dUser,           \* the user it is about
  dVersion,        \* the version of that user the page showed
  dSeen,           \* history: the standing of that user the page showed
  sLogin,          \* history: the transaction a session was opened by
  sStanding,       \* history: its user's standing when it was opened
  sUsed            \* history: when it last authenticated a request

clock == <<now, bootstrapEmail>>
users == <<uStatus, uRole, uVersion, uEmail>>
logins == <<tStatus, tExpires, tConsumed>>
callbacks == <<cPhase, cLogin, cCookie>>
sessions == <<sStatus, sUser, sSeen, sIdle, sExpires, sEnded, sTab, sLogin,
              sStanding, sUsed>>
decisions == <<dPhase, dUser, dVersion, dSeen>>
vars == <<clock, users, logins, callbacks, sessions, decisions>>

UserStatuses == {"pending", "active", "disabled", "rejected"}
Roles == {"member", "admin"}
Standings == [status : UserStatuses, role : Roles]
LoginStatuses == {"none", "pending", "consumed", "expired", "purged"}
SessionStatuses == {"none", "active", "revoked", "expired", "purged"}

\* Every variable holds a value of its column.
TypeOK ==
  /\ now \in Nat /\ bootstrapEmail \in Emails
  /\ uStatus \in [Users -> UserStatuses \cup {"absent"}]
  /\ uRole \in [Users -> Roles]
  /\ uVersion \in [Users -> Nat]
  /\ uEmail \in [Users -> Emails \cup {None}]
  /\ tStatus \in [Logins -> LoginStatuses]
  /\ tExpires \in [Logins -> Nat]
  /\ tConsumed \in [Logins -> Nat]
  /\ cPhase \in [Callbacks -> {"idle", "exchanging", "signed_in", "over"}]
  /\ cLogin \in [Callbacks -> Logins \cup {None}]
  /\ cCookie \in [Callbacks -> Sessions \cup {None}]
  /\ sStatus \in [Sessions -> SessionStatuses]
  /\ sUser \in [Sessions -> Users \cup {None}]
  /\ sSeen \in [Sessions -> Nat]
  /\ sIdle \in [Sessions -> Nat]
  /\ sExpires \in [Sessions -> Nat]
  /\ sEnded \in [Sessions -> Nat]
  /\ sTab \in [Sessions -> Tabs \cup {None}]
  /\ sLogin \in [Sessions -> Logins \cup {None}]
  /\ sStanding \in [Sessions -> Standings \cup {None}]
  /\ sUsed \in [Sessions -> Nat]
  /\ dPhase \in [Tabs -> {"none", "open", "applied"}]
  /\ dUser \in [Tabs -> Users \cup {None}]
  /\ dVersion \in [Tabs -> Nat]
  /\ dSeen \in [Tabs -> Standings \cup {None}]

Init ==
  /\ now = 0 /\ bootstrapEmail \in BootstrapEmails
  /\ uStatus = [u \in Users |-> "absent"]
  /\ uRole = [u \in Users |-> "member"]
  /\ uVersion = [u \in Users |-> 0]
  /\ uEmail = [u \in Users |-> None]
  /\ tStatus = [t \in Logins |-> "none"]
  /\ tExpires = [t \in Logins |-> 0]
  /\ tConsumed = [t \in Logins |-> 0]
  /\ cPhase = [c \in Callbacks |-> "idle"]
  /\ cLogin = [c \in Callbacks |-> None]
  /\ cCookie = [c \in Callbacks |-> None]
  /\ sStatus = [s \in Sessions |-> "none"]
  /\ sUser = [s \in Sessions |-> None]
  /\ sSeen = [s \in Sessions |-> 0]
  /\ sIdle = [s \in Sessions |-> 0]
  /\ sExpires = [s \in Sessions |-> 0]
  /\ sEnded = [s \in Sessions |-> 0]
  /\ sTab = [s \in Sessions |-> None]
  /\ sLogin = [s \in Sessions |-> None]
  /\ sStanding = [s \in Sessions |-> None]
  /\ sUsed = [s \in Sessions |-> 0]
  /\ dPhase = [p \in Tabs |-> "none"]
  /\ dUser = [p \in Tabs |-> None]
  /\ dVersion = [p \in Tabs |-> 0]
  /\ dSeen = [p \in Tabs |-> None]

(***************************************************************************)
(* Rows                                                                    *)
(***************************************************************************)
Lower(a, b) == IF a < b THEN a ELSE b
Standing(u) == [status |-> uStatus[u], role |-> uRole[u]]
Admins == {u \in Users : uStatus[u] # "absent" /\ uRole[u] = "admin"}
ActiveAdmins == {u \in Admins : uStatus[u] = "active"}

\* The next row of a table is the lowest unused id.
NextLogin(t) ==
  tStatus[t] = "none" /\ \A x \in Logins : tStatus[x] = "none" => t <= x
NextSession(s) ==
  sStatus[s] = "none" /\ \A x \in Sessions : sStatus[x] = "none" => s <= x

\* UPDATE sessions SET status = 'revoked' WHERE ... AND status = 'active'.
Revoke(ended) ==
  /\ sStatus' = [s \in Sessions |->
                   IF s \in ended /\ sStatus[s] = "active"
                   THEN "revoked" ELSE sStatus[s]]
  /\ sEnded' = [s \in Sessions |->
                  IF s \in ended /\ sStatus[s] = "active"
                  THEN now ELSE sEnded[s]]

SessionsOf(u) == {s \in Sessions : sUser[s] = u}

(***************************************************************************)
(* Signing in                                                              *)
(***************************************************************************)
StartAuthorization(t) ==
  /\ NextLogin(t)
  /\ tStatus' = [tStatus EXCEPT ![t] = "pending"]
  /\ tExpires' = [tExpires EXCEPT ![t] = now + TxnTtl]
  /\ UNCHANGED <<clock, users, tConsumed, callbacks, sessions, decisions>>

\* Mutant: a row is consumed whatever its status.
ConsumeAgain(t) ==
  /\ tStatus[t] # "none" /\ now < tExpires[t]
  /\ tStatus' = [tStatus EXCEPT ![t] = "consumed"]
  /\ tConsumed' = [tConsumed EXCEPT ![t] = now]
  /\ UNCHANGED tExpires

\* One transaction: a pending row that has not expired becomes consumed, and
\* a state that names no such row is refused without a change.
ConsumeOAuthTransaction(t) ==
  /\ tStatus[t] = "pending" /\ now < tExpires[t]
  /\ tStatus' = [tStatus EXCEPT ![t] = "consumed"]
  /\ tConsumed' = [tConsumed EXCEPT ![t] = now]
  /\ UNCHANGED tExpires

\* A callback with a code: the transaction is consumed, then the request
\* awaits the provider's answer, holding the cookie it came with.
BeginCallback(c, t, cookie) ==
  /\ cPhase[c] = "idle"
  /\ cookie \in {None} \cup {s \in Sessions : sStatus[s] # "none"}
  /\ ConsumeOAuthTransaction(t)
  /\ cPhase' = [cPhase EXCEPT ![c] = "exchanging"]
  /\ cLogin' = [cLogin EXCEPT ![c] = t]
  /\ cCookie' = [cCookie EXCEPT ![c] = cookie]
  /\ UNCHANGED <<clock, users, sessions, decisions>>

\* A callback that reports an error, or carries no code.
DenyAuthorization(t) ==
  /\ ConsumeOAuthTransaction(t)
  /\ UNCHANGED <<clock, users, callbacks, sessions, decisions>>

\* The provider refuses the code, or its claims are not verified.
FailExchange(c) ==
  /\ cPhase[c] = "exchanging"
  /\ cPhase' = [cPhase EXCEPT ![c] = "over"]
  /\ UNCHANGED <<clock, users, logins, cLogin, cCookie, sessions, decisions>>

EmailTaken(e) == \E u \in Users : uStatus[u] # "absent" /\ uEmail[u] = e

\* A first sign-in with an address that another user has.
IdentityConflict(c, u, e) ==
  /\ cPhase[c] = "exchanging"
  /\ uStatus[u] = "absent" /\ EmailTaken(e)
  /\ cPhase' = [cPhase EXCEPT ![c] = "over"]
  /\ UNCHANGED <<clock, users, logins, cLogin, cCookie, sessions, decisions>>

\* The first user with the bootstrap address is an administrator, as long as
\* no users row has that role.
Bootstrap(e) == Admins = {} /\ e = bootstrapEmail

NewUser(u, e) ==
  /\ uStatus[u] = "absent" /\ ~EmailTaken(e)
  /\ uStatus' = [uStatus EXCEPT
                   ![u] = IF Bootstrap(e) THEN "active" ELSE "pending"]
  /\ uRole' = [uRole EXCEPT
                 ![u] = IF Bootstrap(e) THEN "admin" ELSE "member"]
  /\ uVersion' = [uVersion EXCEPT ![u] = 1]
  /\ uEmail' = [uEmail EXCEPT ![u] = e]

\* A known identity: its profile is refreshed, which is a version too.
KnownUser(u) ==
  /\ uStatus[u] # "absent" /\ uVersion[u] < MaxVersion
  /\ uVersion' = [uVersion EXCEPT ![u] = @ + 1]
  /\ UNCHANGED <<uStatus, uRole, uEmail>>

\* The active session of the same user that the cookie names.
Rotated(c, u) ==
  {s \in SessionsOf(u) : s = cCookie[c] /\ sStatus[s] = "active"}

OpenSession(c, u, s) ==
  /\ NextSession(s)
  /\ sStatus' = [x \in Sessions |->
                   IF x = s THEN "active"
                   ELSE IF x \in Rotated(c, u) THEN "revoked" ELSE sStatus[x]]
  /\ sEnded' = [x \in Sessions |->
                  IF x \in Rotated(c, u) THEN now ELSE sEnded[x]]
  /\ sUser' = [sUser EXCEPT ![s] = u]
  /\ sSeen' = [sSeen EXCEPT ![s] = now]
  /\ sIdle' = [sIdle EXCEPT ![s] = now + IdleTtl]
  /\ sExpires' = [sExpires EXCEPT ![s] = now + AbsoluteTtl]
  /\ sLogin' = [sLogin EXCEPT ![s] = cLogin[c]]
  /\ sStanding' = [sStanding EXCEPT ![s] =
                     [status |-> uStatus'[u], role |-> uRole'[u]]]
  /\ sUsed' = [sUsed EXCEPT ![s] = now]
  /\ UNCHANGED sTab

\* The provider answers with verified claims: one transaction finds or makes
\* the user, ends the session it replaces and opens the new one.
FinishCallback(c, u, e, s) ==
  /\ cPhase[c] = "exchanging"
  /\ NewUser(u, e) \/ KnownUser(u)
  /\ OpenSession(c, u, s)
  /\ cPhase' = [cPhase EXCEPT ![c] = "signed_in"]
  /\ UNCHANGED <<clock, logins, cLogin, cCookie, decisions>>

(***************************************************************************)
(* Sessions                                                                *)
(***************************************************************************)
InTime(s) == now < sExpires[s] /\ now < sIdle[s]
\* Mutant: the touch is due one unit later.
TouchLate(s) == sSeen[s] + TouchInterval < now

TouchDue(s) == sSeen[s] + TouchInterval <= now

\* getSession on a session that authenticates: last_seen_at moves only when
\* it is TouchInterval old, and the idle limit moves with it.
Authenticate(s) ==
  /\ sStatus[s] = "active" /\ InTime(s)
  /\ sSeen' = IF TouchDue(s) THEN [sSeen EXCEPT ![s] = now] ELSE sSeen
  /\ sIdle' = IF TouchDue(s)
              THEN [sIdle EXCEPT ![s] = Lower(now + IdleTtl, sExpires[s])]
              ELSE sIdle
  /\ sUsed' = [sUsed EXCEPT ![s] = now]
  /\ UNCHANGED <<sUser, sExpires, sLogin, sStanding>>

\* A request that only needs the session, or that is refused after it.
UseSession(s) ==
  /\ Authenticate(s)
  /\ UNCHANGED <<clock, users, logins, callbacks, sStatus, sEnded, sTab,
                 decisions>>

\* getSession on an active session whose time is over.
ExpireOnUse(s) ==
  /\ sStatus[s] = "active" /\ ~InTime(s)
  /\ sStatus' = [sStatus EXCEPT ![s] = "expired"]
  /\ sEnded' = [sEnded EXCEPT ![s] = now]
  /\ UNCHANGED <<clock, users, logins, callbacks, sUser, sSeen, sIdle,
                 sExpires, sTab, sLogin, sStanding, sUsed, decisions>>

\* GET /auth/csrf: the tab now holds the only token of the session.
RotateCsrfToken(p, s) ==
  /\ Authenticate(s)
  /\ sTab' = [sTab EXCEPT ![s] = p]
  /\ UNCHANGED <<clock, users, logins, callbacks, sStatus, sEnded, decisions>>

\* A command from a tab passes the CSRF check when its token is the last.
VerifyCsrf(p, s) == sTab[s] = p

Logout(p, s) ==
  /\ Authenticate(s) /\ VerifyCsrf(p, s)
  /\ Revoke({s})
  /\ UNCHANGED <<clock, users, logins, callbacks, sTab, decisions>>

RevokeAllSessions(p, s) ==
  /\ Authenticate(s) /\ VerifyCsrf(p, s)
  /\ Revoke(SessionsOf(sUser[s]))
  /\ UNCHANGED <<clock, users, logins, callbacks, sTab, decisions>>

(***************************************************************************)
(* Administration                                                          *)
(***************************************************************************)
RequireAdmin(s) ==
  Authenticate(s) /\ sUser[s] \in ActiveAdmins

\* GET /admin/users: the page shows a user and the version it was read at.
ShowUser(p, s, u) ==
  /\ dPhase[p] = "none" /\ uStatus[u] # "absent"
  /\ RequireAdmin(s)
  /\ dPhase' = [dPhase EXCEPT ![p] = "open"]
  /\ dUser' = [dUser EXCEPT ![p] = u]
  /\ dVersion' = [dVersion EXCEPT ![p] = uVersion[u]]
  /\ dSeen' = [dSeen EXCEPT ![p] = Standing(u)]
  /\ UNCHANGED <<clock, users, logins, callbacks, sStatus, sEnded, sTab>>

AllowedStatus(previous, next) ==
  \/ previous = next
  \/ previous = "pending" /\ next \in {"active", "rejected"}
  \/ previous = "active" /\ next = "disabled"
  \/ previous \in {"disabled", "rejected"} /\ next = "active"

AllowedTransition(u, status, role) ==
  /\ AllowedStatus(uStatus[u], status)
  /\ role = uRole[u] \/ status = "active"

\* Mutant: disabled administrators are counted.
CountAllAdmins(u, status, role) ==
  u \in ActiveAdmins /\ <<status, role>> # <<"active", "admin">>
    => Cardinality(Admins) > 1

\* An active administrator may stop being one only if another remains.
LastAdminGuard(u, status, role) ==
  u \in ActiveAdmins /\ <<status, role>> # <<"active", "admin">>
    => Cardinality(ActiveAdmins) > 1

\* PATCH /admin/users/:userId. A repeated request with its idempotency key is
\* answered from the record and changes nothing, so a decision has one step.
Transition(p, s, status, role) ==
  LET u == dUser[p]
  IN /\ dPhase[p] = "open"
     /\ RequireAdmin(s) /\ VerifyCsrf(p, s)
     /\ uVersion[u] = dVersion[p] /\ uVersion[u] < MaxVersion
     /\ AllowedTransition(u, status, role)
     /\ LastAdminGuard(u, status, role)
     /\ uStatus' = [uStatus EXCEPT ![u] = status]
     /\ uRole' = [uRole EXCEPT ![u] = role]
     /\ uVersion' = [uVersion EXCEPT ![u] = @ + 1]
     /\ Revoke(SessionsOf(u))
     /\ dPhase' = [dPhase EXCEPT ![p] = "applied"]
     /\ UNCHANGED <<clock, uEmail, logins, callbacks, sTab, dUser, dVersion,
                    dSeen>>

\* Mutant: the sessions of the recovered user go on.
RecoverKeepsSessions(u) ==
  /\ uStatus[u] # "absent" /\ uVersion[u] < MaxVersion
  /\ uStatus' = [uStatus EXCEPT ![u] = "active"]
  /\ uRole' = [uRole EXCEPT ![u] = "admin"]
  /\ uVersion' = [uVersion EXCEPT ![u] = @ + 1]
  /\ UNCHANGED <<clock, uEmail, logins, callbacks, sessions, decisions>>

\* Mutant: the recovery leaves the user's version.
RecoverSilently(u) ==
  /\ uStatus[u] # "absent" /\ uVersion[u] < MaxVersion
  /\ uStatus' = [uStatus EXCEPT ![u] = "active"]
  /\ uRole' = [uRole EXCEPT ![u] = "admin"]
  /\ Revoke(SessionsOf(u))
  /\ UNCHANGED <<clock, uVersion, uEmail, logins, callbacks, sUser, sSeen,
                 sIdle, sExpires, sTab, sLogin, sStanding, sUsed, decisions>>

\* The operator's command, by a process that takes no part in the server's
\* turns: its transaction falls between any two of them.
Recover(u) ==
  /\ uStatus[u] # "absent" /\ uVersion[u] < MaxVersion
  /\ uStatus' = [uStatus EXCEPT ![u] = "active"]
  /\ uRole' = [uRole EXCEPT ![u] = "admin"]
  /\ uVersion' = [uVersion EXCEPT ![u] = @ + 1]
  /\ Revoke(SessionsOf(u))
  /\ UNCHANGED <<clock, uEmail, logins, callbacks, sUser, sSeen, sIdle,
                 sExpires, sTab, sLogin, sStanding, sUsed, decisions>>

(***************************************************************************)
(* Maintenance, time and restarts                                          *)
(***************************************************************************)
\* ORDER BY at LIMIT PassLimit.
FirstRows(due, at) ==
  {rows \in SUBSET due :
     /\ Cardinality(rows) = Lower(PassLimit, Cardinality(due))
     /\ \A x \in rows, y \in due \ rows : at[x] <= at[y]}

ExpireLogins ==
  FirstRows({t \in Logins : tStatus[t] = "pending" /\ tExpires[t] <= now},
            tExpires)

PurgeLogins(expired) ==
  LET end == [t \in Logins |-> IF tStatus[t] = "consumed"
                               THEN tConsumed[t] ELSE tExpires[t]]
  IN FirstRows({t \in Logins : /\ \/ t \in expired
                                  \/ tStatus[t] \in {"consumed", "expired"}
                               /\ end[t] + TxnRetention <= now}, end)

\* Mutant: only the absolute limit is looked at.
ExpireAbsolute ==
  FirstRows({s \in Sessions : sStatus[s] = "active" /\ sExpires[s] <= now},
            sExpires)

ExpireSessions ==
  FirstRows({s \in Sessions : sStatus[s] = "active" /\ ~InTime(s)},
            [s \in Sessions |-> Lower(sIdle[s], sExpires[s])])

PurgeSessions(expired) ==
  LET end == [s \in Sessions |-> IF s \in expired THEN now ELSE sEnded[s]]
  IN FirstRows({s \in Sessions : /\ \/ s \in expired
                                    \/ sStatus[s] \in {"revoked", "expired"}
                                 /\ end[s] + SessionRetention <= now}, end)

\* The four statements of one transaction, in order.
Maintain ==
  /\ \E expired \in ExpireLogins : \E purged \in PurgeLogins(expired) :
       tStatus' = [t \in Logins |-> IF t \in purged THEN "purged"
                                    ELSE IF t \in expired THEN "expired"
                                    ELSE tStatus[t]]
  /\ \E expired \in ExpireSessions : \E purged \in PurgeSessions(expired) :
       /\ sStatus' = [s \in Sessions |-> IF s \in purged THEN "purged"
                                         ELSE IF s \in expired THEN "expired"
                                         ELSE sStatus[s]]
       /\ sEnded' = [s \in Sessions |-> IF s \in expired THEN now
                                        ELSE sEnded[s]]
  /\ UNCHANGED <<clock, users, tExpires, tConsumed, callbacks, sUser, sSeen,
                 sIdle, sExpires, sTab, sLogin, sStanding, sUsed, decisions>>

Tick ==
  /\ now < MaxNow /\ now' = now + 1
  /\ UNCHANGED <<bootstrapEmail, users, logins, callbacks, sessions,
                 decisions>>

\* The process ends, with the callbacks it was serving, and another starts,
\* perhaps with another bootstrap address in its environment.
Restart(e) ==
  /\ bootstrapEmail' = e
  /\ cPhase' = [c \in Callbacks |->
                  IF cPhase[c] = "exchanging" THEN "over" ELSE cPhase[c]]
  /\ UNCHANGED <<now, users, logins, cLogin, cCookie, sessions, decisions>>

SignIn ==
  \/ \E t \in Logins : StartAuthorization(t) \/ DenyAuthorization(t)
  \/ \E c \in Callbacks, t \in Logins, k \in Sessions \cup {None} :
       BeginCallback(c, t, k)
  \/ \E c \in Callbacks : FailExchange(c)
  \/ \E c \in Callbacks, u \in Users, e \in Emails :
       \/ IdentityConflict(c, u, e)
       \/ \E s \in Sessions : FinishCallback(c, u, e, s)

Command ==
  \/ \E s \in Sessions : UseSession(s) \/ ExpireOnUse(s)
  \/ \E p \in Tabs, s \in Sessions :
       \/ RotateCsrfToken(p, s) \/ Logout(p, s) \/ RevokeAllSessions(p, s)
       \/ \E u \in Users : ShowUser(p, s, u)
       \/ \E status \in UserStatuses \ {"pending"}, role \in Roles :
            Transition(p, s, status, role)

Next ==
  \/ SignIn
  \/ Command
  \/ \E u \in Users : Recover(u)
  \/ Maintain
  \/ Tick
  \/ \E e \in BootstrapEmails : Restart(e)

\* The hourly timer runs the pass for as long as the process serves.
Spec == Init /\ [][Next]_vars /\ WF_vars(Maintain)

(***************************************************************************)
(* Properties                                                              *)
(***************************************************************************)
\* Once a user has been an administrator there is always one who can act:
\* changes decided in several tabs, on pages of any age, and the operator's
\* command never leave the role to disabled users only.
AdminRemains == Admins # {} => ActiveAdmins # {}

\* An authorization opens at most one session, however often its callback is
\* repeated and whenever the process is lost.
OneSessionPerLogin ==
  \A s, x \in Sessions :
    sLogin[s] # None /\ sLogin[s] = sLogin[x] => s = x

\* A session that still authenticates was opened under the standing (status
\* and role) its user has now: every change of standing ends what was open,
\* sessions of sign-ins that were awaiting the provider included.
LiveSessionKeepsStanding ==
  \A s \in Sessions :
    sStatus[s] = "active" => sStanding[s] = Standing(sUser[s])

\* An administrator's change is applied to the standing the page showed: no
\* sign-in, other administrator or recovery changed the user in between
\* without the version telling.
DecisionOnWhatWasSeen ==
  [][\A p \in Tabs : dPhase[p] = "open" /\ dPhase'[p] = "applied"
       => dSeen[p] = Standing(dUser[p])]_vars

\* The idle limit follows the last request although last_seen_at is written
\* at most once in TouchInterval: a session that rested for IdleTtl answers no
\* request, and one that answered a request within IdleTtl - TouchInterval is
\* not ended for resting.
IdleLimitFollowsUse ==
  [][\A s \in Sessions :
       sStatus[s] = "active" =>
         /\ sUsed'[s] # sUsed[s] => now < sUsed[s] + IdleTtl
         /\ sStatus'[s] = "expired" /\ now < sExpires[s]
              => sUsed[s] + IdleTtl - TouchInterval < now]_vars

\* Left alone, every authorization past its time and every session past its
\* idle or absolute limit is closed by the hourly pass, however many wait.
OverdueEnds ==
  /\ \A t \in Logins :
       (tStatus[t] = "pending" /\ tExpires[t] <= now)
         ~> tStatus[t] # "pending"
  /\ \A s \in Sessions :
       (sStatus[s] = "active" /\ ~InTime(s)) ~> sStatus[s] # "active"
=============================================================================
