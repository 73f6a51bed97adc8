--------------------------- MODULE AccountsProofs ---------------------------
(***************************************************************************)
(* What holds of Accounts for every set of users, sessions, transactions   *)
(* and tabs, and every lifetime: its types, that an administrator remains, *)
(* that an authorization opens one session, that a live session keeps the  *)
(* standing it was opened under, and that a session at rest is ended.      *)
(***************************************************************************)
EXTENDS Accounts, FiniteSetTheorems, TLAPS

\* An open decision is about a user.
DecisionsNameUsers == \A p \in Tabs : dPhase[p] # "none" => dUser[p] \in Users

Typed == TypeOK /\ DecisionsNameUsers

LEMMA InitTyped == Init => Typed
BY IdsAssumption, UsersAssumption
   DEF Init, Typed, TypeOK, DecisionsNameUsers, UserStatuses, Roles,
       LoginStatuses, SessionStatuses

\* The pieces several actions are made of keep their variables' types.
LEMMA RevokeTyped ==
  ASSUME TypeOK, NEW S, Revoke(S)
  PROVE  /\ sStatus' \in [Sessions -> SessionStatuses]
         /\ sEnded' \in [Sessions -> Nat]
BY DEF TypeOK, Revoke, SessionStatuses

LEMMA AuthenticateTyped ==
  ASSUME TypeOK, NEW s \in Sessions, Authenticate(s)
  PROVE  /\ sSeen' \in [Sessions -> Nat]
         /\ sIdle' \in [Sessions -> Nat]
         /\ sUsed' \in [Sessions -> Nat]
         /\ sUser' = sUser /\ sExpires' = sExpires
         /\ sLogin' = sLogin /\ sStanding' = sStanding
BY TimesAssumption DEF TypeOK, Authenticate, Lower

LEMMA ConsumeTyped ==
  ASSUME TypeOK, NEW t \in Logins, ConsumeOAuthTransaction(t)
  PROVE  /\ tStatus' \in [Logins -> LoginStatuses]
         /\ tExpires' \in [Logins -> Nat]
         /\ tConsumed' \in [Logins -> Nat]
BY DEF TypeOK, ConsumeOAuthTransaction, LoginStatuses

LEMMA UserWriteTyped ==
  ASSUME TypeOK, NEW u \in Users, NEW e \in Emails,
         NewUser(u, e) \/ KnownUser(u)
  PROVE  /\ uStatus' \in [Users -> UserStatuses \cup {"absent"}]
         /\ uStatus'[u] \in UserStatuses
         /\ uRole' \in [Users -> Roles]
         /\ uVersion' \in [Users -> Nat]
         /\ uEmail' \in [Users -> Emails \cup {None}]
BY DEF TypeOK, NewUser, KnownUser, UserStatuses, Roles

LEMMA StepTyped == Typed /\ [Next]_vars => Typed'
<1> SUFFICES ASSUME Typed, [Next]_vars PROVE Typed'
  OBVIOUS
<1> USE DEF Typed, DecisionsNameUsers
<1>1. CASE UNCHANGED vars
  BY <1>1 DEF vars, clock, users, logins, callbacks, sessions, decisions,
              TypeOK
<1>2. ASSUME NEW t \in Logins, StartAuthorization(t) PROVE Typed'
  BY <1>2, TimesAssumption
     DEF StartAuthorization, TypeOK, LoginStatuses, clock, users, callbacks,
         sessions, decisions
<1>3. ASSUME NEW t \in Logins, DenyAuthorization(t) PROVE Typed'
  BY <1>3, ConsumeTyped
     DEF DenyAuthorization, TypeOK, clock, users, callbacks, sessions,
         decisions
<1>4. ASSUME NEW c \in Callbacks, NEW t \in Logins,
             NEW k \in Sessions \cup {None}, BeginCallback(c, t, k)
      PROVE  Typed'
  BY <1>4, ConsumeTyped
     DEF BeginCallback, TypeOK, clock, users, sessions, decisions
<1>5. ASSUME NEW c \in Callbacks, FailExchange(c) PROVE Typed'
  BY <1>5 DEF FailExchange, TypeOK, clock, users, logins, sessions, decisions
<1>6. ASSUME NEW c \in Callbacks, NEW u \in Users, NEW e \in Emails,
             IdentityConflict(c, u, e)
      PROVE  Typed'
  BY <1>6 DEF IdentityConflict, TypeOK, clock, users, logins, sessions,
              decisions
<1>7. ASSUME NEW c \in Callbacks, NEW u \in Users, NEW e \in Emails,
             NEW s \in Sessions, FinishCallback(c, u, e, s)
      PROVE  Typed'
  <2>1. /\ uStatus' \in [Users -> UserStatuses \cup {"absent"}]
        /\ uStatus'[u] \in UserStatuses
        /\ uRole' \in [Users -> Roles]
        /\ uVersion' \in [Users -> Nat]
        /\ uEmail' \in [Users -> Emails \cup {None}]
    BY <1>7, UserWriteTyped DEF FinishCallback
  <2>2. [status |-> uStatus'[u], role |-> uRole'[u]] \in Standings
    BY <2>1 DEF Standings
  <2>3. /\ sStatus' \in [Sessions -> SessionStatuses]
        /\ sEnded' \in [Sessions -> Nat]
        /\ sUser' \in [Sessions -> Users \cup {None}]
        /\ sSeen' \in [Sessions -> Nat]
        /\ sIdle' \in [Sessions -> Nat]
        /\ sExpires' \in [Sessions -> Nat]
        /\ sUsed' \in [Sessions -> Nat]
        /\ sTab' \in [Sessions -> Tabs \cup {None}]
    BY <1>7, TimesAssumption
       DEF FinishCallback, OpenSession, TypeOK, SessionStatuses
  <2>4. /\ sLogin' \in [Sessions -> Logins \cup {None}]
        /\ sStanding' \in [Sessions -> Standings \cup {None}]
    BY <1>7, <2>2 DEF FinishCallback, OpenSession, TypeOK
  <2> QED
    BY <1>7, <2>1, <2>3, <2>4
       DEF FinishCallback, TypeOK, clock, logins, decisions
<1>8. ASSUME NEW s \in Sessions, UseSession(s) PROVE Typed'
  BY <1>8, AuthenticateTyped
     DEF UseSession, TypeOK, clock, users, logins, callbacks, decisions
<1>9. ASSUME NEW s \in Sessions, ExpireOnUse(s) PROVE Typed'
  BY <1>9 DEF ExpireOnUse, TypeOK, SessionStatuses, clock, users, logins,
              callbacks, decisions
<1>10. ASSUME NEW p \in Tabs, NEW s \in Sessions, RotateCsrfToken(p, s)
       PROVE  Typed'
  BY <1>10, AuthenticateTyped
     DEF RotateCsrfToken, TypeOK, clock, users, logins, callbacks, decisions
<1>11. ASSUME NEW p \in Tabs, NEW s \in Sessions, Logout(p, s) PROVE Typed'
  BY <1>11, AuthenticateTyped, RevokeTyped
     DEF Logout, TypeOK, clock, users, logins, callbacks, decisions
<1>12. ASSUME NEW p \in Tabs, NEW s \in Sessions, RevokeAllSessions(p, s)
       PROVE  Typed'
  BY <1>12, AuthenticateTyped, RevokeTyped
     DEF RevokeAllSessions, TypeOK, clock, users, logins, callbacks,
         decisions
<1>13. ASSUME NEW p \in Tabs, NEW s \in Sessions, NEW u \in Users,
              ShowUser(p, s, u)
       PROVE  Typed'
  <2>1. Standing(u) \in Standings
    BY <1>13 DEF ShowUser, Standing, Standings, TypeOK, UserStatuses
  <2> QED
    BY <1>13, <2>1, AuthenticateTyped
       DEF ShowUser, RequireAdmin, TypeOK, clock, users, logins, callbacks
<1>14. ASSUME NEW p \in Tabs, NEW s \in Sessions,
              NEW status \in UserStatuses \ {"pending"}, NEW role \in Roles,
              Transition(p, s, status, role)
       PROVE  Typed'
  BY <1>14, AuthenticateTyped, RevokeTyped
     DEF Transition, RequireAdmin, TypeOK, clock, logins, callbacks
<1>15. ASSUME NEW u \in Users, Recover(u) PROVE Typed'
  BY <1>15, RevokeTyped
     DEF Recover, TypeOK, UserStatuses, Roles, clock, logins, callbacks,
         decisions
<1>16. CASE Maintain
  BY <1>16
     DEF Maintain, TypeOK, LoginStatuses, SessionStatuses, clock, users,
         callbacks, decisions
<1>17. CASE Tick
  BY <1>17 DEF Tick, TypeOK, users, logins, callbacks, sessions, decisions
<1>18. ASSUME NEW e \in BootstrapEmails, Restart(e) PROVE Typed'
  BY <1>18, UsersAssumption
     DEF Restart, TypeOK, users, logins, sessions, decisions
<1> QED
  BY <1>1, <1>2, <1>3, <1>4, <1>5, <1>6, <1>7, <1>8, <1>9, <1>10, <1>11,
     <1>12, <1>13, <1>14, <1>15, <1>16, <1>17, <1>18
     DEF Next, SignIn, Command

\* The tables keep their types: every value the operations write is one their
\* column admits, for every set of users, sessions and lifetimes.
THEOREM TypeCorrect == Spec => []TypeOK
<1>1. Typed => TypeOK
  BY DEF Typed
<1> QED
  BY InitTyped, StepTyped, <1>1, PTL DEF Spec

(***************************************************************************)
(* An administrator remains                                                *)
(***************************************************************************)
\* A guard that counts more than one leaves another.
LEMMA AnotherRemains ==
  ASSUME NEW u, Cardinality(ActiveAdmins) > 1
  PROVE  \E v \in ActiveAdmins : v # u
<1> SUFFICES ASSUME ActiveAdmins \subseteq {u} PROVE FALSE
  OBVIOUS
<1>1. IsFiniteSet({u}) /\ Cardinality({u}) = 1
  BY FS_Singleton
<1>2. Cardinality(ActiveAdmins) \in Nat /\ Cardinality(ActiveAdmins) <= 1
  BY <1>1, FS_Subset, FS_CardinalityType
<1> QED
  BY <1>2

LEMMA InitRemains == Init => AdminRemains
BY DEF Init, AdminRemains, Admins

\* Only sign-ins, decisions and recoveries write the users table.
LEMMA StepRemains ==
  ASSUME Typed, AdminRemains, [Next]_vars
  PROVE  AdminRemains'
<1> USE DEF AdminRemains, Admins, ActiveAdmins
<1>1. CASE UNCHANGED <<uStatus, uRole>>
  BY <1>1
<1>2. ASSUME NEW c \in Callbacks, NEW u \in Users, NEW e \in Emails,
             NEW s \in Sessions, FinishCallback(c, u, e, s)
      PROVE  AdminRemains'
  <2>1. CASE NewUser(u, e) /\ Bootstrap(e)
    <3>1. uStatus'[u] = "active" /\ uRole'[u] = "admin"
      BY <2>1 DEF NewUser, Typed, TypeOK
    <3> QED
      BY <3>1
  <2>2. CASE NewUser(u, e) /\ ~Bootstrap(e)
    BY <2>2 DEF NewUser, Typed, TypeOK
  <2>3. CASE KnownUser(u)
    BY <2>3 DEF KnownUser
  <2> QED
    BY <1>2, <2>1, <2>2, <2>3 DEF FinishCallback
<1>3. ASSUME NEW p \in Tabs, NEW s \in Sessions,
             NEW status \in UserStatuses \ {"pending"}, NEW role \in Roles,
             Transition(p, s, status, role)
      PROVE  AdminRemains'
  <2> DEFINE u == dUser[p]
  <2>1. /\ u \in Users
        /\ uStatus' = [uStatus EXCEPT ![u] = status]
        /\ uRole' = [uRole EXCEPT ![u] = role]
        /\ LastAdminGuard(u, status, role)
        /\ sUser[s] \in ActiveAdmins
    BY <1>3 DEF Transition, RequireAdmin, Typed, DecisionsNameUsers
  <2>2. CASE status = "active" /\ role = "admin"
    BY <2>1, <2>2 DEF Typed, TypeOK
  <2>3. CASE u \in ActiveAdmins /\ ~(status = "active" /\ role = "admin")
    <3> HIDE DEF ActiveAdmins, Admins
    <3>1. Cardinality(ActiveAdmins) > 1
      BY <2>1, <2>3 DEF LastAdminGuard
    <3>2. PICK v \in ActiveAdmins : v # u
      BY <3>1, AnotherRemains
    <3> QED
      BY <2>1, <3>2 DEF Typed, TypeOK, ActiveAdmins, Admins
  <2>4. CASE u \notin ActiveAdmins
    BY <2>1, <2>4 DEF Typed, TypeOK
  <2> QED
    BY <2>2, <2>3, <2>4
<1>4. ASSUME NEW u \in Users, Recover(u) PROVE AdminRemains'
  <2>1. uStatus'[u] = "active" /\ uRole'[u] = "admin"
    BY <1>4 DEF Recover, Typed, TypeOK
  <2> QED
    BY <2>1
<1>5. [Next]_vars => \/ UNCHANGED <<uStatus, uRole>>
                     \/ \E c \in Callbacks, u \in Users, e \in Emails,
                           s \in Sessions : FinishCallback(c, u, e, s)
                     \/ \E p \in Tabs, s \in Sessions,
                           status \in UserStatuses \ {"pending"},
                           role \in Roles : Transition(p, s, status, role)
                     \/ \E u \in Users : Recover(u)
  BY DEF Next, SignIn, Command, StartAuthorization, DenyAuthorization,
         BeginCallback, FailExchange, IdentityConflict, UseSession,
         ExpireOnUse, RotateCsrfToken, Logout, RevokeAllSessions, ShowUser,
         Maintain, Tick, Restart, vars, users
<1> QED
  BY <1>1, <1>2, <1>3, <1>4, <1>5

\* Whatever administrators decide in whatever tabs and sessions, and whenever
\* the operator's command runs: once there is an administrator, one is active.
THEOREM AnAdminRemains == Spec => []AdminRemains
BY InitTyped, StepTyped, InitRemains, StepRemains, PTL DEF Spec

(***************************************************************************)
(* One session for an authorization                                        *)
(***************************************************************************)
\* A consumed transaction is in the hands of one callback, or has opened one
\* session; it never becomes pending again.
LoginHeldOnce ==
  /\ OneSessionPerLogin
  /\ \A s \in Sessions : sLogin[s] # None =>
       sLogin[s] \in Logins /\ tStatus[sLogin[s]] \in {"consumed", "purged"}
  /\ \A c \in Callbacks : cPhase[c] = "exchanging" =>
       /\ cLogin[c] \in Logins
       /\ tStatus[cLogin[c]] \in {"consumed", "purged"}
       /\ \A s \in Sessions : sLogin[s] # cLogin[c]
       /\ \A d \in Callbacks : cPhase[d] = "exchanging" /\ d # c
            => cLogin[d] # cLogin[c]

LEMMA InitHeldOnce == Init => LoginHeldOnce
BY DEF Init, LoginHeldOnce, OneSessionPerLogin

\* A step that consumes nothing, keeps what was consumed and gives no
\* callback or session a transaction keeps all of it.
LEMMA HeldOnceKept ==
  ASSUME Typed, LoginHeldOnce, sLogin' = sLogin, cLogin' = cLogin,
         \A t \in Logins : tStatus[t] \in {"consumed", "purged"}
           => tStatus'[t] \in {"consumed", "purged"},
         \A c \in Callbacks : cPhase'[c] = "exchanging"
           => cPhase[c] = "exchanging"
  PROVE  LoginHeldOnce'
BY DEF LoginHeldOnce, OneSessionPerLogin

LEMMA StepHeldOnce ==
  ASSUME Typed, LoginHeldOnce, [Next]_vars
  PROVE  LoginHeldOnce'
<1> DEFINE Kept ==
      /\ sLogin' = sLogin /\ cLogin' = cLogin
      /\ \A t \in Logins : tStatus[t] \in {"consumed", "purged"}
           => tStatus'[t] \in {"consumed", "purged"}
      /\ \A c \in Callbacks : cPhase'[c] = "exchanging"
           => cPhase[c] = "exchanging"
<1>1. ASSUME NEW c \in Callbacks, NEW t \in Logins,
             NEW k \in Sessions \cup {None}, BeginCallback(c, t, k)
      PROVE  LoginHeldOnce'
  <2>1. /\ tStatus[t] = "pending" /\ cPhase[c] = "idle"
        /\ tStatus' = [tStatus EXCEPT ![t] = "consumed"]
        /\ cPhase' = [cPhase EXCEPT ![c] = "exchanging"]
        /\ cLogin' = [cLogin EXCEPT ![c] = t]
        /\ sLogin' = sLogin
    BY <1>1 DEF BeginCallback, ConsumeOAuthTransaction, sessions
  <2>2. /\ \A s \in Sessions : sLogin[s] # t
        /\ \A d \in Callbacks : cPhase[d] = "exchanging" => cLogin[d] # t
    BY <2>1, IdsAssumption DEF LoginHeldOnce
  <2> QED
    BY <2>1, <2>2 DEF LoginHeldOnce, OneSessionPerLogin, Typed, TypeOK
<1>2. ASSUME NEW c \in Callbacks, NEW u \in Users, NEW e \in Emails,
             NEW s \in Sessions, FinishCallback(c, u, e, s)
      PROVE  LoginHeldOnce'
  <2>1. /\ cPhase[c] = "exchanging"
        /\ cPhase' = [cPhase EXCEPT ![c] = "signed_in"]
        /\ sLogin' = [sLogin EXCEPT ![s] = cLogin[c]]
        /\ UNCHANGED <<tStatus, cLogin>>
    BY <1>2 DEF FinishCallback, OpenSession, logins
  <2> QED
    BY <2>1 DEF LoginHeldOnce, OneSessionPerLogin, Typed, TypeOK
<1>3. ASSUME NEW t \in Logins, StartAuthorization(t) \/ DenyAuthorization(t)
      PROVE  Kept
  BY <1>3 DEF StartAuthorization, DenyAuthorization, NextLogin,
              ConsumeOAuthTransaction, callbacks, sessions, Typed, TypeOK
<1>4. ASSUME NEW c \in Callbacks,
             \/ FailExchange(c)
             \/ \E u \in Users, e \in Emails : IdentityConflict(c, u, e)
      PROVE  Kept
  BY <1>4 DEF FailExchange, IdentityConflict, logins, sessions, Typed, TypeOK
<1>5. CASE Command \/ \E u \in Users : Recover(u)
  <2> DEFINE Same == UNCHANGED <<sLogin, tStatus, cLogin, cPhase>>
  <2>1. ASSUME NEW s \in Sessions, UseSession(s) \/ ExpireOnUse(s)
        PROVE  Same
    BY <2>1 DEF UseSession, ExpireOnUse, Authenticate, logins, callbacks
  <2>2. ASSUME NEW p \in Tabs, NEW s \in Sessions,
               \/ RotateCsrfToken(p, s)
               \/ Logout(p, s) \/ RevokeAllSessions(p, s)
        PROVE  Same
    BY <2>2 DEF RotateCsrfToken, Logout, RevokeAllSessions, Authenticate,
                logins, callbacks
  <2>3. ASSUME NEW p \in Tabs, NEW s \in Sessions, NEW u \in Users,
               ShowUser(p, s, u)
        PROVE  Same
    BY <2>3 DEF ShowUser, RequireAdmin, Authenticate, logins, callbacks
  <2>4. ASSUME NEW p \in Tabs, NEW s \in Sessions,
               NEW status \in UserStatuses \ {"pending"}, NEW role \in Roles,
               Transition(p, s, status, role)
        PROVE  Same
    BY <2>4 DEF Transition, RequireAdmin, Authenticate, logins, callbacks
  <2>5. ASSUME NEW u \in Users, Recover(u) PROVE Same
    BY <2>5 DEF Recover, logins, callbacks
  <2>6. Same
    BY <1>5, <2>1, <2>2, <2>3, <2>4, <2>5 DEF Command
  <2> QED
    BY <2>6, HeldOnceKept
<1>6. CASE Maintain
  <2>1. PICK expired \in ExpireLogins :
          \E purged \in PurgeLogins(expired) :
            tStatus' = [t \in Logins |-> IF t \in purged THEN "purged"
                                        ELSE IF t \in expired THEN "expired"
                                        ELSE tStatus[t]]
    BY <1>6 DEF Maintain
  <2>2. UNCHANGED <<sLogin, cLogin, cPhase>>
    BY <1>6 DEF Maintain, callbacks
  <2>3. \A t \in expired : tStatus[t] = "pending"
    BY DEF ExpireLogins, FirstRows
  <2> QED
    BY <2>1, <2>2, <2>3, HeldOnceKept
<1>7. CASE Tick
  BY <1>7, HeldOnceKept DEF Tick, logins, callbacks, sessions
<1>8. ASSUME NEW e \in BootstrapEmails, Restart(e) PROVE Kept
  BY <1>8 DEF Restart, logins, sessions
<1>9. CASE UNCHANGED vars
  BY <1>9, HeldOnceKept DEF vars, logins, callbacks, sessions
<1>10. Kept => LoginHeldOnce'
  BY HeldOnceKept
<1> QED
  BY <1>1, <1>2, <1>3, <1>4, <1>5, <1>6, <1>7, <1>8, <1>9, <1>10
     DEF Next, SignIn

\* However many callbacks bring the same state, in whatever order they end
\* and wherever the process stops, an authorization opens one session.
THEOREM AnAuthorizationOpensOneSession == Spec => []OneSessionPerLogin
<1>1. LoginHeldOnce => OneSessionPerLogin
  BY DEF LoginHeldOnce
<1> QED
  BY InitTyped, StepTyped, InitHeldOnce, StepHeldOnce, <1>1, PTL DEF Spec

(***************************************************************************)
(* A live session keeps the standing it was opened under                   *)
(***************************************************************************)
LiveSessionsHaveUsers ==
  /\ LiveSessionKeepsStanding
  /\ \A s \in Sessions : sStatus[s] = "active" =>
       sUser[s] \in Users /\ uStatus[sUser[s]] # "absent"

LEMMA InitStanding == Init => LiveSessionsHaveUsers
BY DEF Init, LiveSessionsHaveUsers, LiveSessionKeepsStanding

\* A step that leaves the users' standing and opens no session keeps it.
LEMMA StandingKept ==
  ASSUME LiveSessionsHaveUsers,
         UNCHANGED <<uStatus, uRole, sUser, sStanding>>,
         \A s \in Sessions : sStatus'[s] = "active" => sStatus[s] = "active"
  PROVE  LiveSessionsHaveUsers'
BY DEF LiveSessionsHaveUsers, LiveSessionKeepsStanding, Standing

\* A step that changes one user's standing and ends all of that user's
\* sessions keeps it for the others.
LEMMA StandingEnded ==
  ASSUME Typed, LiveSessionsHaveUsers, NEW u \in Users,
         UNCHANGED <<sUser, sStanding>>, Revoke(SessionsOf(u)),
         NEW x, NEW y,
         uStatus' = [uStatus EXCEPT ![u] = x],
         uRole' = [uRole EXCEPT ![u] = y]
  PROVE  LiveSessionsHaveUsers'
<1>1. ASSUME NEW s \in Sessions, sStatus'[s] = "active"
      PROVE  sStatus[s] = "active" /\ sUser[s] # u
  BY <1>1 DEF Revoke, SessionsOf, Typed, TypeOK
<1> QED
  BY <1>1 DEF LiveSessionsHaveUsers, LiveSessionKeepsStanding, Standing,
              Typed, TypeOK

LEMMA StepStanding ==
  ASSUME Typed, LiveSessionsHaveUsers, [Next]_vars
  PROVE  LiveSessionsHaveUsers'
<1>1. ASSUME NEW c \in Callbacks, NEW u \in Users, NEW e \in Emails,
             NEW s \in Sessions, FinishCallback(c, u, e, s)
      PROVE  LiveSessionsHaveUsers'
  <2>1. /\ \A v \in Users : v # u \/ KnownUser(u) =>
             uStatus'[v] = uStatus[v] /\ uRole'[v] = uRole[v]
        /\ uStatus'[u] # "absent"
        /\ uStatus[u] = "absent" \/ KnownUser(u)
    BY <1>1 DEF FinishCallback, NewUser, KnownUser, Typed, TypeOK
  <2>2. /\ sUser' = [sUser EXCEPT ![s] = u]
        /\ sStanding' = [sStanding EXCEPT ![s] =
                           [status |-> uStatus'[u], role |-> uRole'[u]]]
        /\ \A x \in Sessions : x # s /\ sStatus'[x] = "active"
             => sStatus[x] = "active"
    BY <1>1 DEF FinishCallback, OpenSession
  <2>3. ASSUME NEW x \in Sessions, x # s, sStatus'[x] = "active"
        PROVE  /\ sUser'[x] = sUser[x] /\ sUser[x] \in Users
               /\ sStanding'[x] = sStanding[x]
               /\ sStanding[x] = Standing(sUser[x])
               /\ uStatus'[sUser[x]] = uStatus[sUser[x]]
               /\ uRole'[sUser[x]] = uRole[sUser[x]]
               /\ uStatus[sUser[x]] # "absent"
    BY <2>1, <2>2, <2>3
       DEF LiveSessionsHaveUsers, LiveSessionKeepsStanding, Typed, TypeOK
  <2>4. sUser'[s] = u /\ sStanding'[s] = Standing(u)'
    BY <2>2 DEF Standing, Typed, TypeOK
  <2>5. ASSUME NEW x \in Sessions, sStatus'[x] = "active"
        PROVE  /\ sStanding'[x] = [status |-> uStatus'[sUser'[x]],
                                   role |-> uRole'[sUser'[x]]]
               /\ sUser'[x] \in Users /\ uStatus'[sUser'[x]] # "absent"
    <3>1. CASE x = s
      BY <3>1, <2>1, <2>4 DEF Standing
    <3>2. CASE x # s
      BY <3>2, <2>3, <2>5 DEF Standing
    <3> QED
      BY <3>1, <3>2
  <2> QED
    BY <2>5 DEF LiveSessionsHaveUsers, LiveSessionKeepsStanding, Standing
<1>2. ASSUME NEW p \in Tabs, NEW s \in Sessions,
             NEW status \in UserStatuses \ {"pending"}, NEW role \in Roles,
             Transition(p, s, status, role)
      PROVE  LiveSessionsHaveUsers'
  BY <1>2, StandingEnded
     DEF Transition, RequireAdmin, Authenticate, Typed, DecisionsNameUsers
<1>3. ASSUME NEW u \in Users, Recover(u) PROVE LiveSessionsHaveUsers'
  BY <1>3, StandingEnded DEF Recover
<1>4. CASE Maintain
  BY <1>4, StandingKept DEF Maintain, users
<1>5. ASSUME NEW p \in Tabs, NEW s \in Sessions,
             \/ Logout(p, s) \/ RevokeAllSessions(p, s)
             \/ RotateCsrfToken(p, s)
             \/ \E u \in Users : ShowUser(p, s, u)
      PROVE  LiveSessionsHaveUsers'
  BY <1>5, StandingKept
     DEF Logout, RevokeAllSessions, RotateCsrfToken, ShowUser, RequireAdmin,
         Authenticate, Revoke, users, Typed, TypeOK
<1>6. ASSUME NEW s \in Sessions, UseSession(s) \/ ExpireOnUse(s)
      PROVE  LiveSessionsHaveUsers'
  BY <1>6, StandingKept
     DEF UseSession, ExpireOnUse, Authenticate, users, Typed, TypeOK
<1>7. CASE UNCHANGED <<users, sessions>>
  BY <1>7, StandingKept DEF users, sessions
<1>8. [Next]_vars => \/ UNCHANGED <<users, sessions>> \/ Command
                     \/ Maintain
                     \/ \E c \in Callbacks, u \in Users, e \in Emails,
                           s \in Sessions : FinishCallback(c, u, e, s)
                     \/ \E u \in Users : Recover(u)
  BY DEF Next, SignIn, StartAuthorization, DenyAuthorization, BeginCallback,
         FailExchange, IdentityConflict, Tick, Restart, vars
<1> QED
  BY <1>1, <1>2, <1>3, <1>4, <1>5, <1>6, <1>7, <1>8 DEF Command

\* No session survives a change of its user's role or status, whichever
\* sign-ins, decisions and recoveries overlap.
THEOREM SessionsFollowStanding == Spec => []LiveSessionKeepsStanding
<1>1. LiveSessionsHaveUsers => LiveSessionKeepsStanding
  BY DEF LiveSessionsHaveUsers
<1> QED
  BY InitTyped, StepTyped, InitStanding, StepStanding, <1>1, PTL DEF Spec

(***************************************************************************)
(* A decision is about what the page showed                                *)
(***************************************************************************)
\* The version a page showed is not ahead of the user's, and while it is the
\* user's the standing it showed is the user's too.
VersionTellsStanding ==
  \A p \in Tabs : dPhase[p] = "open" =>
    /\ uStatus[dUser[p]] # "absent"
    /\ dVersion[p] <= uVersion[dUser[p]]
    /\ dVersion[p] = uVersion[dUser[p]] => dSeen[p] = Standing(dUser[p])

LEMMA InitVersion == Init => VersionTellsStanding
BY DEF Init, VersionTellsStanding

LEMMA VersionKept ==
  ASSUME VersionTellsStanding, UNCHANGED <<users, decisions>>
  PROVE  VersionTellsStanding'
BY DEF VersionTellsStanding, Standing, users, decisions

\* A write of one user's row that raises its version keeps it, too.
LEMMA VersionRaised ==
  ASSUME Typed, VersionTellsStanding, NEW u \in Users,
         UNCHANGED <<dUser, dVersion, dSeen>>,
         uStatus'[u] # "absent" \/ uStatus[u] = "absent",
         uVersion' = [uVersion EXCEPT ![u] = @ + 1],
         \A v \in Users : v # u =>
           uStatus'[v] = uStatus[v] /\ uRole'[v] = uRole[v],
         \A p \in Tabs : dPhase'[p] = "open" => dPhase[p] = "open"
  PROVE  VersionTellsStanding'
<1> SUFFICES ASSUME NEW p \in Tabs, dPhase'[p] = "open"
             PROVE  (/\ uStatus[dUser[p]] # "absent"
                     /\ dVersion[p] <= uVersion[dUser[p]]
                     /\ dVersion[p] = uVersion[dUser[p]]
                          => dSeen[p] = Standing(dUser[p]))'
  BY DEF VersionTellsStanding
<1>1. /\ dPhase[p] = "open" /\ dUser[p] \in Users
      /\ dVersion[p] \in Nat /\ uVersion[dUser[p]] \in Nat
      /\ uStatus[dUser[p]] # "absent"
      /\ dVersion[p] <= uVersion[dUser[p]]
      /\ dVersion[p] = uVersion[dUser[p]] => dSeen[p] = Standing(dUser[p])
  BY DEF VersionTellsStanding, Typed, TypeOK, DecisionsNameUsers
<1>2. CASE dUser[p] = u
  BY <1>1, <1>2 DEF Typed, TypeOK
<1>3. CASE dUser[p] # u
  BY <1>1, <1>3 DEF Typed, TypeOK, Standing
<1> QED
  BY <1>2, <1>3

LEMMA StepVersion ==
  ASSUME Typed, VersionTellsStanding, [Next]_vars
  PROVE  VersionTellsStanding'
<1>1. ASSUME NEW c \in Callbacks, NEW u \in Users, NEW e \in Emails,
             NEW s \in Sessions, FinishCallback(c, u, e, s)
      PROVE  VersionTellsStanding'
  <2>1. CASE KnownUser(u)
    BY <1>1, <2>1, VersionRaised DEF FinishCallback, KnownUser, decisions
  <2>2. CASE NewUser(u, e)
    BY <1>1, <2>2
       DEF FinishCallback, NewUser, decisions, VersionTellsStanding, Standing,
           Typed, TypeOK, DecisionsNameUsers
  <2> QED
    BY <1>1, <2>1, <2>2 DEF FinishCallback
<1>2. ASSUME NEW p \in Tabs, NEW s \in Sessions,
             NEW status \in UserStatuses \ {"pending"}, NEW role \in Roles,
             Transition(p, s, status, role)
      PROVE  VersionTellsStanding'
  <2>1. status # "absent" /\ dUser[p] \in Users
    BY <1>2 DEF UserStatuses, Transition, Typed, DecisionsNameUsers
  <2> QED
    BY <1>2, <2>1, VersionRaised DEF Transition, Typed, TypeOK
<1>3. ASSUME NEW u \in Users, Recover(u) PROVE VersionTellsStanding'
  BY <1>3, VersionRaised DEF Recover, decisions, Typed, TypeOK
<1>4. ASSUME NEW p \in Tabs, NEW s \in Sessions, NEW u \in Users,
             ShowUser(p, s, u)
      PROVE  VersionTellsStanding'
  BY <1>4 DEF ShowUser, users, VersionTellsStanding, Standing, Typed, TypeOK
<1>5. [Next]_vars => \/ UNCHANGED <<users, decisions>>
                     \/ \E c \in Callbacks, u \in Users, e \in Emails,
                           s \in Sessions : FinishCallback(c, u, e, s)
                     \/ \E p \in Tabs, s \in Sessions,
                           status \in UserStatuses \ {"pending"},
                           role \in Roles : Transition(p, s, status, role)
                     \/ \E u \in Users : Recover(u)
                     \/ \E p \in Tabs, s \in Sessions, u \in Users :
                           ShowUser(p, s, u)
  BY DEF Next, SignIn, Command, StartAuthorization, DenyAuthorization,
         BeginCallback, FailExchange, IdentityConflict, UseSession,
         ExpireOnUse, RotateCsrfToken, Logout, RevokeAllSessions, Maintain,
         Tick, Restart, vars
<1> QED
  BY <1>1, <1>2, <1>3, <1>4, <1>5, VersionKept

\* A tab's decision is applied by Transition alone.
LEMMA AppliedByTransition ==
  ASSUME Typed, VersionTellsStanding, [Next]_vars
  PROVE  [\A p \in Tabs : dPhase[p] = "open" /\ dPhase'[p] = "applied"
            => dSeen[p] = Standing(dUser[p])]_vars
<1>1. ASSUME NEW p \in Tabs, NEW s \in Sessions,
             NEW status \in UserStatuses \ {"pending"}, NEW role \in Roles,
             Transition(p, s, status, role), NEW q \in Tabs,
             dPhase[q] = "open", dPhase'[q] = "applied"
      PROVE  dSeen[q] = Standing(dUser[q])
  BY <1>1 DEF Transition, VersionTellsStanding, Typed, TypeOK
<1>2. [Next]_vars => \/ dPhase' = dPhase
                     \/ \E p \in Tabs : dPhase' = [dPhase EXCEPT ![p] = "open"]
                     \/ \E p \in Tabs, s \in Sessions,
                           status \in UserStatuses \ {"pending"},
                           role \in Roles : Transition(p, s, status, role)
  BY DEF Next, SignIn, Command, StartAuthorization, DenyAuthorization,
         BeginCallback, FailExchange, IdentityConflict, FinishCallback,
         UseSession, ExpireOnUse, RotateCsrfToken, Logout,
         RevokeAllSessions, ShowUser, Recover, Maintain, Tick, Restart, vars,
         decisions
<1> QED
  BY <1>1, <1>2 DEF Typed, TypeOK

\* Whoever writes a user's role or status in between, an administrator's
\* change lands on the standing that administrator was shown.
THEOREM DecisionsFitTheirPage == Spec => DecisionOnWhatWasSeen
BY InitTyped, StepTyped, InitVersion, StepVersion, AppliedByTransition, PTL
   DEF Spec, DecisionOnWhatWasSeen

(***************************************************************************)
(* The idle limit follows the last request                                 *)
(***************************************************************************)
\* How far last_seen_at may be behind the last request of an active session,
\* and what the idle limit is counted from.
SeenTellsUse(s) ==
  /\ sSeen[s] <= sUsed[s] /\ sUsed[s] <= now
  /\ sUsed[s] < sSeen[s] + TouchInterval
  /\ sIdle[s] <= sSeen[s] + IdleTtl
  /\ sIdle[s] < sExpires[s] => sIdle[s] = sSeen[s] + IdleTtl

SeenFollowsUse == \A s \in Sessions : sStatus[s] = "active" => SeenTellsUse(s)

LEMMA InitSeen == Init => SeenFollowsUse
BY DEF Init, SeenFollowsUse

\* What a step does to the times of one session.
Rests(s) ==
  /\ sSeen'[s] = sSeen[s] /\ sIdle'[s] = sIdle[s]
  /\ sExpires'[s] = sExpires[s] /\ sUsed'[s] = sUsed[s]
  /\ sStatus'[s] = "active" => sStatus[s] = "active"
  /\ sStatus[s] = "active" /\ sStatus'[s] = "expired" => ~InTime(s)
  /\ now <= now'

IsUsed(s) ==
  /\ sStatus[s] = "active" /\ InTime(s) /\ sStatus'[s] # "expired"
  /\ sSeen'[s] = IF TouchDue(s) THEN now ELSE sSeen[s]
  /\ sIdle'[s] = IF TouchDue(s) THEN Lower(now + IdleTtl, sExpires[s])
                 ELSE sIdle[s]
  /\ sExpires'[s] = sExpires[s] /\ sUsed'[s] = now /\ now' = now

IsOpened(s) ==
  /\ sStatus[s] = "none"
  /\ sSeen'[s] = now /\ sIdle'[s] = now + IdleTtl /\ sUsed'[s] = now
  /\ now' = now

SessionStep == \A s \in Sessions : Rests(s) \/ IsUsed(s) \/ IsOpened(s)

LEMMA RestingStep ==
  ASSUME Typed, UNCHANGED <<sSeen, sIdle, sExpires, sUsed>>, now <= now',
         \A s \in Sessions :
           /\ sStatus'[s] = "active" => sStatus[s] = "active"
           /\ sStatus[s] = "active" /\ sStatus'[s] = "expired" => ~InTime(s)
  PROVE  SessionStep
BY DEF SessionStep, Rests

LEMMA UsingStep ==
  ASSUME Typed, NEW s \in Sessions, Authenticate(s), now' = now,
         \A x \in Sessions :
           /\ sStatus'[x] = "active" => sStatus[x] = "active"
           /\ sStatus[x] = "active" => sStatus'[x] # "expired"
  PROVE  SessionStep
<1>0. now \in Nat
  BY DEF Typed, TypeOK
<1>1. IsUsed(s)
  BY <1>0 DEF Authenticate, IsUsed, Typed, TypeOK
<1>2. \A x \in Sessions : x # s => Rests(x)
  BY <1>0 DEF Authenticate, Rests, Typed, TypeOK
<1> QED
  BY <1>1, <1>2 DEF SessionStep

LEMMA StepSessions == Typed /\ [Next]_vars => SessionStep
<1> SUFFICES ASSUME Typed, [Next]_vars
             PROVE  SessionStep
  OBVIOUS
<1>0. now \in Nat
  BY DEF Typed, TypeOK
<1>1. ASSUME NEW c \in Callbacks, NEW u \in Users, NEW e \in Emails,
             NEW s \in Sessions, FinishCallback(c, u, e, s)
      PROVE  SessionStep
  <2>1. IsOpened(s)
    BY <1>1 DEF FinishCallback, OpenSession, NextSession, IsOpened, clock,
                Typed, TypeOK
  <2>2. \A x \in Sessions : x # s => Rests(x)
    BY <1>0, <1>1 DEF FinishCallback, OpenSession, Rests, clock, Typed, TypeOK
  <2> QED
    BY <2>1, <2>2 DEF SessionStep
<1>2. ASSUME NEW p \in Tabs, NEW s \in Sessions,
             NEW status \in UserStatuses \ {"pending"}, NEW role \in Roles,
             Transition(p, s, status, role)
      PROVE  SessionStep
  BY <1>2, UsingStep DEF Transition, RequireAdmin, Revoke, clock
<1>3. ASSUME NEW u \in Users, Recover(u) PROVE SessionStep
  BY <1>0, <1>3, RestingStep DEF Recover, Revoke, clock
<1>4. CASE Maintain
  <2>1. PICK expired \in ExpireSessions : \E purged \in PurgeSessions(expired) :
          sStatus' = [s \in Sessions |-> IF s \in purged THEN "purged"
                                         ELSE IF s \in expired THEN "expired"
                                         ELSE sStatus[s]]
    BY <1>4 DEF Maintain
  <2>2. \A s \in expired : ~InTime(s)
    BY DEF ExpireSessions, FirstRows
  <2>3. \A s \in Sessions :
          /\ sStatus'[s] = "active" => sStatus[s] = "active"
          /\ sStatus[s] = "active" /\ sStatus'[s] = "expired" => ~InTime(s)
    BY <2>1, <2>2
  <2> QED
    BY <1>0, <1>4, <2>3, RestingStep DEF Maintain, clock
<1>5. ASSUME NEW p \in Tabs, NEW s \in Sessions,
             \/ Logout(p, s) \/ RevokeAllSessions(p, s)
             \/ RotateCsrfToken(p, s)
             \/ \E u \in Users : ShowUser(p, s, u)
      PROVE  SessionStep
  <2>1. \A x \in Sessions :
          /\ sStatus'[x] = "active" => sStatus[x] = "active"
          /\ sStatus[x] = "active" => sStatus'[x] # "expired"
    BY <1>5 DEF Logout, RevokeAllSessions, RotateCsrfToken, ShowUser, Revoke
  <2> QED
    BY <1>5, <2>1, UsingStep
       DEF Logout, RevokeAllSessions, RotateCsrfToken, ShowUser, RequireAdmin,
           clock
<1>6. ASSUME NEW s \in Sessions, UseSession(s)
      PROVE  SessionStep
  BY <1>6, UsingStep DEF UseSession, clock
<1>7. ASSUME NEW s \in Sessions, ExpireOnUse(s)
      PROVE  SessionStep
  <2>1. \A x \in Sessions :
          /\ sStatus'[x] = "active" => sStatus[x] = "active"
          /\ sStatus[x] = "active" /\ sStatus'[x] = "expired" => ~InTime(x)
    BY <1>7 DEF ExpireOnUse, Typed, TypeOK
  <2> QED
    BY <1>0, <1>7, <2>1, RestingStep DEF ExpireOnUse, clock
<1>8. CASE UNCHANGED sessions /\ now <= now'
  BY <1>8, RestingStep DEF sessions
<1>9. \/ UNCHANGED sessions /\ now <= now'
      \/ Command \/ Maintain
      \/ \E c \in Callbacks, u \in Users, e \in Emails, s \in Sessions :
           FinishCallback(c, u, e, s)
      \/ \E u \in Users : Recover(u)
  BY <1>0 DEF Next, SignIn, StartAuthorization, DenyAuthorization,
              BeginCallback, FailExchange, IdentityConflict, Tick, Restart,
              vars, clock
<1> QED
  BY <1>1, <1>2, <1>3, <1>4, <1>5, <1>6, <1>7, <1>8, <1>9 DEF Command

LEMMA StepSeen ==
  ASSUME Typed, SeenFollowsUse, [Next]_vars
  PROVE  SeenFollowsUse'
<1> SUFFICES ASSUME NEW s \in Sessions, sStatus'[s] = "active"
             PROVE  SeenTellsUse(s)'
  BY DEF SeenFollowsUse
<1>1. /\ Rests(s) \/ IsUsed(s) \/ IsOpened(s)
      /\ Typed'
  BY StepSessions, StepTyped DEF SessionStep
<1>2. /\ now \in Nat /\ sSeen[s] \in Nat /\ sIdle[s] \in Nat
      /\ sExpires[s] \in Nat /\ sUsed[s] \in Nat /\ now' \in Nat
  BY <1>1 DEF Typed, TypeOK
<1>3. CASE Rests(s)
  BY <1>2, <1>3, TimesAssumption DEF Rests, SeenFollowsUse, SeenTellsUse
<1>4. CASE IsUsed(s)
  BY <1>2, <1>4, TimesAssumption
     DEF IsUsed, SeenFollowsUse, SeenTellsUse, TouchDue, Lower
<1>5. CASE IsOpened(s)
  BY <1>2, <1>5, TimesAssumption DEF IsOpened, SeenTellsUse
<1> QED
  BY <1>1, <1>3, <1>4, <1>5

LEMMA StepIdle ==
  ASSUME Typed, SeenFollowsUse, [Next]_vars, NEW s \in Sessions,
         sStatus[s] = "active"
  PROVE  /\ sUsed'[s] # sUsed[s] => now < sUsed[s] + IdleTtl
         /\ sStatus'[s] = "expired" /\ now < sExpires[s]
              => sUsed[s] + IdleTtl - TouchInterval < now
<1>1. Rests(s) \/ IsUsed(s) \/ IsOpened(s)
  BY StepSessions DEF SessionStep
<1>2. /\ now \in Nat /\ sSeen[s] \in Nat /\ sIdle[s] \in Nat
      /\ sExpires[s] \in Nat /\ sUsed[s] \in Nat
      /\ IdleTtl \in Nat /\ TouchInterval \in Nat
  BY TimesAssumption DEF Typed, TypeOK
<1>3. SeenTellsUse(s)
  BY DEF SeenFollowsUse
<1> QED
  BY <1>1, <1>2, <1>3 DEF Rests, IsUsed, IsOpened, SeenTellsUse, InTime

\* A session that rested for IdleTtl answers no request, and the interval at
\* which last_seen_at is written shortens no session's rest by more than
\* itself, for every choice of the lifetimes and of the interval.
THEOREM RestingSessionsEnd == Spec => IdleLimitFollowsUse
<1>1. Typed /\ SeenFollowsUse /\ [Next]_vars =>
        [\A s \in Sessions :
           sStatus[s] = "active" =>
             /\ sUsed'[s] # sUsed[s] => now < sUsed[s] + IdleTtl
             /\ sStatus'[s] = "expired" /\ now < sExpires[s]
                  => sUsed[s] + IdleTtl - TouchInterval < now]_vars
  BY StepIdle
<1> QED
  BY InitTyped, StepTyped, InitSeen, StepSeen, <1>1, PTL
     DEF Spec, IdleLimitFollowsUse
=============================================================================
