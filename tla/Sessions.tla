------------------------------ MODULE Sessions ------------------------------
(***************************************************************************)
(* Signing in to the admin area: the session records in Valkey             *)
(* (session/session.go), the filters that read them (middleware/auth.go,   *)
(* in the order of router/router.go), the handlers of the second factor    *)
(* (handlers/auth.go), the choice of a tenant (handlers/admin_tenant.go)   *)
(* and the columns and memberships of users that they use (store/user.go). *)
(*                                                                         *)
(* A request loads its session's record once, at its start, works on that  *)
(* copy and may write all of it back.  Each SQL statement and each call to *)
(* Valkey is a step; requests of one session overlap.                      *)
(*                                                                         *)
(* Abstractions.  The rate limiter lets requests pass.  A code is known by *)
(* the secret it was computed from, one that the user has scanned: it is   *)
(* wrong once another is stored.  Tenants are active.  What the other      *)
(* pages do is one page, the dashboard.                                    *)
(***************************************************************************)
EXTENDS Naturals, FiniteSets

CONSTANTS
  User, SuperAdmins,
  Tenant, Role,
  Session,      \* session ids (random: never used twice)
  Secret,       \* TOTP secrets (random: never generated twice)
  Request,      \* requests that can be in flight together
  SeedUser,     \* the users' rows at the start
  SeedMembers,  \* their memberships at the start
  Gone,         \* no such user
  NoSession, NoSecret, NoTenant, NoRole,
  MaxChanges,   \* bound on the number of changes made to users by admins
  MaxFaults     \* bound on the number of failures: of calls, of the process

UserRow == [secret : Secret \cup {NoSecret}, enabled : BOOLEAN]
Memberships == [Tenant -> Role \cup {NoRole}]
Data == [user : User, tenant : Tenant \cup {NoTenant}, role : Role \cup {NoRole}, done : BOOLEAN]
Url == {"dashboard", "setup"}

ASSUME SessionsAssumption ==
  /\ SuperAdmins \subseteq User
  /\ SeedUser \in [User -> UserRow]
  /\ SeedMembers \in [User -> Memberships]
  /\ Gone \notin UserRow /\ NoSession \notin Data
  /\ NoSecret \notin Secret
  /\ NoTenant \notin Tenant /\ NoRole \notin Role
  /\ MaxChanges \in Nat /\ MaxFaults \in Nat

VARIABLES
  users,     \* users[u]: the row of u, or Gone
  members,   \* the table user_tenants: members[u][t] is a role, or NoRole
  sessions,  \* sessions[s]: the record in Valkey, or NoSession
  made,      \* the session ids and secrets generated so far
  scanned,   \* scanned[u]: the secrets on u's authenticator
  req,       \* req[r]: where request r is
  passed,    \* history: the sessions in which a code was accepted
  held,      \* history: the <<user, tenant, role>> there have been
  ended,     \* the sessions whose cookie a logout has cleared
  changes,   \* number of changes by admins so far
  faults     \* number of failures so far

accounts == <<users, members, held, changes>>
logins == <<sessions, ended>>
factors == <<made, scanned, passed>>
vars == <<accounts, logins, factors, req, faults>>

Idle == [pc |-> "idle"]
Requests ==
  [pc : {"idle"}]
    \cup [pc : {"create"}, user : User]
    \cup [pc : {"load"}, id : Session, url : Url, from : SUBSET Url]
    \cup [pc : {"setup"}, id : Session, data : Data, from : SUBSET Url]
    \cup [pc : {"saveSecret"}, id : Session, data : Data, secret : Secret]
    \cup [pc : {"verify"}, id : Session, data : Data, code : Secret]
    \cup [pc : {"select"}, id : Session, data : Data, tenant : Tenant]
    \cup [pc : {"enable", "tenants", "update"}, id : Session, data : Data]

Init ==
  /\ users = SeedUser /\ members = SeedMembers
  /\ held = {<<u, t, SeedMembers[u][t]>> : u \in User, t \in Tenant}
  /\ sessions = [s \in Session |-> NoSession]
  /\ made = {SeedUser[u].secret : u \in User} \ {NoSecret}
  /\ scanned = [u \in User |-> {SeedUser[u].secret} \ {NoSecret}]
  /\ req = [r \in Request |-> Idle]
  /\ passed = {} /\ ended = {}
  /\ changes = 0 /\ faults = 0

HasSecret(u) == users[u] # Gone /\ users[u].secret # NoSecret

Become(r, x) == req' = [req EXCEPT ![r] = x]
End(r) == Become(r, Idle)
Fault == faults < MaxFaults /\ faults' = faults + 1

-----------------------------------------------------------------------------
(* Login and logout.                                                       *)

\* LoginSubmit: the user is found ...
FindByEmail(r, u) ==
  /\ req[r] = Idle
  /\ users[u] # Gone
  /\ Become(r, [pc |-> "create", user |-> u])
  /\ UNCHANGED <<accounts, logins, factors, faults>>

\* ... and gets a session without a second factor and without a tenant.
Create(r, s) ==
  /\ req[r].pc = "create"
  /\ s \notin made
  /\ made' = made \cup {s}
  /\ sessions' = [sessions EXCEPT ![s] = [user |-> req[r].user, tenant |-> NoTenant,
                                          role |-> NoRole, done |-> FALSE]]
  /\ End(r)
  /\ UNCHANGED <<accounts, ended, scanned, passed, faults>>

\* An unknown email or a wrong password: the form again, and nothing changes.
LoginRejected(r) == req[r] = Idle /\ UNCHANGED vars

\* Logout: Destroy deletes the record and clears the cookie, which it does as
\* well when the deletion fails.
Logout(s) ==
  /\ s \in made \ ended
  /\ ended' = ended \cup {s}
  /\ \/ sessions' = [sessions EXCEPT ![s] = NoSession] /\ UNCHANGED faults
     \/ UNCHANGED sessions /\ Fault
  /\ UNCHANGED <<accounts, factors, req>>

\* A variant that breaks Expire: the records are stored without a TTL.
ExpireNever(s) == FALSE /\ UNCHANGED vars

\* The TTL of a record runs out.
Expire(s) ==
  /\ sessions[s] # NoSession
  /\ sessions' = [sessions EXCEPT ![s] = NoSession]
  /\ UNCHANGED <<accounts, ended, factors, req, faults>>

-----------------------------------------------------------------------------
(* A request of a session: LoadSession, then the filters of its route.     *)

\* Requests carry a cookie that no logout has cleared; without a record they end
\* at the login page.
Carries(r, s) == req[r] = Idle /\ s \notin ended /\ sessions[s] # NoSession

\* The link to a page is opened.
Open(r, s, url) ==
  /\ Carries(r, s)
  /\ Become(r, [pc |-> "load", id |-> s, url |-> url, from |-> {}])
  /\ UNCHANGED <<accounts, logins, factors, faults>>

\* RequireAuth and, for the dashboard, Require2FA: a session without the second
\* factor is redirected to the setup page, and the browser follows.
LoadSession(r) ==
  LET x == req[r]
      data == sessions[x.id] IN
  /\ x.pc = "load"
  /\ \/ data = NoSession /\ End(r)
     \/ /\ data # NoSession /\ x.url = "setup"
        /\ Become(r, [pc |-> "setup", id |-> x.id, data |-> data, from |-> x.from])
     \/ data # NoSession /\ x.url = "dashboard" /\ data.done /\ End(r)
     \/ /\ data # NoSession /\ x.url = "dashboard" /\ ~data.done
        /\ Become(r, [pc |-> "load", id |-> x.id, url |-> "setup",
                      from |-> x.from \cup {"dashboard"}])
  /\ UNCHANGED <<accounts, logins, factors, faults>>

\* The form with a code is sent; only RequireAuth applies.
SubmitCode(r, s, code) ==
  /\ Carries(r, s)
  /\ code \in scanned[sessions[s].user]
  /\ Become(r, [pc |-> "verify", id |-> s, data |-> sessions[s], code |-> code])
  /\ UNCHANGED <<accounts, logins, factors, faults>>

\* A variant that breaks SubmitTenant: its route does without Require2FA.
SubmitTenantEarly(r, s, t) ==
  /\ Carries(r, s)
  /\ Become(r, [pc |-> "select", id |-> s, data |-> sessions[s], tenant |-> t])
  /\ UNCHANGED <<accounts, logins, factors, faults>>

\* A tenant is chosen; RequireAuth and Require2FA apply.
SubmitTenant(r, s, t) ==
  /\ Carries(r, s)
  /\ sessions[s].done
  /\ Become(r, [pc |-> "select", id |-> s, data |-> sessions[s], tenant |-> t])
  /\ UNCHANGED <<accounts, logins, factors, faults>>

\* ProfileSave with a new name for the user (left out): the copy that the request
\* loaded is written back, behind the same filters.
SubmitProfile(r, s) ==
  /\ Carries(r, s)
  /\ sessions[s].done
  /\ Become(r, [pc |-> "update", id |-> s, data |-> sessions[s]])
  /\ UNCHANGED <<accounts, logins, factors, faults>>

-----------------------------------------------------------------------------
(* TwoFASetupPage.                                                         *)

Shown(u, secrets) == scanned' = [scanned EXCEPT ![u] = @ \cup secrets]

\* The row is read: a secret that waits for its first code is shown again, ...
ShowPending(r) ==
  LET row == users[req[r].data.user] IN
  /\ req[r].pc = "setup"
  /\ HasSecret(req[r].data.user) /\ ~row.enabled
  /\ Shown(req[r].data.user, {row.secret})
  /\ End(r)
  /\ UNCHANGED <<accounts, logins, made, passed, faults>>

\* ... without one, a new one is generated, ...
Generate(r, k) ==
  LET x == req[r]
      row == users[x.data.user] IN
  /\ x.pc = "setup"
  /\ row # Gone /\ row.secret = NoSecret
  /\ k \notin made
  /\ made' = made \cup {k}
  /\ Become(r, [pc |-> "saveSecret", id |-> x.id, data |-> x.data, secret |-> k])
  /\ UNCHANGED <<accounts, logins, scanned, passed, faults>>

\* The random source fails: an error page.  Here it does so when the bounded sets
\* of ids and secrets are used up.
NothingGenerated(r) ==
  /\ \/ req[r].pc = "create" /\ Session \subseteq made
     \/ /\ req[r].pc = "setup" /\ Secret \subseteq made
        /\ users[req[r].data.user] # Gone
        /\ users[req[r].data.user].secret = NoSecret
  /\ End(r)
  /\ UNCHANGED <<accounts, logins, factors, faults>>

\* ... and who is through with the setup is redirected to the dashboard.
SetupOver(r) ==
  LET x == req[r]
      row == users[x.data.user] IN
  /\ x.pc = "setup"
  /\ \/ row = Gone /\ End(r)
     \/ /\ HasSecret(x.data.user) /\ row.enabled
        /\ Become(r, [pc |-> "load", id |-> x.id, url |-> "dashboard",
                      from |-> x.from \cup {"setup"}])
  /\ UNCHANGED <<accounts, logins, factors, faults>>

\* SetTOTPSecret writes the new secret over whatever is there by now; it is shown.
SetTOTPSecret(r) ==
  LET u == req[r].data.user IN
  /\ req[r].pc = "saveSecret"
  /\ users' = IF users[u] = Gone THEN users ELSE [users EXCEPT ![u].secret = req[r].secret]
  /\ Shown(u, {req[r].secret})
  /\ End(r)
  /\ UNCHANGED <<members, held, changes, logins, made, passed, faults>>

-----------------------------------------------------------------------------
(* TwoFAVerifySubmit.                                                      *)

\* The code is wrong, or there is no secret to compare it with.
RejectCode(r) ==
  LET u == req[r].data.user
      row == users[u] IN
  /\ req[r].pc = "verify"
  /\ \/ ~HasSecret(u) /\ UNCHANGED scanned
     \/ /\ HasSecret(u) /\ row.secret # req[r].code
        /\ Shown(u, IF row.enabled THEN {} ELSE {row.secret})
  /\ End(r)
  /\ UNCHANGED <<accounts, logins, made, passed, faults>>

\* A variant that breaks AcceptCode: the result of Validate is not looked at.
AcceptAnyCode(r) ==
  LET x == req[r]
      row == users[x.data.user] IN
  /\ x.pc = "verify"
  /\ HasSecret(x.data.user)
  /\ passed' = IF row.secret = x.code THEN passed \cup {x.id} ELSE passed
  /\ Become(r, [pc |-> IF row.enabled THEN "tenants" ELSE "enable",
                id |-> x.id, data |-> x.data])
  /\ UNCHANGED <<accounts, logins, made, scanned, faults>>

AcceptCode(r) ==
  LET x == req[r]
      row == users[x.data.user] IN
  /\ x.pc = "verify"
  /\ row # Gone /\ row.secret = x.code
  /\ passed' = passed \cup {x.id}
  /\ Become(r, [pc |-> IF row.enabled THEN "tenants" ELSE "enable",
                id |-> x.id, data |-> x.data])
  /\ UNCHANGED <<accounts, logins, made, scanned, faults>>

\* EnableTOTP sets the flag, whatever secret is there by now.
EnableTOTP(r) ==
  LET x == req[r]
      u == x.data.user IN
  /\ x.pc = "enable"
  /\ users' = IF users[u] = Gone THEN users ELSE [users EXCEPT ![u].enabled = TRUE]
  /\ Become(r, [pc |-> "tenants", id |-> x.id, data |-> x.data])
  /\ UNCHANGED <<members, held, changes, logins, factors, faults>>

\* GetTenants: the only tenant is chosen; with none, only a super admin goes on.
GetTenants(r) ==
  LET x == req[r]
      u == x.data.user
      mine == {t \in Tenant : members[u][t] # NoRole} IN
  /\ x.pc = "tenants"
  /\ \/ mine = {} /\ u \notin SuperAdmins /\ End(r)
     \/ \E t \in mine : /\ mine = {t}
                        /\ Become(r, [pc |-> "update", id |-> x.id,
                                      data |-> [x.data EXCEPT !.done = TRUE, !.tenant = t,
                                                              !.role = members[u][t]]])
     \/ /\ Cardinality(mine) > 1 \/ (mine = {} /\ u \in SuperAdmins)
        /\ Become(r, [pc |-> "update", id |-> x.id, data |-> [x.data EXCEPT !.done = TRUE]])
  /\ UNCHANGED <<accounts, logins, factors, faults>>

-----------------------------------------------------------------------------
(* SelectTenantSubmit, and the write that it and its like end with.        *)

\* A variant that breaks GetTenantRole: the role of the last tenant is kept.
RoleIsKept(r) ==
  LET x == req[r]
      role == members[x.data.user][x.tenant] IN
  /\ x.pc = "select"
  /\ \/ role = NoRole /\ End(r)
     \/ /\ role # NoRole
        /\ Become(r, [pc |-> "update", id |-> x.id, data |-> [x.data EXCEPT !.tenant = x.tenant]])
  /\ UNCHANGED <<accounts, logins, factors, faults>>

GetTenantRole(r) ==
  LET x == req[r]
      role == members[x.data.user][x.tenant] IN
  /\ x.pc = "select"
  /\ \/ role = NoRole /\ End(r)
     \/ /\ role # NoRole
        /\ Become(r, [pc |-> "update", id |-> x.id,
                      data |-> [x.data EXCEPT !.tenant = x.tenant, !.role = role]])
  /\ UNCHANGED <<accounts, logins, factors, faults>>

\* Update replaces the record, whether or not there still is one.
Update(r) ==
  /\ req[r].pc = "update"
  /\ sessions' = [sessions EXCEPT ![req[r].id] = req[r].data]
  /\ End(r)
  /\ UNCHANGED <<accounts, ended, factors, faults>>

-----------------------------------------------------------------------------
(* Admins of other sessions, and failures.                                 *)

Change ==
  /\ changes < MaxChanges
  /\ changes' = changes + 1
  /\ UNCHANGED <<logins, factors, req, faults>>

\* UserResetTwoFA.
ResetTOTP(u) ==
  /\ Change
  /\ users[u] # Gone
  /\ users' = [users EXCEPT ![u] = [secret |-> NoSecret, enabled |-> FALSE]]
  /\ UNCHANGED <<members, held>>

\* UserDelete: the memberships go by cascade, the sessions stay.
UserDelete(u) ==
  /\ Change
  /\ users[u] # Gone
  /\ users' = [users EXCEPT ![u] = Gone]
  /\ members' = [members EXCEPT ![u] = [t \in Tenant |-> NoRole]]
  /\ UNCHANGED held

\* AddToTenant, which also changes the role of a member, and RemoveFromTenant.
AddToTenant(u, t, role) ==
  /\ Change
  /\ users[u] # Gone
  /\ members' = [members EXCEPT ![u][t] = role]
  /\ held' = held \cup {<<u, t, role>>}
  /\ UNCHANGED users

RemoveFromTenant(u, t) ==
  /\ Change
  /\ members' = [members EXCEPT ![u][t] = NoRole]
  /\ UNCHANGED <<users, held>>

\* A query or a call fails: an error page, or the login page.
RequestFails(r) ==
  /\ Fault
  /\ req[r] # Idle
  /\ End(r)
  /\ UNCHANGED <<accounts, logins, factors>>

\* The process dies and starts again.
Restart ==
  /\ Fault
  /\ req' = [r \in Request |-> Idle]
  /\ UNCHANGED <<accounts, logins, factors>>

-----------------------------------------------------------------------------
Begin(r) ==
  \/ \E u \in User : FindByEmail(r, u)
  \/ \E s \in Session : \/ \E url \in Url : Open(r, s, url)
                        \/ \E code \in Secret : SubmitCode(r, s, code)
                        \/ \E t \in Tenant : SubmitTenant(r, s, t)
                        \/ SubmitProfile(r, s)

GoOn(r) ==
  \/ LoadSession(r) \/ NothingGenerated(r)
  \/ ShowPending(r) \/ SetupOver(r) \/ SetTOTPSecret(r)
  \/ RejectCode(r) \/ AcceptCode(r) \/ EnableTOTP(r) \/ GetTenants(r)
  \/ GetTenantRole(r) \/ Update(r)

Next ==
  \/ \E r \in Request : \/ Begin(r) \/ LoginRejected(r) \/ GoOn(r) \/ RequestFails(r)
                        \/ \E s \in Session : Create(r, s)
                        \/ \E k \in Secret : Generate(r, k)
  \/ \E s \in Session : Logout(s) \/ Expire(s)
  \/ \E u \in User : \/ ResetTOTP(u) \/ UserDelete(u)
                     \/ \E t \in Tenant : \/ \E role \in Role : AddToTenant(u, t, role)
                                          \/ RemoveFromTenant(u, t)
  \/ Restart

Spec == Init /\ [][Next]_vars

\* Requests in flight run on, and records expire.  Sessions are not created, used
\* or ended unless somebody wants to.
FairSpec ==
  /\ Spec
  /\ \A r \in Request : WF_vars(GoOn(r))
  /\ \A s \in Session : WF_vars(Expire(s))

-----------------------------------------------------------------------------
TypeOK ==
  /\ users \in [User -> UserRow \cup {Gone}]
  /\ members \in [User -> Memberships]
  /\ sessions \in [Session -> Data \cup {NoSession}]
  /\ made \subseteq Session \cup Secret
  /\ scanned \in [User -> SUBSET Secret]
  /\ req \in [Request -> Requests]
  /\ passed \subseteq Session /\ ended \subseteq Session
  /\ held \subseteq User \X Tenant \X (Role \cup {NoRole})
  /\ changes \in 0..MaxChanges /\ faults \in 0..MaxFaults
  /\ \A s \in Session : sessions[s] # NoSession => s \in made
  /\ \A u \in User : users[u] = Gone => \A t \in Tenant : members[u][t] = NoRole

\* A session whose record says that the second factor is done has had a code
\* accepted: of a secret that was the user's by then, in that very session,
\* however its requests overlap, secrets are replaced and 2FA is reset.
SecondFactorPassed ==
  \A s \in Session : sessions[s] # NoSession /\ sessions[s].done => s \in passed

\* A session that is through with the second factor does not fall back to a state
\* before it when a request that began earlier writes its copy: no handler that a
\* session may reach without the factor writes the record unless it sets the flag.
NeverBackToOneFactor ==
  [][\A s \in Session :
       sessions[s] # NoSession /\ sessions'[s] # NoSession /\ sessions[s].done =>
         sessions'[s].done]_vars

\* The tenant and the role in a record belong together: this user has been in this
\* tenant with this role, however tenants are chosen and roles change meanwhile.
RoleWasHeld ==
  \A s \in Session :
    LET data == sessions[s] IN
    data # NoSession /\ data.tenant # NoTenant => <<data.user, data.tenant, data.role>> \in held

\* A session that was ended is gone for good in the end, although a request that
\* overlaps the logout may write its record again, and the deletion may fail.
EndedSessionsGo == <>[](\A s \in ended : sessions[s] = NoSession)

\* Does not hold: Require2FA sends a user who has 2FA enabled to the setup page,
\* which sends them back.
\* A link to the admin area leads to a page: no redirect leads back to an address
\* that has just redirected (handlers/auth.go:94: to the verification page when
\* 2FA is "Already set up").
NoRedirectLoop ==
  \A r \in Request : req[r].pc = "load" => req[r].url \notin req[r].from
=============================================================================
