--------------------------- MODULE SessionsProofs ---------------------------
(***************************************************************************)
(* Theorems about Sessions, for every set of users, sessions and requests. *)
(*                                                                         *)
(* None of the properties is inductive alone: what a record says was once  *)
(* in the copy of a request.  The inductive invariant says of each copy    *)
(* what the properties say of the records (Sound), and of the memberships  *)
(* that all of them are in the history.                                    *)
(***************************************************************************)
EXTENDS Sessions, TLAPS

\* What holds of a record of session s, in Valkey or in the hands of a request.
Explained(s, data) ==
  /\ data.done => s \in passed
  /\ data.tenant # NoTenant => <<data.user, data.tenant, data.role>> \in held

\* What holds of a request x: its session was created, its copy is explained, past
\* the code it has passed it, and what it is about to write has the factor.
Holding == {"setup", "saveSecret", "verify", "select", "enable", "tenants", "update"}
Sound(x) ==
  /\ x.pc \notin {"idle", "create"} => x.id \in made
  /\ x.pc \in Holding => Explained(x.id, x.data)
  /\ x.pc \in {"enable", "tenants", "update"} => x.id \in passed
  /\ x.pc \in {"select", "update"} => x.data.done

RequestsSound == \A r \in Request : Sound(req[r])
SessionsExplained ==
  \A s \in Session : sessions[s] # NoSession => Explained(s, sessions[s])
MembersHeld ==
  \A u \in User, t \in Tenant : members[u][t] # NoRole => <<u, t, members[u][t]>> \in held

Inv == TypeOK /\ RequestsSound /\ SessionsExplained /\ MembersHeld

-----------------------------------------------------------------------------
\* The fields of a request in each position.
LEMMA RequestFields ==
  ASSUME NEW x \in Requests
  PROVE  /\ x.pc = "create" => x.user \in User
         /\ x.pc \notin {"idle", "create"} => x.id \in Session
         /\ x.pc \in {"load", "setup"} => x.from \in SUBSET Url
         /\ x.pc \in Holding => x.data \in Data
         /\ x.pc = "saveSecret" => x.secret \in Secret
         /\ x.pc = "verify" => x.code \in Secret
         /\ x.pc = "select" => x.tenant \in Tenant
  BY DEF Requests, Holding

\* A request that is over is sound.
LEMMA IdleIsSound == Idle \in Requests /\ Sound(Idle) /\ Sound(Idle)'
  BY DEF Requests, Idle, Sound, Holding

\* A request that moves is the only one that does.
LEMMA OneMoves ==
  ASSUME req \in [Request -> Requests], NEW r \in Request, NEW x \in Requests, Become(r, x)
  PROVE  /\ req' \in [Request -> Requests]
         /\ req'[r] = x
         /\ \A q \in Request : q # r => req'[q] = req[q]
  BY DEF Become

\* Once explained, always explained: histories and ids only grow.
LEMMA SoundLasts ==
  ASSUME made \subseteq made', passed \subseteq passed', held \subseteq held'
  PROVE  /\ \A s \in Session, d \in Data : Explained(s, d) => Explained(s, d)'
         /\ \A x \in Requests : Sound(x) => Sound(x)'
  BY DEF Explained, Sound

LEMMA InitInv == ASSUME Init PROVE Inv
  <1> USE SessionsAssumption DEF Init
  <1>1. TypeOK
    <2>1. users \in [User -> UserRow \cup {Gone}] /\ members \in [User -> Memberships]
      OBVIOUS
    <2>2. made \subseteq Session \cup Secret /\ scanned \in [User -> SUBSET Secret]
      BY DEF UserRow
    <2>3. req \in [Request -> Requests]
      BY IdleIsSound
    <2>4. held \subseteq User \X Tenant \X (Role \cup {NoRole})
      BY DEF Memberships
    <2>5. \A u \in User : users[u] # Gone
      OBVIOUS
    <2> QED BY <2>1, <2>2, <2>3, <2>4, <2>5 DEF TypeOK
  <1>2. RequestsSound
    BY IdleIsSound DEF RequestsSound
  <1>3. SessionsExplained
    BY DEF SessionsExplained
  <1>4. MembersHeld
    BY DEF MembersHeld
  <1> QED BY <1>1, <1>2, <1>3, <1>4 DEF Inv

-----------------------------------------------------------------------------
\* A request that moves to a sound position leaves every request sound.
LEMMA MovesSound ==
  ASSUME Inv, NEW r \in Request, NEW x \in Requests, Become(r, x), Sound(x)',
         made \subseteq made', passed \subseteq passed', held \subseteq held'
  PROVE  req' \in [Request -> Requests] /\ RequestsSound'
  <1>1. req \in [Request -> Requests] /\ RequestsSound
    BY DEF Inv, TypeOK
  <1>2. /\ req' \in [Request -> Requests]
        /\ req'[r] = x
        /\ \A q \in Request : q # r => req'[q] = req[q]
    BY <1>1, OneMoves
  <1>3. ASSUME NEW q \in Request, q # r PROVE Sound(req[q])'
    <2>1. req[q] \in Requests /\ Sound(req[q])
      BY <1>1 DEF RequestsSound
    <2>2. \A y \in Requests : Sound(y) => Sound(y)'
      BY SoundLasts
    <2> QED BY <1>2, <1>3, <2>1, <2>2 DEF Sound, Explained
  <1>4. Sound(req[r])'
    BY <1>2 DEF Sound, Explained
  <1> QED BY <1>2, <1>3, <1>4 DEF RequestsSound

\* A step that changes neither the database nor the records, but for the secrets
\* that are generated and shown and the codes that are accepted.
LEMMA ReadsKeepInv ==
  ASSUME Inv, NEW r \in Request, NEW x \in Requests, Become(r, x), Sound(x)',
         UNCHANGED <<accounts, logins>>,
         made \subseteq made', made' \subseteq Session \cup Secret,
         passed \subseteq passed', passed' \subseteq Session,
         scanned' \in [User -> SUBSET Secret], faults' \in 0..MaxFaults
  PROVE  Inv'
  <1> USE DEF accounts, logins
  <1>1. req' \in [Request -> Requests] /\ RequestsSound'
    BY MovesSound
  <1>2. TypeOK'
    BY <1>1 DEF Inv, TypeOK
  <1>3. SessionsExplained'
    <2> SUFFICES ASSUME NEW s \in Session, sessions[s] # NoSession
                 PROVE  Explained(s, sessions[s])'
      BY DEF SessionsExplained
    <2>1. sessions[s] \in Data /\ Explained(s, sessions[s])
      BY DEF Inv, TypeOK, SessionsExplained
    <2> QED BY <2>1 DEF Explained
  <1>4. MembersHeld'
    BY DEF Inv, MembersHeld
  <1> QED BY <1>1, <1>2, <1>3, <1>4 DEF Inv

\* Such a step in particular: nothing changes but where one request is.
LEMMA MoveKeepsInv ==
  ASSUME Inv, NEW r \in Request, NEW x \in Requests, Become(r, x), Sound(x),
         UNCHANGED <<accounts, logins, factors>>, faults' \in 0..MaxFaults
  PROVE  Inv'
  <1>1. Sound(x)'
    BY SoundLasts DEF factors, accounts
  <1> QED BY <1>1, ReadsKeepInv DEF Inv, TypeOK, factors

LEMMA FaultsTyped == ASSUME Inv PROVE (Fault \/ UNCHANGED faults) => faults' \in 0..MaxFaults
  BY SessionsAssumption DEF Inv, TypeOK, Fault

\* What a request in the middle of a handler holds.
LEMMA Held ==
  ASSUME Inv, NEW r \in Request
  PROVE  /\ req[r] \in Requests /\ Sound(req[r])
         /\ req[r].pc \notin {"idle", "create"} => req[r].id \in Session /\ req[r].id \in made
         /\ req[r].pc \in Holding => req[r].data \in Data /\ req[r].data.user \in User
  <1>1. req[r] \in Requests /\ Sound(req[r])
    BY DEF Inv, TypeOK, RequestsSound
  <1> QED BY <1>1, RequestFields DEF Sound, Data

-----------------------------------------------------------------------------
(* The steps of requests that only read.                                   *)

LEMMA BeginStep == ASSUME Inv, NEW r \in Request, Begin(r) PROVE Inv'
  <1> USE FaultsTyped
  <1>1. ASSUME NEW u \in User, FindByEmail(r, u) PROVE Inv'
    <2> DEFINE x == [pc |-> "create", user |-> u]
    <2>1. x \in Requests /\ Sound(x)
      BY DEF Requests, Sound, Holding
    <2> QED BY <1>1, <2>1, MoveKeepsInv DEF FindByEmail
  <1>2. ASSUME NEW s \in Session, Carries(r, s)
        PROVE  s \in made /\ sessions[s] \in Data /\ Explained(s, sessions[s])
    BY <1>2 DEF Carries, Inv, TypeOK, SessionsExplained
  <1>3. ASSUME NEW s \in Session, NEW url \in Url, Open(r, s, url) PROVE Inv'
    <2> DEFINE x == [pc |-> "load", id |-> s, url |-> url, from |-> {}]
    <2>1. x \in Requests
      BY DEF Requests
    <2>2. Sound(x)
      BY <1>2, <1>3 DEF Open, Sound, Holding
    <2> QED BY <1>3, <2>1, <2>2, MoveKeepsInv DEF Open
  <1>4. ASSUME NEW s \in Session, NEW code \in Secret, SubmitCode(r, s, code) PROVE Inv'
    <2> DEFINE x == [pc |-> "verify", id |-> s, data |-> sessions[s], code |-> code]
    <2>1. s \in made /\ sessions[s] \in Data /\ Explained(s, sessions[s])
      BY <1>2, <1>4 DEF SubmitCode
    <2>2. x \in Requests
      BY <2>1 DEF Requests
    <2>3. Sound(x)
      BY <2>1 DEF Sound, Holding
    <2> QED BY <1>4, <2>2, <2>3, MoveKeepsInv DEF SubmitCode
  <1>5. ASSUME NEW s \in Session, NEW t \in Tenant, SubmitTenant(r, s, t) PROVE Inv'
    <2> DEFINE x == [pc |-> "select", id |-> s, data |-> sessions[s], tenant |-> t]
    <2>1. s \in made /\ sessions[s] \in Data /\ Explained(s, sessions[s])
      BY <1>2, <1>5 DEF SubmitTenant
    <2>2. x \in Requests
      BY <2>1 DEF Requests
    <2>3. Sound(x)
      BY <1>5, <2>1 DEF Sound, Holding, SubmitTenant
    <2> QED BY <1>5, <2>2, <2>3, MoveKeepsInv DEF SubmitTenant
  <1>6. ASSUME NEW s \in Session, SubmitProfile(r, s) PROVE Inv'
    <2> DEFINE x == [pc |-> "update", id |-> s, data |-> sessions[s]]
    <2>1. s \in made /\ sessions[s] \in Data /\ Explained(s, sessions[s])
      BY <1>2, <1>6 DEF SubmitProfile
    <2>2. x \in Requests
      BY <2>1 DEF Requests
    <2>3. Sound(x)
      BY <1>6, <2>1 DEF Sound, Holding, SubmitProfile, Explained
    <2> QED BY <1>6, <2>2, <2>3, MoveKeepsInv DEF SubmitProfile
  <1> QED BY <1>1, <1>3, <1>4, <1>5, <1>6 DEF Begin

\* LoadSession, TwoFASetupPage, TwoFAVerifySubmit and SelectTenantSubmit, as far as
\* they only read; and a failure.
LEMMA ReadStep ==
  ASSUME Inv, NEW r \in Request,
         \/ LoadSession(r) \/ NothingGenerated(r) \/ ShowPending(r) \/ SetupOver(r)
         \/ RejectCode(r) \/ AcceptCode(r) \/ GetTenants(r) \/ GetTenantRole(r)
         \/ RequestFails(r)
  PROVE  Inv'
  <1> DEFINE x == req[r]
             data == x.data
  <1> USE FaultsTyped
  <1>h. /\ x \in Requests /\ Sound(x)
        /\ x.pc \notin {"idle", "create"} => x.id \in Session /\ x.id \in made
        /\ x.pc \in Holding => x.data \in Data /\ x.data.user \in User
    BY Held
  <1>f. x.pc \in {"load", "setup"} => x.from \in SUBSET Url
    BY <1>h, RequestFields
  <1>i. ASSUME End(r), UNCHANGED <<accounts, logins, factors>>, Fault \/ UNCHANGED faults
        PROVE  Inv'
    BY <1>i, IdleIsSound, MoveKeepsInv DEF End
  <1> HIDE DEF x
  <1>1. CASE LoadSession(r)
    <2> DEFINE rec == sessions[x.id]
    <2>1. x.pc = "load" /\ x.id \in Session /\ x.id \in made /\ x.from \in SUBSET Url
      BY <1>1, <1>h, <1>f DEF LoadSession, x
    <2>2. CASE End(r)
      BY <1>1, <1>i, <2>2 DEF LoadSession
    <2>3. CASE rec # NoSession /\ Become(r, [pc |-> "setup", id |-> x.id, data |-> rec,
                                             from |-> x.from])
      <3> DEFINE y == [pc |-> "setup", id |-> x.id, data |-> rec, from |-> x.from]
      <3>1. rec \in Data /\ Explained(x.id, rec)
        BY <2>1, <2>3 DEF Inv, TypeOK, SessionsExplained
      <3>2. y \in Requests
        BY <2>1, <3>1 DEF Requests
      <3>3. Sound(y)
        BY <2>1, <3>1 DEF Sound, Holding
      <3> QED BY <1>1, <2>3, <3>2, <3>3, MoveKeepsInv DEF LoadSession
    <2>4. CASE Become(r, [pc |-> "load", id |-> x.id, url |-> "setup",
                          from |-> x.from \cup {"dashboard"}])
      <3> DEFINE y == [pc |-> "load", id |-> x.id, url |-> "setup",
                       from |-> x.from \cup {"dashboard"}]
      <3>1. y \in Requests
        BY <2>1 DEF Requests, Url
      <3>2. Sound(y)
        BY <2>1 DEF Sound, Holding
      <3> QED BY <1>1, <2>4, <3>1, <3>2, MoveKeepsInv DEF LoadSession
    <2> QED BY <1>1, <2>2, <2>3, <2>4 DEF LoadSession, x
  <1>2. CASE NothingGenerated(r)
    BY <1>2, <1>i DEF NothingGenerated
  <1>3. CASE ShowPending(r)
    <2>1. x.pc = "setup" /\ data.user \in User
      BY <1>3, <1>h DEF ShowPending, x, Holding
    <2>2. users[data.user].secret \in Secret
      BY <1>3, <2>1 DEF ShowPending, HasSecret, x, Inv, TypeOK, UserRow
    <2>3. scanned' \in [User -> SUBSET Secret]
      BY <1>3, <2>1, <2>2 DEF ShowPending, Shown, x, Inv, TypeOK
    <2> QED BY <1>3, <2>3, IdleIsSound, ReadsKeepInv DEF ShowPending, End, Inv, TypeOK
  <1>4. CASE SetupOver(r)
    <2>1. x.pc = "setup" /\ x.id \in Session /\ x.id \in made /\ x.from \in SUBSET Url
      BY <1>4, <1>h, <1>f DEF SetupOver, x
    <2>2. CASE End(r)
      BY <1>4, <1>i, <2>2 DEF SetupOver
    <2>3. CASE Become(r, [pc |-> "load", id |-> x.id, url |-> "dashboard",
                          from |-> x.from \cup {"setup"}])
      <3> DEFINE y == [pc |-> "load", id |-> x.id, url |-> "dashboard",
                       from |-> x.from \cup {"setup"}]
      <3>1. y \in Requests
        BY <2>1 DEF Requests, Url
      <3>2. Sound(y)
        BY <2>1 DEF Sound, Holding
      <3> QED BY <1>4, <2>3, <3>1, <3>2, MoveKeepsInv DEF SetupOver
    <2> QED BY <1>4, <2>2, <2>3 DEF SetupOver, x
  <1>5. CASE RejectCode(r)
    <2>1. x.pc = "verify" /\ data.user \in User
      BY <1>5, <1>h DEF RejectCode, x, Holding
    <2>2. HasSecret(data.user) => users[data.user].secret \in Secret
      BY <2>1 DEF HasSecret, Inv, TypeOK, UserRow
    <2>3. scanned' \in [User -> SUBSET Secret]
      BY <1>5, <2>1, <2>2 DEF RejectCode, Shown, x, Inv, TypeOK
    <2> QED BY <1>5, <2>3, IdleIsSound, ReadsKeepInv DEF RejectCode, End, Inv, TypeOK
  <1>6. CASE AcceptCode(r)
    <2>1. /\ x.pc = "verify" /\ x.id \in Session /\ x.id \in made
          /\ data \in Data /\ Explained(x.id, data)
      BY <1>6, <1>h DEF AcceptCode, x, Sound, Holding
    <2>2. PICK i \in Session, d \in Data, pc \in {"tenants", "enable"} :
               i = x.id /\ d = data /\ Become(r, [pc |-> pc, id |-> i, data |-> d])
      BY <1>6, <2>1 DEF AcceptCode, x
    <2> DEFINE y == [pc |-> pc, id |-> i, data |-> d]
    <2>3. y \in Requests
      BY DEF Requests
    <2>4. passed' = passed \cup {i} /\ passed' \subseteq Session
      BY <1>6, <2>2 DEF AcceptCode, x, Inv, TypeOK
    <2>5. made' = made /\ held' = held
      BY <1>6 DEF AcceptCode, accounts
    <2>6. Explained(i, d)'
      BY <2>1, <2>2, <2>4, <2>5, SoundLasts
    <2>7. Sound(y)'
      BY <2>1, <2>2, <2>4, <2>5, <2>6 DEF Sound, Holding
    <2> QED BY <1>6, <2>2, <2>3, <2>4, <2>7, ReadsKeepInv DEF AcceptCode, Inv, TypeOK
  <1>7. CASE GetTenants(r)
    <2> DEFINE role(t) == members[data.user][t]
    <2>1. /\ x.pc = "tenants" /\ x.id \in Session /\ x.id \in made /\ x.id \in passed
          /\ data \in Data /\ data.user \in User /\ Explained(x.id, data)
      BY <1>7, <1>h DEF GetTenants, x, Sound, Holding
    <2>2. CASE End(r)
      BY <1>7, <1>i, <2>2 DEF GetTenants
    <2>3. ASSUME NEW d \in Data, d.user = data.user, d.done,
                 Explained(x.id, d), Become(r, [pc |-> "update", id |-> x.id, data |-> d])
          PROVE  Inv'
      <3> DEFINE y == [pc |-> "update", id |-> x.id, data |-> d]
      <3>1. y \in Requests
        BY <2>1 DEF Requests
      <3>2. Sound(y)
        BY <2>1, <2>3 DEF Sound, Holding
      <3> QED BY <1>7, <2>3, <3>1, <3>2, MoveKeepsInv DEF GetTenants
    <2>4. ASSUME NEW t \in Tenant, role(t) # NoRole,
                 Become(r, [pc |-> "update", id |-> x.id,
                            data |-> [data EXCEPT !.done = TRUE, !.tenant = t, !.role = role(t)]])
          PROVE  Inv'
      <3> DEFINE d == [data EXCEPT !.done = TRUE, !.tenant = t, !.role = role(t)]
      <3>1. role(t) \in Role /\ <<data.user, t, role(t)>> \in held
        BY <2>1, <2>4 DEF Inv, TypeOK, Memberships, MembersHeld
      <3>2. /\ d \in Data /\ d.user = data.user /\ d.done
            /\ d.tenant = t /\ d.role = role(t)
        BY <2>1, <3>1 DEF Data
      <3>3. Explained(x.id, d)
        BY <2>1, <3>1, <3>2 DEF Explained
      <3> QED BY <2>3, <2>4, <3>2, <3>3
    <2>5. ASSUME Become(r, [pc |-> "update", id |-> x.id, data |-> [data EXCEPT !.done = TRUE]])
          PROVE  Inv'
      <3> DEFINE d == [data EXCEPT !.done = TRUE]
      <3>1. /\ d \in Data /\ d.user = data.user /\ d.done
            /\ d.tenant = data.tenant /\ d.role = data.role
        BY <2>1 DEF Data
      <3>2. Explained(x.id, d)
        BY <2>1, <3>1 DEF Explained
      <3> QED BY <2>3, <2>5, <3>1, <3>2
    <2> QED BY <1>7, <2>2, <2>4, <2>5 DEF GetTenants, x
  <1>8. CASE GetTenantRole(r)
    <2> DEFINE role == members[data.user][x.tenant]
               d == [data EXCEPT !.tenant = x.tenant, !.role = role]
               y == [pc |-> "update", id |-> x.id, data |-> d]
    <2>1. /\ x.pc = "select" /\ x.id \in Session /\ x.id \in made /\ x.tenant \in Tenant
          /\ data \in Data /\ data.user \in User /\ Explained(x.id, data) /\ data.done
      BY <1>8, <1>h, RequestFields DEF GetTenantRole, x, Sound, Holding
    <2>2. CASE End(r)
      BY <1>8, <1>i, <2>2 DEF GetTenantRole
    <2>3. CASE role # NoRole /\ Become(r, y)
      <3>1. role \in Role /\ <<data.user, x.tenant, role>> \in held
        BY <2>1, <2>3 DEF Inv, TypeOK, Memberships, MembersHeld
      <3>2. /\ d \in Data /\ d.user = data.user /\ d.done
            /\ d.tenant = x.tenant /\ d.role = role
        BY <2>1, <3>1 DEF Data
      <3>3. Explained(x.id, d)
        BY <2>1, <3>1, <3>2 DEF Explained
      <3> HIDE DEF d
      <3>4. y \in Requests
        BY <2>1, <3>2 DEF Requests
      <3>5. x.id \in passed
        BY <2>1, <3>2, <3>3 DEF Explained
      <3>6. Sound(y)
        BY <2>1, <3>2, <3>3, <3>5 DEF Sound, Holding
      <3> QED BY <1>8, <2>3, <3>4, <3>6, MoveKeepsInv DEF GetTenantRole
    <2> QED BY <1>8, <2>2, <2>3 DEF GetTenantRole, x
  <1>9. CASE RequestFails(r)
    BY <1>9, <1>i DEF RequestFails
  <1> QED BY <1>1, <1>2, <1>3, <1>4, <1>5, <1>6, <1>7, <1>8, <1>9

-----------------------------------------------------------------------------
(* The steps that write.                                                   *)

\* A new id or secret.
LEMMA GenerateStep ==
  ASSUME Inv, NEW r \in Request, NEW k \in Secret, Generate(r, k) PROVE Inv'
  <1>1. req[r].pc = "setup" /\ req[r] \in Requests /\ Sound(req[r])
    BY Held DEF Generate
  <1>2. PICK i \in Session, d \in Data :
             i = req[r].id /\ d = req[r].data /\ i \in made /\ Explained(i, d)
    BY <1>1, RequestFields DEF Sound, Holding
  <1> DEFINE y == [pc |-> "saveSecret", id |-> i, data |-> d, secret |-> k]
  <1>3. y \in Requests
    BY DEF Requests
  <1>4. /\ Become(r, y)
        /\ made' = made \cup {k} /\ made' \subseteq Session \cup Secret
        /\ UNCHANGED <<accounts, logins, scanned, passed, faults>>
    BY <1>2 DEF Generate, Inv, TypeOK
  <1>5. Explained(i, d)'
    BY <1>2, <1>4, SoundLasts DEF accounts
  <1>6. Sound(y)'
    BY <1>2, <1>4, <1>5 DEF Sound, Holding
  <1> QED BY <1>3, <1>4, <1>6, ReadsKeepInv DEF Inv, TypeOK

\* Steps that leave the requests alone, or end one, and change the records only to
\* records that are explained.
LEMMA RecordsKeepInv ==
  ASSUME Inv, UNCHANGED accounts,
         \/ UNCHANGED req
         \/ \E r \in Request : End(r)
         \/ req' = [r \in Request |-> Idle],
         made \subseteq made', made' \subseteq Session \cup Secret,
         UNCHANGED <<scanned, passed>>, faults' \in 0..MaxFaults,
         ended' \subseteq Session, sessions' \in [Session -> Data \cup {NoSession}],
         \A s \in Session : sessions'[s] # sessions[s] /\ sessions'[s] # NoSession =>
                              s \in made' /\ Explained(s, sessions'[s])
  PROVE  Inv'
  <1> USE DEF accounts
  <1>1. req' \in [Request -> Requests] /\ RequestsSound'
    <2>1. CASE UNCHANGED req
      BY <2>1, SoundLasts DEF RequestsSound, Inv, TypeOK, Sound, Explained
    <2>2. CASE \E r \in Request : End(r)
      BY <2>2, IdleIsSound, MovesSound DEF End
    <2>3. CASE req' = [r \in Request |-> Idle]
      BY <2>3, IdleIsSound DEF RequestsSound, Sound, Explained
    <2> QED BY <2>1, <2>2, <2>3
  <1>2. \A s \in Session : sessions'[s] # NoSession => s \in made'
    BY DEF Inv, TypeOK
  <1>3. TypeOK'
    BY <1>1, <1>2 DEF Inv, TypeOK
  <1>4. SessionsExplained'
    BY DEF Inv, SessionsExplained, Explained
  <1>5. MembersHeld'
    BY DEF Inv, MembersHeld
  <1> QED BY <1>1, <1>3, <1>4, <1>5 DEF Inv

LEMMA RecordStep ==
  ASSUME Inv,
         \/ \E r \in Request, s \in Session : Create(r, s)
         \/ \E r \in Request : Update(r)
         \/ \E s \in Session : Logout(s) \/ Expire(s)
         \/ Restart
  PROVE  Inv'
  <1> USE FaultsTyped
  <1>1. ASSUME NEW r \in Request, NEW s \in Session, Create(r, s) PROVE Inv'
    <2> DEFINE d == [user |-> req[r].user, tenant |-> NoTenant, role |-> NoRole, done |-> FALSE]
    <2>1. req[r].user \in User
      BY <1>1, Held, RequestFields DEF Create
    <2>2. d \in Data
      BY <2>1 DEF Data
    <2>3. Explained(s, d)
      BY DEF Explained
    <2> HIDE DEF d
    <2>4. sessions' = [sessions EXCEPT ![s] = d] /\ made' = made \cup {s}
      BY <1>1 DEF Create, d
    <2>5. /\ sessions' \in [Session -> Data \cup {NoSession}]
          /\ \A q \in Session : sessions'[q] # sessions[q] => q = s /\ sessions'[q] = d
      BY <2>2, <2>4 DEF Inv, TypeOK
    <2> QED BY <1>1, <2>3, <2>4, <2>5, RecordsKeepInv DEF Create, Inv, TypeOK
  <1>2. ASSUME NEW r \in Request, Update(r) PROVE Inv'
    <2>1. /\ req[r].id \in Session /\ req[r].id \in made
          /\ req[r].data \in Data /\ Explained(req[r].id, req[r].data)
      BY <1>2, Held DEF Update, Sound, Holding
    <2>2. /\ sessions' \in [Session -> Data \cup {NoSession}]
          /\ \A q \in Session : sessions'[q] # sessions[q] =>
                                  q = req[r].id /\ sessions'[q] = req[r].data
      BY <1>2, <2>1 DEF Update, Inv, TypeOK
    <2>3. \A q \in Session : sessions'[q] # sessions[q] => q \in made /\ Explained(q, sessions'[q])
      BY <2>1, <2>2
    <2> QED BY <1>2, <2>2, <2>3, RecordsKeepInv DEF Update, factors, Inv, TypeOK
  <1>3. ASSUME NEW s \in Session, Logout(s) \/ Expire(s) PROVE Inv'
    <2>1. /\ sessions' \in [Session -> Data \cup {NoSession}]
          /\ \A q \in Session : sessions'[q] # sessions[q] => sessions'[q] = NoSession
      BY <1>3 DEF Logout, Expire, Inv, TypeOK
    <2>2. ended' \subseteq Session
      BY <1>3 DEF Logout, Expire, Inv, TypeOK
    <2> QED BY <1>3, <2>1, <2>2, RecordsKeepInv DEF Logout, Expire, factors, Inv, TypeOK
  <1>4. CASE Restart
    BY <1>4, RecordsKeepInv DEF Restart, logins, factors, Inv, TypeOK
  <1> QED BY <1>1, <1>2, <1>3, <1>4

\* The user's row: a secret is stored, or 2FA enabled.
LEMMA UserStep ==
  ASSUME Inv, NEW r \in Request, SetTOTPSecret(r) \/ EnableTOTP(r) PROVE Inv'
  <1>1. /\ req[r] \in Requests /\ Sound(req[r])
        /\ req[r].id \in Session /\ req[r].id \in made
        /\ req[r].data \in Data /\ req[r].data.user \in User
        /\ req[r].pc = "saveSecret" => req[r].secret \in Secret
    BY Held, RequestFields DEF SetTOTPSecret, EnableTOTP, Holding
  <1>2. /\ users' \in [User -> UserRow \cup {Gone}]
        /\ \A u \in User : users'[u] = Gone => users[u] = Gone
    <2> DEFINE u == req[r].data.user
    <2>1. users \in [User -> UserRow \cup {Gone}] /\ u \in User
      BY <1>1 DEF Inv, TypeOK
    <2>2. \A row \in UserRow : row # Gone
      BY SessionsAssumption
    <2>3. CASE SetTOTPSecret(r) /\ users[u] # Gone
      <3>1. users[u] \in UserRow /\ req[r].secret \in Secret
        BY <1>1, <2>1, <2>3 DEF SetTOTPSecret
      <3>2. [users[u] EXCEPT !.secret = req[r].secret] \in UserRow
        BY <3>1 DEF UserRow
      <3>3. users' = [users EXCEPT ![u] = [users[u] EXCEPT !.secret = req[r].secret]]
        BY <2>1, <2>3 DEF SetTOTPSecret
      <3> QED BY <2>1, <2>2, <3>2, <3>3
    <2>4. CASE EnableTOTP(r) /\ users[u] # Gone
      <3>1. users[u] \in UserRow
        BY <2>1, <2>4
      <3>2. [users[u] EXCEPT !.enabled = TRUE] \in UserRow
        BY <3>1 DEF UserRow
      <3>3. users' = [users EXCEPT ![u] = [users[u] EXCEPT !.enabled = TRUE]]
        BY <2>1, <2>4 DEF EnableTOTP
      <3> QED BY <2>1, <2>2, <3>2, <3>3
    <2>5. CASE users[u] = Gone
      BY <2>1, <2>5 DEF SetTOTPSecret, EnableTOTP
    <2> QED BY <2>3, <2>4, <2>5
  <1>3. UNCHANGED <<members, held, changes, logins, made, passed, faults>>
    BY DEF SetTOTPSecret, EnableTOTP, factors
  <1>4. scanned' \in [User -> SUBSET Secret]
    BY <1>1 DEF SetTOTPSecret, EnableTOTP, Shown, factors, Inv, TypeOK
  <1>5. \E x \in Requests : Become(r, x) /\ Sound(x)'
    <2>1. CASE SetTOTPSecret(r)
      BY <2>1, IdleIsSound DEF SetTOTPSecret, End
    <2>2. CASE EnableTOTP(r)
      <3>1. PICK i \in Session, d \in Data :
                 /\ i = req[r].id /\ d = req[r].data
                 /\ i \in made /\ i \in passed /\ Explained(i, d)
        BY <1>1, <2>2 DEF EnableTOTP, Sound, Holding
      <3> DEFINE y == [pc |-> "tenants", id |-> i, data |-> d]
      <3>2. y \in Requests /\ Become(r, y)
        BY <2>2, <3>1 DEF EnableTOTP, Requests
      <3>3. Sound(y)
        BY <3>1 DEF Sound, Holding
      <3> QED BY <1>3, <3>2, <3>3, SoundLasts
    <2> QED BY <2>1, <2>2
  <1>6. req' \in [Request -> Requests] /\ RequestsSound'
    BY <1>3, <1>5, MovesSound
  <1>7. TypeOK'
    BY <1>2, <1>3, <1>4, <1>6 DEF Inv, TypeOK, logins
  <1>8. SessionsExplained' /\ MembersHeld'
    BY <1>3 DEF Inv, SessionsExplained, Explained, MembersHeld, logins
  <1> QED BY <1>6, <1>7, <1>8 DEF Inv

\* What admins change.
LEMMA ChangeStep ==
  ASSUME Inv, NEW u \in User,
         \/ ResetTOTP(u) \/ UserDelete(u)
         \/ \E t \in Tenant : RemoveFromTenant(u, t) \/ \E role \in Role : AddToTenant(u, t, role)
  PROVE  Inv'
  <1> USE SessionsAssumption DEF Change
  <1>1. /\ UNCHANGED <<logins, factors, req, faults>>
        /\ changes' \in 0..MaxChanges
    BY DEF ResetTOTP, UserDelete, RemoveFromTenant, AddToTenant, Inv, TypeOK
  <1>2. /\ held \subseteq held' /\ held' \subseteq User \X Tenant \X (Role \cup {NoRole})
        /\ users' \in [User -> UserRow \cup {Gone}]
        /\ members' \in [User -> Memberships]
        /\ \A v \in User : users'[v] = Gone => \A t \in Tenant : members'[v][t] = NoRole
        /\ MembersHeld'
    <2>1. CASE ResetTOTP(u)
      <3>1. [secret |-> NoSecret, enabled |-> FALSE] \in UserRow
        BY DEF UserRow
      <3>2. UNCHANGED <<members, held>> /\ users[u] # Gone
        BY <2>1 DEF ResetTOTP
      <3>3. /\ users' \in [User -> UserRow \cup {Gone}]
            /\ \A v \in User : users'[v] = Gone => users[v] = Gone
        BY <2>1, <3>1 DEF ResetTOTP, Inv, TypeOK
      <3> QED BY <3>2, <3>3 DEF Inv, TypeOK, MembersHeld
    <2>2. CASE UserDelete(u)
      BY <2>2 DEF UserDelete, Memberships, Inv, TypeOK, MembersHeld
    <2>3. ASSUME NEW t \in Tenant, RemoveFromTenant(u, t) PROVE <1>2!:
      BY <2>3 DEF RemoveFromTenant, Memberships, Inv, TypeOK, MembersHeld
    <2>4. ASSUME NEW t \in Tenant, NEW role \in Role, AddToTenant(u, t, role) PROVE <1>2!:
      BY <2>4 DEF AddToTenant, Memberships, Inv, TypeOK, MembersHeld
    <2> QED BY <2>1, <2>2, <2>3, <2>4
  <1>3. RequestsSound'
    <2>1. \A r \in Request : req[r] \in Requests /\ Sound(req[r])
      BY DEF Inv, TypeOK, RequestsSound
    <2> QED BY <1>1, <1>2, <2>1 DEF RequestsSound, Sound, Explained, factors
  <1>4. TypeOK'
    BY <1>1, <1>2 DEF Inv, TypeOK, logins, factors
  <1>5. SessionsExplained'
    BY <1>1, <1>2 DEF Inv, SessionsExplained, Explained, logins, factors
  <1> QED BY <1>2, <1>3, <1>4, <1>5 DEF Inv

LEMMA NextKeepsInv == ASSUME Inv, [Next]_vars PROVE Inv'
  <1>1. CASE UNCHANGED vars
    <2>1. UNCHANGED <<accounts, logins, factors, req, faults>>
      BY <1>1 DEF vars
    <2> QED BY <2>1 DEF Inv, TypeOK, RequestsSound, SessionsExplained, MembersHeld,
              Sound, Explained, accounts, logins, factors
  <1>2. ASSUME NEW r \in Request, Begin(r) \/ GoOn(r) \/ RequestFails(r) PROVE Inv'
    BY <1>2, BeginStep, ReadStep, RecordStep, UserStep DEF GoOn
  <1>3. ASSUME NEW r \in Request, LoginRejected(r) PROVE Inv'
    BY <1>1, <1>3 DEF LoginRejected
  <1>4. ASSUME NEW r \in Request, NEW s \in Session, Create(r, s) PROVE Inv'
    BY <1>4, RecordStep
  <1>5. ASSUME NEW r \in Request, NEW k \in Secret, Generate(r, k) PROVE Inv'
    BY <1>5, GenerateStep
  <1>6. ASSUME NEW s \in Session, Logout(s) \/ Expire(s) PROVE Inv'
    BY <1>6, RecordStep
  <1>7. ASSUME NEW u \in User,
               \/ ResetTOTP(u) \/ UserDelete(u)
               \/ \E t \in Tenant : RemoveFromTenant(u, t)
                                    \/ \E role \in Role : AddToTenant(u, t, role)
        PROVE  Inv'
    BY <1>7, ChangeStep
  <1>8. CASE Restart
    BY <1>8, RecordStep
  <1> QED BY <1>1, <1>2, <1>3, <1>4, <1>5, <1>6, <1>7, <1>8 DEF Next

LEMMA AlwaysInv == Spec => []Inv
  <1>1. Init => Inv
    BY InitInv
  <1>2. Inv /\ [Next]_vars => Inv'
    BY NextKeepsInv
  <1> QED BY <1>1, <1>2, PTL DEF Spec

-----------------------------------------------------------------------------
(* The theorems.                                                           *)

\* Types, and that memberships end with their user.
THEOREM SessionsTypeCorrect == Spec => []TypeOK
  <1>1. Inv => TypeOK
    BY DEF Inv
  <1> QED BY <1>1, AlwaysInv, PTL

\* Whatever requests of one session overlap, resets and failures come between: a
\* record says that the second factor is done only if a code was accepted in this
\* session.
THEOREM FactorNeedsCode == Spec => []SecondFactorPassed
  <1>1. Inv => SecondFactorPassed
    BY DEF Inv, SessionsExplained, Explained, SecondFactorPassed
  <1> QED BY <1>1, AlwaysInv, PTL

\* Tenant and role in a record are a pair that the user has had.
THEOREM RolesBelong == Spec => []RoleWasHeld
  <1>1. Inv => RoleWasHeld
    BY DEF Inv, SessionsExplained, Explained, RoleWasHeld
  <1> QED BY <1>1, AlwaysInv, PTL

\* No request's copy takes the factor from a record: only requests whose copy has
\* it write one.
THEOREM FactorStays == Spec => NeverBackToOneFactor
  <1> DEFINE Keeps == \A s \in Session :
                        sessions[s] # NoSession /\ sessions'[s] # NoSession /\ sessions[s].done =>
                          sessions'[s].done
  <1>1. ASSUME Inv, [Next]_vars PROVE [Keeps]_vars
    <2>1. CASE UNCHANGED sessions
      BY <2>1
    <2>2. ASSUME NEW r \in Request, NEW s \in Session, Create(r, s) PROVE Keeps
      <3>1. sessions[s] = NoSession
        BY <1>1, <2>2 DEF Create, Inv, TypeOK
      <3>2. \A q \in Session : q # s => sessions'[q] = sessions[q]
        BY <1>1, <2>2 DEF Create, Inv, TypeOK
      <3> QED BY <3>1, <3>2
    <2>3. ASSUME NEW r \in Request, Update(r) PROVE Keeps
      <3>1. req[r].id \in Session /\ req[r].data.done
        BY <1>1, <2>3, Held DEF Update, Sound
      <3>2. /\ sessions'[req[r].id] = req[r].data
            /\ \A q \in Session : q # req[r].id => sessions'[q] = sessions[q]
        BY <1>1, <2>3, <3>1 DEF Update, Inv, TypeOK
      <3> QED BY <3>1, <3>2
    <2>4. ASSUME NEW s \in Session, Logout(s) \/ Expire(s) PROVE Keeps
      BY <1>1, <2>4 DEF Logout, Expire, Inv, TypeOK
    <2>5. \/ UNCHANGED sessions
          \/ \E r \in Request, s \in Session : Create(r, s)
          \/ \E r \in Request : Update(r)
          \/ \E s \in Session : Logout(s) \/ Expire(s)
      BY ZenonT(60), <1>1 DEF Next, Begin, GoOn, vars, logins, FindByEmail, LoginRejected, Open, LoadSession,
           SubmitCode, SubmitTenant, SubmitProfile, ShowPending, Generate, NothingGenerated, SetupOver,
           SetTOTPSecret, RejectCode, AcceptCode, EnableTOTP, GetTenants, GetTenantRole,
           Change, ResetTOTP, UserDelete, AddToTenant, RemoveFromTenant, RequestFails, Restart
    <2> QED BY <2>1, <2>2, <2>3, <2>4, <2>5
  <1> QED BY <1>1, AlwaysInv, PTL DEF Spec, NeverBackToOneFactor
=============================================================================
