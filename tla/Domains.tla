------------------------------ MODULE Domains ------------------------------
(***************************************************************************)
(* Tenants and their custom domains: the tables (store/tenant.go,          *)
(* store/tenant_domain.go), the super-admin requests that change them      *)
(* (handlers/admin_tenant.go), the loop that verifies and provisions       *)
(* domains (k8s/verifier.go) and the Kubernetes resources it creates       *)
(* (k8s/manager.go).                                                       *)
(*                                                                         *)
(* Each SQL statement and each call to the Kubernetes API is a step.  The  *)
(* module defines the tables and who changes them; TenantHosts adds the    *)
(* caches and the public requests and gives the next-state relation.       *)
(*                                                                         *)
(* Abstractions.  A tenant stands for its subdomain as well, which is      *)
(* fixed and unique.  The verifier takes the domains of a list in any      *)
(* order.  That a domain is pending for more than 24 hours is a flag that  *)
(* time sets.  What DNS says is a choice.  Kubernetes is enabled: without  *)
(* it no verifier runs and no domain leaves its first status.              *)
(***************************************************************************)
EXTENDS Naturals, FiniteSets, Sequences

CONSTANTS
  Tenant,       \* tenants, each standing for its subdomain's host as well
  Domain,       \* custom domain names
  Did,          \* ids of domain rows (UUIDs: never used twice)
  SeedDomains,  \* the domain rows at the start
  ResName,      \* names of Kubernetes resources
  SanitizeDomain, \* the resource name of each domain
  Verifiers,    \* verifier loops: one per running process
  Admins,       \* admin requests that can be in flight together
  NoRow,        \* no such row
  None,         \* no such resource
  MaxRequests,  \* bound on the number of admin requests in a behaviour
  MaxFaults     \* bound on the number of failures: of calls, of the process

Status == {"pending", "verified", "provisioning", "active", "failed"}
DomainRow == [domain : Domain, tenant : Tenant, status : Status, primary : BOOLEAN]

\* The unique indexes: on domain, and on tenant_id WHERE is_primary.
UniqueDomains(table) ==
  \A d, e \in Did : d # e /\ table[d] # NoRow /\ table[e] # NoRow =>
    /\ table[d].domain # table[e].domain
    /\ table[d].primary /\ table[e].primary => table[d].tenant # table[e].tenant

ASSUME DomainsAssumption ==
  /\ Tenant \cap Domain = {}
  /\ NoRow \notin DomainRow
  /\ None \notin Domain
  /\ SanitizeDomain \in [Domain -> ResName]
  /\ SeedDomains \in [Did -> DomainRow \cup {NoRow}]
  /\ UniqueDomains(SeedDomains)
  /\ \A d \in Did : SeedDomains[d] # NoRow => SeedDomains[d].status = "active"
  /\ MaxRequests \in Nat /\ MaxFaults \in Nat

VARIABLES
  tenants,   \* tenants[t]: "active", "inactive" or "gone"
  doms,      \* the table tenant_domains: doms[d] is a row, or NoRow
  issued,    \* the ids INSERT has ever handed out
  aged,      \* the ids of rows that are older than pendingTimeout
  res,       \* res[n]: the domain each resource named n is for, or None
  ver,       \* ver[w]: where verifier w is in its pass
  adm,       \* adm[a]: where admin request a is
  begun,     \* number of admin requests begun so far
  faults     \* number of failures so far

tables == <<tenants, doms, issued, aged>>
counts == <<begun, faults>>
domainVars == <<tables, res, ver, adm, counts>>

Live(d) == doms[d] # NoRow
Named(d) == SanitizeDomain[doms[d].domain]

Resource == {"certificate", "route", "secret"}
Resources == [Resource -> Domain \cup {None}]

\* What a verifier holds: the rest of the list it is working through (a set of
\* ids, with the domain each row had), the one in hand.
Listed == [id : Did, domain : Domain]
Verifying ==
  [pc : {"rest", "listProvisioning"}]
    \cup [pc : {"pending", "provisioning"}, todo : SUBSET Listed]
    \cup [pc : {"certificate", "route", "provisioned", "failing"}, todo : SUBSET Listed, it : Listed]
    \cup [pc : {"activate", "purge"}, todo : SUBSET Listed, it : Listed]

Cleanup == {<<"route", "certificate", "secret">>, <<"certificate", "secret">>, <<"secret">>, <<>>}
Request ==
  [pc : {"idle"}]
    \cup [pc : {"delete"}, id : Did, domain : Domain, left : Cleanup]
    \cup [pc : {"setPrimary"}, id : Did, tenant : Tenant]
    \cup [pc : {"unsetPrimary", "purge"}, tenant : Tenant]

Idle == [pc |-> "idle"]
AtRest == [pc |-> "rest"]

DomainsInit ==
  /\ tenants = [t \in Tenant |-> "active"]
  /\ doms = SeedDomains
  /\ issued = {d \in Did : SeedDomains[d] # NoRow}
  /\ aged = {}
  /\ res = [n \in ResName |->
              LET of == {SeedDomains[d].domain : d \in {e \in Did : SeedDomains[e] # NoRow}} IN
              [k \in Resource |->
                 IF \E m \in of : SanitizeDomain[m] = n
                 THEN CHOOSE m \in of : SanitizeDomain[m] = n ELSE None]]
  /\ ver = [w \in Verifiers |-> AtRest]
  /\ adm = [a \in Admins |-> Idle]
  /\ begun = 0 /\ faults = 0

Fault == faults < MaxFaults /\ faults' = faults + 1

-----------------------------------------------------------------------------
(* The verifier.  It writes rows by id and whatever their status is by      *)
(* then; a row that is gone is not matched.                                *)

Go(w, x) == ver' = [ver EXCEPT ![w] = x]
WithStatus(status) == {[id |-> d, domain |-> doms[d].domain] :
                         d \in {e \in Did : Live(e) /\ doms[e].status = status}}
SetStatus(id, status) ==
  doms' = IF Live(id) THEN [doms EXCEPT ![id].status = status] ELSE doms

\* What is left of the pass: the rest of the list, then the provisioning list.
NextPending(todo) == [pc |-> "pending", todo |-> todo]
NextProvisioning(todo) == [pc |-> "provisioning", todo |-> todo]

\* A variant that breaks ListPending: every domain that is not failed is listed.
ListTooMany(w) ==
  /\ ver[w].pc = "rest"
  /\ Go(w, NextPending(UNION {WithStatus(s) : s \in Status \ {"failed"}}))
  /\ UNCHANGED <<tables, res, adm, counts>>

\* The ticker fires: processPending lists the pending domains.
ListPending(w) ==
  /\ ver[w].pc = "rest"
  /\ Go(w, NextPending(WithStatus("pending")))
  /\ UNCHANGED <<tables, res, adm, counts>>

\* One that has been pending too long is marked failed.
PendingTooLong(w, it) ==
  /\ ver[w].pc = "pending" /\ it \in ver[w].todo
  /\ it.id \in aged
  /\ SetStatus(it.id, "failed")
  /\ Go(w, NextPending(ver[w].todo \ {it}))
  /\ UNCHANGED <<tenants, issued, aged, res, adm, counts>>

\* Its DNS does not point here (yet): it stays pending.
DNSElsewhere(w, it) ==
  /\ ver[w].pc = "pending" /\ it \in ver[w].todo
  /\ it.id \notin aged
  /\ Go(w, NextPending(ver[w].todo \ {it}))
  /\ UNCHANGED <<tables, res, adm, counts>>

\* Its DNS points here: SetVerified.  If the row is gone the loop goes on with
\* the next domain.
SetVerified(w, it) ==
  LET todo == ver[w].todo \ {it} IN
  /\ ver[w].pc = "pending" /\ it \in ver[w].todo
  /\ it.id \notin aged
  /\ SetStatus(it.id, "verified")
  /\ Go(w, IF Live(it.id) THEN [pc |-> "certificate", todo |-> todo, it |-> it]
           ELSE NextPending(todo))
  /\ UNCHANGED <<tenants, issued, aged, res, adm, counts>>

\* A resource is created unless one of that name exists (409), which is not an
\* error, whatever domain it is for.
CreateIn(n, kind, domain) ==
  res' = IF res[n][kind] = None THEN [res EXCEPT ![n][kind] = domain] ELSE res

CreateResource(w) ==
  LET x == ver[w] IN
  /\ x.pc \in {"certificate", "route"}
  /\ CreateIn(SanitizeDomain[x.it.domain], x.pc, x.it.domain)
  /\ Go(w, [x EXCEPT !.pc = IF x.pc = "certificate" THEN "route" ELSE "provisioned"])
  /\ UNCHANGED <<tables, adm, counts>>

CreateFails(w) ==
  /\ Fault
  /\ ver[w].pc \in {"certificate", "route"}
  /\ Go(w, [ver[w] EXCEPT !.pc = "failing"])
  /\ UNCHANGED <<tables, res, adm, begun>>

\* A variant that breaks FinishPending: the last UPDATE is missing.
FinishForgets(w) ==
  /\ ver[w].pc \in {"provisioned", "failing"}
  /\ Go(w, NextPending(ver[w].todo))
  /\ UNCHANGED <<tables, res, adm, counts>>

\* UpdateStatus after the resources were created, or were not.
FinishPending(w) ==
  /\ ver[w].pc \in {"provisioned", "failing"}
  /\ SetStatus(ver[w].it.id, IF ver[w].pc = "failing" THEN "failed" ELSE "provisioning")
  /\ Go(w, NextPending(ver[w].todo))
  /\ UNCHANGED <<tenants, issued, aged, res, adm, counts>>

\* A query or call fails.  The list is taken up again with the next tick; without
\* SetVerified the domain stays pending, and without a look at the secret its
\* certificate is not ready; the error of any other UPDATE is dropped.
CallFails(w) ==
  /\ Fault
  /\ \/ ver[w].pc = "rest" /\ Go(w, [pc |-> "listProvisioning"])
     \/ ver[w].pc = "listProvisioning" /\ Go(w, AtRest)
     \/ \E it \in Listed : /\ ver[w].pc \in {"pending", "provisioning"} /\ it \in ver[w].todo
                           /\ Go(w, [ver[w] EXCEPT !.todo = @ \ {it}])
     \/ ver[w].pc \in {"provisioned", "failing"} /\ Go(w, NextPending(ver[w].todo))
     \/ ver[w].pc = "activate" /\ Go(w, [ver[w] EXCEPT !.pc = "purge"])
  /\ UNCHANGED <<tables, res, adm, begun>>

\* processPending is through; processProvisioning lists its domains.
PendingDone(w) ==
  /\ ver[w].pc = "pending" /\ ver[w].todo = {}
  /\ Go(w, [pc |-> "listProvisioning"])
  /\ UNCHANGED <<tables, res, adm, counts>>

ListProvisioning(w) ==
  /\ ver[w].pc = "listProvisioning"
  /\ Go(w, NextProvisioning(WithStatus("provisioning")))
  /\ UNCHANGED <<tables, res, adm, counts>>

\* CertificateReady: the secret exists, or not, or the call fails.
CertificateReady(domain) == res[SanitizeDomain[domain]]["secret"] # None

CheckCertificate(w, it) ==
  LET x == ver[w] IN
  /\ x.pc = "provisioning" /\ it \in x.todo
  /\ Go(w, IF CertificateReady(it.domain)
           THEN [pc |-> "activate", todo |-> x.todo \ {it}, it |-> it]
           ELSE NextProvisioning(x.todo \ {it}))
  /\ UNCHANGED <<tables, res, adm, counts>>

Activate(w) ==
  /\ ver[w].pc = "activate"
  /\ SetStatus(ver[w].it.id, "active")
  /\ Go(w, [ver[w] EXCEPT !.pc = "purge"])
  /\ UNCHANGED <<tenants, issued, aged, res, adm, counts>>

\* The cache key domain:<name> is dropped: TenantHosts says what that does.
Activated(w) ==
  /\ ver[w].pc = "purge"
  /\ Go(w, NextProvisioning(ver[w].todo))
  /\ UNCHANGED <<tables, res, adm, counts>>

ProvisioningDone(w) ==
  /\ ver[w].pc = "provisioning" /\ ver[w].todo = {}
  /\ Go(w, AtRest)
  /\ UNCHANGED <<tables, res, adm, counts>>

\* What a pass does between its ticks, but for Activated.
VerifierStep(w) ==
  \/ \E it \in Listed : PendingTooLong(w, it) \/ DNSElsewhere(w, it) \/ SetVerified(w, it)
                        \/ CheckCertificate(w, it)
  \/ CreateResource(w) \/ CreateFails(w) \/ FinishPending(w) \/ CallFails(w)
  \/ PendingDone(w) \/ ListProvisioning(w) \/ Activate(w) \/ ProvisioningDone(w)

-----------------------------------------------------------------------------
(* Time, and cert-manager.                                                 *)

Age(d) ==
  /\ Live(d) /\ doms[d].status = "pending"
  /\ d \notin aged
  /\ aged' = aged \cup {d}
  /\ UNCHANGED <<tenants, doms, issued, res, ver, adm, counts>>

\* A certificate gets its secret once cert-manager has issued it.
IssueCertificate(n) ==
  /\ res[n]["certificate"] # None
  /\ res[n]["secret"] = None
  /\ res' = [res EXCEPT ![n]["secret"] = res[n]["certificate"]]
  /\ UNCHANGED <<tables, ver, adm, counts>>

-----------------------------------------------------------------------------
(* Admin requests.                                                         *)

Begin(a) ==
  /\ adm[a] = Idle
  /\ begun < MaxRequests
  /\ begun' = begun + 1
  /\ UNCHANGED faults

Continue(a, x) == adm' = [adm EXCEPT ![a] = x]

\* A variant that breaks TenantAddDomain: no unique index.
AddDomainUnchecked(a, d, t, name) ==
  /\ Begin(a)
  /\ d \notin issued
  /\ tenants[t] # "gone"
  /\ doms' = [doms EXCEPT ![d] = [domain |-> name, tenant |-> t,
                                  status |-> "pending", primary |-> FALSE]]
  /\ issued' = issued \cup {d}
  /\ UNCHANGED <<tenants, aged, res, ver, adm>>

\* TenantAddDomain.  Whether FindByDomain or the unique index notices it, a
\* domain that is registered is rejected.
TenantAddDomain(a, d, t, name) ==
  /\ Begin(a)
  /\ d \notin issued
  /\ tenants[t] # "gone"
  /\ \A e \in Did : Live(e) => doms[e].domain # name
  /\ doms' = [doms EXCEPT ![d] = [domain |-> name, tenant |-> t,
                                  status |-> "pending", primary |-> FALSE]]
  /\ issued' = issued \cup {d}
  /\ UNCHANGED <<tenants, aged, res, ver, adm>>

\* TenantDeleteDomain: the row is read, the resources are deleted one by one, ...
DeleteRead(a, d) ==
  /\ Begin(a)
  /\ Live(d)
  /\ Continue(a, [pc |-> "delete", id |-> d, domain |-> doms[d].domain,
                  left |-> <<"route", "certificate", "secret">>])
  /\ UNCHANGED <<tables, res, ver>>

\* ... each if it exists and the call succeeds, ...
DeleteResource(a) ==
  LET x == adm[a]
      n == SanitizeDomain[x.domain] IN
  /\ x.pc = "delete" /\ x.left # <<>>
  /\ \/ res' = [res EXCEPT ![n][Head(x.left)] = None] /\ UNCHANGED faults
     \/ UNCHANGED res /\ Fault
  /\ Continue(a, [x EXCEPT !.left = Tail(@)])
  /\ UNCHANGED <<tables, ver, begun>>

\* ... and then the row.  No cache is touched.
DeleteWrite(a) ==
  /\ adm[a].pc = "delete" /\ adm[a].left = <<>>
  /\ doms' = [doms EXCEPT ![adm[a].id] = NoRow]
  /\ Continue(a, Idle)
  /\ UNCHANGED <<tenants, issued, aged, res, ver, counts>>

\* TenantSetPrimaryDomain: the row is read ...
SetPrimaryRead(a, d) ==
  /\ Begin(a)
  /\ Live(d)
  /\ Continue(a, [pc |-> "setPrimary", id |-> d, tenant |-> doms[d].tenant])
  /\ UNCHANGED <<tables, res, ver>>

\* Of tenant t's domains, those in ids are primary and no other.
WithPrimary(t, ids) ==
  [d \in Did |-> IF Live(d) /\ doms[d].tenant = t THEN [doms[d] EXCEPT !.primary = d \in ids]
                 ELSE doms[d]]

\* ... and SetPrimary's transaction moves the flag, if the domain is active.
SetPrimary(a) ==
  LET d == adm[a].id IN
  /\ adm[a].pc = "setPrimary"
  /\ Live(d) /\ doms[d].status = "active"
  /\ doms' = WithPrimary(adm[a].tenant, {d})
  /\ Continue(a, [pc |-> "purge", tenant |-> adm[a].tenant])
  /\ UNCHANGED <<tenants, issued, aged, res, ver, counts>>

\* It rolls back: the domain is not active, or the unique index rejects a flag
\* because another transaction has set one that this one did not see.
SetPrimaryFails(a) ==
  /\ adm[a].pc = "setPrimary"
  /\ Continue(a, Idle)
  /\ UNCHANGED <<tables, res, ver, counts>>

\* TenantUnsetPrimaryDomain: a primary row is read ...
UnsetPrimaryRead(a, d) ==
  /\ Begin(a)
  /\ Live(d) /\ doms[d].primary
  /\ Continue(a, [pc |-> "unsetPrimary", tenant |-> doms[d].tenant])
  /\ UNCHANGED <<tables, res, ver>>

\* A variant that breaks UnsetPrimary: the handler returns without purging.
UnsetForgetsPurge(a) ==
  /\ adm[a].pc = "unsetPrimary"
  /\ doms' = WithPrimary(adm[a].tenant, {})
  /\ Continue(a, Idle)
  /\ UNCHANGED <<tenants, issued, aged, res, ver, counts>>

\* ... and every flag of the tenant is cleared.
UnsetPrimary(a) ==
  /\ adm[a].pc = "unsetPrimary"
  /\ doms' = WithPrimary(adm[a].tenant, {})
  /\ Continue(a, [pc |-> "purge", tenant |-> adm[a].tenant])
  /\ UNCHANGED <<tenants, issued, aged, res, ver, counts>>

\* invalidateCanonicalCache: TenantHosts says what that does.
CanonicalPurged(a) ==
  /\ adm[a].pc = "purge"
  /\ Continue(a, Idle)
  /\ UNCHANGED <<tables, res, ver, counts>>

\* TenantUpdate, as far as is_active goes.  No cache is touched.
TenantUpdate(a, t) ==
  /\ Begin(a)
  /\ tenants[t] # "gone"
  /\ tenants' = [tenants EXCEPT ![t] = IF @ = "active" THEN "inactive" ELSE "active"]
  /\ UNCHANGED <<doms, issued, aged, res, ver, adm>>

\* TenantDelete: the domains go with the tenant, by cascade; their resources and
\* the cache entries stay.
TenantDelete(a, t) ==
  /\ Begin(a)
  /\ tenants[t] # "gone"
  /\ tenants' = [tenants EXCEPT ![t] = "gone"]
  /\ doms' = [d \in Did |-> IF Live(d) /\ doms[d].tenant = t THEN NoRow ELSE doms[d]]
  /\ UNCHANGED <<issued, aged, res, ver, adm>>

\* The DELETE or UPDATE of a request fails: an error page, and nothing else.
StatementFails(a) ==
  /\ Fault
  /\ \/ adm[a].pc = "unsetPrimary"
     \/ adm[a].pc = "delete" /\ adm[a].left = <<>>
  /\ Continue(a, Idle)
  /\ UNCHANGED <<tables, res, ver, begun>>

\* Every step of an admin request, but for CanonicalPurged.
AdminStep(a) ==
  \/ DeleteResource(a) \/ DeleteWrite(a)
  \/ SetPrimary(a) \/ SetPrimaryFails(a) \/ UnsetPrimary(a) \/ StatementFails(a)

AdminBegin(a) ==
  \/ \E d \in Did, t \in Tenant, name \in Domain : TenantAddDomain(a, d, t, name)
  \/ \E d \in Did : DeleteRead(a, d) \/ SetPrimaryRead(a, d) \/ UnsetPrimaryRead(a, d)
  \/ \E t \in Tenant : TenantUpdate(a, t) \/ TenantDelete(a, t)

\* The process dies and starts again: its requests and its pass are gone.
DomainsRestart ==
  /\ Fault
  /\ ver' = [w \in Verifiers |-> AtRest]
  /\ adm' = [a \in Admins |-> Idle]
  /\ UNCHANGED <<tables, res, begun>>
=============================================================================
