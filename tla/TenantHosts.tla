---------------------------- MODULE TenantHosts ----------------------------
(***************************************************************************)
(* How a public request finds its tenant and its canonical host            *)
(* (middleware/tenant.go): two caches in Valkey, filled by requests and    *)
(* dropped by some of the changes that Domains makes to the tables.        *)
(*                                                                         *)
(* Abstractions.  The caches hold the tenant, not its name.  The redirect  *)
(* to the canonical host ends a request: the browser's next one is just    *)
(* another request.  A failed Get is a miss, a failed Set or Del changes   *)
(* nothing; none of them is reported.                                      *)
(*                                                                         *)
(* Left out: a custom domain that ends in the base domain.  The test is    *)
(* HasSuffix(host, baseDomain) without a dot, so myexample.com under the   *)
(* base example.com is asked for as the subdomain "my" first, and is       *)
(* looked up as a domain only when no active tenant has that name.  Here   *)
(* no host is both (Tenant and Domain are disjoint).                       *)
(***************************************************************************)
EXTENDS Domains

CONSTANTS
  Visitors,   \* public requests that can be in flight together
  Asked,      \* the hosts they ask for
  Miss        \* no such cache entry

Host == Tenant \cup Domain

ASSUME HostsAssumption == Miss \notin Host /\ Asked \subseteq Host

VARIABLES
  owner,       \* owner[h]: the tenant cached under "tenant:" or "domain:" and h
  canon,       \* canon[t]: the host cached under "canonical:" and t
  vis,         \* vis[v]: where public request v is
  staleOwner,  \* history: the hosts, ...
  staleCanon   \* ... and tenants, whose entry was out of date when it was stored, or
               \* has missed a purge that failed, was lost or is never made

caches == <<owner, canon>>
stale == <<staleOwner, staleCanon>>
hostVars == <<caches, vis, stale>>
vars == <<domainVars, hostVars>>

Visiting ==
  [pc : {"idle"}]
    \cup [pc : {"find"}, host : Host]
    \cup [pc : {"keep"}, host : Host, tenant : Tenant]
    \cup [pc : {"canonical", "primary"}, tenant : Tenant]
    \cup [pc : {"keepCanonical"}, tenant : Tenant, host : Host]

Init ==
  /\ DomainsInit
  /\ owner = [h \in Host |-> Miss]
  /\ canon = [t \in Tenant |-> Miss]
  /\ vis = [v \in Visitors |-> Idle]
  /\ staleOwner = {} /\ staleCanon = {}

-----------------------------------------------------------------------------
(* What the tables say.                                                    *)

\* FindBySubdomain and the check of is_active, or FindByDomainWithTenant.
FindTenant(h) ==
  {t \in Tenant : /\ tenants[t] = "active"
                  /\ \/ h = t
                     \/ \E d \in Did : /\ Live(d) /\ doms[d].status = "active"
                                       /\ doms[d].domain = h /\ doms[d].tenant = t}

\* FindPrimaryDomain, or the tenant's subdomain if there is none.
Canonical(t) ==
  LET primary == {d \in Did : Live(d) /\ doms[d].tenant = t /\ doms[d].primary} IN
  IF primary = {} THEN t ELSE doms[CHOOSE d \in primary : TRUE].domain

-----------------------------------------------------------------------------
(* Public requests: ResolveTenant, then CanonicalRedirect.                 *)

Become(v, x) == vis' = [vis EXCEPT ![v] = x]
Reading == UNCHANGED <<domainVars, caches, stale>>

Resolved(v, t) == Become(v, [pc |-> "canonical", tenant |-> t])

OwnerHit(v, h) ==
  /\ vis[v] = Idle
  /\ owner[h] # Miss
  /\ Resolved(v, owner[h]) /\ Reading

OwnerMiss(v, h) ==
  /\ vis[v] = Idle
  /\ owner[h] = Miss
  /\ Become(v, [pc |-> "find", host |-> h]) /\ Reading

\* No tenant: 404, and nothing is cached.
ReadTenant(v) ==
  /\ vis[v].pc = "find"
  /\ \/ FindTenant(vis[v].host) = {} /\ Become(v, Idle)
     \/ \E t \in FindTenant(vis[v].host) :
          Become(v, [pc |-> "keep", host |-> vis[v].host, tenant |-> t])
  /\ Reading

Marked(set, x, isStale) == IF isStale THEN set \cup {x} ELSE set \ {x}

\* cacheTenant.
KeepTenant(v) ==
  LET h == vis[v].host
      t == vis[v].tenant IN
  /\ vis[v].pc = "keep"
  /\ owner' = [owner EXCEPT ![h] = t]
  /\ staleOwner' = Marked(staleOwner, h, FindTenant(h) # {t})
  /\ Resolved(v, t)
  /\ UNCHANGED <<domainVars, canon, staleCanon>>

\* resolveCanonicalHost, on a hit: the request is answered or redirected.
CanonicalHit(v) ==
  /\ vis[v].pc = "canonical"
  /\ canon[vis[v].tenant] # Miss
  /\ Become(v, Idle) /\ Reading

CanonicalMiss(v) ==
  /\ vis[v].pc = "canonical"
  /\ canon[vis[v].tenant] = Miss
  /\ Become(v, [pc |-> "primary", tenant |-> vis[v].tenant]) /\ Reading

ReadPrimary(v) ==
  LET t == vis[v].tenant IN
  /\ vis[v].pc = "primary"
  /\ Become(v, [pc |-> "keepCanonical", tenant |-> t, host |-> Canonical(t)]) /\ Reading

KeepCanonical(v) ==
  LET t == vis[v].tenant IN
  /\ vis[v].pc = "keepCanonical"
  /\ canon' = [canon EXCEPT ![t] = vis[v].host]
  /\ staleCanon' = Marked(staleCanon, t, Canonical(t) # vis[v].host)
  /\ Become(v, Idle)
  /\ UNCHANGED <<domainVars, owner, staleOwner>>

\* A call to Valkey or a query fails: a failed Get counts as a miss, a failed Set
\* is ignored, without the tenant it is a 404, and without the primary domain the
\* subdomain is canonical.
VisitFails(v) ==
  /\ Fault
  /\ \/ \E h \in Asked : vis[v] = Idle /\ Become(v, [pc |-> "find", host |-> h])
     \/ vis[v].pc = "canonical" /\ Become(v, [vis[v] EXCEPT !.pc = "primary"])
     \/ vis[v].pc = "keep" /\ Resolved(v, vis[v].tenant)
     \/ vis[v].pc \in {"find", "keepCanonical"} /\ Become(v, Idle)
     \/ vis[v].pc = "primary" /\ Become(v, [pc |-> "keepCanonical", tenant |-> vis[v].tenant,
                                           host |-> vis[v].tenant])
  /\ UNCHANGED <<tables, res, ver, adm, begun, caches, stale>>

VisitorStep(v) ==
  \/ ReadTenant(v) \/ KeepTenant(v) \/ CanonicalHit(v) \/ CanonicalMiss(v)
  \/ ReadPrimary(v) \/ KeepCanonical(v) \/ VisitFails(v)

-----------------------------------------------------------------------------
(* Entries disappear.                                                      *)

DropOwner(h) == owner' = [owner EXCEPT ![h] = Miss] /\ staleOwner' = staleOwner \ {h}
DropCanon(t) == canon' = [canon EXCEPT ![t] = Miss] /\ staleCanon' = staleCanon \ {t}

\* A variant that breaks Expire: the entries are stored without a TTL.
ExpireNever(k) == FALSE /\ UNCHANGED vars

\* The TTL of an entry, tenantCacheTTL, runs out; k is a key: a host, or a tenant
\* and the word canonical.
Key == ({"owner"} \X Asked) \cup ({"canonical"} \X Tenant)
Expire(k) ==
  /\ \/ /\ k[1] = "owner" /\ owner[k[2]] # Miss
        /\ DropOwner(k[2]) /\ UNCHANGED <<canon, staleCanon>>
     \/ /\ k[1] = "canonical" /\ canon[k[2]] # Miss
        /\ DropCanon(k[2]) /\ UNCHANGED <<owner, staleOwner>>
  /\ UNCHANGED <<domainVars, vis>>

\* A variant that breaks PurgeDomain: processProvisioning does not touch the cache.
PurgesNothing(w) == Activated(w) /\ UNCHANGED hostVars

\* processProvisioning drops the entry of a domain it has activated.
PurgeDomain(w) ==
  /\ Activated(w)
  /\ DropOwner(ver[w].it.domain)
  /\ UNCHANGED <<canon, vis, staleCanon>>

\* invalidateCanonicalCache.
PurgeCanonical(a) ==
  /\ CanonicalPurged(a)
  /\ DropCanon(adm[a].tenant)
  /\ UNCHANGED <<owner, vis, staleOwner>>

\* Purges that fail are ignored; those of a process that dies are lost.
Purging == {ver[w].it.domain : w \in {x \in Verifiers : ver[x].pc = "purge"}}
Canonicalizing == {adm[a].tenant : a \in {x \in Admins : adm[x].pc = "purge"}}

PurgeFails ==
  /\ Fault
  /\ \/ \E w \in Verifiers : /\ ver[w].pc = "purge"
                             /\ Go(w, NextProvisioning(ver[w].todo))
                             /\ staleOwner' = staleOwner \cup {ver[w].it.domain}
                             /\ UNCHANGED <<adm, staleCanon>>
     \/ \E a \in Admins : /\ adm[a].pc = "purge"
                          /\ Continue(a, Idle)
                          /\ staleCanon' = staleCanon \cup {adm[a].tenant}
                          /\ UNCHANGED <<ver, staleOwner>>
  /\ UNCHANGED <<tables, res, begun, caches, vis>>

Restart ==
  /\ DomainsRestart
  /\ vis' = [v \in Visitors |-> Idle]
  /\ staleOwner' = staleOwner \cup Purging
  /\ staleCanon' = staleCanon \cup Canonicalizing
  /\ UNCHANGED caches

\* Deleting a domain purges nothing: an entry that names a primary one is stale.
PrimaryDeleted(a) ==
  {doms[d].tenant : d \in {e \in Did : /\ adm[a].pc = "delete" /\ adm[a].id = e
                                       /\ Live(e) /\ doms[e].primary}}
AdminTables(a) ==
  /\ AdminStep(a) \/ AdminBegin(a)
  /\ staleCanon' = IF doms' # doms THEN staleCanon \cup PrimaryDeleted(a) ELSE staleCanon
  /\ UNCHANGED <<caches, vis, staleOwner>>

-----------------------------------------------------------------------------
VerifierGoesOn(w) ==
  \/ (ListPending(w) \/ VerifierStep(w)) /\ UNCHANGED hostVars
  \/ PurgeDomain(w)

Next ==
  \/ \E v \in Visitors : \/ \E h \in Asked : OwnerHit(v, h) \/ OwnerMiss(v, h)
                         \/ VisitorStep(v)
  \/ \E a \in Admins : AdminTables(a) \/ PurgeCanonical(a)
  \/ \E w \in Verifiers : VerifierGoesOn(w)
  \/ \E d \in Did : Age(d) /\ UNCHANGED hostVars
  \/ \E n \in ResName : IssueCertificate(n) /\ UNCHANGED hostVars
  \/ \E k \in Key : Expire(k)
  \/ PurgeFails
  \/ Restart

Spec == Init /\ [][Next]_vars

\* Requests that were begun and the verifier's loop run on; time passes; an entry
\* expires unless it is stored anew.  Nobody has to send a request, DNS may never
\* be right and cert-manager need not issue anything.
Ages(k) ==
  \/ Expire(k)
  \/ \E v \in Visitors : \/ k[1] = "owner" /\ vis[v].pc = "keep" /\ vis[v].host = k[2]
                            /\ KeepTenant(v)
                         \/ k[1] = "canonical" /\ vis[v].pc = "keepCanonical"
                            /\ vis[v].tenant = k[2] /\ KeepCanonical(v)

FairSpec ==
  /\ Spec
  /\ \A v \in Visitors : WF_vars(VisitorStep(v))
  /\ \A a \in Admins : WF_vars(AdminStep(a) /\ AdminTables(a)) /\ WF_vars(PurgeCanonical(a))
  /\ \A w \in Verifiers : WF_vars(VerifierGoesOn(w))
  /\ \A d \in Did : WF_vars(Age(d) /\ UNCHANGED hostVars)
  /\ \A k \in Key : WF_vars(Ages(k))

-----------------------------------------------------------------------------
TypeOK ==
  /\ tenants \in [Tenant -> {"active", "inactive", "gone"}]
  /\ doms \in [Did -> DomainRow \cup {NoRow}]
  /\ issued \subseteq Did /\ aged \subseteq Did
  /\ res \in [ResName -> Resources]
  /\ ver \in [Verifiers -> Verifying]
  /\ adm \in [Admins -> Request]
  /\ begun \in 0..MaxRequests /\ faults \in 0..MaxFaults
  /\ owner \in [Host -> Tenant \cup {Miss}]
  /\ canon \in [Tenant -> Host \cup {Miss}]
  /\ vis \in [Visitors -> Visiting]
  /\ staleOwner \subseteq Host /\ staleCanon \subseteq Tenant
  /\ UniqueDomains(doms)

\* A primary domain is active at all times, not only when it is made primary:
\* with one verifier, nothing that it began earlier turns an active domain back
\* (store/tenant_domain.go:194 "The domain must be active"; FindPrimaryByTenantID
\* relies on it and does not look at the status).
PrimaryIsActive ==
  \A d \in Did : Live(d) /\ doms[d].primary => doms[d].status = "active"

Rank(status) ==
  CASE status = "pending" -> 0 [] status = "verified" -> 1 [] status = "provisioning" -> 2
    [] status \in {"active", "failed"} -> 3

\* A domain goes through its statuses in one direction, and the last two are
\* final, although the verifier writes them by id to rows it listed long before
\* (migrations/00019_create_tenant_domains.sql "pending -> verified ->
\* provisioning -> active").
LifecycleForward ==
  [][\A d \in Did : Live(d) /\ Live(d)' /\ doms'[d].status # doms[d].status =>
       Rank(doms[d].status) < Rank(doms'[d].status)]_vars

\* A domain that has moved from one tenant to another is not served by the first
\* one once it is active for the second; unless a slow request stored what it had
\* read before, or the purge is still to come or got lost.
DomainReachesOwner ==
  \A h \in Host :
    owner[h] # Miss /\ FindTenant(h) \notin {{}, {owner[h]}} =>
      h \in staleOwner \cup Purging

\* The canonical host of a tenant is the one the tables name, whatever changes of
\* the primary domain overlap with requests; with the same two exceptions, and
\* that of a primary domain which was deleted (invalidateCanonicalCache).
CanonicalFresh ==
  \A t \in Tenant :
    canon[t] \notin {Miss, Canonical(t)} /\ tenants[t] # "gone" =>
      t \in staleCanon \cup Canonicalizing

\* When the changes have ended, every cached tenant and host is right, and the
\* host every tenant's visitors are redirected to is one that this tenant serves.
RedirectsArrive ==
  <>[](/\ \A h \in Host : owner[h] # Miss => FindTenant(h) = {owner[h]}
       /\ \A t \in Tenant : tenants[t] = "active" =>
            /\ canon[t] \in {Miss, Canonical(t)}
            /\ FindTenant(Canonical(t)) = {t})

\* As long as nothing fails, a new domain does not stay pending or verified: it
\* comes to wait for its certificate, is active, failed or gone.
DomainsAdvance ==
  \A d \in Did :
    Live(d) /\ doms[d].status \in {"pending", "verified"} ~>
      (Live(d) => doms[d].status \notin {"pending", "verified"}) \/ faults > 0

\* Does not hold for two domains with one resource name (SameName in
\* MCTenantHosts): the second becomes active on the first one's resources.
\* A domain that becomes active has a certificate, its secret and a route of its
\* own (k8s/manager.go:105-106 "CreateDomainResources creates a cert-manager
\* Certificate CR and a Traefik IngressRoute CR for the given custom domain").
ActiveIsRouted ==
  [][\A d \in Did :
       Live(d) /\ doms[d].status # "active" /\ Live(d)' /\ doms'[d].status = "active" =>
         \A k \in Resource : res[Named(d)][k] = doms[d].domain]_vars
=============================================================================
