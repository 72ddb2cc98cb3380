------------------------- MODULE TenantHostsProofs -------------------------
(***************************************************************************)
(* Proofs about TenantHosts, for any number of tenants, domains, requests  *)
(* and cached hosts: no domain is served by a tenant that has lost it, and *)
(* no visitor is redirected to a host that is no longer the tenant's       *)
(* primary one, but for the excuses the properties name; and, with one     *)
(* verifier, statuses only advance and primary domains are active.         *)
(*                                                                         *)
(* The argument.  The verifier writes rows by the ids it listed earlier,   *)
(* and drops a cache entry by the domain it listed; both mean the row they *)
(* did then, since ids are not used twice (ListedSound).  An entry is right*)
(* for whatever rows are active, whether or not their tenants are          *)
(* (OwnerSound).  With one verifier nobody else changes a status, so that  *)
(* what it has listed is still as it was listed (PassSound).               *)
(***************************************************************************)
EXTENDS TenantHosts, TLAPS

WithTodo == {"pending", "provisioning", "certificate", "route", "provisioned", "failing",
             "activate", "purge"}
WithItem == {"certificate", "route", "provisioned", "failing", "activate", "purge"}

\* Verifier's memory x has the listed domain it.
Holds(x, it) ==
  \/ x.pc \in WithTodo /\ it \in x.todo
  \/ x.pc \in WithItem /\ it = x.it

\* Ids are not used twice, so a listed domain is the one of that id, or gone.
ListedSound ==
  /\ \A d \in Did : Live(d) => d \in issued
  /\ \A w \in Verifiers, it \in Listed : Holds(ver[w], it) =>
       it.id \in issued /\ (Live(it.id) => doms[it.id].domain = it.domain)

\* Nobody but tenant t is to serve host h, even when it is not active now.
Serves(t, h) ==
  /\ h \in Tenant => t = h
  /\ \A d \in Did : Live(d) /\ doms[d].status = "active" /\ doms[d].domain = h
                      => doms[d].tenant = t

OwnerSound ==
  \A h \in Host : owner[h] # Miss => h \in staleOwner \cup Purging \/ Serves(owner[h], h)

HostsInv == TypeOK /\ ListedSound /\ OwnerSound /\ CanonicalFresh

\* As deployed: one replica, hence one verifier (deploy/base/deployment.yaml), but
\* for the moments of an update in which the old process overlaps with the new one.
OneVerifier == \A v, w \in Verifiers : v = w

\* Whatever a verifier has listed is still as it was listed, or gone.
Still(it, status) == Live(it.id) => doms[it.id].status = status

PassSound ==
  \A w \in Verifiers :
    LET x == ver[w] IN
    /\ x.pc \in {"pending", "certificate", "route", "provisioned", "failing"} =>
         \A it \in x.todo : Still(it, "pending")
    /\ x.pc \in {"certificate", "route", "provisioned", "failing"} => Still(x.it, "verified")
    /\ x.pc \in {"provisioning", "activate", "purge"} =>
         \A it \in x.todo : Still(it, "provisioning")
    /\ x.pc = "activate" => Still(x.it, "provisioning") /\ x.it \notin x.todo

PassInv == HostsInv /\ PassSound /\ PrimaryIsActive

-----------------------------------------------------------------------------
(* Types.                                                                  *)

LEMMA VerifyingFields ==
  ASSUME NEW x \in Verifying
  PROVE  /\ x.pc \in WithTodo \cup {"rest", "listProvisioning"}
         /\ x.pc \in WithTodo => x.todo \in SUBSET Listed
         /\ x.pc \in WithItem => x.it \in Listed
BY DEF Verifying, WithTodo, WithItem

LEMMA ListedFields ==
  ASSUME NEW it \in Listed
  PROVE  it.id \in Did /\ it.domain \in Domain
BY DEF Listed

LEMMA VerifyingType ==
  ASSUME NEW todo \in SUBSET Listed, NEW it \in Listed
  PROVE  /\ AtRest \in Verifying /\ [pc |-> "listProvisioning"] \in Verifying
         /\ NextPending(todo) \in Verifying /\ NextProvisioning(todo) \in Verifying
         /\ \A pc \in WithItem : [pc |-> pc, todo |-> todo, it |-> it] \in Verifying
BY DEF Verifying, AtRest, NextPending, NextProvisioning, WithItem

LEMMA RowFields ==
  ASSUME NEW row \in DomainRow
  PROVE  /\ row.domain \in Domain /\ row.tenant \in Tenant /\ row.status \in Status
         /\ row.primary \in BOOLEAN
         /\ row # NoRow
BY DomainsAssumption DEF DomainRow

LEMMA WithStatusType ==
  ASSUME doms \in [Did -> DomainRow \cup {NoRow}], NEW s
  PROVE  /\ WithStatus(s) \in SUBSET Listed
         /\ \A it \in WithStatus(s) :
              it.id \in Did /\ Live(it.id) /\ doms[it.id].status = s
                /\ it.domain = doms[it.id].domain
<1>1. ASSUME NEW d \in Did, Live(d)
      PROVE  [id |-> d, domain |-> doms[d].domain] \in Listed
  BY <1>1, RowFields DEF Live, Listed
<1> QED BY <1>1 DEF WithStatus

\* The rows that are left have kept their domain and tenant, and become no primary.
RowsKept ==
  \A d \in Did : doms'[d] # NoRow =>
    /\ doms[d] # NoRow
    /\ doms'[d].domain = doms[d].domain /\ doms'[d].tenant = doms[d].tenant
    /\ doms'[d].primary => doms[d].primary

LEMMA UniqueKept ==
  ASSUME UniqueDomains(doms), RowsKept
  PROVE  UniqueDomains(doms')
BY DEF UniqueDomains, RowsKept

\* An UPDATE of the status: no other column changes.
LEMMA StatusSet ==
  ASSUME TypeOK, NEW id \in Did, NEW s \in Status, SetStatus(id, s)
  PROVE  /\ doms' \in [Did -> DomainRow \cup {NoRow}]
         /\ RowsKept
         /\ \A d \in Did : Live(d)' <=> Live(d)
         /\ \A d \in Did : Live(d) => doms'[d].primary = doms[d].primary
         /\ \A d \in Did : d # id => doms'[d] = doms[d]
         /\ Live(id) => doms'[id].status = s
<1>1. doms \in [Did -> DomainRow \cup {NoRow}]
  BY DEF TypeOK
<1>2. CASE ~Live(id)
  BY <1>1, <1>2 DEF SetStatus, Live, RowsKept
<1>3. CASE Live(id)
  <2>1. doms' = [doms EXCEPT ![id].status = s]
    BY <1>3 DEF SetStatus
  <2>2. doms[id] \in DomainRow
    BY <1>1, <1>3 DEF Live
  <2>3. PICK row \in DomainRow :
          /\ doms' = [doms EXCEPT ![id] = row]
          /\ row.domain = doms[id].domain /\ row.tenant = doms[id].tenant
          /\ row.status = s /\ row.primary = doms[id].primary
    <3>1. [doms[id] EXCEPT !.status = s] \in DomainRow
      BY <2>2 DEF DomainRow
    <3> QED BY <1>1, <2>1, <2>2, <3>1 DEF DomainRow
  <2>4. row # NoRow /\ \A d \in Did : doms'[d] = IF d = id THEN row ELSE doms[d]
    BY <1>1, <2>3, RowFields
  <2> QED BY <1>1, <1>3, <2>3, <2>4 DEF Live, RowsKept
<1> QED BY <1>2, <1>3

-----------------------------------------------------------------------------
(* The verifier's steps, by what they do to its memory and to the rows.    *)

LEMMA GoesTo ==
  ASSUME ver \in [Verifiers -> Verifying], NEW w \in Verifiers, NEW x \in Verifying, Go(w, x)
  PROVE  /\ ver'[w] = x
         /\ \A u \in Verifiers : u # w => ver'[u] = ver[u]
         /\ ver' \in [Verifiers -> Verifying]
BY DEF Go

\* It takes up no more than what it reads in the table.
VerifierMoves(w) ==
  /\ ver' \in [Verifiers -> Verifying]
  /\ \A u \in Verifiers : u # w => ver'[u] = ver[u]
  /\ \A it \in Listed : Holds(ver'[w], it) =>
       Holds(ver[w], it) \/ (Live(it.id) /\ it.domain = doms[it.id].domain)
  /\ UNCHANGED <<tenants, issued, aged, adm, begun>>
  /\ res' \in [ResName -> Resources] /\ faults' \in 0..MaxFaults

\* It writes a status to what it holds; what it has activated it is about to purge.
Writes(w, it, s) ==
  /\ Holds(ver[w], it) /\ SetStatus(it.id, s)
  /\ s = "active" => ver'[w].pc = "purge" /\ ver'[w].it = it

VerifierWrites(w) == doms' = doms \/ \E it \in Listed, s \in Status : Writes(w, it, s)

LEMMA FaultType ==
  ASSUME TypeOK, Fault
  PROVE  faults' \in 0..MaxFaults
BY DomainsAssumption DEF TypeOK, Fault

LEMMA PendingSteps ==
  ASSUME TypeOK, NEW w \in Verifiers, NEW it \in Listed,
         PendingTooLong(w, it) \/ DNSElsewhere(w, it) \/ SetVerified(w, it)
  PROVE  /\ VerifierMoves(w) /\ VerifierWrites(w) /\ ver[w].pc = "pending"
         /\ \/ ver'[w] = NextPending(ver[w].todo \ {it})
            \/ /\ SetVerified(w, it) /\ Live(it.id)
               /\ ver'[w] = [pc |-> "certificate", todo |-> ver[w].todo \ {it}, it |-> it]
<1> DEFINE todo == ver[w].todo \ {it}
<1>1. ver[w] \in Verifying /\ ver[w].pc = "pending" /\ it \in ver[w].todo
  BY DEF TypeOK, PendingTooLong, DNSElsewhere, SetVerified
<1>2. todo \in SUBSET Listed
  BY <1>1, VerifyingFields DEF WithTodo
<1>3. NextPending(todo) \in Verifying
      /\ [pc |-> "certificate", todo |-> todo, it |-> it] \in Verifying
  BY <1>2, VerifyingType DEF WithItem
<1>4. \/ Go(w, NextPending(todo))
      \/ /\ SetVerified(w, it) /\ Live(it.id)
         /\ Go(w, [pc |-> "certificate", todo |-> todo, it |-> it])
  BY DEF PendingTooLong, DNSElsewhere, SetVerified
<1>5. UNCHANGED <<tenants, issued, aged, res, adm, begun, faults>>
  BY DEF PendingTooLong, DNSElsewhere, SetVerified, tables, counts
<1>6. Holds(ver[w], it) /\ \A i \in todo : Holds(ver[w], i)
  BY <1>1 DEF Holds, WithTodo
<1>7. VerifierWrites(w)
  <2>1. CASE PendingTooLong(w, it)
    BY <1>6, <2>1 DEF PendingTooLong, VerifierWrites, Writes, Status
  <2>2. CASE DNSElsewhere(w, it)
    BY <2>2 DEF DNSElsewhere, VerifierWrites, tables
  <2>3. CASE SetVerified(w, it)
    BY <1>6, <2>3 DEF SetVerified, VerifierWrites, Writes, Status
  <2> QED BY <2>1, <2>2, <2>3
<1>8. ver \in [Verifiers -> Verifying] /\ res \in [ResName -> Resources] /\ faults \in 0..MaxFaults
  BY DEF TypeOK
<1>9. CASE Go(w, NextPending(todo))
  <2>1. ver'[w] = NextPending(todo) /\ (\A u \in Verifiers : u # w => ver'[u] = ver[u])
        /\ ver' \in [Verifiers -> Verifying]
    BY <1>3, <1>8, <1>9, GoesTo
  <2>2. \A i \in Listed : Holds(ver'[w], i) => Holds(ver[w], i)
    BY <1>6, <2>1 DEF Holds, NextPending, WithItem
  <2> QED BY <1>1, <1>5, <1>7, <1>8, <2>1, <2>2 DEF VerifierMoves
<1>10. CASE /\ SetVerified(w, it) /\ Live(it.id)
            /\ Go(w, [pc |-> "certificate", todo |-> todo, it |-> it])
  <2>1. ver'[w] = [pc |-> "certificate", todo |-> todo, it |-> it]
        /\ (\A u \in Verifiers : u # w => ver'[u] = ver[u])
        /\ ver' \in [Verifiers -> Verifying]
    BY <1>3, <1>8, <1>10, GoesTo
  <2>2. \A i \in Listed : Holds(ver'[w], i) => Holds(ver[w], i)
    BY <1>6, <2>1 DEF Holds
  <2> QED BY <1>1, <1>5, <1>7, <1>8, <1>10, <2>1, <2>2 DEF VerifierMoves
<1> QED BY <1>4, <1>9, <1>10

LEMMA CheckCertificateStep ==
  ASSUME TypeOK, NEW w \in Verifiers, NEW it \in Listed, CheckCertificate(w, it)
  PROVE  /\ VerifierMoves(w) /\ VerifierWrites(w) /\ ver[w].pc = "provisioning"
         /\ it \in ver[w].todo
         /\ \/ ver'[w] = NextProvisioning(ver[w].todo \ {it})
            \/ ver'[w] = [pc |-> "activate", todo |-> ver[w].todo \ {it}, it |-> it]
         /\ doms' = doms
<1> DEFINE todo == ver[w].todo \ {it}
<1>1. ver[w] \in Verifying /\ ver[w].pc = "provisioning" /\ it \in ver[w].todo
  BY DEF TypeOK, CheckCertificate
<1>2. todo \in SUBSET Listed
  BY <1>1, VerifyingFields DEF WithTodo
<1>3. NextProvisioning(todo) \in Verifying
      /\ [pc |-> "activate", todo |-> todo, it |-> it] \in Verifying
  BY <1>2, VerifyingType DEF WithItem
<1>4. \/ Go(w, NextProvisioning(todo))
      \/ Go(w, [pc |-> "activate", todo |-> todo, it |-> it])
  BY DEF CheckCertificate
<1>5. UNCHANGED <<tenants, doms, issued, aged, res, adm, begun, faults>>
  BY DEF CheckCertificate, tables, counts
<1>6. Holds(ver[w], it) /\ \A i \in todo : Holds(ver[w], i)
  BY <1>1 DEF Holds, WithTodo
<1>8. ver \in [Verifiers -> Verifying] /\ res \in [ResName -> Resources] /\ faults \in 0..MaxFaults
  BY DEF TypeOK
<1>9. /\ ver'[w] \in {NextProvisioning(todo), [pc |-> "activate", todo |-> todo, it |-> it]}
      /\ \A u \in Verifiers : u # w => ver'[u] = ver[u]
      /\ ver' \in [Verifiers -> Verifying]
  BY <1>3, <1>4, <1>8, GoesTo
<1>10. \A i \in Listed : Holds(ver'[w], i) => Holds(ver[w], i)
  BY <1>6, <1>9 DEF Holds, NextProvisioning, WithItem
<1> QED BY <1>1, <1>5, <1>8, <1>9, <1>10 DEF VerifierMoves, VerifierWrites

LEMMA CreateSteps ==
  ASSUME TypeOK, NEW w \in Verifiers, CreateResource(w) \/ CreateFails(w)
  PROVE  /\ VerifierMoves(w) /\ VerifierWrites(w) /\ ver[w].pc \in {"certificate", "route"}
         /\ ver'[w].pc \in {"route", "provisioned", "failing"}
         /\ ver'[w].todo = ver[w].todo /\ ver'[w].it = ver[w].it
         /\ doms' = doms
<1> DEFINE x == ver[w]
<1>1. x \in Verifying /\ x.pc \in {"certificate", "route"}
  BY DEF TypeOK, CreateResource, CreateFails
<1>2. x.todo \in SUBSET Listed /\ x.it \in Listed
  BY <1>1, VerifyingFields DEF WithTodo, WithItem
<1>3. PICK pc \in {"route", "provisioned", "failing"} : Go(w, [x EXCEPT !.pc = pc])
  BY DEF CreateResource, CreateFails
<1>4. [x EXCEPT !.pc = pc] = [pc |-> pc, todo |-> x.todo, it |-> x.it]
  BY <1>1 DEF Verifying
<1>5. [pc |-> pc, todo |-> x.todo, it |-> x.it] \in Verifying
  BY <1>2, VerifyingType DEF WithItem
<1>6. ver \in [Verifiers -> Verifying] /\ res \in [ResName -> Resources] /\ faults \in 0..MaxFaults
  BY DEF TypeOK
<1>7. /\ ver'[w] = [pc |-> pc, todo |-> x.todo, it |-> x.it]
      /\ \A u \in Verifiers : u # w => ver'[u] = ver[u]
      /\ ver' \in [Verifiers -> Verifying]
  BY <1>3, <1>4, <1>5, <1>6, GoesTo
<1>8. \A i \in Listed : Holds(ver'[w], i) => Holds(x, i)
  BY <1>1, <1>7 DEF Holds, WithTodo, WithItem
<1>9. UNCHANGED <<tenants, doms, issued, aged, adm, begun>>
  BY DEF CreateResource, CreateFails, tables, counts
<1>10. res' \in [ResName -> Resources] /\ faults' \in 0..MaxFaults
  <2>1. CASE CreateResource(w)
    <3>1. x.it.domain \in Domain
      BY <1>2, ListedFields
    <3>2. \A n \in ResName : [res[n] EXCEPT ![x.pc] = x.it.domain] \in Resources
      BY <1>1, <1>6, <3>1 DEF Resources, Resource
    <3>3. res' = res
          \/ \E n \in ResName : res' = [res EXCEPT ![n][x.pc] = x.it.domain]
      BY <2>1, <3>1, DomainsAssumption DEF CreateResource, CreateIn
    <3>4. res' \in [ResName -> Resources]
      BY <1>6, <3>2, <3>3
    <3> QED BY <1>6, <2>1, <3>4 DEF CreateResource, counts
  <2>2. CASE CreateFails(w)
    BY <1>6, <2>2, FaultType DEF CreateFails
  <2> QED BY <2>1, <2>2
<1> QED BY <1>1, <1>7, <1>8, <1>9, <1>10 DEF VerifierMoves, VerifierWrites

LEMMA FinishStep ==
  ASSUME TypeOK, NEW w \in Verifiers, FinishPending(w)
  PROVE  /\ VerifierMoves(w) /\ VerifierWrites(w) /\ ver[w].pc \in {"provisioned", "failing"}
         /\ ver'[w] = NextPending(ver[w].todo)
         /\ \E s \in {"failed", "provisioning"} : SetStatus(ver[w].it.id, s)
<1> DEFINE x == ver[w]
<1>1. x \in Verifying /\ x.pc \in {"provisioned", "failing"}
  BY DEF TypeOK, FinishPending
<1>2. x.todo \in SUBSET Listed /\ x.it \in Listed
  BY <1>1, VerifyingFields DEF WithTodo, WithItem
<1>3. ver \in [Verifiers -> Verifying] /\ res \in [ResName -> Resources] /\ faults \in 0..MaxFaults
  BY DEF TypeOK
<1>4. NextPending(x.todo) \in Verifying
  BY <1>2, VerifyingType
<1>5. /\ ver'[w] = NextPending(x.todo)
      /\ \A u \in Verifiers : u # w => ver'[u] = ver[u]
      /\ ver' \in [Verifiers -> Verifying]
  BY <1>3, <1>4, GoesTo DEF FinishPending
<1>6. \A i \in Listed : Holds(ver'[w], i) => Holds(x, i)
  BY <1>1, <1>5 DEF Holds, NextPending, WithItem, WithTodo
<1>7. UNCHANGED <<tenants, issued, aged, res, adm, begun, faults>>
  BY DEF FinishPending, counts
<1>8. PICK s \in {"failed", "provisioning"} : SetStatus(x.it.id, s)
  BY DEF FinishPending
<1>9. Holds(x, x.it)
  BY <1>1 DEF Holds, WithItem
<1>10. VerifierWrites(w)
  BY <1>2, <1>8, <1>9 DEF VerifierWrites, Writes, Status
<1> QED BY <1>1, <1>3, <1>5, <1>6, <1>7, <1>8, <1>10 DEF VerifierMoves

LEMMA ActivateStep ==
  ASSUME TypeOK, NEW w \in Verifiers, Activate(w)
  PROVE  /\ VerifierMoves(w) /\ VerifierWrites(w) /\ ver[w].pc = "activate"
         /\ ver'[w].pc = "purge" /\ ver'[w].todo = ver[w].todo /\ ver'[w].it = ver[w].it
         /\ SetStatus(ver[w].it.id, "active")
<1> DEFINE x == ver[w]
<1>1. x \in Verifying /\ x.pc = "activate"
  BY DEF TypeOK, Activate
<1>2. x.todo \in SUBSET Listed /\ x.it \in Listed
  BY <1>1, VerifyingFields DEF WithTodo, WithItem
<1>3. ver \in [Verifiers -> Verifying] /\ res \in [ResName -> Resources] /\ faults \in 0..MaxFaults
  BY DEF TypeOK
<1>4. [x EXCEPT !.pc = "purge"] = [pc |-> "purge", todo |-> x.todo, it |-> x.it]
  BY <1>1 DEF Verifying
<1>5. [pc |-> "purge", todo |-> x.todo, it |-> x.it] \in Verifying
  BY <1>2, VerifyingType DEF WithItem
<1>6. /\ ver'[w] = [pc |-> "purge", todo |-> x.todo, it |-> x.it]
      /\ \A u \in Verifiers : u # w => ver'[u] = ver[u]
      /\ ver' \in [Verifiers -> Verifying]
  BY <1>3, <1>4, <1>5, GoesTo DEF Activate
<1>7. \A i \in Listed : Holds(ver'[w], i) => Holds(x, i)
  BY <1>1, <1>6 DEF Holds, WithItem, WithTodo
<1>8. UNCHANGED <<tenants, issued, aged, res, adm, begun, faults>> /\ SetStatus(x.it.id, "active")
  BY DEF Activate, counts
<1>9. Holds(x, x.it)
  BY <1>1 DEF Holds, WithItem
<1>10. VerifierWrites(w)
  BY <1>2, <1>6, <1>8, <1>9 DEF VerifierWrites, Writes, Status
<1> QED BY <1>1, <1>3, <1>6, <1>7, <1>8, <1>10 DEF VerifierMoves

LEMMA ListSteps ==
  ASSUME TypeOK, NEW w \in Verifiers,
         \/ ListPending(w) \/ PendingDone(w) \/ ListProvisioning(w) \/ ProvisioningDone(w)
  PROVE  /\ VerifierMoves(w) /\ VerifierWrites(w) /\ doms' = doms
         /\ ver[w].pc # "purge"
         /\ \/ ver'[w].pc \in {"rest", "listProvisioning"}
            \/ ver'[w] = NextPending(WithStatus("pending"))
            \/ ver'[w] = NextProvisioning(WithStatus("provisioning"))
<1>1. doms \in [Did -> DomainRow \cup {NoRow}]
  BY DEF TypeOK
<1>2. ver \in [Verifiers -> Verifying] /\ res \in [ResName -> Resources] /\ faults \in 0..MaxFaults
  BY DEF TypeOK
<1>3. WithStatus("pending") \in SUBSET Listed /\ WithStatus("provisioning") \in SUBSET Listed
  BY <1>1, WithStatusType
<1>4. PICK x \in {AtRest, [pc |-> "listProvisioning"], NextPending(WithStatus("pending")),
                  NextProvisioning(WithStatus("provisioning"))} : Go(w, x)
  BY DEF ListPending, PendingDone, ListProvisioning, ProvisioningDone
<1>5. AtRest \in Verifying /\ [pc |-> "listProvisioning"] \in Verifying
  BY DEF Verifying, AtRest
<1>6. x \in Verifying
  BY <1>3, <1>5, VerifyingType DEF Verifying, NextPending, NextProvisioning
<1>7. /\ ver'[w] = x
      /\ \A u \in Verifiers : u # w => ver'[u] = ver[u]
      /\ ver' \in [Verifiers -> Verifying]
  BY <1>2, <1>4, <1>6, GoesTo
<1>8. ASSUME NEW it \in Listed, Holds(x, it)
      PROVE  Live(it.id) /\ it.domain = doms[it.id].domain
  <2>1. it \in WithStatus("pending") \cup WithStatus("provisioning")
    BY <1>8 DEF Holds, WithTodo, WithItem, AtRest, NextPending, NextProvisioning
  <2> QED BY <1>1, <2>1, WithStatusType
<1>9. UNCHANGED <<tenants, doms, issued, aged, res, adm, begun, faults>>
  BY DEF ListPending, PendingDone, ListProvisioning, ProvisioningDone, tables, counts
<1>10. \/ x.pc \in {"rest", "listProvisioning"}
       \/ x = NextPending(WithStatus("pending"))
       \/ x = NextProvisioning(WithStatus("provisioning"))
  BY DEF AtRest
<1>11. ver[w].pc # "purge"
  BY DEF ListPending, PendingDone, ListProvisioning, ProvisioningDone
<1> HIDE DEF NextPending, NextProvisioning
<1> QED BY <1>2, <1>7, <1>8, <1>9, <1>10, <1>11 DEF VerifierMoves, VerifierWrites

LEMMA CallFailsStep ==
  ASSUME TypeOK, NEW w \in Verifiers, CallFails(w)
  PROVE  /\ VerifierMoves(w) /\ VerifierWrites(w) /\ doms' = doms
         /\ ver[w].pc # "purge"
         /\ \/ ver'[w].pc \in {"rest", "listProvisioning"}
            \/ /\ ver[w].pc \in {"pending", "provisioning"} /\ ver'[w].pc = ver[w].pc
               /\ ver'[w].todo \subseteq ver[w].todo
            \/ ver[w].pc \in {"provisioned", "failing"} /\ ver'[w] = NextPending(ver[w].todo)
            \/ /\ ver[w].pc = "activate" /\ ver'[w].pc = "purge"
               /\ ver'[w].todo = ver[w].todo
<1> DEFINE x == ver[w]
<1>1. x \in Verifying
  BY DEF TypeOK
<1>2. /\ x.pc \in WithTodo => x.todo \in SUBSET Listed
      /\ x.pc \in WithItem => x.it \in Listed
  BY <1>1, VerifyingFields
<1>3. ver \in [Verifiers -> Verifying] /\ res \in [ResName -> Resources]
  BY DEF TypeOK
<1>4. UNCHANGED <<tenants, doms, issued, aged, res, adm, begun>> /\ faults' \in 0..MaxFaults
  BY FaultType DEF CallFails, tables
<1>5. \/ /\ x.pc \in {"rest", "listProvisioning"}
         /\ \E y \in {AtRest, [pc |-> "listProvisioning"]} : Go(w, y)
      \/ /\ x.pc \in {"pending", "provisioning"}
         /\ \E it \in Listed : Go(w, [x EXCEPT !.todo = x.todo \ {it}])
      \/ x.pc \in {"provisioned", "failing"} /\ Go(w, NextPending(x.todo))
      \/ x.pc = "activate" /\ Go(w, [x EXCEPT !.pc = "purge"])
  BY DEF CallFails
<1>6. CASE /\ x.pc \in {"rest", "listProvisioning"}
           /\ \E y \in {AtRest, [pc |-> "listProvisioning"]} : Go(w, y)
  <2>1. PICK y \in {AtRest, [pc |-> "listProvisioning"]} : Go(w, y)
    BY <1>6
  <2>2. y \in Verifying /\ y.pc \in {"rest", "listProvisioning"}
    BY DEF Verifying, AtRest
  <2>3. /\ ver'[w] = y
        /\ \A u \in Verifiers : u # w => ver'[u] = ver[u]
        /\ ver' \in [Verifiers -> Verifying]
    BY <1>3, <2>1, <2>2, GoesTo
  <2>4. \A i \in Listed : ~Holds(ver'[w], i)
    BY <2>2, <2>3 DEF Holds, WithItem, WithTodo
  <2> QED BY <1>3, <1>4, <1>6, <2>2, <2>3, <2>4 DEF VerifierMoves, VerifierWrites
<1>7. CASE /\ x.pc \in {"pending", "provisioning"}
           /\ \E it \in Listed : Go(w, [x EXCEPT !.todo = x.todo \ {it}])
  <2>1. PICK it \in Listed : Go(w, [x EXCEPT !.todo = x.todo \ {it}])
    BY <1>7
  <2>2. [x EXCEPT !.todo = x.todo \ {it}] = [pc |-> x.pc, todo |-> x.todo \ {it}]
    BY <1>1, <1>7 DEF Verifying
  <2>3. [pc |-> x.pc, todo |-> x.todo \ {it}] \in Verifying
    BY <1>2, <1>7 DEF Verifying, WithTodo
  <2>4. /\ ver'[w] = [pc |-> x.pc, todo |-> x.todo \ {it}]
        /\ \A u \in Verifiers : u # w => ver'[u] = ver[u]
        /\ ver' \in [Verifiers -> Verifying]
    BY <1>3, <2>1, <2>2, <2>3, GoesTo
  <2>5. \A i \in Listed : Holds(ver'[w], i) => Holds(x, i)
    BY <1>7, <2>4 DEF Holds, WithItem
  <2>6. VerifierMoves(w) /\ VerifierWrites(w) /\ doms' = doms
    BY <1>3, <1>4, <2>4, <2>5 DEF VerifierMoves, VerifierWrites
  <2>7. ver'[w].pc = x.pc /\ ver'[w].todo \subseteq x.todo
    BY <2>4
  <2> QED BY <1>7, <2>6, <2>7
<1>8. CASE x.pc \in {"provisioned", "failing"} /\ Go(w, NextPending(x.todo))
  <2>1. NextPending(x.todo) \in Verifying
    BY <1>2, <1>8 DEF Verifying, NextPending, WithTodo
  <2>2. /\ ver'[w] = NextPending(x.todo)
        /\ \A u \in Verifiers : u # w => ver'[u] = ver[u]
        /\ ver' \in [Verifiers -> Verifying]
    BY <1>3, <1>8, <2>1, GoesTo
  <2>3. \A i \in Listed : Holds(ver'[w], i) => Holds(x, i)
    BY <1>8, <2>2 DEF Holds, WithItem, WithTodo, NextPending
  <2> QED BY <1>3, <1>4, <1>8, <2>2, <2>3 DEF VerifierMoves, VerifierWrites
<1>9. CASE x.pc = "activate" /\ Go(w, [x EXCEPT !.pc = "purge"])
  <2>1. [x EXCEPT !.pc = "purge"] = [pc |-> "purge", todo |-> x.todo, it |-> x.it]
    BY <1>1, <1>9 DEF Verifying
  <2>2. [pc |-> "purge", todo |-> x.todo, it |-> x.it] \in Verifying
    BY <1>2, <1>9 DEF Verifying, WithTodo, WithItem
  <2>3. /\ ver'[w] = [pc |-> "purge", todo |-> x.todo, it |-> x.it]
        /\ \A u \in Verifiers : u # w => ver'[u] = ver[u]
        /\ ver' \in [Verifiers -> Verifying]
    BY <1>3, <1>9, <2>1, <2>2, GoesTo
  <2>4. \A i \in Listed : Holds(ver'[w], i) => Holds(x, i)
    BY <1>9, <2>3 DEF Holds, WithItem, WithTodo
  <2> QED BY <1>3, <1>4, <1>9, <2>3, <2>4 DEF VerifierMoves, VerifierWrites
<1> QED BY <1>5, <1>6, <1>7, <1>8, <1>9

LEMMA ActivatedStep ==
  ASSUME TypeOK, NEW w \in Verifiers, Activated(w)
  PROVE  /\ VerifierMoves(w) /\ VerifierWrites(w) /\ doms' = doms
         /\ ver[w].pc = "purge" /\ ver'[w] = NextProvisioning(ver[w].todo)
<1> DEFINE x == ver[w]
<1>1. x \in Verifying /\ x.pc = "purge"
  BY DEF TypeOK, Activated
<1>2. x.todo \in SUBSET Listed
  BY <1>1, VerifyingFields DEF WithTodo
<1>3. ver \in [Verifiers -> Verifying] /\ res \in [ResName -> Resources] /\ faults \in 0..MaxFaults
  BY DEF TypeOK
<1>4. NextProvisioning(x.todo) \in Verifying
  BY <1>2 DEF Verifying, NextProvisioning
<1>5. /\ ver'[w] = NextProvisioning(x.todo)
      /\ \A u \in Verifiers : u # w => ver'[u] = ver[u]
      /\ ver' \in [Verifiers -> Verifying]
  BY <1>3, <1>4, GoesTo DEF Activated
<1>6. \A i \in Listed : Holds(ver'[w], i) => Holds(x, i)
  BY <1>1, <1>5 DEF Holds, NextProvisioning, WithItem, WithTodo
<1>7. UNCHANGED <<tenants, doms, issued, aged, res, adm, begun, faults>>
  BY DEF Activated, tables, counts
<1> QED BY <1>1, <1>3, <1>5, <1>6, <1>7 DEF VerifierMoves, VerifierWrites

\* All of them; only Activated leaves "purge".
LEMMA VerifierEffect ==
  ASSUME TypeOK, NEW w \in Verifiers, ListPending(w) \/ VerifierStep(w)
  PROVE  VerifierMoves(w) /\ VerifierWrites(w) /\ ver[w].pc # "purge"
BY PendingSteps, CheckCertificateStep, CreateSteps, FinishStep, ActivateStep, ListSteps,
   CallFailsStep DEF VerifierStep

-----------------------------------------------------------------------------
(* The requests of admins, by what they do to the rows.                    *)

LEMMA RequestFields ==
  ASSUME NEW x \in Request
  PROVE  /\ x.pc \in {"idle", "delete", "setPrimary", "unsetPrimary", "purge"}
         /\ x.pc = "delete" => x.id \in Did /\ x.domain \in Domain /\ x.left \in Cleanup
         /\ x.pc = "setPrimary" => x.id \in Did /\ x.tenant \in Tenant
         /\ x.pc \in {"unsetPrimary", "purge"} => x.tenant \in Tenant
BY DEF Request

LEMMA IdleType == Idle \in Request /\ Idle \in Visiting /\ Idle.pc = "idle"
BY DEF Idle, Request, Visiting

LEMMA ContinuesTo ==
  ASSUME adm \in [Admins -> Request], NEW a \in Admins, NEW x \in Request, Continue(a, x)
  PROVE  /\ adm'[a] = x
         /\ \A b \in Admins : b # a => adm'[b] = adm[b]
         /\ adm' \in [Admins -> Request]
BY DEF Continue

LEMMA BeginType ==
  ASSUME TypeOK, NEW a \in Admins, Begin(a)
  PROVE  begun' \in 0..MaxRequests /\ faults' \in 0..MaxFaults /\ adm[a].pc = "idle"
BY DomainsAssumption, IdleType DEF TypeOK, Begin

\* What all of them have in common.
AdminMoves(a) ==
  /\ adm' \in [Admins -> Request]
  /\ \A b \in Admins : b # a => adm'[b] = adm[b]
  /\ UNCHANGED <<aged, ver>>
  /\ res' \in [ResName -> Resources]
  /\ begun' \in 0..MaxRequests /\ faults' \in 0..MaxFaults
  /\ adm[a].pc # "purge"

Adds(d, t, name) ==
  /\ d \notin issued /\ issued' = issued \cup {d}
  /\ \A e \in Did : Live(e) => doms[e].domain # name
  /\ \E row \in DomainRow :
       /\ doms' = [doms EXCEPT ![d] = row]
       /\ row.domain = name /\ row.tenant = t /\ row.status = "pending" /\ row.primary = FALSE
  /\ UNCHANGED tenants

\* Rows go: one, or with their tenant, which is gone for good.
Removes(a) ==
  /\ doms' \in [Did -> DomainRow \cup {NoRow}]
  /\ \A d \in Did : doms'[d] \in {doms[d], NoRow}
  /\ \A d \in Did : doms'[d] # doms[d] =>
       \/ adm[a].pc = "delete" /\ adm[a].id = d /\ UNCHANGED tenants
       \/ tenants' = [tenants EXCEPT ![doms[d].tenant] = "gone"]
  /\ tenants' = tenants \/ \E t \in Tenant : tenants' = [tenants EXCEPT ![t] = "gone"]
  /\ UNCHANGED issued

Flags(a, t, ids) ==
  /\ doms' = WithPrimary(t, ids)
  /\ adm'[a].pc = "purge" /\ adm'[a].tenant = t
  /\ UNCHANGED <<tenants, issued>>

Switches == \* is_active
  /\ tenants' \in [Tenant -> {"active", "inactive", "gone"}]
  /\ \A t \in Tenant : tenants'[t] = "gone" <=> tenants[t] = "gone"
  /\ UNCHANGED <<doms, issued>>

AdminWrites(a) ==
  \/ \E d \in Did, t \in Tenant, name \in Domain : Adds(d, t, name)
  \/ Removes(a)
  \/ \E t \in Tenant : Flags(a, t, {})
  \/ \E t \in Tenant, d \in Did : Live(d) /\ doms[d].status = "active" /\ Flags(a, t, {d})
  \/ Switches

LEMMA AddStep ==
  ASSUME TypeOK, NEW a \in Admins, NEW d \in Did, NEW t \in Tenant, NEW name \in Domain,
         TenantAddDomain(a, d, t, name)
  PROVE  AdminMoves(a) /\ AdminWrites(a)
<1>1. begun' \in 0..MaxRequests /\ faults' \in 0..MaxFaults /\ adm[a].pc = "idle"
  BY BeginType DEF TenantAddDomain
<1>2. AdminMoves(a)
  BY <1>1 DEF TenantAddDomain, AdminMoves, TypeOK
<1>3. [domain |-> name, tenant |-> t, status |-> "pending", primary |-> FALSE] \in DomainRow
  BY DEF DomainRow, Status
<1>4. Adds(d, t, name)
  BY <1>3 DEF TenantAddDomain, Adds
<1> QED BY <1>2, <1>4 DEF AdminWrites

LEMMA ReadSteps ==
  ASSUME TypeOK, NEW a \in Admins, NEW d \in Did,
         DeleteRead(a, d) \/ SetPrimaryRead(a, d) \/ UnsetPrimaryRead(a, d)
  PROVE  AdminMoves(a) /\ Switches
<1>1. begun' \in 0..MaxRequests /\ faults' \in 0..MaxFaults /\ adm[a].pc = "idle"
  BY BeginType DEF DeleteRead, SetPrimaryRead, UnsetPrimaryRead
<1>2. adm \in [Admins -> Request] /\ doms[d] \in DomainRow
  BY DEF TypeOK, DeleteRead, SetPrimaryRead, UnsetPrimaryRead, Live
<1>3. doms[d].domain \in Domain /\ doms[d].tenant \in Tenant
  BY <1>2, RowFields
<1>4. \E x \in Request : Continue(a, x)
  BY <1>3 DEF DeleteRead, SetPrimaryRead, UnsetPrimaryRead, Request, Cleanup
<1>5. UNCHANGED <<tables, res, ver>>
  BY DEF DeleteRead, SetPrimaryRead, UnsetPrimaryRead
<1>6. AdminMoves(a)
  BY <1>1, <1>2, <1>4, <1>5, ContinuesTo DEF AdminMoves, TypeOK, tables
<1> QED BY <1>5, <1>6 DEF Switches, TypeOK, tables

LEMMA TenantSteps ==
  ASSUME TypeOK, NEW a \in Admins, NEW t \in Tenant, TenantUpdate(a, t) \/ TenantDelete(a, t)
  PROVE  AdminMoves(a) /\ (Switches \/ Removes(a))
<1>1. begun' \in 0..MaxRequests /\ faults' \in 0..MaxFaults /\ adm[a].pc = "idle"
  BY BeginType DEF TenantUpdate, TenantDelete
<1>2. AdminMoves(a)
  BY <1>1 DEF TenantUpdate, TenantDelete, AdminMoves, TypeOK
<1>3. CASE TenantUpdate(a, t)
  BY <1>2, <1>3 DEF TenantUpdate, Switches, TypeOK
<1>4. CASE TenantDelete(a, t)
  <2>1. doms \in [Did -> DomainRow \cup {NoRow}]
    BY DEF TypeOK
  <2>2. /\ \A d \in Did : doms'[d] = IF Live(d) /\ doms[d].tenant = t THEN NoRow ELSE doms[d]
        /\ doms' \in [Did -> DomainRow \cup {NoRow}]
    BY <1>4, <2>1 DEF TenantDelete
  <2>3. tenants' = [tenants EXCEPT ![t] = "gone"] /\ issued' = issued
    BY <1>4 DEF TenantDelete
  <2> QED BY <1>2, <2>2, <2>3 DEF Removes
<1> QED BY <1>2, <1>3, <1>4

LEMMA CleanupTail ==
  ASSUME NEW left \in Cleanup, left # <<>>
  PROVE  Tail(left) \in Cleanup /\ Head(left) \in Resource
<1>1. CASE left = <<"route", "certificate", "secret">>
  <2>1. Tail(left) = <<"certificate", "secret">> /\ Head(left) = "route"
    BY <1>1
  <2> QED BY <2>1 DEF Cleanup, Resource
<1>2. CASE left = <<"certificate", "secret">>
  <2>1. Tail(left) = <<"secret">> /\ Head(left) = "certificate"
    BY <1>2
  <2> QED BY <2>1 DEF Cleanup, Resource
<1>3. CASE left = <<"secret">>
  <2>1. Tail(left) = <<>> /\ Head(left) = "secret"
    BY <1>3
  <2> QED BY <2>1 DEF Cleanup, Resource
<1> QED BY <1>1, <1>2, <1>3 DEF Cleanup

LEMMA CleanupGoesOn ==
  ASSUME NEW x \in Request, x.pc = "delete", NEW left \in Cleanup
  PROVE  /\ [x EXCEPT !.left = left]
              = [pc |-> "delete", id |-> x.id, domain |-> x.domain, left |-> left]
         /\ [x EXCEPT !.left = left] \in Request
<1> HIDE DEF Cleanup
<1>1. x \in [pc : {"delete"}, id : Did, domain : Domain, left : Cleanup]
  BY DEF Request
<1>2. [x EXCEPT !.left = left]
        = [pc |-> "delete", id |-> x.id, domain |-> x.domain, left |-> left]
  BY <1>1
<1> QED BY <1>1, <1>2 DEF Request

LEMMA DeleteSteps ==
  ASSUME TypeOK, NEW a \in Admins, DeleteResource(a) \/ DeleteWrite(a)
  PROVE  AdminMoves(a) /\ Removes(a)
<1> DEFINE x == adm[a]
<1>1. x \in Request /\ x.pc = "delete"
  BY DEF TypeOK, DeleteResource, DeleteWrite
<1>2. x.id \in Did /\ x.domain \in Domain /\ x.left \in Cleanup
  BY <1>1, RequestFields
<1>3. doms \in [Did -> DomainRow \cup {NoRow}] /\ res \in [ResName -> Resources]
      /\ adm \in [Admins -> Request] /\ begun \in 0..MaxRequests /\ faults \in 0..MaxFaults
  BY DEF TypeOK
<1>4. CASE DeleteResource(a)
  <2>1. Tail(x.left) \in Cleanup /\ Head(x.left) \in Resource
    BY <1>2, <1>4, CleanupTail DEF DeleteResource
  <2>2. [x EXCEPT !.left = Tail(x.left)] \in Request
    BY <1>1, <2>1, CleanupGoesOn
  <2>4. Continue(a, [x EXCEPT !.left = Tail(x.left)])
    BY <1>4 DEF DeleteResource
  <2>5. res' \in [ResName -> Resources] /\ faults' \in 0..MaxFaults
    <3>1. \A n \in ResName, k \in Resource : [res[n] EXCEPT ![k] = None] \in Resources
      BY <1>3 DEF Resources
    <3>2. CASE res' = res /\ Fault
      BY <1>3, <3>2, FaultType
    <3>3. CASE /\ res' = [res EXCEPT ![SanitizeDomain[x.domain]][Head(x.left)] = None]
               /\ UNCHANGED faults
      <4>1. SanitizeDomain[x.domain] \in ResName
        BY <1>2, DomainsAssumption
      <4> QED BY <1>3, <2>1, <3>1, <3>3, <4>1
    <3> QED BY <1>4, <3>2, <3>3 DEF DeleteResource
  <2>6. UNCHANGED <<tables, ver, begun>>
    BY <1>4 DEF DeleteResource
  <2>7. AdminMoves(a)
    BY <1>1, <1>3, <2>2, <2>4, <2>5, <2>6, ContinuesTo DEF AdminMoves, tables
  <2> QED BY <1>3, <2>6, <2>7 DEF Removes, tables
<1>5. CASE DeleteWrite(a)
  <2>1. doms' = [doms EXCEPT ![x.id] = NoRow] /\ Continue(a, Idle)
        /\ UNCHANGED <<tenants, issued, aged, res, ver, begun, faults>>
    BY <1>5 DEF DeleteWrite, counts
  <2>2. AdminMoves(a)
    BY <1>1, <1>3, <2>1, IdleType, ContinuesTo DEF AdminMoves
  <2> QED BY <1>1, <1>2, <1>3, <2>1, <2>2 DEF Removes
<1> QED BY <1>4, <1>5

LEMMA PrimarySteps ==
  ASSUME TypeOK, NEW a \in Admins,
         SetPrimary(a) \/ SetPrimaryFails(a) \/ UnsetPrimary(a) \/ StatementFails(a)
  PROVE  AdminMoves(a) /\ AdminWrites(a)
<1> DEFINE x == adm[a]
<1>1. x \in Request /\ x.pc \in {"setPrimary", "unsetPrimary", "delete"}
  BY DEF TypeOK, SetPrimary, SetPrimaryFails, UnsetPrimary, StatementFails
<1>2. adm \in [Admins -> Request] /\ res \in [ResName -> Resources]
      /\ begun \in 0..MaxRequests /\ faults \in 0..MaxFaults
  BY DEF TypeOK
<1>3. CASE SetPrimaryFails(a) \/ StatementFails(a)
  <2>1. Continue(a, Idle) /\ UNCHANGED <<tables, res, ver, begun>> /\ faults' \in 0..MaxFaults
    BY <1>2, <1>3, FaultType DEF SetPrimaryFails, StatementFails, counts
  <2>2. AdminMoves(a)
    BY <1>1, <1>2, <2>1, IdleType, ContinuesTo DEF AdminMoves, tables
  <2> QED BY <2>1, <2>2 DEF AdminWrites, Switches, TypeOK, tables
<1>4. CASE SetPrimary(a) \/ UnsetPrimary(a)
  <2>1. /\ x.pc \in {"setPrimary", "unsetPrimary"} /\ x.tenant \in Tenant
        /\ x.pc = "setPrimary" => x.id \in Did
    BY <1>1, <1>4, RequestFields DEF SetPrimary, UnsetPrimary
  <2>2. Continue(a, [pc |-> "purge", tenant |-> x.tenant])
        /\ UNCHANGED <<tenants, issued, aged, res, ver, begun, faults>>
    BY <1>4 DEF SetPrimary, UnsetPrimary, counts
  <2>3. [pc |-> "purge", tenant |-> x.tenant] \in Request
    BY <2>1 DEF Request
  <2>4. AdminMoves(a) /\ adm'[a] = [pc |-> "purge", tenant |-> x.tenant]
    BY <1>2, <2>1, <2>2, <2>3, ContinuesTo DEF AdminMoves
  <2>5. CASE SetPrimary(a)
    <3>1. x.id \in Did /\ Live(x.id) /\ doms[x.id].status = "active"
          /\ doms' = WithPrimary(x.tenant, {x.id})
      BY <2>1, <2>5 DEF SetPrimary
    <3>2. Flags(a, x.tenant, {x.id})
      BY <2>2, <2>4, <3>1 DEF Flags
    <3> QED BY <2>1, <2>4, <3>1, <3>2 DEF AdminWrites
  <2>6. CASE UnsetPrimary(a)
    <3>1. Flags(a, x.tenant, {})
      BY <2>2, <2>4, <2>6 DEF Flags, UnsetPrimary
    <3> QED BY <2>1, <2>4, <3>1 DEF AdminWrites
  <2> QED BY <1>4, <2>5, <2>6
<1> QED BY <1>3, <1>4

LEMMA AdminEffect ==
  ASSUME TypeOK, NEW a \in Admins, AdminStep(a) \/ AdminBegin(a)
  PROVE  AdminMoves(a) /\ AdminWrites(a)
BY AddStep, ReadSteps, TenantSteps, DeleteSteps, PrimarySteps
DEF AdminStep, AdminBegin, AdminWrites

-----------------------------------------------------------------------------
(* The public requests, by what they do to the caches.                     *)

LEMMA VisitingFields ==
  ASSUME NEW x \in Visiting
  PROVE  /\ x.pc \in {"find", "keep", "keepCanonical"} => x.host \in Host
         /\ x.pc \in {"keep", "canonical", "primary", "keepCanonical"} => x.tenant \in Tenant
BY DEF Visiting

LEMMA VisitingType ==
  ASSUME NEW t \in Tenant, NEW h \in Host
  PROVE  /\ Idle \in Visiting /\ [pc |-> "find", host |-> h] \in Visiting
         /\ [pc |-> "keep", host |-> h, tenant |-> t] \in Visiting
         /\ [pc |-> "canonical", tenant |-> t] \in Visiting
         /\ [pc |-> "primary", tenant |-> t] \in Visiting
         /\ [pc |-> "keepCanonical", tenant |-> t, host |-> h] \in Visiting
BY DEF Visiting, Idle

LEMMA BecomesType ==
  ASSUME vis \in [Visitors -> Visiting], NEW v \in Visitors, NEW x \in Visiting, Become(v, x)
  PROVE  vis' \in [Visitors -> Visiting]
BY DEF Become

\* The tenant's primary domains: at most one, by the unique index.
Primaries(t) == {d \in Did : Live(d) /\ doms[d].tenant = t /\ doms[d].primary}

LEMMA CanonicalType ==
  ASSUME TypeOK, NEW t \in Tenant
  PROVE  Canonical(t) \in Host
<1>1. Canonical(t) = IF Primaries(t) = {} THEN t ELSE doms[CHOOSE d \in Primaries(t) : TRUE].domain
  BY DEF Canonical, Primaries
<1>2. CASE Primaries(t) = {}
  BY <1>1, <1>2 DEF Host
<1>3. CASE Primaries(t) # {}
  <2>1. PICK d : d = CHOOSE e \in Primaries(t) : TRUE
    OBVIOUS
  <2>2. d \in Primaries(t)
    BY <1>3, <2>1
  <2>3. doms[d] \in DomainRow
    BY <2>2 DEF Primaries, TypeOK, Live
  <2> QED BY <1>1, <1>3, <2>1, <2>3, RowFields DEF Host
<1> QED BY <1>2, <1>3

\* The primary domain of the same tenant, under the same name, before and after.
LEMMA CanonicalKept ==
  ASSUME NEW t \in Tenant, Primaries(t)' = Primaries(t),
         \A d \in Primaries(t) : doms'[d].domain = doms[d].domain
  PROVE  Canonical(t)' = Canonical(t)
<1> DEFINE P == Primaries(t)
           Q == Primaries(t)'
           c == CHOOSE d \in P : TRUE
<1>1. Canonical(t) = IF P = {} THEN t ELSE doms[c].domain
  BY DEF Canonical, Primaries
<1>2. Canonical(t)' = IF Q = {} THEN t ELSE doms'[CHOOSE d \in Q : TRUE].domain
  BY DEF Canonical, Primaries
<1>3. P = Q
  OBVIOUS
<1> HIDE DEF Q
<1>4. Canonical(t)' = IF P = {} THEN t ELSE doms'[c].domain
  BY <1>2, <1>3
<1>5. P # {} => c \in P
  OBVIOUS
<1> QED BY <1>1, <1>4, <1>5

\* What every visitor step leaves alone, ...
VisitorMoves ==
  /\ vis' \in [Visitors -> Visiting]
  /\ UNCHANGED <<tables, res, ver, adm, begun>>
  /\ faults' \in 0..MaxFaults

\* ... and what it stores.
KeepsOwner(h, t) ==
  /\ owner' = [owner EXCEPT ![h] = t]
  /\ staleOwner' = Marked(staleOwner, h, FindTenant(h) # {t})
  /\ UNCHANGED <<canon, staleCanon>>

KeepsCanon(t, h) ==
  /\ canon' = [canon EXCEPT ![t] = h]
  /\ staleCanon' = Marked(staleCanon, t, Canonical(t) # h)
  /\ UNCHANGED <<owner, staleOwner>>

Keeps ==
  \/ UNCHANGED <<caches, stale>>
  \/ \E h \in Host, t \in Tenant : KeepsOwner(h, t) \/ KeepsCanon(t, h)

LEMMA LookSteps ==
  ASSUME TypeOK, NEW v \in Visitors, NEW h \in Host,
         OwnerHit(v, h) \/ OwnerMiss(v, h) \/ ReadTenant(v)
  PROVE  VisitorMoves /\ Keeps
<1>1. vis \in [Visitors -> Visiting] /\ owner \in [Host -> Tenant \cup {Miss}] /\ faults \in 0..MaxFaults
  BY DEF TypeOK
<1>2. UNCHANGED <<tables, res, ver, adm, begun, faults, caches, stale>>
  BY DEF OwnerHit, OwnerMiss, ReadTenant, Reading, domainVars, counts
<1>3. \E x \in Visiting : Become(v, x)
  <2>1. CASE OwnerHit(v, h)
    <3>1. owner[h] \in Tenant /\ Become(v, [pc |-> "canonical", tenant |-> owner[h]])
      BY <1>1, <2>1 DEF OwnerHit, Resolved
    <3> QED BY <1>1, <3>1, VisitingType
  <2>2. CASE OwnerMiss(v, h)
    BY <1>1, <2>2 DEF OwnerMiss, Visiting
  <2>3. CASE ReadTenant(v)
    <3>1. vis[v].host \in Host
      BY <1>1, <2>3, VisitingFields DEF ReadTenant
    <3>2. CASE Become(v, Idle)
      BY <3>2, IdleType
    <3>3. CASE \E t \in FindTenant(vis[v].host) :
                 Become(v, [pc |-> "keep", host |-> vis[v].host, tenant |-> t])
      <4>1. PICK t \in Tenant : Become(v, [pc |-> "keep", host |-> vis[v].host, tenant |-> t])
        BY <3>3 DEF FindTenant
      <4> QED BY <3>1, <4>1, VisitingType
    <3> QED BY <2>3, <3>2, <3>3 DEF ReadTenant
  <2> QED BY <2>1, <2>2, <2>3
<1>4. vis' \in [Visitors -> Visiting]
  BY <1>1, <1>3, BecomesType
<1> QED BY <1>1, <1>2, <1>4 DEF VisitorMoves, Keeps

LEMMA CanonicalSteps ==
  ASSUME TypeOK, NEW v \in Visitors, CanonicalHit(v) \/ CanonicalMiss(v) \/ ReadPrimary(v)
  PROVE  VisitorMoves /\ Keeps
<1>1. vis \in [Visitors -> Visiting] /\ faults \in 0..MaxFaults
  BY DEF TypeOK
<1>2. UNCHANGED <<tables, res, ver, adm, begun, faults, caches, stale>>
  BY DEF CanonicalHit, CanonicalMiss, ReadPrimary, Reading, domainVars, counts
<1>3. vis[v].tenant \in Tenant
  BY <1>1, VisitingFields DEF CanonicalHit, CanonicalMiss, ReadPrimary
<1>4. Canonical(vis[v].tenant) \in Host
  BY <1>3, CanonicalType
<1>5. \E x \in Visiting : Become(v, x)
  BY <1>3, <1>4, VisitingType DEF CanonicalHit, CanonicalMiss, ReadPrimary
<1>6. vis' \in [Visitors -> Visiting]
  BY <1>1, <1>5, BecomesType
<1> QED BY <1>1, <1>2, <1>6 DEF VisitorMoves, Keeps

LEMMA KeepSteps ==
  ASSUME TypeOK, NEW v \in Visitors, KeepTenant(v) \/ KeepCanonical(v)
  PROVE  VisitorMoves /\ Keeps
<1>1. vis \in [Visitors -> Visiting] /\ faults \in 0..MaxFaults
  BY DEF TypeOK
<1>2. UNCHANGED <<tables, res, ver, adm, begun, faults>>
  BY DEF KeepTenant, KeepCanonical, domainVars, counts
<1>3. vis[v].tenant \in Tenant /\ vis[v].host \in Host
  BY <1>1, VisitingFields DEF KeepTenant, KeepCanonical
<1>4. \E x \in Visiting : Become(v, x)
  BY <1>3, VisitingType DEF KeepTenant, KeepCanonical, Resolved
<1>5. vis' \in [Visitors -> Visiting]
  BY <1>1, <1>4, BecomesType
<1>6. KeepTenant(v) => KeepsOwner(vis[v].host, vis[v].tenant)
  BY DEF KeepTenant, KeepsOwner
<1>7. KeepCanonical(v) => KeepsCanon(vis[v].tenant, vis[v].host)
  BY DEF KeepCanonical, KeepsCanon
<1> QED BY <1>1, <1>2, <1>3, <1>5, <1>6, <1>7 DEF VisitorMoves, Keeps

LEMMA VisitFailsStep ==
  ASSUME TypeOK, NEW v \in Visitors, VisitFails(v)
  PROVE  VisitorMoves /\ Keeps
<1> DEFINE x == vis[v]
<1>1. vis \in [Visitors -> Visiting] /\ x \in Visiting
  BY DEF TypeOK
<1>2. UNCHANGED <<tables, res, ver, adm, begun, caches, stale>> /\ faults' \in 0..MaxFaults
  BY FaultType DEF VisitFails
<1>3. /\ x.pc = "find" => x.host \in Host
      /\ x.pc \in {"keep", "canonical", "primary"} => x.tenant \in Tenant
  BY <1>1, VisitingFields
<1>4. ASSUME x.pc = "canonical"
      PROVE  [x EXCEPT !.pc = "primary"] = [pc |-> "primary", tenant |-> x.tenant]
  BY <1>1, <1>4 DEF Visiting
<1>5. \E y \in Visiting : Become(v, y)
  <2>1. CASE \E h \in Asked : Become(v, [pc |-> "find", host |-> h])
    BY <2>1, HostsAssumption DEF Visiting
  <2>2. CASE x.pc = "canonical" /\ Become(v, [x EXCEPT !.pc = "primary"])
    BY <1>3, <1>4, <2>2 DEF Visiting
  <2>3. CASE x.pc = "keep" /\ Resolved(v, x.tenant)
    BY <1>3, <2>3 DEF Visiting, Resolved
  <2>4. CASE Become(v, Idle)
    BY <2>4, IdleType
  <2>5. CASE x.pc = "primary" /\ Become(v, [pc |-> "keepCanonical", tenant |-> x.tenant,
                                            host |-> x.tenant])
    BY <1>3, <2>5 DEF Visiting, Host
  <2> QED BY <2>1, <2>2, <2>3, <2>4, <2>5 DEF VisitFails
<1>6. vis' \in [Visitors -> Visiting]
  BY <1>1, <1>5, BecomesType
<1> QED BY <1>2, <1>6 DEF VisitorMoves, Keeps

LEMMA VisitorEffect ==
  ASSUME TypeOK, NEW v \in Visitors,
         (\E h \in Asked : OwnerHit(v, h) \/ OwnerMiss(v, h)) \/ VisitorStep(v)
  PROVE  VisitorMoves /\ Keeps
<1>1. ReadTenant(v) => vis[v].host \in Host
  BY VisitingFields DEF ReadTenant, TypeOK
<1>2. (\E h \in Host : OwnerHit(v, h) \/ OwnerMiss(v, h) \/ ReadTenant(v))
        => VisitorMoves /\ Keeps
  BY LookSteps
<1>3. (\E h \in Asked : OwnerHit(v, h) \/ OwnerMiss(v, h)) => VisitorMoves /\ Keeps
  BY <1>2, HostsAssumption
<1>4. ReadTenant(v) => VisitorMoves /\ Keeps
  BY <1>1, <1>2
<1> QED BY <1>3, <1>4, CanonicalSteps, KeepSteps, VisitFailsStep DEF VisitorStep

-----------------------------------------------------------------------------
(* What becomes of the rows.                                               *)

\* No row changes its domain; a new one has an id that was not in use before.
RowsGo ==
  /\ tenants' \in [Tenant -> {"active", "inactive", "gone"}]
  /\ doms' \in [Did -> DomainRow \cup {NoRow}]
  /\ UniqueDomains(doms')
  /\ issued \subseteq issued' /\ issued' \subseteq Did
  /\ \A d \in Did : Live(d)' =>
       \/ Live(d) /\ doms'[d].domain = doms[d].domain
       \/ d \notin issued /\ d \in issued'
  /\ \A t \in Tenant : tenants[t] = "gone" => tenants'[t] = "gone"

\* Row d is active with the domain and tenant it had before.
WasActive(d) ==
  /\ Live(d) /\ doms[d].status = "active"
  /\ doms'[d].domain = doms[d].domain /\ doms'[d].tenant = doms[d].tenant

NoneActivated == \A d \in Did : Live(d)' /\ doms'[d].status = "active" => WasActive(d)

\* Columns but for the status are kept, and no row comes or goes.
LEMMA StatusRows ==
  ASSUME TypeOK, NEW id \in Did, NEW s \in Status, SetStatus(id, s),
         UNCHANGED <<tenants, issued>>
  PROVE  /\ RowsGo
         /\ \A t \in Tenant : Canonical(t)' = Canonical(t)
         /\ \A d \in Did : Live(d)' /\ doms'[d].status = "active" /\ ~(d = id /\ s = "active")
                             => WasActive(d)
<1>1. /\ tenants \in [Tenant -> {"active", "inactive", "gone"}]
      /\ issued \subseteq Did /\ UniqueDomains(doms)
  BY DEF TypeOK
<1>2. /\ doms' \in [Did -> DomainRow \cup {NoRow}]
      /\ RowsKept
      /\ \A d \in Did : Live(d)' <=> Live(d)
      /\ \A d \in Did : Live(d) => doms'[d].primary = doms[d].primary
      /\ \A d \in Did : d # id => doms'[d] = doms[d]
      /\ Live(id) => doms'[id].status = s
  BY StatusSet
<1>3. RowsGo
  BY <1>1, <1>2, UniqueKept DEF RowsGo, RowsKept, Live
<1>4. ASSUME NEW t \in Tenant
      PROVE  Canonical(t)' = Canonical(t)
  <2>1. Primaries(t)' = Primaries(t)
    BY <1>2 DEF Primaries, RowsKept, Live
  <2>2. \A d \in Primaries(t) : doms'[d].domain = doms[d].domain
    BY <1>2 DEF Primaries, RowsKept, Live
  <2> QED BY <2>1, <2>2, CanonicalKept
<1>5. \A d \in Did : Live(d)' /\ doms'[d].status = "active" /\ ~(d = id /\ s = "active")
                       => WasActive(d)
  BY <1>2 DEF RowsKept, WasActive, Live
<1> QED BY <1>3, <1>4, <1>5

LEMMA AddsRows ==
  ASSUME TypeOK, \A d \in Did : Live(d) => d \in issued,
         NEW d \in Did, NEW t \in Tenant, NEW name \in Domain, Adds(d, t, name)
  PROVE  RowsGo /\ NoneActivated /\ \A u \in Tenant : Canonical(u)' = Canonical(u)
<1>1. /\ tenants \in [Tenant -> {"active", "inactive", "gone"}]
      /\ doms \in [Did -> DomainRow \cup {NoRow}]
      /\ issued \subseteq Did /\ UniqueDomains(doms)
  BY DEF TypeOK
<1>2. PICK row \in DomainRow :
        /\ doms' = [doms EXCEPT ![d] = row]
        /\ row.domain = name /\ row.tenant = t /\ row.status = "pending" /\ row.primary = FALSE
  BY DEF Adds
<1>3. row # NoRow /\ ~Live(d) /\ \A e \in Did : doms'[e] = IF e = d THEN row ELSE doms[e]
  BY <1>1, <1>2, RowFields DEF Adds
<1>4. \A e \in Did : doms[e] # NoRow => doms[e].domain # name
  BY DEF Adds, Live
<1>5. UniqueDomains(doms')
  BY <1>1, <1>2, <1>3, <1>4 DEF UniqueDomains
<1>6. doms' \in [Did -> DomainRow \cup {NoRow}]
  BY <1>1, <1>2
<1>7. RowsGo
  BY <1>1, <1>3, <1>5, <1>6 DEF RowsGo, Adds, Live
<1>8. NoneActivated
  BY <1>2, <1>3 DEF NoneActivated, WasActive, Live
<1>9. ASSUME NEW u \in Tenant
      PROVE  Canonical(u)' = Canonical(u)
  <2>1. Primaries(u)' = Primaries(u)
    BY <1>2, <1>3 DEF Primaries, Live
  <2>2. \A e \in Primaries(u) : doms'[e].domain = doms[e].domain
    BY <1>3 DEF Primaries
  <2> QED BY <2>1, <2>2, CanonicalKept
<1> QED BY <1>7, <1>8, <1>9

LEMMA RemovesRows ==
  ASSUME TypeOK, NEW a \in Admins, Removes(a)
  PROVE  /\ RowsGo /\ NoneActivated
         /\ \A t \in Tenant : \/ Canonical(t)' = Canonical(t)
                              \/ t \in PrimaryDeleted(a) /\ doms' # doms
                              \/ tenants'[t] = "gone"
<1>1. /\ tenants \in [Tenant -> {"active", "inactive", "gone"}]
      /\ doms \in [Did -> DomainRow \cup {NoRow}]
      /\ issued \subseteq Did /\ UniqueDomains(doms)
  BY DEF TypeOK
<1>2. doms' \in [Did -> DomainRow \cup {NoRow}] /\ \A d \in Did : doms'[d] \in {doms[d], NoRow}
  BY DEF Removes
<1>3. RowsKept
  BY <1>2 DEF RowsKept
<1>4. /\ tenants' \in [Tenant -> {"active", "inactive", "gone"}]
      /\ \A t \in Tenant : tenants[t] = "gone" => tenants'[t] = "gone"
  BY <1>1 DEF Removes
<1>5. RowsGo
  BY <1>1, <1>2, <1>3, <1>4, UniqueKept DEF RowsGo, RowsKept, Live, Removes
<1>6. NoneActivated
  BY <1>2 DEF NoneActivated, WasActive, Live
<1>7. ASSUME NEW t \in Tenant,
             \A d \in Primaries(t) : doms'[d] = doms[d]
      PROVE  Canonical(t)' = Canonical(t)
  <2>1. Primaries(t)' = Primaries(t)
    BY <1>2, <1>7 DEF Primaries, Live
  <2> QED BY <1>7, <2>1, CanonicalKept
<1>8. ASSUME NEW t \in Tenant, NEW d \in Primaries(t), doms'[d] # doms[d]
      PROVE  \/ t \in PrimaryDeleted(a) /\ doms' # doms
             \/ tenants'[t] = "gone"
  <2>1. d \in Did /\ Live(d) /\ doms[d].tenant = t /\ doms[d].primary
    BY <1>8 DEF Primaries
  <2>2. CASE adm[a].pc = "delete" /\ adm[a].id = d
    BY <1>8, <2>1, <2>2 DEF PrimaryDeleted
  <2>3. CASE tenants' = [tenants EXCEPT ![doms[d].tenant] = "gone"]
    BY <1>1, <2>1, <2>3
  <2> QED BY <1>8, <2>1, <2>2, <2>3 DEF Removes
<1> QED BY <1>5, <1>6, <1>7, <1>8

LEMMA WithPrimaryRows ==
  ASSUME TypeOK, NEW t \in Tenant, NEW ids, NEW d \in Did, NEW row, row = WithPrimary(t, ids)[d]
  PROVE  /\ row \in DomainRow \cup {NoRow}
         /\ row # NoRow <=> Live(d)
         /\ Live(d) => /\ row.domain = doms[d].domain /\ row.tenant = doms[d].tenant
                       /\ row.status = doms[d].status
                       /\ row.primary = IF doms[d].tenant = t THEN d \in ids ELSE doms[d].primary
<1>1. row = IF Live(d) /\ doms[d].tenant = t THEN [doms[d] EXCEPT !.primary = d \in ids]
            ELSE doms[d]
  BY DEF WithPrimary
<1>2. doms[d] \in DomainRow \cup {NoRow}
  BY DEF TypeOK
<1>3. CASE Live(d) /\ doms[d].tenant = t
  <2>1. doms[d] \in DomainRow
    BY <1>2, <1>3 DEF Live
  <2>2. (d \in ids) \in BOOLEAN
    OBVIOUS
  <2>3. PICK p \in BOOLEAN : p = (d \in ids)
    BY <2>2
  <2>4. row = [doms[d] EXCEPT !.primary = p]
    BY <1>1, <1>3, <2>3
  <2>5. /\ row \in DomainRow
        /\ row.domain = doms[d].domain /\ row.tenant = doms[d].tenant
        /\ row.status = doms[d].status /\ row.primary = p
    BY <2>1, <2>4 DEF DomainRow
  <2> QED BY <1>3, <2>3, <2>5, RowFields
<1>4. CASE ~(Live(d) /\ doms[d].tenant = t)
  BY <1>1, <1>2, <1>4 DEF Live
<1> QED BY <1>3, <1>4

LEMMA FlagsRows ==
  ASSUME TypeOK, NEW a \in Admins, NEW t \in Tenant, NEW ids, Flags(a, t, ids),
         \A d, e \in ids : d = e
  PROVE  /\ RowsGo /\ NoneActivated
         /\ \A u \in Tenant \ {t} : Canonical(u)' = Canonical(u)
<1>1. /\ tenants \in [Tenant -> {"active", "inactive", "gone"}]
      /\ issued \subseteq Did /\ UniqueDomains(doms)
  BY DEF TypeOK
<1>2. \A d \in Did :
        /\ doms'[d] \in DomainRow \cup {NoRow}
        /\ doms'[d] # NoRow <=> Live(d)
        /\ Live(d) => /\ doms'[d].domain = doms[d].domain /\ doms'[d].tenant = doms[d].tenant
                      /\ doms'[d].status = doms[d].status
                      /\ doms'[d].primary
                           = IF doms[d].tenant = t THEN d \in ids ELSE doms[d].primary
  BY WithPrimaryRows DEF Flags
<1>3. doms' \in [Did -> DomainRow \cup {NoRow}]
  BY <1>2 DEF Flags, WithPrimary
<1>4. UniqueDomains(doms')
  <2>1. SUFFICES ASSUME NEW d \in Did, NEW e \in Did, d # e, doms'[d] # NoRow, doms'[e] # NoRow
                 PROVE  /\ doms'[d].domain # doms'[e].domain
                        /\ doms'[d].primary /\ doms'[e].primary
                             => doms'[d].tenant # doms'[e].tenant
    BY DEF UniqueDomains
  <2>2. Live(d) /\ Live(e)
    BY <1>2, <2>1
  <2>3. doms[d].domain # doms[e].domain
        /\ (doms[d].primary /\ doms[e].primary => doms[d].tenant # doms[e].tenant)
    BY <1>1, <2>1, <2>2 DEF UniqueDomains, Live
  <2>4. /\ doms'[d].domain = doms[d].domain /\ doms'[d].tenant = doms[d].tenant
        /\ doms'[d].primary = IF doms[d].tenant = t THEN d \in ids ELSE doms[d].primary
    BY <1>2, <2>2
  <2>5. /\ doms'[e].domain = doms[e].domain /\ doms'[e].tenant = doms[e].tenant
        /\ doms'[e].primary = IF doms[e].tenant = t THEN e \in ids ELSE doms[e].primary
    BY <1>2, <2>2
  <2>6. CASE doms[d].tenant = t /\ doms[e].tenant = t
    BY <2>1, <2>3, <2>4, <2>5, <2>6
  <2>7. CASE doms[d].tenant # t /\ doms[e].tenant # t
    BY <2>3, <2>4, <2>5, <2>7
  <2>8. CASE doms[d].tenant # doms[e].tenant
    BY <2>3, <2>4, <2>5, <2>8
  <2> QED BY <2>6, <2>7, <2>8
<1>5. RowsGo
  BY <1>1, <1>2, <1>3, <1>4 DEF RowsGo, Live, Flags
<1>6. NoneActivated
  BY <1>2 DEF NoneActivated, WasActive, Live
<1>7. ASSUME NEW u \in Tenant \ {t}
      PROVE  Canonical(u)' = Canonical(u)
  <2>1. Primaries(u)' = Primaries(u)
    BY <1>2 DEF Primaries, Live
  <2>2. \A d \in Primaries(u) : doms'[d].domain = doms[d].domain
    BY <1>2 DEF Primaries, Live
  <2> QED BY <2>1, <2>2, CanonicalKept
<1> QED BY <1>5, <1>6, <1>7

LEMMA SameRows ==
  ASSUME TypeOK, UNCHANGED <<doms, issued>>,
         tenants' = tenants \/ Switches
  PROVE  RowsGo /\ NoneActivated /\ \A t \in Tenant : Canonical(t)' = Canonical(t)
<1>1. RowsGo
  BY DEF RowsGo, TypeOK, Switches, Live
<1>2. NoneActivated
  BY DEF NoneActivated, WasActive, Live
<1>3. \A t \in Tenant : Primaries(t)' = Primaries(t)
  BY DEF Primaries, Live
<1>4. \A t \in Tenant : Canonical(t)' = Canonical(t)
  BY <1>3, CanonicalKept
<1> QED BY <1>1, <1>2, <1>4

LEMMA VerifierRows ==
  ASSUME TypeOK, ListedSound, NEW w \in Verifiers, VerifierMoves(w), VerifierWrites(w)
  PROVE  /\ RowsGo
         /\ \A t \in Tenant : Canonical(t)' = Canonical(t)
         /\ \A d \in Did : Live(d)' /\ doms'[d].status = "active" =>
              WasActive(d) \/ (ver'[w].pc = "purge" /\ ver'[w].it.domain = doms'[d].domain)
<1>1. UNCHANGED <<tenants, issued>>
  BY DEF VerifierMoves
<1>2. CASE doms' = doms
  BY <1>1, <1>2, SameRows DEF NoneActivated
<1>3. ASSUME NEW it \in Listed, NEW s \in Status, Writes(w, it, s)
      PROVE  /\ RowsGo
             /\ \A t \in Tenant : Canonical(t)' = Canonical(t)
             /\ \A d \in Did : Live(d)' /\ doms'[d].status = "active" =>
                  WasActive(d) \/ (ver'[w].pc = "purge" /\ ver'[w].it.domain = doms'[d].domain)
  <2>1. it.id \in Did /\ SetStatus(it.id, s) /\ Holds(ver[w], it)
    BY <1>3, ListedFields DEF Writes
  <2>2. /\ RowsGo
        /\ \A t \in Tenant : Canonical(t)' = Canonical(t)
        /\ \A d \in Did : Live(d)' /\ doms'[d].status = "active"
                            /\ ~(d = it.id /\ s = "active") => WasActive(d)
    BY <1>1, <2>1, StatusRows
  <2>3. ASSUME s = "active", Live(it.id)'
        PROVE  ver'[w].pc = "purge" /\ ver'[w].it.domain = doms'[it.id].domain
    <3>1. ver'[w].pc = "purge" /\ ver'[w].it = it
      BY <1>3, <2>3 DEF Writes
    <3>2. it.id \in issued /\ (Live(it.id) => doms[it.id].domain = it.domain)
      BY <2>1 DEF ListedSound
    <3>3. Live(it.id) /\ doms'[it.id].domain = doms[it.id].domain
      BY <2>1, <2>2, <2>3, <3>2 DEF RowsGo
    <3> QED BY <3>1, <3>2, <3>3
  <2> QED BY <2>1, <2>2, <2>3
<1> QED BY <1>2, <1>3 DEF VerifierWrites

LEMMA AdminRows ==
  ASSUME TypeOK, ListedSound, NEW a \in Admins, AdminMoves(a), AdminWrites(a)
  PROVE  /\ RowsGo /\ NoneActivated
         /\ \A t \in Tenant : \/ Canonical(t)' = Canonical(t)
                              \/ t \in PrimaryDeleted(a) /\ doms' # doms
                              \/ tenants'[t] = "gone"
                              \/ adm'[a].pc = "purge" /\ adm'[a].tenant = t
<1>1. CASE \E d \in Did, t \in Tenant, name \in Domain : Adds(d, t, name)
  BY <1>1, AddsRows DEF ListedSound
<1>2. CASE Removes(a)
  BY <1>2, RemovesRows
<1>3. CASE \E t \in Tenant : Flags(a, t, {})
  <2>1. PICK t \in Tenant : Flags(a, t, {})
    BY <1>3
  <2>2. RowsGo /\ NoneActivated /\ \A u \in Tenant \ {t} : Canonical(u)' = Canonical(u)
    BY <2>1, FlagsRows
  <2> QED BY <2>1, <2>2 DEF Flags
<1>4. CASE \E t \in Tenant, d \in Did : Live(d) /\ doms[d].status = "active" /\ Flags(a, t, {d})
  <2>1. PICK t \in Tenant, d \in Did : Flags(a, t, {d})
    BY <1>4
  <2>2. RowsGo /\ NoneActivated /\ \A u \in Tenant \ {t} : Canonical(u)' = Canonical(u)
    BY <2>1, FlagsRows
  <2> QED BY <2>1, <2>2 DEF Flags
<1>5. CASE Switches
  BY <1>5, SameRows DEF Switches
<1> QED BY <1>1, <1>2, <1>3, <1>4, <1>5 DEF AdminWrites

-----------------------------------------------------------------------------
(* What keeps each part of the invariant.                                  *)

LEMMA PurgingTypes ==
  ASSUME TypeOK
  PROVE  /\ Purging \subseteq Host /\ Canonicalizing \subseteq Tenant
         /\ \A w \in Verifiers : ver[w].pc = "purge" => ver[w].it.domain \in Host
         /\ \A a \in Admins : /\ adm[a].pc = "purge" => adm[a].tenant \in Tenant
                              /\ PrimaryDeleted(a) \subseteq Tenant
<1>1. \A w \in Verifiers : ver[w].pc = "purge" => ver[w].it.domain \in Host
  BY VerifyingFields, ListedFields DEF TypeOK, WithItem, Host
<1>2. \A a \in Admins : adm[a].pc = "purge" => adm[a].tenant \in Tenant
  BY RequestFields DEF TypeOK
<1>3. \A d \in Did : Live(d) => doms[d].tenant \in Tenant
  BY RowFields DEF TypeOK, Live
<1> QED BY <1>1, <1>2, <1>3 DEF Purging, Canonicalizing, PrimaryDeleted

LEMMA ListedKept ==
  ASSUME TypeOK, ListedSound, RowsGo,
         \A w \in Verifiers, it \in Listed : Holds(ver'[w], it) =>
           Holds(ver[w], it) \/ (Live(it.id) /\ it.domain = doms[it.id].domain)
  PROVE  ListedSound'
<1>1. \A d \in Did : Live(d)' => d \in issued'
  BY DEF ListedSound, RowsGo
<1>2. ASSUME NEW w \in Verifiers, NEW it \in Listed, Holds(ver'[w], it)
      PROVE  it.id \in issued' /\ (Live(it.id)' => doms'[it.id].domain = it.domain)
  <2>1. it.id \in Did
    BY ListedFields
  <2>2. it.id \in issued /\ (Live(it.id) => doms[it.id].domain = it.domain)
    BY <1>2, <2>1 DEF ListedSound
  <2> QED BY <2>1, <2>2 DEF RowsGo
<1>3. \A w \in Verifiers, it \in Listed : Holds(ver[w], it)' = Holds(ver'[w], it)
  BY DEF Holds
<1> QED BY <1>1, <1>2, <1>3 DEF ListedSound, Live

\* An entry stays right as long as no row is activated without a purge to come.
LEMMA OwnerKept ==
  ASSUME OwnerSound,
         \A d \in Did : Live(d)' /\ doms'[d].status = "active" =>
           WasActive(d) \/ doms'[d].domain \in Purging',
         \A h \in Host : owner'[h] # Miss =>
           \/ h \in staleOwner' \cup Purging'
           \/ Serves(owner'[h], h)
           \/ owner'[h] = owner[h] /\ h \notin staleOwner \cup Purging
  PROVE  OwnerSound'
<1> SUFFICES ASSUME NEW h \in Host, owner'[h] # Miss, h \notin staleOwner' \cup Purging'
             PROVE  Serves(owner[h], h)'
  BY DEF OwnerSound
<1>1. Serves(owner'[h], h)
  BY DEF OwnerSound
<1>2. ASSUME NEW d \in Did, Live(d)', doms'[d].status = "active", doms'[d].domain = h
      PROVE  doms'[d].tenant = owner'[h]
  <2>1. WasActive(d)
    BY <1>2
  <2> QED BY <1>1, <1>2, <2>1 DEF WasActive, Serves
<1> QED BY <1>1, <1>2 DEF Serves, Live

LEMMA CanonKept ==
  ASSUME CanonicalFresh,
         \A t \in Tenant : canon'[t] # Miss /\ tenants'[t] # "gone" =>
           \/ t \in staleCanon' \cup Canonicalizing'
           \/ canon'[t] = Canonical(t)'
           \/ /\ canon'[t] = canon[t] /\ Canonical(t)' = Canonical(t) /\ tenants[t] # "gone"
              /\ t \notin staleCanon \cup Canonicalizing
  PROVE  CanonicalFresh'
<1> SUFFICES ASSUME NEW t \in Tenant, canon'[t] # Miss, tenants'[t] # "gone",
                    t \notin staleCanon' \cup Canonicalizing'
             PROVE  canon'[t] = Canonical(t)'
  BY DEF CanonicalFresh
<1> QED BY DEF CanonicalFresh

\* The excuses only go with the purge they stand for.
LEMMA VerifierExcuses ==
  ASSUME NEW w \in Verifiers, \A u \in Verifiers : u # w => ver'[u] = ver[u],
         NEW h \in Purging
  PROVE  h \in Purging' \/ (ver[w].pc = "purge" /\ h = ver[w].it.domain)
BY DEF Purging

LEMMA AdminExcuses ==
  ASSUME NEW a \in Admins, \A b \in Admins : b # a => adm'[b] = adm[b],
         NEW t \in Canonicalizing
  PROVE  t \in Canonicalizing' \/ (adm[a].pc = "purge" /\ t = adm[a].tenant)
BY DEF Canonicalizing

-----------------------------------------------------------------------------
(* The invariant, step by step.                                            *)

LEMMA VerifierKeeps ==
  ASSUME HostsInv, NEW w \in Verifiers, ListPending(w) \/ VerifierStep(w), UNCHANGED hostVars
  PROVE  HostsInv'
<1> USE DEF HostsInv
<1>1. VerifierMoves(w) /\ VerifierWrites(w) /\ ver[w].pc # "purge"
  BY VerifierEffect
<1>2. /\ RowsGo
      /\ \A t \in Tenant : Canonical(t)' = Canonical(t)
      /\ \A d \in Did : Live(d)' /\ doms'[d].status = "active" =>
           WasActive(d) \/ (ver'[w].pc = "purge" /\ ver'[w].it.domain = doms'[d].domain)
  BY <1>1, VerifierRows
<1>3. UNCHANGED <<owner, canon, vis, staleOwner, staleCanon, tenants, issued, aged, adm, begun>>
  BY <1>1 DEF hostVars, caches, stale, VerifierMoves
<1>4. TypeOK'
  BY <1>1, <1>2, <1>3 DEF TypeOK, VerifierMoves, RowsGo
<1>5. ListedSound'
  <2>1. \A u \in Verifiers, it \in Listed : Holds(ver'[u], it) =>
          Holds(ver[u], it) \/ (Live(it.id) /\ it.domain = doms[it.id].domain)
    BY <1>1 DEF VerifierMoves
  <2> QED BY <1>2, <2>1, ListedKept
<1>6. \A h \in Purging : h \in Purging'
  BY <1>1, VerifierExcuses DEF VerifierMoves
<1>7. OwnerSound'
  <2>1. ver'[w].pc = "purge" => ver'[w].it.domain \in Purging'
    BY DEF Purging
  <2>2. \A h \in Host : owner'[h] # Miss =>
           \/ h \in staleOwner' \cup Purging'
           \/ owner'[h] = owner[h] /\ h \notin staleOwner \cup Purging
    BY <1>3, <1>6
  <2> QED BY <1>2, <2>1, <2>2, OwnerKept
<1>8. CanonicalFresh'
  <2>1. Canonicalizing' = Canonicalizing
    BY <1>3 DEF Canonicalizing
  <2> QED BY <1>2, <1>3, <2>1, CanonKept
<1> QED BY <1>4, <1>5, <1>7, <1>8

LEMMA PurgeDomainKeeps ==
  ASSUME HostsInv, NEW w \in Verifiers, PurgeDomain(w)
  PROVE  HostsInv'
<1> USE DEF HostsInv
<1> DEFINE m == ver[w].it.domain
<1>1. VerifierMoves(w) /\ doms' = doms /\ ver[w].pc = "purge"
  BY ActivatedStep DEF PurgeDomain
<1>2. /\ owner' = [owner EXCEPT ![m] = Miss] /\ staleOwner' = staleOwner \ {m}
      /\ UNCHANGED <<canon, vis, staleCanon, tenants, issued, aged, adm, begun>>
  BY <1>1 DEF PurgeDomain, DropOwner, VerifierMoves
<1>3. RowsGo /\ NoneActivated /\ \A t \in Tenant : Canonical(t)' = Canonical(t)
  BY <1>1, <1>2, SameRows
<1>4. owner \in [Host -> Tenant \cup {Miss}] /\ m \in Host
  BY <1>1, PurgingTypes DEF TypeOK
<1>5. owner' \in [Host -> Tenant \cup {Miss}]
  BY <1>2, <1>4
<1>6. TypeOK'
  BY <1>1, <1>2, <1>3, <1>5 DEF TypeOK, VerifierMoves, RowsGo
<1>7. ListedSound'
  <2>1. \A u \in Verifiers, it \in Listed : Holds(ver'[u], it) =>
          Holds(ver[u], it) \/ (Live(it.id) /\ it.domain = doms[it.id].domain)
    BY <1>1 DEF VerifierMoves
  <2> QED BY <1>3, <2>1, ListedKept
<1>8. OwnerSound'
  <2>1. \A h \in Purging : h \in Purging' \/ h = m
    BY <1>1, VerifierExcuses DEF VerifierMoves
  <2>2. ASSUME NEW h \in Host, owner'[h] # Miss
        PROVE  \/ h \in staleOwner' \cup Purging'
               \/ owner'[h] = owner[h] /\ h \notin staleOwner \cup Purging
    <3>1. h # m /\ owner'[h] = owner[h]
      BY <1>2, <1>4, <2>2
    <3> QED BY <1>2, <2>1, <3>1
  <2> QED BY <1>3, <2>2, OwnerKept DEF NoneActivated
<1>9. CanonicalFresh'
  <2>1. Canonicalizing' = Canonicalizing
    BY <1>2 DEF Canonicalizing
  <2> QED BY <1>2, <1>3, <2>1, CanonKept
<1> QED BY <1>6, <1>7, <1>8, <1>9

LEMMA AdminKeeps ==
  ASSUME HostsInv, NEW a \in Admins, AdminTables(a)
  PROVE  HostsInv'
<1> USE DEF HostsInv
<1>1. AdminMoves(a) /\ AdminWrites(a)
  BY AdminEffect DEF AdminTables
<1>2. /\ RowsGo /\ NoneActivated
      /\ \A t \in Tenant : \/ Canonical(t)' = Canonical(t)
                           \/ t \in PrimaryDeleted(a) /\ doms' # doms
                           \/ tenants'[t] = "gone"
                           \/ adm'[a].pc = "purge" /\ adm'[a].tenant = t
  BY <1>1, AdminRows
<1>3. UNCHANGED <<owner, canon, vis, staleOwner, aged, ver>>
  BY <1>1 DEF AdminTables, caches, AdminMoves
<1>4. staleCanon' = IF doms' # doms THEN staleCanon \cup PrimaryDeleted(a) ELSE staleCanon
  BY DEF AdminTables
<1>5. TypeOK'
  <2>1. staleCanon' \subseteq Tenant
    BY <1>4, PurgingTypes DEF TypeOK
  <2> QED BY <1>1, <1>2, <1>3, <2>1 DEF TypeOK, AdminMoves, RowsGo
<1>6. ListedSound'
  BY <1>2, <1>3, ListedKept
<1>7. OwnerSound'
  <2>1. Purging' = Purging
    BY <1>3 DEF Purging
  <2> QED BY <1>2, <1>3, <2>1, OwnerKept DEF NoneActivated
<1>8. CanonicalFresh'
  <2>1. \A t \in Canonicalizing : t \in Canonicalizing'
    BY <1>1, AdminExcuses DEF AdminMoves
  <2>2. adm'[a].pc = "purge" => adm'[a].tenant \in Canonicalizing'
    BY DEF Canonicalizing
  <2>3. \A t \in Tenant : tenants[t] = "gone" => tenants'[t] = "gone"
    BY <1>2 DEF RowsGo
  <2>4. \A t \in Tenant : canon'[t] # Miss /\ tenants'[t] # "gone" =>
          \/ t \in staleCanon' \cup Canonicalizing'
          \/ /\ canon'[t] = canon[t] /\ Canonical(t)' = Canonical(t) /\ tenants[t] # "gone"
             /\ t \notin staleCanon \cup Canonicalizing
    BY <1>2, <1>3, <1>4, <2>1, <2>2, <2>3
  <2> QED BY <2>4, CanonKept
<1> QED BY <1>5, <1>6, <1>7, <1>8

LEMMA PurgeCanonicalKeeps ==
  ASSUME HostsInv, NEW a \in Admins, PurgeCanonical(a)
  PROVE  HostsInv'
<1> USE DEF HostsInv
<1> DEFINE u == adm[a].tenant
<1>1. /\ canon' = [canon EXCEPT ![u] = Miss] /\ staleCanon' = staleCanon \ {u}
      /\ UNCHANGED <<owner, vis, staleOwner, tenants, doms, issued, aged, res, ver, begun, faults>>
      /\ Continue(a, Idle) /\ adm[a].pc = "purge"
  BY DEF PurgeCanonical, CanonicalPurged, DropCanon, tables, counts
<1>2. u \in Tenant /\ canon \in [Tenant -> Host \cup {Miss}] /\ adm \in [Admins -> Request]
  BY <1>1, PurgingTypes DEF TypeOK
<1>3. /\ adm' \in [Admins -> Request] /\ canon' \in [Tenant -> Host \cup {Miss}]
      /\ \A b \in Admins : b # a => adm'[b] = adm[b]
  BY <1>1, <1>2, IdleType, ContinuesTo
<1>4. RowsGo /\ NoneActivated /\ \A t \in Tenant : Canonical(t)' = Canonical(t)
  BY <1>1, SameRows
<1>5. TypeOK'
  BY <1>1, <1>3, <1>4 DEF TypeOK, RowsGo
<1>6. ListedSound'
  BY <1>1, <1>4, ListedKept
<1>7. OwnerSound'
  <2>1. Purging' = Purging
    BY <1>1 DEF Purging
  <2> QED BY <1>1, <1>4, <2>1, OwnerKept DEF NoneActivated
<1>8. CanonicalFresh'
  <2>1. \A t \in Canonicalizing : t \in Canonicalizing' \/ t = u
    BY <1>3, AdminExcuses
  <2>2. ASSUME NEW t \in Tenant, canon'[t] # Miss, tenants'[t] # "gone"
        PROVE  \/ t \in staleCanon' \cup Canonicalizing'
               \/ /\ canon'[t] = canon[t] /\ Canonical(t)' = Canonical(t) /\ tenants[t] # "gone"
                  /\ t \notin staleCanon \cup Canonicalizing
    <3>1. t # u /\ canon'[t] = canon[t]
      BY <1>1, <1>2, <2>2
    <3> QED BY <1>1, <1>4, <2>1, <2>2, <3>1
  <2> QED BY <2>2, CanonKept
<1> QED BY <1>5, <1>6, <1>7, <1>8

LEMMA FoundServes ==
  ASSUME TypeOK, NEW h \in Host, NEW t \in Tenant, FindTenant(h) = {t}
  PROVE  Serves(t, h)
<1>1. \/ h = t
      \/ \E d \in Did : /\ Live(d) /\ doms[d].status = "active"
                       /\ doms[d].domain = h /\ doms[d].tenant = t
  BY DEF FindTenant
<1>2. \A d \in Did : Live(d) => doms[d].domain \in Domain
  BY RowFields DEF TypeOK, Live
<1>3. h \in Tenant => t = h
  BY <1>1, <1>2, DomainsAssumption
<1>4. \A d \in Did : Live(d) /\ doms[d].status = "active" /\ doms[d].domain = h
                      => doms[d].tenant = t
  BY <1>1, <1>2, DomainsAssumption DEF TypeOK, UniqueDomains, Live
<1> QED BY <1>3, <1>4 DEF Serves

LEMMA ServesFound ==
  ASSUME TypeOK, NEW h \in Host, NEW t \in Tenant, Serves(t, h)
  PROVE  FindTenant(h) \subseteq {t}
BY DEF Serves, FindTenant

LEMMA VisitorKeeps ==
  ASSUME HostsInv, VisitorMoves, Keeps
  PROVE  HostsInv'
<1> USE DEF HostsInv
<1>1. /\ UNCHANGED <<tenants, doms, issued, aged, res, ver, adm, begun>>
      /\ vis' \in [Visitors -> Visiting] /\ faults' \in 0..MaxFaults
  BY DEF VisitorMoves, tables
<1>2. RowsGo /\ NoneActivated /\ \A t \in Tenant : Canonical(t)' = Canonical(t)
  BY <1>1, SameRows
<1>3. Purging' = Purging /\ Canonicalizing' = Canonicalizing
  BY <1>1 DEF Purging, Canonicalizing
<1>4. ListedSound'
  BY <1>1, <1>2, ListedKept
<1>5. owner \in [Host -> Tenant \cup {Miss}] /\ canon \in [Tenant -> Host \cup {Miss}]
      /\ staleOwner \subseteq Host /\ staleCanon \subseteq Tenant
  BY DEF TypeOK
<1>6. CASE UNCHANGED <<caches, stale>>
  <2>1. UNCHANGED <<owner, canon, staleOwner, staleCanon>>
    BY <1>6 DEF caches, stale
  <2>2. TypeOK'
    BY <1>1, <1>2, <2>1 DEF TypeOK, RowsGo
  <2>3. OwnerSound'
    BY <1>2, <1>3, <2>1, OwnerKept DEF NoneActivated
  <2>4. CanonicalFresh'
    BY <1>1, <1>2, <1>3, <2>1, CanonKept
  <2> QED BY <1>4, <2>2, <2>3, <2>4
<1>7. ASSUME NEW h \in Host, NEW t \in Tenant, KeepsOwner(h, t)
      PROVE  HostsInv'
  <2>1. /\ owner' = [owner EXCEPT ![h] = t] /\ UNCHANGED <<canon, staleCanon>>
        /\ staleOwner' = IF FindTenant(h) # {t} THEN staleOwner \cup {h} ELSE staleOwner \ {h}
    BY <1>7 DEF KeepsOwner, Marked
  <2>2. owner' \in [Host -> Tenant \cup {Miss}] /\ staleOwner' \subseteq Host
    BY <1>5, <2>1
  <2>3. TypeOK'
    BY <1>1, <1>2, <2>1, <2>2 DEF TypeOK, RowsGo
  <2>4. ASSUME FindTenant(h) = {t}
        PROVE  Serves(t, h)
    BY <2>4, FoundServes
  <2>5. ASSUME NEW g \in Host, owner'[g] # Miss
        PROVE  \/ g \in staleOwner' \cup Purging'
               \/ Serves(owner'[g], g)
               \/ owner'[g] = owner[g] /\ g \notin staleOwner \cup Purging
    <3>1. CASE g = h
      BY <1>5, <2>1, <2>4, <3>1
    <3>2. CASE g # h
      BY <1>3, <1>5, <2>1, <3>2
    <3> QED BY <3>1, <3>2
  <2>6. OwnerSound'
    BY <1>2, <2>5, OwnerKept DEF NoneActivated
  <2>7. CanonicalFresh'
    BY <1>1, <1>2, <1>3, <2>1, CanonKept
  <2> QED BY <1>4, <2>3, <2>6, <2>7
<1>8. ASSUME NEW t \in Tenant, NEW h \in Host, KeepsCanon(t, h)
      PROVE  HostsInv'
  <2>1. /\ canon' = [canon EXCEPT ![t] = h] /\ UNCHANGED <<owner, staleOwner>>
        /\ staleCanon' = IF Canonical(t) # h THEN staleCanon \cup {t} ELSE staleCanon \ {t}
    BY <1>8 DEF KeepsCanon, Marked
  <2>2. canon' \in [Tenant -> Host \cup {Miss}] /\ staleCanon' \subseteq Tenant
    BY <1>5, <2>1
  <2>3. TypeOK'
    BY <1>1, <1>2, <2>1, <2>2 DEF TypeOK, RowsGo
  <2>4. OwnerSound'
    BY <1>2, <1>3, <2>1, OwnerKept DEF NoneActivated
  <2>5. ASSUME NEW u \in Tenant, canon'[u] # Miss, tenants'[u] # "gone"
        PROVE  \/ u \in staleCanon' \cup Canonicalizing'
               \/ canon'[u] = Canonical(u)'
               \/ /\ canon'[u] = canon[u] /\ Canonical(u)' = Canonical(u)
                  /\ tenants[u] # "gone" /\ u \notin staleCanon \cup Canonicalizing
    <3>1. CASE u = t
      BY <1>2, <1>5, <2>1, <3>1
    <3>2. CASE u # t
      BY <1>1, <1>2, <1>3, <1>5, <2>1, <2>5, <3>2
    <3> QED BY <3>1, <3>2
  <2>6. CanonicalFresh'
    BY <2>5, CanonKept
  <2> QED BY <1>4, <2>3, <2>4, <2>6
<1> QED BY <1>6, <1>7, <1>8 DEF Keeps

LEMMA TimeKeeps ==
  ASSUME HostsInv, UNCHANGED hostVars,
         (\E d \in Did : Age(d)) \/ (\E n \in ResName : IssueCertificate(n))
  PROVE  HostsInv'
<1> USE DEF HostsInv
<1>1. UNCHANGED <<tenants, doms, issued, ver, adm, begun, faults, owner, canon, vis,
                  staleOwner, staleCanon>>
  BY DEF Age, IssueCertificate, hostVars, caches, stale, tables, counts
<1>2. aged' \subseteq Did /\ res' \in [ResName -> Resources]
  <2>1. aged \subseteq Did /\ res \in [ResName -> Resources]
    BY DEF TypeOK
  <2>2. CASE \E d \in Did : Age(d)
    BY <2>1, <2>2 DEF Age
  <2>3. ASSUME NEW n \in ResName, IssueCertificate(n)
        PROVE  aged' \subseteq Did /\ res' \in [ResName -> Resources]
    <3>1. [res[n] EXCEPT !["secret"] = res[n]["certificate"]] \in Resources
      BY <2>1 DEF Resources, Resource
    <3>2. aged' = aged /\ res' = [res EXCEPT ![n]["secret"] = res[n]["certificate"]]
      BY <2>3 DEF IssueCertificate, tables
    <3> QED BY <2>1, <3>1, <3>2
  <2> QED BY <2>2, <2>3
<1>3. RowsGo /\ NoneActivated /\ \A t \in Tenant : Canonical(t)' = Canonical(t)
  BY <1>1, SameRows
<1>4. TypeOK'
  BY <1>1, <1>2, <1>3 DEF TypeOK, RowsGo
<1>5. ListedSound'
  BY <1>1, <1>3, ListedKept
<1>6. Purging' = Purging /\ Canonicalizing' = Canonicalizing
  BY <1>1 DEF Purging, Canonicalizing
<1>7. OwnerSound'
  BY <1>1, <1>3, <1>6, OwnerKept DEF NoneActivated
<1>8. CanonicalFresh'
  BY <1>1, <1>3, <1>6, CanonKept
<1> QED BY <1>4, <1>5, <1>7, <1>8

LEMMA ExpireKeeps ==
  ASSUME HostsInv, NEW k \in Key, Expire(k)
  PROVE  HostsInv'
<1> USE DEF HostsInv
<1> DEFINE x == k[2]
<1>1. UNCHANGED <<tenants, doms, issued, aged, res, ver, adm, begun, faults, vis>>
  BY DEF Expire, domainVars, tables, counts
<1>2. \/ /\ x \in Host /\ owner' = [owner EXCEPT ![x] = Miss] /\ staleOwner' = staleOwner \ {x}
         /\ UNCHANGED <<canon, staleCanon>>
      \/ /\ x \in Tenant /\ canon' = [canon EXCEPT ![x] = Miss] /\ staleCanon' = staleCanon \ {x}
         /\ UNCHANGED <<owner, staleOwner>>
  BY HostsAssumption DEF Expire, DropOwner, DropCanon, Key
<1>3. owner \in [Host -> Tenant \cup {Miss}] /\ canon \in [Tenant -> Host \cup {Miss}]
  BY DEF TypeOK
<1>4. owner' \in [Host -> Tenant \cup {Miss}] /\ canon' \in [Tenant -> Host \cup {Miss}]
  BY <1>2, <1>3
<1>5. RowsGo /\ NoneActivated /\ \A t \in Tenant : Canonical(t)' = Canonical(t)
  BY <1>1, SameRows
<1>6. TypeOK'
  BY <1>1, <1>2, <1>4, <1>5 DEF TypeOK, RowsGo
<1>7. ListedSound'
  BY <1>1, <1>5, ListedKept
<1>8. Purging' = Purging /\ Canonicalizing' = Canonicalizing
  BY <1>1 DEF Purging, Canonicalizing
<1>9. OwnerSound'
  <2>1. ASSUME NEW h \in Host, owner'[h] # Miss
        PROVE  \/ h \in staleOwner' \cup Purging'
               \/ owner'[h] = owner[h] /\ h \notin staleOwner \cup Purging
    BY <1>2, <1>3, <1>8, <2>1
  <2> QED BY <1>5, <2>1, OwnerKept DEF NoneActivated
<1>10. CanonicalFresh'
  <2>1. ASSUME NEW t \in Tenant, canon'[t] # Miss, tenants'[t] # "gone"
        PROVE  \/ t \in staleCanon' \cup Canonicalizing'
               \/ /\ canon'[t] = canon[t] /\ Canonical(t)' = Canonical(t)
                  /\ tenants[t] # "gone" /\ t \notin staleCanon \cup Canonicalizing
    BY <1>1, <1>2, <1>3, <1>5, <1>8, <2>1
  <2> QED BY <2>1, CanonKept
<1> QED BY <1>6, <1>7, <1>9, <1>10

LEMMA PurgeFailsKeeps ==
  ASSUME HostsInv, PurgeFails
  PROVE  HostsInv'
<1> USE DEF HostsInv
<1>1. UNCHANGED <<tenants, doms, issued, aged, res, begun, owner, canon, vis>>
      /\ faults' \in 0..MaxFaults
  BY FaultType DEF PurgeFails, tables, caches
<1>2. RowsGo /\ NoneActivated /\ \A t \in Tenant : Canonical(t)' = Canonical(t)
  BY <1>1, SameRows
<1>3. /\ ver \in [Verifiers -> Verifying] /\ adm \in [Admins -> Request]
      /\ staleOwner \subseteq Host /\ staleCanon \subseteq Tenant
  BY DEF TypeOK
<1>4. /\ ver' \in [Verifiers -> Verifying] /\ adm' \in [Admins -> Request]
      /\ staleOwner' \subseteq Host /\ staleCanon' \subseteq Tenant
      /\ staleOwner \cup Purging \subseteq staleOwner' \cup Purging'
      /\ staleCanon \cup Canonicalizing \subseteq staleCanon' \cup Canonicalizing'
      /\ \A u \in Verifiers, it \in Listed : Holds(ver'[u], it) => Holds(ver[u], it)
  <2>1. CASE \E w \in Verifiers : /\ ver[w].pc = "purge"
                                  /\ Go(w, NextProvisioning(ver[w].todo))
                                  /\ staleOwner' = staleOwner \cup {ver[w].it.domain}
                                  /\ UNCHANGED <<adm, staleCanon>>
    <3>1. PICK w \in Verifiers : /\ ver[w].pc = "purge"
                                 /\ Go(w, NextProvisioning(ver[w].todo))
                                 /\ staleOwner' = staleOwner \cup {ver[w].it.domain}
                                 /\ UNCHANGED <<adm, staleCanon>>
      BY <2>1
    <3>2. ver[w].it.domain \in Host /\ ver[w].todo \in SUBSET Listed
      BY <1>3, <3>1, PurgingTypes, VerifyingFields DEF WithTodo
    <3>3. NextProvisioning(ver[w].todo) \in Verifying
      BY <3>2 DEF Verifying, NextProvisioning
    <3>4. /\ ver'[w] = NextProvisioning(ver[w].todo)
          /\ \A u \in Verifiers : u # w => ver'[u] = ver[u]
          /\ ver' \in [Verifiers -> Verifying]
      BY <1>3, <3>1, <3>3, GoesTo
    <3>5. \A it \in Listed : Holds(ver'[w], it) => Holds(ver[w], it)
      BY <3>1, <3>4 DEF Holds, NextProvisioning, WithItem, WithTodo
    <3>6. \A h \in Purging : h \in Purging' \/ h = ver[w].it.domain
      BY <3>4, VerifierExcuses
    <3>7. Canonicalizing' = Canonicalizing
      BY <3>1 DEF Canonicalizing
    <3> QED BY <1>3, <3>1, <3>2, <3>4, <3>5, <3>6, <3>7
  <2>2. CASE \E a \in Admins : /\ adm[a].pc = "purge"
                               /\ Continue(a, Idle)
                               /\ staleCanon' = staleCanon \cup {adm[a].tenant}
                               /\ UNCHANGED <<ver, staleOwner>>
    <3>1. PICK a \in Admins : /\ adm[a].pc = "purge"
                              /\ Continue(a, Idle)
                              /\ staleCanon' = staleCanon \cup {adm[a].tenant}
                              /\ UNCHANGED <<ver, staleOwner>>
      BY <2>2
    <3>2. adm[a].tenant \in Tenant
      BY <3>1, PurgingTypes
    <3>3. adm' \in [Admins -> Request] /\ \A b \in Admins : b # a => adm'[b] = adm[b]
      BY <1>3, <3>1, IdleType, ContinuesTo
    <3>4. \A t \in Canonicalizing : t \in Canonicalizing' \/ t = adm[a].tenant
      BY <3>3, AdminExcuses
    <3>5. Purging' = Purging
      BY <3>1 DEF Purging
    <3> QED BY <1>3, <3>1, <3>2, <3>3, <3>4, <3>5
  <2> QED BY <2>1, <2>2 DEF PurgeFails
<1>5. TypeOK'
  BY <1>1, <1>2, <1>4 DEF TypeOK, RowsGo
<1>6. ListedSound'
  BY <1>2, <1>4, ListedKept
<1>7. OwnerSound'
  BY <1>1, <1>2, <1>4, OwnerKept DEF NoneActivated
<1>8. CanonicalFresh'
  BY <1>1, <1>2, <1>4, CanonKept
<1> QED BY <1>5, <1>6, <1>7, <1>8

LEMMA RestartKeeps ==
  ASSUME HostsInv, Restart
  PROVE  HostsInv'
<1> USE DEF HostsInv
<1>1. /\ UNCHANGED <<tenants, doms, issued, aged, res, begun, owner, canon>>
      /\ faults' \in 0..MaxFaults
      /\ ver' = [w \in Verifiers |-> AtRest] /\ adm' = [a \in Admins |-> Idle]
      /\ vis' = [v \in Visitors |-> Idle]
      /\ staleOwner' = staleOwner \cup Purging /\ staleCanon' = staleCanon \cup Canonicalizing
  BY FaultType DEF Restart, DomainsRestart, tables, caches
<1>2. RowsGo /\ NoneActivated /\ \A t \in Tenant : Canonical(t)' = Canonical(t)
  BY <1>1, SameRows
<1>3. /\ ver' \in [Verifiers -> Verifying] /\ adm' \in [Admins -> Request]
      /\ vis' \in [Visitors -> Visiting]
  <2>1. AtRest \in Verifying
    BY DEF Verifying, AtRest
  <2> QED BY <1>1, <2>1, IdleType
<1>4. staleOwner' \subseteq Host /\ staleCanon' \subseteq Tenant
  BY <1>1, PurgingTypes DEF TypeOK
<1>5. TypeOK'
  BY <1>1, <1>2, <1>3, <1>4 DEF TypeOK, RowsGo
<1>6. ListedSound'
  <2>1. \A u \in Verifiers, it \in Listed : ~Holds(ver'[u], it)
    BY <1>1 DEF Holds, AtRest, WithItem, WithTodo
  <2> QED BY <1>2, <2>1, ListedKept
<1>7. OwnerSound'
  BY <1>1, <1>2, OwnerKept DEF NoneActivated
<1>8. CanonicalFresh'
  BY <1>1, <1>2, CanonKept
<1> QED BY <1>5, <1>6, <1>7, <1>8

LEMMA StutterKeeps ==
  ASSUME HostsInv, UNCHANGED vars
  PROVE  HostsInv'
<1>1. UNCHANGED <<tenants, doms, issued, aged, res, ver, adm, begun, faults, owner, canon, vis,
                  staleOwner, staleCanon>>
  BY DEF vars, domainVars, hostVars, caches, stale, tables, counts
<1>2. VisitorMoves /\ Keeps
  BY <1>1 DEF HostsInv, TypeOK, VisitorMoves, Keeps, tables, caches, stale
<1> QED BY <1>2, VisitorKeeps

LEMMA NextKeeps ==
  ASSUME HostsInv, [Next]_vars
  PROVE  HostsInv'
<1>1. ASSUME NEW v \in Visitors, (\E h \in Asked : OwnerHit(v, h) \/ OwnerMiss(v, h)) \/ VisitorStep(v)
      PROVE  HostsInv'
  BY <1>1, VisitorEffect, VisitorKeeps DEF HostsInv
<1>2. ASSUME NEW a \in Admins, AdminTables(a) \/ PurgeCanonical(a)
      PROVE  HostsInv'
  BY <1>2, AdminKeeps, PurgeCanonicalKeeps
<1>3. ASSUME NEW w \in Verifiers, VerifierGoesOn(w)
      PROVE  HostsInv'
  BY <1>3, VerifierKeeps, PurgeDomainKeeps DEF VerifierGoesOn
<1>4. ASSUME UNCHANGED hostVars,
             (\E d \in Did : Age(d)) \/ (\E n \in ResName : IssueCertificate(n))
      PROVE  HostsInv'
  BY <1>4, TimeKeeps
<1>5. CASE Next
  BY <1>1, <1>2, <1>3, <1>4, <1>5, ExpireKeeps, PurgeFailsKeeps, RestartKeeps DEF Next
<1> QED BY <1>5, StutterKeeps

LEMMA InitHolds ==
  ASSUME Init
  PROVE  HostsInv
<1>1. /\ tenants = [t \in Tenant |-> "active"] /\ doms = SeedDomains
      /\ issued = {d \in Did : SeedDomains[d] # NoRow} /\ aged = {}
      /\ ver = [w \in Verifiers |-> AtRest] /\ adm = [a \in Admins |-> Idle]
      /\ begun = 0 /\ faults = 0
      /\ owner = [h \in Host |-> Miss] /\ canon = [t \in Tenant |-> Miss]
      /\ vis = [v \in Visitors |-> Idle] /\ staleOwner = {} /\ staleCanon = {}
  BY DEF Init, DomainsInit
<1>2. /\ ver \in [Verifiers -> Verifying] /\ adm \in [Admins -> Request]
      /\ vis \in [Visitors -> Visiting]
  <2>1. AtRest \in Verifying
    BY DEF Verifying, AtRest
  <2> QED BY <1>1, <2>1, IdleType
<1>3. res \in [ResName -> Resources]
  <2> DEFINE of == {SeedDomains[d].domain : d \in {e \in Did : SeedDomains[e] # NoRow}}
             For(n) == IF \E m \in of : SanitizeDomain[m] = n
                       THEN CHOOSE m \in of : SanitizeDomain[m] = n ELSE None
  <2>1. res = [n \in ResName |-> [k \in Resource |-> For(n)]]
    BY DEF Init, DomainsInit
  <2>2. of \subseteq Domain
    BY DomainsAssumption, RowFields
  <2>3. ASSUME NEW n \in ResName
        PROVE  For(n) \in Domain \cup {None}
    <3>1. CASE \E m \in of : SanitizeDomain[m] = n
      <4>1. (CHOOSE m \in of : SanitizeDomain[m] = n) \in of
        BY <3>1
      <4> QED BY <2>2, <3>1, <4>1
    <3> QED BY <3>1
  <2> HIDE DEF For
  <2> QED BY <2>1, <2>3 DEF Resources
<1>4. TypeOK
  BY <1>1, <1>2, <1>3, DomainsAssumption DEF TypeOK
<1>5. ListedSound
  <2>1. \A w \in Verifiers, it \in Listed : ~Holds(ver[w], it)
    BY <1>1 DEF Holds, AtRest, WithItem, WithTodo
  <2> QED BY <1>1, <2>1 DEF ListedSound, Live
<1>6. OwnerSound /\ CanonicalFresh
  BY <1>1 DEF OwnerSound, CanonicalFresh
<1> QED BY <1>4, <1>5, <1>6 DEF HostsInv

LEMMA HostsInvariant == Spec => []HostsInv
<1>1. Init => HostsInv
  BY InitHolds
<1>2. HostsInv /\ [Next]_vars => HostsInv'
  BY NextKeeps
<1> QED BY <1>1, <1>2, PTL DEF Spec

-----------------------------------------------------------------------------
(* Theorems, for any number of processes.                                  *)

\* Every table row, cache entry, pass and request keeps its form, and the two
\* unique indexes of tenant_domains hold, whatever overlaps with what.
THEOREM HostsTyped == Spec => []TypeOK
<1>1. HostsInv => TypeOK
  BY DEF HostsInv
<1> QED BY <1>1, HostsInvariant, PTL

\* A host that has passed to another tenant is not served by the first one out of
\* the cache of ResolveTenant, unless the purge is still to come, got lost, or a
\* slow request stored what it had read before.
THEOREM DomainsReachOwners == Spec => []DomainReachesOwner
<1>1. HostsInv => DomainReachesOwner
  <2> SUFFICES ASSUME HostsInv, NEW h \in Host, owner[h] # Miss, h \notin staleOwner \cup Purging
               PROVE  FindTenant(h) \in {{}, {owner[h]}}
    BY DEF DomainReachesOwner
  <2>1. owner[h] \in Tenant /\ Serves(owner[h], h)
    BY DEF HostsInv, OwnerSound, TypeOK
  <2>2. FindTenant(h) \subseteq {owner[h]}
    BY <2>1, ServesFound DEF HostsInv
  <2> QED BY <2>2
<1> QED BY <1>1, HostsInvariant, PTL

\* CanonicalRedirect sends visitors to the tenant's primary domain as the table
\* has it, but for the entries that missed a purge and those of a deleted domain.
THEOREM CanonicalHostsFresh == Spec => []CanonicalFresh
<1>1. HostsInv => CanonicalFresh
  BY DEF HostsInv
<1> QED BY <1>1, HostsInvariant, PTL

-----------------------------------------------------------------------------
(* With one verifier.                                                      *)

\* Rows that stay keep their status, and new ones are pending and not primary.
StatusesKept ==
  \A d \in Did : Live(d)' =>
    \/ Live(d) /\ doms'[d].status = doms[d].status
    \/ d \notin issued /\ doms'[d].status = "pending" /\ doms'[d].primary = FALSE

LEMMA AdminStatuses ==
  ASSUME HostsInv, PrimaryIsActive, NEW a \in Admins, AdminWrites(a)
  PROVE  StatusesKept /\ PrimaryIsActive'
<1> USE DEF HostsInv
<1>1. doms \in [Did -> DomainRow \cup {NoRow}]
  BY DEF TypeOK
<1>2. ASSUME NEW d \in Did, NEW t \in Tenant, NEW name \in Domain, Adds(d, t, name)
      PROVE  StatusesKept /\ PrimaryIsActive'
  BY <1>1, <1>2 DEF Adds, StatusesKept, PrimaryIsActive, Live
<1>3. CASE Removes(a)
  <2>1. \A d \in Did : doms'[d] \in {doms[d], NoRow}
    BY <1>3 DEF Removes
  <2> QED BY <2>1 DEF StatusesKept, PrimaryIsActive, Live
<1>4. ASSUME NEW t \in Tenant, NEW ids, Flags(a, t, ids),
             \A d \in ids \cap Did : Live(d) => doms[d].status = "active"
      PROVE  StatusesKept /\ PrimaryIsActive'
  <2>1. \A d \in Did :
          /\ doms'[d] # NoRow <=> Live(d)
          /\ Live(d) => /\ doms'[d].status = doms[d].status
                        /\ doms'[d].primary
                             = IF doms[d].tenant = t THEN d \in ids ELSE doms[d].primary
    BY <1>4, WithPrimaryRows DEF Flags
  <2>2. StatusesKept
    BY <2>1 DEF StatusesKept, Live
  <2>3. PrimaryIsActive'
    BY <1>4, <2>1 DEF PrimaryIsActive, Live
  <2> QED BY <2>2, <2>3
<1>5. CASE Switches
  BY <1>5 DEF Switches, StatusesKept, PrimaryIsActive, Live
<1>6. ASSUME NEW t \in Tenant, Flags(a, t, {})
      PROVE  StatusesKept /\ PrimaryIsActive'
  BY <1>4, <1>6
<1>7. ASSUME NEW t \in Tenant, NEW d \in Did, Live(d), doms[d].status = "active", Flags(a, t, {d})
      PROVE  StatusesKept /\ PrimaryIsActive'
  <2>1. \A e \in {d} \cap Did : Live(e) => doms[e].status = "active"
    BY <1>7
  <2> QED BY <1>4, <1>7, <2>1
<1> QED BY <1>2, <1>3, <1>5, <1>6, <1>7 DEF AdminWrites

\* What one verifier's memory has to say of the rows.
PassOf(x) ==
  /\ x.pc \in {"pending", "certificate", "route", "provisioned", "failing"} =>
       \A it \in x.todo : Still(it, "pending")
  /\ x.pc \in {"certificate", "route", "provisioned", "failing"} => Still(x.it, "verified")
  /\ x.pc \in {"provisioning", "activate", "purge"} =>
       \A it \in x.todo : Still(it, "provisioning")
  /\ x.pc = "activate" => Still(x.it, "provisioning") /\ x.it \notin x.todo

\* Statuses that the verifier does not change are as it listed them.
LEMMA PassOfKept ==
  ASSUME NEW x \in Verifying, PassOf(x), StatusesKept,
         \A it \in Listed : Holds(x, it) => it.id \in issued
  PROVE  PassOf(x)'
<1>1. ASSUME NEW it \in Listed, Holds(x, it), NEW s, Still(it, s)
      PROVE  Still(it, s)'
  <2>1. it.id \in Did /\ it.id \in issued
    BY <1>1, ListedFields
  <2> QED BY <1>1, <2>1 DEF StatusesKept, Still, Live
<1>2. /\ x.pc \in WithTodo => \A it \in x.todo : it \in Listed /\ Holds(x, it)
      /\ x.pc \in WithItem => x.it \in Listed /\ Holds(x, x.it)
  BY VerifyingFields DEF Holds
<1> QED BY <1>1, <1>2 DEF PassOf, WithTodo, WithItem

LEMMA PassKept ==
  ASSUME HostsInv, PassSound, StatusesKept, ver' = ver
  PROVE  PassSound'
<1> SUFFICES ASSUME NEW w \in Verifiers
             PROVE  PassOf(ver[w])'
  BY DEF PassSound, PassOf
<1>1. PICK x \in Verifying : x = ver[w]
  BY DEF HostsInv, TypeOK
<1>2. PassOf(x)
  BY <1>1 DEF PassSound, PassOf
<1>3. \A it \in Listed : Holds(x, it) => it.id \in issued
  BY <1>1 DEF HostsInv, ListedSound
<1>4. PassOf(x)'
  BY <1>2, <1>3, PassOfKept
<1> QED BY <1>1, <1>4

\* A step of LifecycleForward.
Forward ==
  \A d \in Did : Live(d) /\ Live(d)' /\ doms'[d].status # doms[d].status =>
    Rank(doms[d].status) < Rank(doms'[d].status)

LEMMA RankOf ==
  /\ Rank("pending") = 0 /\ Rank("verified") = 1 /\ Rank("provisioning") = 2
  /\ Rank("active") = 3 /\ Rank("failed") = 3
BY DEF Rank

\* One of two listed domains with one id is no longer there.
LEMMA SameListed ==
  ASSUME HostsInv, NEW w \in Verifiers, NEW it \in Listed, NEW i \in Listed,
         Holds(ver[w], it), Holds(ver[w], i), i.id = it.id, Live(it.id)
  PROVE  i = it
<1>1. i.domain = it.domain
  BY DEF HostsInv, ListedSound
<1> QED BY <1>1 DEF Listed

\* An UPDATE of the status of a listed domain, and the others of the list.
LEMMA StillOthers ==
  ASSUME TypeOK, NEW id \in Did, NEW s \in Status, SetStatus(id, s),
         NEW it \in Listed, NEW q, Still(it, q), it.id = id => ~Live(id)
  PROVE  Still(it, q)'
<1>1. it.id \in Did
  BY ListedFields
<1>2. (\A d \in Did : Live(d)' <=> Live(d)) /\ \A d \in Did : d # id => doms'[d] = doms[d]
  BY StatusSet
<1> QED BY <1>1, <1>2 DEF Still, Live

LEMMA StatusForward ==
  ASSUME TypeOK, NEW id \in Did, NEW s \in Status, SetStatus(id, s),
         Live(id) => Rank(doms[id].status) < Rank(s)
  PROVE  Forward
<1>1. /\ \A d \in Did : d # id => doms'[d] = doms[d]
      /\ Live(id) => doms'[id].status = s
  BY StatusSet
<1> QED BY <1>1 DEF Forward

LEMMA PendingPass ==
  ASSUME PassInv, NEW w \in Verifiers, NEW it \in Listed,
         PendingTooLong(w, it) \/ DNSElsewhere(w, it) \/ SetVerified(w, it),
         NEW y, y = ver'[w]
  PROVE  Forward /\ PassOf(y)'
<1> USE DEF PassInv, HostsInv
<1> DEFINE x == ver[w]
           todo == x.todo \ {it}
<1>1. /\ x.pc = "pending" /\ it \in x.todo
      /\ \/ y = NextPending(todo)
         \/ /\ SetVerified(w, it) /\ y = [pc |-> "certificate", todo |-> todo, it |-> it]
  BY PendingSteps DEF PendingTooLong, DNSElsewhere, SetVerified
<1>2. x.todo \in SUBSET Listed
  BY <1>1, VerifyingFields DEF TypeOK, WithTodo
<1>3. \A i \in x.todo : Still(i, "pending") /\ Holds(x, i)
  BY <1>1 DEF PassSound, Holds, WithTodo
<1>4. it.id \in Did
  BY ListedFields
<1>5. CASE DNSElsewhere(w, it)
  <2>1. doms' = doms /\ y = NextPending(todo)
    BY <1>5 DEF DNSElsewhere, tables, Go, TypeOK
  <2> QED BY <1>3, <2>1 DEF Forward, PassOf, NextPending, Still, Live
<1>6. ASSUME NEW s \in {"failed", "verified"}, SetStatus(it.id, s)
      PROVE  /\ Forward /\ \A i \in todo : Still(i, "pending")'
             /\ s = "verified" => Still(it, "verified")'
  <2>1. s \in Status
    BY DEF Status
  <2>2. Live(it.id) => doms[it.id].status = "pending"
    BY <1>1, <1>3 DEF Still
  <2>3. Forward
    BY <1>4, <1>6, <2>1, <2>2, StatusForward, RankOf
  <2>4. ASSUME NEW i \in todo
        PROVE  Still(i, "pending")'
    <3>1. i.id = it.id => ~Live(it.id)
      BY <1>1, <1>2, <1>3, <2>4, SameListed
    <3> QED BY <1>2, <1>3, <1>4, <1>6, <2>1, <2>4, <3>1, StillOthers
  <2>5. Still(it, s)'
    BY <1>4, <1>6, <2>1, StatusSet DEF Still, Live
  <2> QED BY <2>3, <2>4, <2>5
<1>7. CASE PendingTooLong(w, it)
  <2>1. SetStatus(it.id, "failed") /\ y = NextPending(todo)
    BY <1>7 DEF PendingTooLong, Go, TypeOK
  <2> QED BY <1>6, <2>1 DEF PassOf, NextPending
<1>8. CASE SetVerified(w, it)
  <2>1. SetStatus(it.id, "verified")
    BY <1>8 DEF SetVerified
  <2>2. Forward /\ (\A i \in todo : Still(i, "pending")') /\ Still(it, "verified")'
    BY <1>6, <2>1
  <2> QED BY <1>1, <2>2 DEF PassOf, NextPending
<1> QED BY <1>5, <1>7, <1>8

LEMMA WritePass ==
  ASSUME PassInv, NEW w \in Verifiers, FinishPending(w) \/ Activate(w), NEW y, y = ver'[w]
  PROVE  Forward /\ PassOf(y)'
<1> USE DEF PassInv, HostsInv
<1> DEFINE x == ver[w]
<1>1. x \in Verifying /\ x.pc \in {"provisioned", "failing", "activate"}
  BY DEF TypeOK, FinishPending, Activate
<1>2. x.todo \in SUBSET Listed /\ x.it \in Listed
  BY <1>1, VerifyingFields DEF WithTodo, WithItem
<1>3. x.it.id \in Did /\ Holds(x, x.it) /\ \A i \in x.todo : Holds(x, i)
  BY <1>1, <1>2, ListedFields DEF Holds, WithTodo, WithItem
<1>4. CASE FinishPending(w)
  <2>1. PICK s \in {"failed", "provisioning"} : SetStatus(x.it.id, s)
    BY <1>4, FinishStep
  <2>2. y = NextPending(x.todo) /\ x.pc \in {"provisioned", "failing"} /\ s \in Status
    BY <1>4, FinishStep DEF Status
  <2>3. Still(x.it, "verified") /\ \A i \in x.todo : Still(i, "pending")
    BY <2>2 DEF PassSound
  <2>4. Forward
    BY <1>3, <2>1, <2>2, <2>3, StatusForward, RankOf DEF Still
  <2>5. ASSUME NEW i \in x.todo
        PROVE  Still(i, "pending")'
    <3>1. i.id = x.it.id => ~Live(x.it.id)
      BY <2>3, <2>5 DEF Still
    <3> QED BY <1>2, <1>3, <2>1, <2>2, <2>3, <2>5, <3>1, StillOthers
  <2> QED BY <2>2, <2>4, <2>5 DEF PassOf, NextPending
<1>5. CASE Activate(w)
  <2>1. SetStatus(x.it.id, "active") /\ y.pc = "purge" /\ y.todo = x.todo /\ x.pc = "activate"
    BY <1>5, ActivateStep
  <2>2. /\ Still(x.it, "provisioning") /\ x.it \notin x.todo
        /\ \A i \in x.todo : Still(i, "provisioning")
    BY <2>1 DEF PassSound
  <2>3. "active" \in Status
    BY DEF Status
  <2>4. Forward
    BY <1>3, <2>1, <2>2, <2>3, StatusForward, RankOf DEF Still
  <2>5. ASSUME NEW i \in x.todo
        PROVE  Still(i, "provisioning")'
    <3>1. i.id = x.it.id => ~Live(x.it.id)
      BY <1>2, <1>3, <2>2, <2>5, SameListed
    <3> QED BY <1>2, <1>3, <2>1, <2>2, <2>3, <2>5, <3>1, StillOthers
  <2> QED BY <2>1, <2>4, <2>5 DEF PassOf
<1> QED BY <1>4, <1>5

LEMMA OtherPass ==
  ASSUME PassInv, NEW w \in Verifiers, NEW y, y = ver'[w],
         \/ \E it \in Listed : CheckCertificate(w, it)
         \/ CreateResource(w) \/ CreateFails(w) \/ CallFails(w) \/ Activated(w)
         \/ ListPending(w) \/ PendingDone(w) \/ ListProvisioning(w) \/ ProvisioningDone(w)
  PROVE  doms' = doms /\ PassOf(y)'
<1> USE DEF PassInv, HostsInv
<1> DEFINE x == ver[w]
<1>1. PassOf(x)
  BY DEF PassSound, PassOf
<1>2. doms' = doms /\ PassOf(y)
  <2>1. ASSUME NEW it \in Listed, CheckCertificate(w, it)
        PROVE  doms' = doms /\ PassOf(y)
    <3>1. /\ x.pc = "provisioning" /\ it \in x.todo /\ doms' = doms
          /\ \/ y = NextProvisioning(x.todo \ {it})
             \/ y = [pc |-> "activate", todo |-> x.todo \ {it}, it |-> it]
      BY <2>1, CheckCertificateStep
    <3> QED BY <1>1, <3>1 DEF PassOf, NextProvisioning
  <2>2. CASE CreateResource(w) \/ CreateFails(w)
    <3>1. /\ x.pc \in {"certificate", "route"} /\ y.pc \in {"route", "provisioned", "failing"}
          /\ y.todo = x.todo /\ y.it = x.it /\ doms' = doms
      BY <2>2, CreateSteps
    <3> QED BY <1>1, <3>1 DEF PassOf
  <2>3. CASE CallFails(w)
    <3>1. /\ doms' = doms
          /\ \/ y.pc \in {"rest", "listProvisioning"}
             \/ /\ x.pc \in {"pending", "provisioning"} /\ y.pc = x.pc
                /\ y.todo \subseteq x.todo
             \/ x.pc \in {"provisioned", "failing"} /\ y = NextPending(x.todo)
             \/ x.pc = "activate" /\ y.pc = "purge" /\ y.todo = x.todo
      BY <2>3, CallFailsStep
    <3> QED BY <1>1, <3>1 DEF PassOf, NextPending
  <2>4. CASE Activated(w)
    <3>1. doms' = doms /\ x.pc = "purge" /\ y = NextProvisioning(x.todo)
      BY <2>4, ActivatedStep
    <3> QED BY <1>1, <3>1 DEF PassOf, NextProvisioning
  <2>5. CASE ListPending(w) \/ PendingDone(w) \/ ListProvisioning(w) \/ ProvisioningDone(w)
    <3>1. /\ doms' = doms
          /\ \/ y.pc \in {"rest", "listProvisioning"}
             \/ y = NextPending(WithStatus("pending"))
             \/ y = NextProvisioning(WithStatus("provisioning"))
      BY <2>5, ListSteps
    <3>2. ASSUME NEW s
          PROVE  \A it \in WithStatus(s) : Still(it, s)
      BY WithStatusType DEF TypeOK, Still
    <3> QED BY <3>1, <3>2 DEF PassOf, NextPending, NextProvisioning
  <2> QED BY <2>1, <2>2, <2>3, <2>4, <2>5
<1> QED BY <1>2 DEF PassOf, Still, Live

LEMMA VerifierPass ==
  ASSUME PassInv, OneVerifier, NEW w \in Verifiers,
         ListPending(w) \/ VerifierStep(w) \/ Activated(w)
  PROVE  Forward /\ PassSound' /\ PrimaryIsActive'
<1>1. PICK y : y = ver'[w]
  OBVIOUS
<1>2. Forward /\ PassOf(y)'
  <2>1. ASSUME doms' = doms
        PROVE  Forward
    BY <2>1 DEF Forward
  <2> QED BY <1>1, <2>1, PendingPass, WritePass, OtherPass DEF VerifierStep
<1>3. PassSound'
  <2> SUFFICES ASSUME NEW u \in Verifiers
               PROVE  PassOf(ver[u])'
    BY DEF PassSound, PassOf
  <2>1. u = w
    BY DEF OneVerifier
  <2> QED BY <1>1, <1>2, <2>1
<1>4. RowsGo /\ VerifierWrites(w)
  BY VerifierEffect, ActivatedStep, VerifierRows DEF PassInv, HostsInv
<1>5. ASSUME NEW d \in Did, Live(d)', doms'[d].primary
      PROVE  Live(d) /\ doms[d].primary
  <2>1. CASE doms' = doms
    BY <1>5, <2>1 DEF Live
  <2>2. ASSUME NEW it \in Listed, NEW s \in Status, SetStatus(it.id, s)
        PROVE  Live(d) /\ doms[d].primary
    BY <1>5, <2>2, StatusSet, ListedFields DEF PassInv, HostsInv, RowsKept, Live
  <2> QED BY <1>4, <2>1, <2>2 DEF VerifierWrites, Writes
<1>6. PrimaryIsActive'
  <2> SUFFICES ASSUME NEW d \in Did, Live(d)', doms'[d].primary
               PROVE  doms'[d].status = "active"
    BY DEF PrimaryIsActive, Live
  <2>1. Live(d) /\ doms[d].status = "active"
    BY <1>5 DEF PassInv, PrimaryIsActive
  <2>2. \A s \in Status : ~(Rank("active") < Rank(s))
    BY RankOf DEF Status
  <2>3. doms'[d].status \in Status
    BY <1>4, RowFields DEF RowsGo, Live
  <2> QED BY <1>2, <2>1, <2>2, <2>3 DEF Forward
<1> QED BY <1>2, <1>3, <1>6

\* Whatever else happens.
LEMMA OthersPass ==
  ASSUME PassInv, StatusesKept, ver' = ver, PrimaryIsActive'
  PROVE  Forward /\ PassSound' /\ PrimaryIsActive'
<1>1. PassSound'
  BY PassKept DEF PassInv
<1>2. Forward
  BY DEF Forward, StatusesKept, PassInv, HostsInv, ListedSound
<1> QED BY <1>1, <1>2

LEMMA PassNext ==
  ASSUME PassInv, OneVerifier, [Next]_vars
  PROVE  PassInv' /\ Forward
<1> USE DEF PassInv
<1>1. HostsInv'
  BY NextKeeps
<1>2. ASSUME doms' = doms
      PROVE  StatusesKept /\ PrimaryIsActive' /\ Forward
  BY <1>2 DEF StatusesKept, PrimaryIsActive, Forward, Live
<1>3. ASSUME NEW v \in Visitors, (\E h \in Asked : OwnerHit(v, h) \/ OwnerMiss(v, h)) \/ VisitorStep(v)
      PROVE  Forward /\ PassSound' /\ PrimaryIsActive'
  <2>1. doms' = doms /\ ver' = ver
    BY <1>3, VisitorEffect DEF HostsInv, VisitorMoves, tables
  <2> QED BY <1>2, <2>1, OthersPass
<1>4. ASSUME NEW a \in Admins, AdminTables(a)
      PROVE  Forward /\ PassSound' /\ PrimaryIsActive'
  <2>1. AdminWrites(a) /\ ver' = ver
    BY <1>4, AdminEffect DEF HostsInv, AdminTables, AdminMoves
  <2> QED BY <2>1, AdminStatuses, OthersPass
<1>5. ASSUME NEW a \in Admins, PurgeCanonical(a)
      PROVE  Forward /\ PassSound' /\ PrimaryIsActive'
  <2>1. doms' = doms /\ ver' = ver
    BY <1>5 DEF PurgeCanonical, CanonicalPurged, tables
  <2> QED BY <1>2, <2>1, OthersPass
<1>6. ASSUME NEW w \in Verifiers, VerifierGoesOn(w)
      PROVE  Forward /\ PassSound' /\ PrimaryIsActive'
  BY <1>6, VerifierPass DEF VerifierGoesOn, PurgeDomain
<1>7. ASSUME \/ \E d \in Did : Age(d)
             \/ \E n \in ResName : IssueCertificate(n)
             \/ \E k \in Key : Expire(k)
             \/ UNCHANGED vars
      PROVE  Forward /\ PassSound' /\ PrimaryIsActive'
  <2>1. doms' = doms /\ ver' = ver
    BY <1>7 DEF Age, IssueCertificate, Expire, vars, domainVars, tables
  <2> QED BY <1>2, <2>1, OthersPass
<1>8. ASSUME PurgeFails
      PROVE  Forward /\ PassSound' /\ PrimaryIsActive'
  <2>1. doms' = doms /\ StatusesKept /\ PrimaryIsActive' /\ Forward
    BY <1>2, <1>8 DEF PurgeFails, tables
  <2>2. CASE ver' = ver
    BY <2>1, <2>2, OthersPass
  <2>3. CASE \E w \in Verifiers : ver[w].pc = "purge" /\ Go(w, NextProvisioning(ver[w].todo))
    <3> PICK w \in Verifiers : ver[w].pc = "purge" /\ Go(w, NextProvisioning(ver[w].todo))
      BY <2>3
    <3>1. ver[w].pc = "purge" /\ ver'[w] = NextProvisioning(ver[w].todo)
      BY DEF Go, HostsInv, TypeOK
    <3>2. \A it \in ver[w].todo : Still(it, "provisioning")
      BY <3>1 DEF PassSound
    <3> HIDE DEF PassInv
    <3> SUFFICES ASSUME NEW u \in Verifiers
                 PROVE  PassOf(ver[u])'
      BY <2>1 DEF PassSound, PassOf
    <3>3. u = w
      BY DEF OneVerifier
    <3> QED BY <2>1, <3>1, <3>2, <3>3 DEF PassOf, NextProvisioning, Still, Live
  <2>4. ver' = ver \/ \E w \in Verifiers : ver[w].pc = "purge" /\ Go(w, NextProvisioning(ver[w].todo))
    BY <1>8 DEF PurgeFails
  <2> HIDE DEF PassInv
  <2> QED BY <2>1, <2>2, <2>3, <2>4
<1>9. ASSUME Restart
      PROVE  Forward /\ PassSound' /\ PrimaryIsActive'
  <2>1. doms' = doms /\ ver' = [w \in Verifiers |-> AtRest]
    BY <1>9 DEF Restart, DomainsRestart, tables
  <2>2. PassSound'
    BY <2>1 DEF PassSound, AtRest
  <2> QED BY <1>2, <2>1, <2>2
<1>10. CASE Next
  <2> HIDE DEF PassInv
  <2>1. Forward /\ PassSound' /\ PrimaryIsActive'
    BY <1>3, <1>4, <1>5, <1>6, <1>7, <1>8, <1>9, <1>10 DEF Next
  <2> QED BY <1>1, <2>1 DEF PassInv
<1> QED BY <1>1, <1>7, <1>10

LEMMA PassInvariant == ASSUME OneVerifier PROVE Spec => []PassInv
<1>1. Init => PassInv
  <2> SUFFICES ASSUME Init
               PROVE  PassInv
    OBVIOUS
  <2>1. doms = SeedDomains /\ ver = [w \in Verifiers |-> AtRest]
    BY DEF Init, DomainsInit
  <2>2. PassSound
    BY <2>1 DEF PassSound, AtRest
  <2>3. PrimaryIsActive
    BY <2>1, DomainsAssumption DEF PrimaryIsActive, Live
  <2> QED BY <2>2, <2>3, InitHolds DEF PassInv
<1>2. PassInv /\ [Next]_vars => PassInv'
  BY PassNext
<1> QED BY <1>1, <1>2, PTL DEF Spec

\* A primary domain is active, although SetPrimary looks at the status once and
\* the verifier writes statuses by ids it listed long before.
THEOREM PrimariesActive == ASSUME OneVerifier PROVE Spec => []PrimaryIsActive
<1>1. PassInv => PrimaryIsActive
  BY DEF PassInv
<1> QED BY <1>1, PassInvariant, PTL

\* The verifier moves every domain forward through its statuses only, whatever
\* admins delete and add between its steps.
THEOREM StatusesAdvance == ASSUME OneVerifier PROVE Spec => LifecycleForward
<1>1. PassInv /\ [Next]_vars =>
        [\A d \in Did : Live(d) /\ Live(d)' /\ doms'[d].status # doms[d].status =>
           Rank(doms[d].status) < Rank(doms'[d].status)]_vars
  BY PassNext DEF Forward
<1> QED BY <1>1, PassInvariant, PTL DEF Spec, LifecycleForward
=============================================================================
