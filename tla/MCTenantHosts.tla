--------------------------- MODULE MCTenantHosts ---------------------------
(***************************************************************************)
(* Instances of TenantHosts for TLC.                                       *)
(***************************************************************************)
EXTENDS TenantHosts, TLC

CONSTANTS t1, t2, n1, n2, d1, d2, w1, a1, v1, r1, r2

Serving(domain, tenant) ==
  [domain |-> domain, tenant |-> tenant, status |-> "active", primary |-> FALSE]

\* Tenant t1 has the active domain n1; the other ids are free.
OneDomain == [d \in Did |-> IF d = d1 THEN Serving(n1, t1) ELSE NoRow]

\* Each domain has its own resource name, or both have the same, as
\* "a.b-c.org" and "a-b.c.org" do.
OwnNames == [n \in Domain |-> IF n = n1 THEN r1 ELSE r2]
SameName == [n \in Domain |-> r1]
=============================================================================
