SPECIFICATION FairSpec
CONSTANTS
  t1 = t1 t2 = t2 n1 = n1 n2 = n2 d1 = d1 d2 = d2
  w1 = w1 a1 = a1 v1 = v1 r1 = r1 r2 = r2
  NoRow = NoRow None = None Miss = Miss
  Tenant = {t1, t2}
  Domain = {n1}
  Did = {d1, d2}
  SeedDomains <- OneDomain
  ResName = {r1}
  SanitizeDomain <- OwnNames
  Verifiers = {w1}
  Admins = {a1}
  Visitors = {v1}
  Asked = {n1, t1}
  MaxRequests = 2
  MaxFaults = 1
INVARIANTS
  TypeOK
  PrimaryIsActive
  DomainReachesOwner
  CanonicalFresh
PROPERTIES
  LifecycleForward
  RedirectsArrive
  DomainsAdvance
CHECK_DEADLOCK TRUE
