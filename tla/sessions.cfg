SPECIFICATION FairSpec
CONSTANTS
  u1 = u1 t1 = t1 t2 = t2 k1 = k1 k2 = k2 s1 = s1 s2 = s2 r1 = r1 r2 = r2
  admin = admin author = author
  Gone = Gone NoSession = NoSession NoSecret = NoSecret NoTenant = NoTenant
  NoRole = NoRole
  User = {u1}
  SuperAdmins = {u1}
  Tenant = {t1, t2}
  Role = {admin, author}
  Session = {s1}
  Secret = {k1, k2}
  Request = {r1, r2}
  SeedUser <- NewUser
  SeedMembers <- TwoTenants
  MaxChanges = 1
  MaxFaults = 1
INVARIANTS SecondFactorPassed RoleWasHeld
PROPERTIES NeverBackToOneFactor EndedSessionsGo
CHECK_DEADLOCK TRUE
