SPECIFICATION FairSpec
CONSTANTS
  c1 = c1 c2 = c2 home = home about = about b1 = b1 b2 = b2
  a1 = a1 a2 = a2 v1 = v1 v2 = v2
  NoRow = NoRow Miss = Miss
  Slug = {home}
  HomeSlug = home
  Cid = {c1}
  Body = {b1}
  Types = {"post"}
  Admins = {a1}
  Linkable = {c1}
  Visitors = {v1}
  Renames = FALSE
  SiteChanges = {"look", "profile", "settings"}
  Faults = TRUE
  MaxRequests = 3
PROPERTIES Converges
CHECK_DEADLOCK TRUE
