SPECIFICATION Spec
CONSTANTS
  c1 = c1 c2 = c2 home = home about = about b1 = b1 b2 = b2
  a1 = a1 a2 = a2 v1 = v1 v2 = v2
  NoRow = NoRow Miss = Miss
  Slug = {home, about}
  HomeSlug = home
  Cid = {c1}
  Body = {b1, b2}
  Types = {"post"}
  Admins = {a1}
  Linkable = {}
  Visitors = {v1}
  Renames = TRUE
  SiteChanges = {}
  Faults = FALSE
  MaxRequests = 3
SYMMETRY Symmetry
INVARIANTS HomepageFresh
CHECK_DEADLOCK TRUE
