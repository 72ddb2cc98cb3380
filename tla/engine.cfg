SPECIFICATION Spec
CONSTANTS
  t1 = t1
  t2 = t2
  h1 = h1
  h2 = h2
  a1 = a1
  a2 = a2
  r1 = r1
  r2 = r2
  NoRow = NoRow
  Foreign = Foreign
  Blank = Blank
  Tid = {t1, t2}
  Html = {h1, h2}
  Broken = {h2}
  Admins = {a1, a2}
  Renders = {r1, r2}
  Kinds = {"author"}
  CreateTypes = {"article_loop", "author_page"}
  ForeignTypes = {"article_loop"}
  SeedRows <- OneActiveLoop
  MaxRequests = 3
SYMMETRY Symmetry
INVARIANTS KeyDeterminesBody
PROPERTIES ActiveLostOnlyWithTarget L1Transparent
