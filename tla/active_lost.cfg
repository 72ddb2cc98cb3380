SPECIFICATION Spec
CONSTANTS
  t1 = t1
  t2 = t2
  h1 = h1
  h2 = h2
  a1 = a1
  a2 = a2
  r1 = r1
  r2 = r2
  NoRow = NoRow
  Foreign = Foreign
  Blank = Blank
  Tid = {t1, t2}
  Html = {h1, h2}
  Broken = {}
  Admins = {a1, a2}
  Renders = {}
  Kinds = {"page"}
  CreateTypes = {"page"}
  ForeignTypes = {}
  SeedRows <- TwoPages
  MaxRequests = 2
PROPERTIES
  ActiveNeverLost
