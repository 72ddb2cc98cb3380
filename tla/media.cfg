SPECIFICATION FairSpec
CONSTANTS
  own = own
  other = other
  t1 = t1
  t2 = t2
  Items = {own, other}
  Tenants = {t1}
  Libraries <- MCLibraries
  Owner <- MCOwner
  Shown = {own}
  Width <- MCWidth
  Breakpoints <- MCBreakpoints
  BulkLimit = 2
  Admins = {a1, a2}
  Visitors = {v1}
  NoRow = NoRow
  NoPage = NoPage
  MaxMonth = 2
  MaxRequests = 2
  MaxFaults = 1
INVARIANTS TypeOK OriginalsStored RowsMatchObjects
PROPERTIES BulkServes PagesRecover
CHECK_DEADLOCK FALSE
