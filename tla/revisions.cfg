SPECIFICATION FairSpec
CONSTANTS
  e1 = e1
  e2 = e2
  NoRow = NoRow
  Text = {"words"}
  Html = {"old", "new"}
  SaveTitle = {"mine"}
  NewTitle = {"yours"}
  AITitle = "generated"
  Editors = {e1, e2}
  MaxRequests = 3
INVARIANTS TypeOK SnapshotsAreHistory KnownStatesKept TitlesExplained
PROPERTIES SavesGetTitled
CHECK_DEADLOCK FALSE
