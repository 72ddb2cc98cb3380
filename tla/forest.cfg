SPECIFICATION FairSpec
CONSTANTS
  MaxNode = 3
  Pages = {p1, p2}
  Starts <- MCStarts
  Dragged = {p1}
  MaxRequests = 2
  MaxDrags = 1
INVARIANTS TypeOK NodesReachable SavedMeansShown
PROPERTIES NewcomersComeLast RequestsEnd
CHECK_DEADLOCK FALSE
