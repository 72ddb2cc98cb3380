SPECIFICATION Spec
CONSTANTS
  Unset = Unset
  Provider = {"openai", "mistral", "claude"}
  KeySets <- MCKeySets
  ActiveName = "openai"
  Drawers = {"openai"}
  Callers = {b, e}
  Builder = b
  x = x
  y = y
  z = z
  n1 = n1
  n2 = n2
  Theme = {x, y, z}
  Tenant = {n1, n2}
  Owner <- MCOwner
  Activators = {a1, a2}
  Steps = 2
  MaxMade = 4
  MaxRows = 4
CONSTRAINT OnePartAtATime
INVARIANTS FlaggedStopped Cohesive PageTellsTruth
PROPERTIES ThemeStays
CHECK_DEADLOCK TRUE
