SPECIFICATION FairSpec
CONSTANTS
  Jobs = {1}
  AvailableServices = {s1, s2}
  Calls = {c1, c2}
  Rows = 5
  MaxClicks = 4
  NULL = NULL
INVARIANTS
  RestoreNamesServices
PROPERTY
  ListCatchesUp
CHECK_DEADLOCK FALSE
