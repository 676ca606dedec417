SPECIFICATION Spec
CONSTANTS
  Calls = {c1, c2}
  Ttl = 2
  Slow = 1
  MaxTime = 4
  Limit = 2
  MaxReads = 2
  MaxClicks = 3
  NULL = NULL
INVARIANTS
  AnswersAreRecent
  ChartInOrder
PROPERTIES
  ShownNeverGoesBack
CHECK_DEADLOCK FALSE
