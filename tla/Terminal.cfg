SPECIFICATION MCSpec
CONSTANTS
  t1 = t1
  Tabs = {t1, t2}
  Ttl = 1
  MaxTime = 1
  MaxTyped = 1
  MaxCrashes = 1
INVARIANTS
  ReuseOnlyAtExpiry
  ClosedTabHasNoSocket
  SizeReaches
CHECK_DEADLOCK FALSE
