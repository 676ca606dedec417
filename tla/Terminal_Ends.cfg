SPECIFICATION FairSpec
CONSTANTS
  t1 = t1
  Tabs = {t1}
  Ttl = 1
  MaxTime = 2
  MaxTyped = 2
  MaxCrashes = 1
PROPERTY
  ShellsWithSocketsEnd
CHECK_DEADLOCK FALSE
