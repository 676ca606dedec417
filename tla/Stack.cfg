SPECIFICATION Spec
CONSTANTS
  Tries = 1
  Newest = 2
  MaxFaults = 2
  MaxRuns = 3
INVARIANTS UpdateIsBackedUp NoDowngrade LockTellsMigration DbPasswordKept
CHECK_DEADLOCK FALSE
