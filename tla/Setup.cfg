SPECIFICATION Spec
CONSTANTS
  Keys = {k1, k2}
  Names = {n1, n2}
  Requests = {r1, r2}
  MaxFaults = 2
INVARIANTS
  OpenableUnlessInterrupted
  TokensAgreeUnlessReplaced
PROPERTIES
  RekeyedLeadsToSetup
CHECK_DEADLOCK FALSE
