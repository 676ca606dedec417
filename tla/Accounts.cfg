SPECIFICATION MCSpec
CONSTANTS
  Users = {u1, u2}
  First = u1
  Secrets = {s1, s2}
  Tokens = {k1}
  Requests = {q1, q2}
  NULL = NULL
  setup = setup
  login = login
  Clients <- MCClients
  Window <- MCWindow
  Max <- MCMax
  Second = 2
  MaxTime = 6
  GcAge = 3
SYMMETRY Symmetry
INVARIANTS
  EnabledIsUsable
  TokenBuysOneSession
  WindowCap
PROPERTIES
  PasswordIsNotEnough
  GoneUsersGetNoSession
  SlidingWindowSpec
CHECK_DEADLOCK FALSE
