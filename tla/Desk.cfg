SPECIFICATION DeskSpec
CONSTANTS
  Models = {m1, m2}
  Calls = {c1, c2}
  MaxClicks = 5
  NULL = NULL
  Keys = {k1, k2, k3}
  Required = 2
  MaxPages = 7
  MaxTabs = 3
  Pages = {p1, p2}
  Themes = {"blackboard", "cab", "paper"}
  Default = "blackboard"
  Icons = {ollama, kiwix}
  MaxBounces = 1
  MaxFiles = 2
  Limit = 2
  Containers = {x1}
  Amiss <- OneAmiss
SYMMETRY Symmetry
INVARIANTS
  ListIsLibrary
  OnePullAtATime
  DrawerTellsOfItsModel
  KeptKeyMatches
  ShownFits
  ManagerHasReason
  GoAgentUnderstood
PROPERTIES
  ReloadKeepsLook
CHECK_DEADLOCK FALSE
