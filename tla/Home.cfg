SPECIFICATION FairSpec
CONSTANTS
  Apps = {ollama, kiwix}
  MaxTimers = 2
  NULL = NULL
INVARIANTS
  RestsWhereItThinks
  ScreenFollows
PROPERTIES
  OpenWindowsStay
  ClosedWindowsGo
