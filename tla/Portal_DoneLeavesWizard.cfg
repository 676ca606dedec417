SPECIFICATION FairSpec
CONSTANTS
  Keys = {k1, k2}
  Required = 1
  MaxClicks = 7
  NULL = NULL
PROPERTIES
  DoneLeavesWizard
CHECK_DEADLOCK FALSE
