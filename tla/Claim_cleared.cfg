CONSTANTS
  MaxNumber = 1
  MaxCalls = 1
  MaxTabs = 1
  MaxAttempts = 2
  Mixes <- MCMixes
SPECIFICATION FairSpec
PROPERTY SignOutClears
CHECK_DEADLOCK FALSE
