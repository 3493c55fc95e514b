CONSTANTS
  MaxNumber = 5
  MaxCalls = 3
  MaxTabs = 2
  MaxAttempts = 2
  Mixes <- MCMixes
SPECIFICATION FairSpec
INVARIANTS TypeOK NotOverwritten EndedForReal
PROPERTIES NavigationEnds CookiesFollow
CHECK_DEADLOCK FALSE
