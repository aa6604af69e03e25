SPECIFICATION FairSpec
CONSTANTS
  MaxRequests = 2
  MaxRounds = 2
  Harness = TRUE
  LifetimeRule = TRUE
  LongBound = TRUE
  Outages = FALSE
PROPERTIES CleanupSettles
