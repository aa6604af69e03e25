SPECIFICATION FairSpec
CONSTANTS
  MaxRequests = 2
  MaxRounds = 1
  Harness = TRUE
  LifetimeRule = TRUE
  LongBound = FALSE
  Outages = TRUE
INVARIANTS CompleteMeansStopped EvidenceFirst
PROPERTIES KeepsObligation RunEnds
