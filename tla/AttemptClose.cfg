SPECIFICATION FairSpec
CONSTANTS
  PollBound = 2
  MaxInterval = 2
  RestoreRounds = 2
  MaxRounds = 1
  MaxLosses = 2
  Own = {own}
  Others = {duplicate}
INVARIANTS EvidenceDelivered StatementsTrue OwnerDecides OutcomeLeftBehind
PROPERTIES BackoffHolds RunEnds
