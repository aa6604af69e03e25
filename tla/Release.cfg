SPECIFICATION FairSpec
CONSTANTS
  Rounds = 2
  PollsPerRun = 2
INVARIANTS
  PublicationOrder
PROPERTIES
  UsesEffects
  RunEnds
  ApprovalReread
CHECK_DEADLOCK FALSE
