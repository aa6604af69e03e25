SPECIFICATION FairSpec
CONSTANTS
  MaxRounds = 2
  Allowance = 1
  MaxFrames = 2
INVARIANTS AcceptedAnswerCounts CallsFollow
PROPERTIES RunEnds
