SPECIFICATION LeaseFairSpec
CONSTANTS
  TTL = 3
  Lead = 2
  PollBound = 1
  MaxTime = 4
  MaxOccurrence = 4
  MaxFence = 2
INVARIANTS KnownIsHeld RecordIsTrue
PROPERTIES OthersLeaseStays ExpiredWorkEnds
CHECK_DEADLOCK FALSE
