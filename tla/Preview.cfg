SPECIFICATION FairSpec
CONSTANT MaxRevision = 4
INVARIANTS ReadyWasCurrent ProjectionIsTrue
PROPERTIES RunEnds
