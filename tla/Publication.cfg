SPECIFICATION PubSpec
CONSTANTS
  MaxAttempts = 4
  MaxRevision = 2
INVARIANTS OneOutcomePerSource AnswerIsRecorded DeliveredIsServed
PROPERTY IsGuardedEffect
CHECK_DEADLOCK FALSE
