SPECIFICATION Spec
CONSTANTS
  Findings = 3
  PageSize = 1
  Requests = 2
  MaxRounds = 3
INVARIANTS WalkComplete RecordedBeforeDelete StopEvidence
