SPECIFICATION FairSpec
CONSTANTS
  Definitions <- MCDefinitions
  InitialDefinition <- MCInitialDefinition
  RepairBound <- MCRepairBound
  Commands <- MCCommands
INVARIANTS SuccessIsRegistered
PROPERTIES HoldStopsOpens CommandsAnswered RunEnds
CHECK_DEADLOCK FALSE
