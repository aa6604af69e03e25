SPECIFICATION Spec
CONSTANTS
  Definitions <- MCDefinitions
  InitialDefinition <- MCInitialDefinition
  RepairBound <- MCRepairBound
  Commands <- MCCommands
INVARIANT HoldIsQuiescent
CHECK_DEADLOCK FALSE
