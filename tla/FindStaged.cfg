SPECIFICATION UpdateSpec
CONSTANTS
  MaxVersion = 3
  UpdateFaults = {}
PROPERTY StagedRemains
CHECK_DEADLOCK FALSE
