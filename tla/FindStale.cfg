SPECIFICATION StoreSpec
CONSTANTS
  Opens = {o1, o2}
  MaxChanges = 1
  MaxSaveFailures = 1
  MaxStarts = 1
PROPERTY StaysCleared
CHECK_DEADLOCK FALSE
