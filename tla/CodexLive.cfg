SPECIFICATION FairSpec
CONSTANTS
  Adapter = "codex"
  MaxPrompts = 1
  Faults = {"crash", "kill", "save"}
PROPERTY OperationEnds
PROPERTY ShutdownEnds
PROPERTY RecoveryEnds
