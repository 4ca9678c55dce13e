SPECIFICATION Spec
CONSTANTS
  Adapter = "claude"
  MaxPrompts = 2
  Faults = {"crash", "kill", "save"}
INVARIANT RetryableIsSafe
PROPERTY StartUnblocked
PROPERTY KeepsPromise
