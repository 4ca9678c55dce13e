SPECIFICATION Spec
CONSTANTS
  Adapter = "codex"
  MaxPrompts = 2
  Faults = {"kill"}
INVARIANT RetryableIsSafe
