SPECIFICATION Spec
CONSTANTS
  Adapter = "codex"
  MaxPrompts = 2
  Faults = {"crash", "save"}
INVARIANT InFlightAttended
INVARIANT ReplyHasItsChild
INVARIANT RecoveryIsSound
PROPERTY ClearedByEvidence
