SPECIFICATION Spec
CONSTANTS
  Children = {c1, c2}
  NoChild = NoChild
  MaxRestarts = 2
  Requests = {"start", "stop", "restart", "apply"}
INVARIANT StopWins
CHECK_DEADLOCK FALSE
