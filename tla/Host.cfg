SPECIFICATION HostSpec
CONSTANTS
  Children = {c1, c2}
  NoChild = NoChild
  MaxRestarts = 2
  Requests = {"start", "stop", "restart", "apply"}
  MaxVersion = 3
  UpdateFaults = {"write", "damage", "byHand"}
INVARIANTS
  OneDaemon
  RunningIsServing
  OnlyBootIntrudes
  OnlyBootIsLeft
  NeverForgotten
  StagedIsKept
PROPERTIES
  RequestEnds
  HostCloses
  NeverBackwards
CHECK_DEADLOCK FALSE
