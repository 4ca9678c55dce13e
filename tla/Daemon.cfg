SPECIFICATION DaemonSpec
CONSTANTS
  Driven = {"journal", "store", "interrupt", "readiness", "live", "outbox", "chat", "cloud"}
  Sessions = {s1, s2}
  MaxPrompts = 2
  Opens = {o1, o2}
  MaxChanges = 1
  MaxSaveFailures = 1
  MaxStarts = 1
  MaxTurns = 2
  MaxInterrupts = 2
  Interrupters = {h1, h2}
  Outcomes = {"interrupted"}
  Works = {w1, w2, w3}
  MaxDrains = 2
  Shown = {a, b}
  Selected = a
  ReplayLimit = 3
  MaxActivity = 2
  MaxFaults = 2
  Events = {e1, e2}
  Providers = {"web_push", "webhook"}
  MaxAttempts = 2
  OutboxLimit = 2
  MaxStops = 1
  MaxOutboxFailures = 1
  LocalChats = {c1, c2}
  CommandKinds = {"send", "generation"}
  Concurrency = 1
  QueueCapacity = 1
  MaxSends = 2
  MaxWriteFailures = 1
  MaxRestarts = 1
  Synced = {x}
  OutboxRows = 2
  MaxUpdates = 1
  MaxDisclosures = 0
  RemoteCommands = {k}
  MaxCopies = 2
  MaxPermissions = 2
  CloudFaults = {"drop", "refuse", "revoke", "deny", "read", "stop"}
  MaxCloudFaults = 1
SYMMETRY ChatSymmetry
INVARIANTS
  UnsavedIsDirty
  ClosedIsSaved
  NothingCutOff
  NothingMissed
  NothingLost
  AnswerKept
  EndsOnce
  SlotsCounted
  ClosedIsQuiet
PROPERTIES
  SettledIsFinal
  NothingTakenBack
  NothingUndone
  ConfirmedStays
  OwnRequestTakenBack
  NeverOlder
  RunsOnceWhileAllowed
CHECK_DEADLOCK FALSE
