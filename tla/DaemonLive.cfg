SPECIFICATION DaemonFairSpec
CONSTANTS
  Driven = {"interrupt", "live", "outbox", "chat", "cloud"}
  Sessions = {s1}
  MaxPrompts = 1
  Opens = {o1}
  MaxChanges = 0
  MaxSaveFailures = 0
  MaxStarts = 0
  MaxTurns = 1
  MaxInterrupts = 2
  Interrupters = {h1}
  Outcomes = {"interrupted"}
  Works = {w1}
  MaxDrains = 0
  Shown = {a, b}
  Selected = a
  ReplayLimit = 2
  MaxActivity = 1
  MaxFaults = 1
  Events = {e1, e2}
  Providers = {"webhook"}
  MaxAttempts = 2
  OutboxLimit = 1
  MaxStops = 2
  MaxOutboxFailures = 1
  LocalChats = {c1, c2}
  CommandKinds = {"send", "mutation"}
  Concurrency = 1
  QueueCapacity = 1
  MaxSends = 2
  MaxWriteFailures = 0
  MaxRestarts = 0
  Synced = {x}
  OutboxRows = 2
  MaxUpdates = 1
  MaxDisclosures = 1
  RemoteCommands = {}
  MaxCopies = 2
  MaxPermissions = 2
  CloudFaults = {"drop", "refuse", "revoke", "deny", "read", "stop"}
  MaxCloudFaults = 1
PROPERTIES
  StopIsConfirmed
  SelectedCatchesUp
  EachSettles
  StopsEnd
  CloudCatchesUp
CHECK_DEADLOCK FALSE
