SPECIFICATION ChatSpec
CONSTANTS
  LocalChats = {c1}
  CommandKinds = {"send", "generation"}
  Concurrency = 1
  QueueCapacity = 1
  MaxSends = 1
  MaxWriteFailures = 0
  MaxRestarts = 0
PROPERTY PartialIsPersisted
CHECK_DEADLOCK FALSE
