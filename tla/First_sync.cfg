SPECIFICATION DestinationAttemptSpec
CONSTANTS
  Attempts = {"a1"}
  MappedSources = {"s1"}
  MaxCount = 1
  MaxTrouble = 1
PROPERTY FirstSyncHasCopies
CHECK_DEADLOCK FALSE
