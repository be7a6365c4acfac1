\* One partition, every fault but load shedding.
SPECIFICATION FairSpec
CONSTANTS
  Partition = {0}
  LogLen = 3
  Poison <- MCPoison
  Unmappable <- MCUnmappable
  BulkSize = 2
  Faults = {"es", "redis", "dlq", "commit", "crash", "cancel", "rebalance"}
  MaxFaults = 2
INVARIANTS
  TypeOK
  CommitAccounted
  DualSinkOrder
  OnlyBadDeadLettered
  OverCountBound
  MemoryBound
PROPERTIES
  DeliverySpec
  ShutdownTerminates
\* The process idles in FetchMessage at the end of the log.
CHECK_DEADLOCK FALSE
