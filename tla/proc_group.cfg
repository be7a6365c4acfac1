\* Two partitions, the faults under which no message may be skipped.
SPECIFICATION FairSpec
CONSTANTS
  Partition = {0, 1}
  LogLen = 2
  Poison <- MCPoison
  Unmappable <- MCUnmappable
  BulkSize = 2
  Faults = {"es", "redis", "crash", "rebalance"}
  MaxFaults = 2
INVARIANT OffsetSafety
PROPERTY EventuallyCommitted
\* The process idles in FetchMessage at the end of the log.
CHECK_DEADLOCK FALSE
