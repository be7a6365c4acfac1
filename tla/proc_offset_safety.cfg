\* The dead letter topic may refuse a message, or SIGTERM come during a batch.
SPECIFICATION Spec
CONSTANTS
  Partition = {0}
  LogLen = 3
  Poison <- MCPoison
  Unmappable <- MCUnmappable
  BulkSize = 2
  Faults = {"dlq", "cancel"}
  MaxFaults = 1
INVARIANT OffsetSafety
CHECK_DEADLOCK FALSE
