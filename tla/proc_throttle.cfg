\* The cluster sheds load: some bulk items get status 429.
SPECIFICATION Spec
CONSTANTS
  Partition = {0}
  LogLen = 3
  Poison <- MCNone
  Unmappable <- MCNone
  BulkSize = 2
  Faults = {"throttle"}
  MaxFaults = 1
INVARIANT OnlyBadDeadLettered
CHECK_DEADLOCK FALSE
