\* Two logs of one trace, nothing fails and no generator runs.
SPECIFICATION Spec
CONSTANTS
  Text <- MCText
  Stamp = {1}
  DayLen = 2
  Worker = {}
  Flag <- MCFlag
  Request = {1, 2}
  ClientRequest = {1, 2}
  Payload <- MCTraced
  Partition = {0, 1}
  Faults = {}
  MaxFaults = 0
  Size = {}
  DefaultSize = 1
  MaxSize = 2
  ResultWindow = 2
INVARIANT TracePartition
CHECK_DEADLOCK FALSE
