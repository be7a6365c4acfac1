\* One processor records a log, its connection breaks and it is stopped.
SPECIFICATION Spec
CONSTANTS
  Writer = {w1}
  Service = {"a", "b", " b"}
  TrimSpace <- MCTrimSpace
  Log <- MCLog
  Batches <- MCInfo
  Window = 1
  RecentMax = 1
  MaxBatches = 1
  MaxBreaks = 1
  MaxTime = 1
INVARIANT PipelinesAtomic
CHECK_DEADLOCK FALSE
