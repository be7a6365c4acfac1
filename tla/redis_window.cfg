\* One processor records an error at each step of the clock.
SPECIFICATION Spec
CONSTANTS
  Writer = {w1}
  Service = {"a", "b", " b"}
  TrimSpace <- MCTrimSpace
  Log <- MCLog
  Batches <- MCErrors
  Window = 2
  RecentMax = 1
  MaxBatches = 2
  MaxBreaks = 0
  MaxTime = 3
INVARIANT SlidingWindow
CHECK_DEADLOCK FALSE
