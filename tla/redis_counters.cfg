\* Two processors, one of whose connections breaks, and a dashboard.
SPECIFICATION Spec
CONSTANTS
  Writer = {w1, w2}
  Service = {"a", "b", " b"}
  TrimSpace <- MCTrimSpace
  Log <- MCLog
  Batches <- MCBatches
  Window = 1
  RecentMax = 1
  MaxBatches = 2
  MaxBreaks = 1
  MaxTime = 2
SYMMETRY MCSymmetry
INVARIANTS
  TypeOK
  CounterOrder
  DriftBound
  RecentBound
  WindowExpires
  LiveTotals
\* The calls and the clock are bounded.
CHECK_DEADLOCK FALSE
