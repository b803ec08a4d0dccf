SPECIFICATION FairSpec
CONSTANTS
  a = a  b = b  c = c
  Task = {a, b}
  Edge <- BothWays
  Priority <- UrgentFirst
  FailFast = {}
  MayTimeOut = {a}
  ConcurrencyLimit = 1
  Run = {1}
  MaxRetries = 1
  MaxCheckpoints = 1
  Enabled = {"restart", "pause", "crash", "retry", "checkpoint", "restore", "lateGraph"}
  Overlapping = TRUE
INVARIANTS LoopCanAct
PROPERTIES ViewGoesForward LoopEndsOrStalls
CHECK_DEADLOCK FALSE
