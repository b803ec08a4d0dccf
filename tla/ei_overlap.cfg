SPECIFICATION Spec
CONSTANTS
  a = a  b = b  c = c
  Task = {a, b, c}
  Edge <- CyclicEdges
  Priority <- UrgentFirst
  FailFast = {}
  MayTimeOut = {a, b}
  ConcurrencyLimit = 2
  Run = {1, 2}
  MaxRetries = 1
  MaxCheckpoints = 1
  Enabled = {"restart", "pause", "resume", "cancel", "retry", "skip", "crash"}
  Overlapping = TRUE
INVARIANTS TypeOK NoLostWakeup DependencyOrder ConcurrencyBound StallHasCause
PROPERTY HaltStopsLaunching
CHECK_DEADLOCK FALSE
