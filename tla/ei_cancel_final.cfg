SPECIFICATION Spec
CONSTANTS
  a = a  b = b  c = c
  Task = {a, b, c}
  Edge <- ChainEdges
  Priority <- UrgentFirst
  FailFast = {}
  MayTimeOut = {a, b}
  ConcurrencyLimit = 2
  Run = {1, 2}
  MaxRetries = 1
  MaxCheckpoints = 0
  Enabled = {"cancel"}
  Overlapping = FALSE

PROPERTY CancelledIsFinal
CHECK_DEADLOCK FALSE
