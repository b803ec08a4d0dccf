SPECIFICATION Spec
CONSTANTS
  a = a  b = b  c = c
  Task = {a, b, c}
  Edge <- ChainEdges
  Priority <- UrgentFirst
  FailFast = {c}
  MayTimeOut = {a, b}
  ConcurrencyLimit = 2
  Run = {1, 2}
  MaxRetries = 1
  MaxCheckpoints = 0
  Enabled = {"restart", "pause", "cancel", "resume", "retry", "skip", "crash"}
  Overlapping = FALSE
INVARIANTS SnapshotCoherent NoDoubleExecution RowsRespectDependencies
PROPERTIES ImplementsDag HonestCompletion
CHECK_DEADLOCK FALSE
