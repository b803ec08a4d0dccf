SPECIFICATION FairSpec
CONSTANTS
  a = a  b = b  c = c
  Task = {a, b, c}
  Edge <- ChainEdges
  Priority <- UrgentFirst
  FailFast = {}
  MayTimeOut = {a}
  ConcurrencyLimit = 2
  Run = {1, 2}
  MaxRetries = 1
  MaxCheckpoints = 0
  Enabled = {}
  Overlapping = FALSE

PROPERTY OutcomeIsReached
CHECK_DEADLOCK FALSE
