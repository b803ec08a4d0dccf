SPECIFICATION FairSpec
CONSTANTS
  n1 = n1
  n2 = n2
  n3 = n3
  ghost = ghost
  Node = {n1, n2, n3}
  Approval = {n2}
  Failing = {n3}
  Edge <- SomeEdges
  Definition <- SomeDefinitions
  Slot = {1, 2}
  Clients <- SomeClients
INVARIANTS
  TypeOK
  NoNodeEarly
PROPERTIES
  CompletedMeansAll
  HaltStopsNodes
  RunningEnds
CHECK_DEADLOCK FALSE
