SPECIFICATION FairSpec
CONSTANTS
  e1 = e1
  e2 = e2
  e3 = e3
  e4 = e4
  s1 = s1
  s2 = s2
  NoExecution = NoExecution
  Execution = {e1, e2, e3, e4}
  Session = {s1, s2}
  SessionOf <- SharedSessions
  Resource = {"cpu", "disk"}
  Demand <- MixedDemand
  PlanDemand <- MixedPlans
  Plannable = {e1, e2, e3, e4}
  Permitted = {e1, e2, e3, e4}
  SupportsRollback = {e1, e3}
  InitialPool <- SmallPool
  OtherPools <- Pools
  Enabled = {"resize"}
INVARIANTS
  TypeOK
  LeasesAgree
  SandboxesAreDestroyed
PROPERTIES
  RefusalHasCause
  ImplementsLeases
  ReservationsReturned
CHECK_DEADLOCK FALSE
