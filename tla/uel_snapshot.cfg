SPECIFICATION Spec
CONSTANTS
  e1 = e1
  e2 = e2
  e3 = e3
  e4 = e4
  s1 = s1
  s2 = s2
  NoExecution = NoExecution
  Execution = {e1, e2, e3, e4}
  Session = {s1}
  SessionOf <- OneSession
  Resource = {"cpu", "disk"}
  Demand <- MixedDemand
  PlanDemand <- MixedPlans
  Plannable = {e1, e2, e3, e4}
  Permitted = {e1, e2, e3, e4}
  SupportsRollback = {}
  InitialPool <- RoomyPool
  OtherPools <- NoPools
  Enabled = {"snapshot"}
INVARIANTS
  ConcurrencyRespected
  AmountsRespected
CHECK_DEADLOCK FALSE
