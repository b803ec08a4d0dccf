SPECIFICATION Spec
CONSTANTS
  s1 = s1
  s2 = s2
  s3 = s3
  Session = {s1, s2, s3}
  Default = s1
  None = None
  MaxSessions = 1
  Clients <- AllClients
INVARIANTS
  TypeOK
  RowMatchesHistory
  MemoryMatchesRow
  SessionsBounded
PROPERTIES
  ImplementsLifecycle
CHECK_DEADLOCK FALSE
