SPECIFICATION FairSpec
CONSTANTS
  Id = {i1, i2}
  Task = {t1, t2, t3}
  None = none
  Clients <- AllClients
INVARIANTS
  TypeOK
PROPERTIES
  ImplementsOneShots
