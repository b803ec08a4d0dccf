SPECIFICATION FairSpec
CONSTANTS
  read = read
  write = write
  Request = {r1, r2}
  Tool = {read, write}
  Edits = {write}
  Finish = finish
  Message <- Messages
  MaxIterations = 3
  MaxRetries = 1
  MaxAttempts = 2
  Clients <- AllClients
INVARIANTS
  TypeOK
  ToldStateHolds
  SessionTellsOutcome
PROPERTIES
  Settles
CHECK_DEADLOCK FALSE
