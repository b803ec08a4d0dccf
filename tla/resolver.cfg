SPECIFICATION Spec
CONSTANTS
  Node = {n1, n2, n3}
INVARIANTS
  TypeOK
  AnswerIsExact
CHECK_DEADLOCK FALSE
