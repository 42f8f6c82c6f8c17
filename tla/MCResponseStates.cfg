SPECIFICATION Spec
CONSTANTS
  Client = {c1, c2}
  Request = {r1, r2, r3}
  None = None
  MaxTime = 1
SYMMETRY Symmetry
INVARIANTS
  TypeOK
  WholeConversations
  OwnConversations
  JsonAnswersCanBeContinued
CHECK_DEADLOCK FALSE
