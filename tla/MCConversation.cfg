CONSTANTS
  None = None
  Word <- MCWord
  Question <- MCQuestion
  Answer <- MCAnswer
  MaxTurns = 3
SPECIFICATION Spec
INVARIANTS
  TypeOK
  CallsKeepTheirTools
  SameConversationEitherWay
  ResultsReachTheirCalls
CHECK_DEADLOCK FALSE
