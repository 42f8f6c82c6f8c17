CONSTANTS
  k1 = k1
  k2 = k2
  r1 = r1
  r2 = r2
  Key <- MCKey
  Candidate <- MCCandidate
  KeyOf <- MCKeyOf
  Tier <- MCTier
  Request <- MCRequest
  Offers <- MCOffers
  ResponsesRequest = {r1}
  Status <- MCStatus
  KeyPriority = {20}
  RetryAfter <- MCRetryAfter
  AuthTtl = 2
  TransientTtl = 1
  MaxTime = 2
  MaxAdminOps = 1
SPECIFICATION Spec
CHECK_DEADLOCK FALSE
INVARIANTS
  TypeOK
  TrailFollowsSelection
  OutcomeMatchesTrail
  DisableIsExplained
  HealthColumnsAgree
PROPERTIES
  FailureCacheRespected
  
