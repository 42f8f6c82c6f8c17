CONSTANTS
  k1 = k1
  k2 = k2
  r1 = r1
  r2 = r2
  Key <- MCKey
  Candidate <- MCCandidate
  KeyOf <- MCKeyOf
  Tier <- MCTier
  Request <- MCRequest
  Offers <- MCOffers
  ResponsesRequest = {r1}
  Status = {200, 429}
  KeyPriority = {20}
  RetryAfter = {0}
  AuthTtl = 2
  TransientTtl = 1
  MaxTime = 1
  MaxAdminOps = 1
SPECIFICATION FairSpec
CHECK_DEADLOCK FALSE
PROPERTIES
  EveryRequestSettles
  ImplementsFairFailover
