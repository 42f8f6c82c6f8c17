SPECIFICATION Spec
CONSTANTS
  r1 = r1
  r2 = r2
  c1 = c1
  t1 = t1
  u1 = u1
  k1 = k1
  k2 = k2
  None = None
  Request = {r1, r2}
  Client = {c1}
  Token = {t1}
  Upstream = {u1}
  Key = {k1, k2}
  ClientOf <- MCClientOf
  UpstreamOf <- MCUpstreamOf
  Retention = 1
  Step = 2
  MaxTime = 2
  MaxReports = 2
  MaxDeletions = 1
SYMMETRY MCSymmetry
INVARIANTS TypeOK NamesItsParties AttemptsAccountedFor StreamsReachTheirRows
PROPERTY HistoryIsKept
CHECK_DEADLOCK FALSE
