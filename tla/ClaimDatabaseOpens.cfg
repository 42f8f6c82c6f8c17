CONSTANTS
  n1 = n1
  n2 = n2
  s1 = s1
  s2 = s2
  s3 = s3
  p1 = p1
  p2 = p2
  NoSecret = NoSecret
  Name <- MCName
  Label = {0, 2, 3}
  Secret <- MCSecret
  Session <- MCSession
  MaxClients = 2
  MaxSaves = 4
SPECIFICATION Spec
CHECK_DEADLOCK FALSE
INVARIANT DatabaseOpens
