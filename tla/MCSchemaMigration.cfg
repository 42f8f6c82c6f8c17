CONSTANTS
  p1 = p1
  p2 = p2
  c1 = c1
  Process = {p1, p2}
  Client = {c1}
  Databases <- MCDatabases
  MaxStarts = 2
SYMMETRY Symmetric
SPECIFICATION Spec
INVARIANTS
  TypeOK
  StatementsFindWhatTheyName
  OpenedIsComplete
PROPERTY RacesAreLostOnce
CHECK_DEADLOCK FALSE
