SPECIFICATION Spec
CONSTANTS
  MaxIndex = 1
  Fragment = {f}
  CustomNames <- OneFragmentNames
  MaxDeltas = 3
INVARIANTS
  TypeOK
  EventsInOrder
  DeltasAddUp
  IndexesMatchOutput
  RecordsMatchStream
CHECK_DEADLOCK FALSE
