SPECIFICATION MCSpec
CONSTANTS
  Node = {n1, n2, n3}
  MaxId = 3
  MaxSettable = 2
  InitialIds = {0, 1}
  Requests <- AllRequests
  MaxRequests = 1
  MaxRestarts = 1
  MaxMishaps = 1
INVARIANTS
  TypeOK
  AcknowledgedOnce
PROPERTIES
  LoneEnumerationIsUnique
  EnumerationsCease
CHECK_DEADLOCK FALSE
