SPECIFICATION Spec
CONSTANTS
  n1 = n1
  n2 = n2
  Node = {n1, n2}
  Request = {1, 2, 3}
  NewRow <- MCNewRow
  Body <- MCBody
  None = None
INVARIANT TypeOK
INVARIANT LoadBelowCeiling
INVARIANT ScanSweeps
PROPERTY UncontendedLoadCallIsAtomic
PROPERTY EveryRequestIsAnswered
CHECK_DEADLOCK FALSE
