CONSTANTS
  N = 3
  Key = {k1, k2}
  Concurrency = {1, 2}
  MaxFault = 1
SPECIFICATION Spec
INVARIANTS
  TypeOK
  ReportIsSequential
  RowsUseTheirOwnTransaction
  NoTransactionLeaks
PROPERTIES
  ImportEnds
  KeepsPromise
\* The request ends.
CHECK_DEADLOCK FALSE
