CONSTANTS
  i1 = i1
  i2 = i2
  a = a
  b = b
  None = None
  Id = {i1, i2}
  Column = {a, b}
  Value = {0, 1}
  Request = {r1, r2}
  Call <- MCCall
  MaxPool = 2
  MaxFault = 1
SPECIFICATION Spec
INVARIANTS
  TypeOK
PROPERTIES
  AloneIsSerial
  EveryCallIsAnswered
  KeepsPromise
\* Every call has been answered.
CHECK_DEADLOCK FALSE
