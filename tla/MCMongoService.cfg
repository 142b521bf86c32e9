CONSTANTS
  i1 = i1
  i2 = i2
  a = a
  b = b
  Inc = Inc
  Id = {i1, i2}
  Column = {a, b}
  Request = {r1, r2}
  Call <- MCCall
  MaxFault = 1
SPECIFICATION Spec
INVARIANT
  TypeOK
PROPERTIES
  CallsAreSerial
  EveryCallIsAnswered
  KeepsPromise
\* Every call has been answered.
CHECK_DEADLOCK FALSE
