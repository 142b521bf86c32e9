CONSTANTS
  User = {u1, u2}
  Session = {s1, s2}
  Request = {1, 2, 3}
  AccessExp = 1
  RefreshExp = 2
  MaxTime = 2
  None = None
SPECIFICATION Spec
SYMMETRY Symmetry
INVARIANTS
  TypeOK
  SessionsAreNotProlonged
  TokensBelongToTheirUser
PROPERTIES
  NoTokensAfterRevocation
\* All requests have been answered and the clock has stopped.
CHECK_DEADLOCK FALSE
