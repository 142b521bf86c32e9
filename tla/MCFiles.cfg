CONSTANTS
  None = None
  Calls = {c1, c2, c3, c4}
  Users = {u1}
  MaxSize = 2
  MaxSettings = 1
SYMMETRY CallSymmetry
SPECIFICATION Spec
INVARIANTS FileIsWhereItsRowSays SizeTellsContent
CHECK_DEADLOCK FALSE
