CONSTANTS
  Null = Null
  k1 = k1
  k2 = k2
  ann = ann
  bob = bob
  Ids = {1, 2, 3, 4}
  Keys = {k1, k2}
  Owners = {ann, bob}
  Updaters = {u1, u2}
  First <- First1
  Bodies <- Bodies1
  Times <- Times1
  MaxTime = 1
  MaxWrites = 2
  Limit = 2
  PageSize = 2
  Days = 0
SPECIFICATION Spec
INVARIANT DailyStatsCoverTheDays
SYMMETRY JudgesAreAlike
CHECK_DEADLOCK FALSE
